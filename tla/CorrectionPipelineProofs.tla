---------------------- MODULE CorrectionPipelineProofs ----------------------
(***************************************************************************)
(* What every run of math.correction keeps, for any results, failures and  *)
(* deadlines of its skills: the types of its state, that a response is     *)
(* published as verified only on the verdict about its text, that no       *)
(* verdict is lost, that the tolerated failures leave a response, and that *)
(* every step brings the run closer to its end.                            *)
(***************************************************************************)
EXTENDS CorrectionPipeline, TLAPS, SequenceTheorems

-----------------------------------------------------------------------------
(* The router and the graph.                                               *)

\* What SkillRouter.choose tries, in order: at most six keys, the last one
\* the default.
LEMMA KeysAreKnown ==
    ASSUME TypeOK
    PROVE  /\ DOMAIN RouterKeys = 1..Len(RouterKeys)
           /\ Len(RouterKeys) \in 2..6
           /\ RouterKeys[Len(RouterKeys)] = "default"
           /\ solved = "handled" => RouterKeys[1] = "deterministic"
           /\ solved = "unhandled" => RouterKeys[1] = "solve_agent"
           /\ solved = "absent" /\ turn # NoTurn => RouterKeys[1] = turn.route
           /\ solved = "absent" /\ turn = NoTurn => RouterKeys[1] = "rag"
  <1> DEFINE a == CASE solved = "handled"   -> <<"deterministic">>
                    [] solved = "unhandled" -> <<"solve_agent", "rag">>
                    [] OTHER                -> <<>>
             b == IF turn = NoTurn THEN <<>> ELSE <<turn.route, turn.intent>>
             c == <<"rag", "default">>
             V == {turn.route, turn.intent, "deterministic", "solve_agent", "rag", "default"}
  <1>1. a \in Seq(V) /\ Len(a) \in 0..2
    <2>1. CASE solved = "handled"
      BY <2>1
    <2>2. CASE solved = "unhandled"
      BY <2>2
    <2>3. CASE solved = "absent"
      BY <2>3
    <2> QED
      BY <2>1, <2>2, <2>3 DEF TypeOK
  <1>2. /\ solved = "handled" => a[1] = "deterministic" /\ Len(a) = 1
        /\ solved = "unhandled" => a[1] = "solve_agent" /\ Len(a) = 2
        /\ solved = "absent" => Len(a) = 0
    BY DEF TypeOK
  <1>3. b \in Seq(V) /\ Len(b) \in {0, 2}
    <2>1. CASE turn = NoTurn
      BY <2>1
    <2>2. CASE turn # NoTurn
      BY <2>2
    <2> QED
      BY <2>1, <2>2
  <1>4. /\ turn = NoTurn => Len(b) = 0
        /\ turn # NoTurn => Len(b) = 2 /\ b[1] = turn.route
    OBVIOUS
  <1>5. c \in Seq(V) /\ Len(c) = 2 /\ c[1] = "rag" /\ c[2] = "default"
    OBVIOUS
  <1>6. RouterKeys = (a \o b) \o c
    BY DEF RouterKeys
  <1> HIDE DEF a, b, c, V
  <1>7. /\ a \o b \in Seq(V) /\ Len(a \o b) = Len(a) + Len(b)
        /\ Len(a) > 0 => (a \o b)[1] = a[1]
        /\ Len(a) = 0 /\ Len(b) > 0 => (a \o b)[1] = b[1]
    BY <1>1, <1>3
  <1> DEFINE ab == a \o b
  <1>8. ab \in Seq(V) /\ RouterKeys = ab \o c
    BY <1>6, <1>7
  <1> HIDE DEF ab
  <1>9. /\ RouterKeys \in Seq(V) /\ Len(RouterKeys) = Len(ab) + 2
        /\ \A i \in 1..(Len(ab) + 2) :
             RouterKeys[i] = IF i <= Len(ab) THEN ab[i] ELSE c[i - Len(ab)]
    <2>1. /\ ab \o c \in Seq(V) /\ Len(ab \o c) = Len(ab) + Len(c)
          /\ \A i \in 1..(Len(ab) + Len(c)) :
               (ab \o c)[i] = IF i <= Len(ab) THEN ab[i] ELSE c[i - Len(ab)]
      BY <1>5, <1>8, ConcatProperties, Zenon
    <2> QED
      BY <1>5, <1>8, <2>1, Zenon
  <1>10. Len(ab) \in Nat
    BY <1>8
  <1>11. /\ Len(ab) > 0 => RouterKeys[1] = ab[1]
         /\ Len(ab) = 0 => RouterKeys[1] = c[1]
         /\ RouterKeys[Len(ab) + 2] = c[2]
    BY <1>9, <1>10
  <1>12. Len(ab) \in 0..4
    <2>1. Len(ab) = Len(a) + Len(b)
      BY <1>7 DEF ab
    <2>2. \A m \in 0..2, n \in {0, 2} : m + n \in 0..4
      OBVIOUS
    <2> QED
      BY <1>1, <1>3, <2>1, <2>2, Zenon
  <1>13. /\ DOMAIN RouterKeys = 1..Len(RouterKeys) /\ Len(RouterKeys) \in 2..6
         /\ RouterKeys[Len(RouterKeys)] = "default"
    <2>1. Len(RouterKeys) = Len(ab) + 2
      BY <1>9
    <2>2. Len(RouterKeys) \in 2..6
      <3>1. \A n \in 0..4 : n + 2 \in 2..6
        OBVIOUS
      <3> QED
        BY <1>12, <2>1, <3>1, Zenon
    <2>3. RouterKeys[Len(RouterKeys)] = "default"
      BY <1>5, <1>11, <2>1, Zenon
    <2>4. DOMAIN RouterKeys = 1..Len(RouterKeys)
      BY <1>9, LenProperties, Zenon
    <2> QED
      BY <2>2, <2>3, <2>4
  <1>14. RouterKeys[1] = IF Len(a) > 0 THEN a[1] ELSE IF Len(b) > 0 THEN b[1] ELSE c[1]
    BY <1>1, <1>3, <1>7, <1>11 DEF ab
  <1> QED
    BY <1>2, <1>4, <1>5, <1>13, <1>14

\* A first key that is a branch is the one taken.
LEMMA ChooseFirst ==
    ASSUME TypeOK, NEW branches, RouterKeys[1] \in DOMAIN branches
    PROVE  Choose(branches) = branches[RouterKeys[1]]
  <1> DEFINE hit(k) == RouterKeys[k] \in DOMAIN branches
             P(k) == hit(k) /\ \A j \in 1..(k - 1) : ~hit(j)
             first == CHOOSE k \in DOMAIN RouterKeys : P(k)
  <1>1. DOMAIN RouterKeys = 1..Len(RouterKeys) /\ 1 \in DOMAIN RouterKeys
        /\ Len(RouterKeys) \in Nat
    BY KeysAreKnown
  <1>2. P(1)
    OBVIOUS
  <1>3. \A k \in DOMAIN RouterKeys : P(k) => k = 1
    BY <1>1
  <1>4. first = 1
    BY <1>1, <1>2, <1>3
  <1> QED
    BY <1>4 DEF Choose

\* Where there is a default, some branch is taken.
LEMMA ChooseSome ==
    ASSUME TypeOK, NEW branches, "default" \in DOMAIN branches
    PROVE  \E key \in DOMAIN branches : Choose(branches) = branches[key]
  <1> DEFINE hit(k) == RouterKeys[k] \in DOMAIN branches
             P(k) == hit(k) /\ \A j \in 1..(k - 1) : ~hit(j)
             first == CHOOSE k \in DOMAIN RouterKeys : P(k)
  <1>1. DOMAIN RouterKeys = 1..Len(RouterKeys) /\ hit(Len(RouterKeys))
        /\ Len(RouterKeys) \in 2..6
    BY KeysAreKnown
  <1>2. \E k \in DOMAIN RouterKeys : P(k)
    <2> HIDE DEF hit
    <2> QED BY <1>1
  <1>4. first \in DOMAIN RouterKeys /\ P(first)
    BY <1>2
  <1> QED
    BY <1>4 DEF Choose

Judging ==
  {"answer_critic", "answer_repair", "answer_repair_critic", "audit_failure_route",
   "audit_final_judge", "answer_final_judge", "targeted_fallback"}

DirectNodes == {"utility_tool", "general_agent", "scope_response", "no_evidence_response"}

\* Where a skill that returns leads, read off correction.yaml.
LEMMA ReturnLeads ==
    ASSUME NEW n \in SkillNodes, NEW branch \in {"pass", "fail"}, Return(n, branch)
    PROVE  /\ current = n
           /\ n = "turn_router" => current' = "input_guard"
           /\ n = "input_guard" => current' = "turn_route"
           /\ n \in {"utility_tool", "general_agent", "scope_response", "exercise_generate",
                     "curriculum_tutor", "no_evidence_response", "targeted_fallback"}
                => current' = "response_render"
           /\ n = "curriculum_solve" => current' = "curriculum_route"
           /\ n = "question_parse" => current' = "query_rewrite"
           /\ n = "query_rewrite" => current' = "knowledge_classify"
           /\ n = "knowledge_classify" => current' = "retrieval_parallel"
           /\ n = "retrieval_parallel" => current' = "rrf_fusion"
           /\ n = "rrf_fusion" => current' = "rerank_filter"
           /\ n = "rerank_filter" =>
                current' = IF branch = "pass" THEN "answer_generate" ELSE "web_search"
           /\ n = "web_search" =>
                current' = IF branch = "pass" THEN "answer_generate" ELSE "no_evidence_route"
           /\ n = "answer_generate" => current' = "answer_critic"
           /\ n = "answer_critic" =>
                current' = IF branch = "pass" THEN "response_render" ELSE "answer_repair"
           /\ n = "answer_repair" => current' = "answer_repair_critic"
           /\ n = "answer_repair_critic" =>
                current' = IF branch = "pass" THEN "response_render" ELSE "audit_failure_route"
           /\ n \in {"audit_final_judge", "answer_final_judge"} =>
                current' = IF branch = "pass" THEN "response_render" ELSE "targeted_fallback"
           /\ n = "response_render" => current' = "END"
  BY DEF Return, SkillNodes, Follow, On

\* Where a skill that fails leads.
LEMMA FailLeads ==
    ASSUME NEW n \in SkillNodes, Fail(n)
    PROVE  /\ current = n
           /\ n = "turn_router" => current' = "input_guard"
           /\ n = "input_guard" => current' = "turn_route"
           /\ n \in {"utility_tool", "general_agent", "scope_response", "exercise_generate",
                     "curriculum_tutor", "no_evidence_response", "targeted_fallback"}
                => current' = "response_render"
           /\ n = "curriculum_solve" => current' = "curriculum_route"
           /\ n = "question_parse" => current' = "query_rewrite"
           /\ n = "query_rewrite" => current' = "knowledge_classify"
           /\ n = "knowledge_classify" => current' = "retrieval_parallel"
           /\ n = "retrieval_parallel" => current' = "rrf_fusion"
           /\ n = "rrf_fusion" => current' = "rerank_filter"
           /\ n = "rerank_filter" => current' = "web_search"
           /\ n = "web_search" => current' = "no_evidence_route"
           /\ n = "answer_generate" => current' = "answer_critic"
           /\ n = "answer_critic" => current' = "answer_repair"
           /\ n = "answer_repair" => current' = "answer_repair_critic"
           /\ n = "answer_repair_critic" => current' = "audit_failure_route"
           /\ n \in {"audit_final_judge", "answer_final_judge"} => current' = "targeted_fallback"
           /\ n = "response_render" => current' = "END"
  BY DEF Fail, SkillNodes, Follow, On

\* Every node of the graph, and which of them run a skill.
LEMMA NodeFacts ==
    /\ SkillNodes =
         {"turn_router", "input_guard", "utility_tool", "general_agent", "scope_response",
          "exercise_generate", "curriculum_solve", "curriculum_tutor", "question_parse",
          "query_rewrite", "knowledge_classify", "retrieval_parallel", "rrf_fusion",
          "rerank_filter", "web_search", "no_evidence_response", "answer_generate",
          "answer_critic", "answer_repair", "answer_repair_critic", "audit_final_judge",
          "answer_final_judge", "targeted_fallback", "response_render"}
    /\ DOMAIN Branches =
         {"turn_route", "curriculum_route", "no_evidence_route", "audit_failure_route"}
    /\ Nodes = SkillNodes \union DOMAIN Branches \union {"END"}
  BY DEF SkillNodes, Nodes, Follow, On, Branches

LEMMA RoutesKnown ==
    ASSUME turn \in RoutedTurns
    PROVE  /\ turn # NoTurn
           /\ turn.route \in {"deterministic", "exercise_agent", "rag", "audit_agent",
                              "scope_response", "utility_tool", "general_agent"}
  BY DEF RoutedTurns, NoTurn

-----------------------------------------------------------------------------
(* The types.  They are not inductive alone: where choose finds no branch  *)
(* of curriculum_route is excluded only by the route that led there.       *)

Early == {"turn_router", "input_guard", "turn_route", "curriculum_solve"}
Curriculum == {"curriculum_solve", "curriculum_route", "curriculum_tutor"}

\* The solver has not run before its turn is routed to it, and only turns of
\* the deterministic route reach it.
Routed ==
  /\ current \in Early => solved = "absent"
  /\ current \in Curriculum => turn.route = "deterministic"
  /\ current = "exercise_generate" => turn.route = "exercise_agent"
  /\ current = "curriculum_tutor" => solved # "unhandled"

\* Where the router leads.  A turn that was not classified is retrieved for;
\* the two routers with a default take some branch of theirs.
LEMMA RouteLeads ==
    ASSUME TypeOK, Routed, Route
    PROVE  /\ current \in DOMAIN Branches
           /\ current = "turn_route" =>
                /\ turn = NoTurn => current' = "question_parse"
                /\ turn.route = "deterministic" => current' = "curriculum_solve"
                /\ turn.route = "exercise_agent" => current' = "exercise_generate"
                /\ turn.route = "rag" => current' = "question_parse"
                /\ turn.route = "audit_agent" => current' = "answer_generate"
                /\ turn.route \in {"scope_response", "utility_tool", "general_agent"}
                     => current' = turn.route
           /\ current = "curriculum_route" =>
                current' = IF solved = "unhandled" THEN "answer_generate"
                                                   ELSE "curriculum_tutor"
           /\ current = "no_evidence_route" =>
                current' \in {"answer_generate", "no_evidence_response"}
           /\ current = "audit_failure_route" =>
                current' \in {"audit_final_judge", "answer_final_judge", "targeted_fallback"}
  <1>1. current \in DOMAIN Branches /\ current' = Choose(Branches[current])
    BY DEF Route
  <1>2. turn = NoTurn \/ turn \in RoutedTurns
    BY DEF TypeOK
  <1>3. ASSUME current = "turn_route"
        PROVE  /\ turn = NoTurn => current' = "question_parse"
               /\ turn.route = "deterministic" => current' = "curriculum_solve"
               /\ turn.route = "exercise_agent" => current' = "exercise_generate"
               /\ turn.route = "rag" => current' = "question_parse"
               /\ turn.route = "audit_agent" => current' = "answer_generate"
               /\ turn.route \in {"scope_response", "utility_tool", "general_agent"}
                     => current' = turn.route
    <2>1. solved = "absent"
      BY <1>3 DEF Routed, Early
    <2>2. RouterKeys[1] = IF turn = NoTurn THEN "rag" ELSE turn.route
      BY <2>1, KeysAreKnown
    <2>3. RouterKeys[1] \in DOMAIN Branches[current]
      BY <1>2, <1>3, <2>2, RoutesKnown DEF Branches
    <2>4. current' = Branches["turn_route"][RouterKeys[1]]
      BY <1>1, <1>3, <2>3, ChooseFirst
    <2> QED
      BY <1>2, <2>2, <2>4, RoutesKnown DEF Branches, NoTurn
  <1>4. ASSUME current = "curriculum_route"
        PROVE  current' = IF solved = "unhandled" THEN "answer_generate"
                                                  ELSE "curriculum_tutor"
    <2>1. turn.route = "deterministic"
      BY <1>4 DEF Routed, Curriculum
    <2>2. turn # NoTurn
      BY <2>1 DEF NoTurn
    <2>3. RouterKeys[1] = IF solved = "unhandled" THEN "solve_agent" ELSE "deterministic"
      BY <2>1, <2>2, KeysAreKnown DEF TypeOK
    <2>4. RouterKeys[1] \in DOMAIN Branches[current]
      BY <1>4, <2>3 DEF Branches
    <2>5. current' = Branches["curriculum_route"][RouterKeys[1]]
      BY <1>1, <1>4, <2>4, ChooseFirst
    <2> QED
      BY <2>3, <2>5 DEF Branches
  <1>5. ASSUME current = "no_evidence_route"
        PROVE  current' \in {"answer_generate", "no_evidence_response"}
    <2>1. "default" \in DOMAIN Branches["no_evidence_route"]
      BY DEF Branches
    <2>2. PICK key \in DOMAIN Branches["no_evidence_route"] :
            current' = Branches["no_evidence_route"][key]
      BY <1>1, <1>5, <2>1, ChooseSome
    <2> QED
      BY <2>2 DEF Branches
  <1>6. ASSUME current = "audit_failure_route"
        PROVE  current' \in {"audit_final_judge", "answer_final_judge", "targeted_fallback"}
    <2>1. "default" \in DOMAIN Branches["audit_failure_route"]
      BY DEF Branches
    <2>2. PICK key \in DOMAIN Branches["audit_failure_route"] :
            current' = Branches["audit_failure_route"][key]
      BY <1>1, <1>6, <2>1, ChooseSome
    <2> QED
      BY <2>2 DEF Branches
  <1> QED
    BY <1>1, <1>3, <1>4, <1>5, <1>6

\* The kinds of responses the skills build.
LEMMA ResponseTypes ==
    /\ \A type \in Types, text \in Texts, ok \in BOOLEAN :
         [type |-> type, text |-> text, passed |-> ok] \in Responses
    /\ Nothing \in Responses /\ Nothing.passed = FALSE /\ Nothing.type \notin CheckedTypes
    /\ CheckedTypes \union {"clarification_required"} \subseteq Types
  BY DEF Responses, Types, CheckedTypes, Nothing, Texts

LEMMA RepliesKnown ==
    ASSUME NEW n \in Texts, NEW r \in Replies(n)
    PROVE  /\ r \in Responses /\ r # Nothing /\ r.passed = TRUE /\ r.text = n
           /\ r.type \in CheckedTypes \union {"clarification_required"}
  <1>1. PICK t \in CheckedTypes \union {"clarification_required"} :
          r = [type |-> t, text |-> n, passed |-> TRUE]
    BY DEF Replies
  <1>2. r \in Responses
    BY <1>1, ResponseTypes
  <1>3. r.type = t /\ r.text = n /\ r.passed = TRUE
    BY <1>1
  <1> QED
    BY <1>2, <1>3, ResponseTypes

LEMMA JudgeTypes ==
    ASSUME TypeOK, NEW text \in Texts, NEW ok \in BOOLEAN
    PROVE  /\ Judge(text, ok) \in [Texts -> {"none", "passed", "rejected"}]
           /\ Judge(text, ok)[text] = IF ok THEN "passed" ELSE "rejected"
           /\ \A t \in Texts : t # text => Judge(text, ok)[t] = verdicts[t]
  BY DEF TypeOK, Judge

LEMMA AnswerType ==
    ASSUME TypeOK
    PROVE  Answer \in Texts
  BY DEF TypeOK, Answer, Responses

\* A skill that returns leads to a node of the graph.
LEMMA ReturnStays ==
    ASSUME NEW n \in SkillNodes, NEW branch \in {"pass", "fail"}, Return(n, branch)
    PROVE  current' \in Nodes
  BY DEF Return, Nodes, SkillNodes, Follow, On, Branches

LEMMA FailTypes ==
    ASSUME TypeOK, NEW n \in SkillNodes, Fail(n)
    PROVE  TypeOK'
  <1>1. current' \in Nodes
    BY DEF Fail, Nodes, SkillNodes, Follow, On, Branches
  <1>2. failed' \subseteq SkillNodes
    BY DEF Fail, TypeOK
  <1> QED
    BY <1>1, <1>2 DEF Fail, TypeOK

LEMMA RouteTypes ==
    ASSUME TypeOK, Routed, Route
    PROVE  TypeOK'
  <1>1. turn = NoTurn \/ turn \in RoutedTurns
    BY DEF TypeOK
  <1>2. current' \in Nodes
    BY <1>1, RouteLeads, RoutesKnown, NodeFacts
  <1> QED
    BY <1>2 DEF Route, TypeOK

LEMMA RespondTypes ==
    ASSUME TypeOK, NEW n \in SkillNodes, NEW r \in Responses, Respond(n, r)
    PROVE  /\ current' \in Nodes /\ reply' \in Responses /\ contract' \in Responses
           /\ verdicts' \in [Texts -> {"none", "passed", "rejected"}]
           /\ UNCHANGED <<turn, draft, evidence, rendered, expired, failed>>
  <1>1. current' \in Nodes
    BY ReturnStays DEF Respond
  <1>2. r.text \in Texts
    BY DEF Responses
  <1>3. verdicts' \in [Texts -> {"none", "passed", "rejected"}]
    <2>1. Judge(r.text, TRUE) \in [Texts -> {"none", "passed", "rejected"}]
      BY <1>2, JudgeTypes
    <2> QED
      BY <2>1 DEF Respond, TypeOK
  <1> QED
    BY <1>1, <1>3 DEF Respond, Return, TypeOK

LEMMA EnvelopeTypes ==
    ASSUME TypeOK, NEW n \in SkillNodes \intersect Texts, NEW type \in Types,
           NEW ok \in BOOLEAN, Envelope(n, type, ok)
    PROVE  TypeOK'
  <1>1. current' \in Nodes
    BY ReturnStays DEF Envelope
  <1>2. contract' \in Responses
    BY ResponseTypes DEF Envelope
  <1>3. verdicts' \in [Texts -> {"none", "passed", "rejected"}]
    BY JudgeTypes DEF Envelope, TypeOK
  <1> QED
    BY <1>1, <1>2, <1>3 DEF Envelope, Return, TypeOK

LEMMA CandidatesTypes ==
    ASSUME TypeOK, NEW n \in SkillNodes, NEW found \in BOOLEAN, Candidates(n, found)
    PROVE  TypeOK'
  <1>1. current' \in Nodes
    BY ReturnStays DEF Candidates
  <1>2. evidence' \in [rankings : BOOLEAN, contexts : {"absent", "empty", "some"}]
    BY DEF Candidates, TypeOK
  <1> QED
    BY <1>1, <1>2 DEF Candidates, Return, TypeOK

LEMMA DraftTypes ==
    ASSUME TypeOK, NEW n \in SkillNodes, NEW text \in Texts, Draft(n, text)
    PROVE  TypeOK'
  <1>1. current' \in Nodes
    BY ReturnStays DEF Draft
  <1> QED
    BY <1>1 DEF Draft, Return, TypeOK

\* Only TurnRouter moves the turn and only CurriculumSolve the solver's
\* outcome; every other skill leads from a node to one that asks no more.
LEMMA RoutedStays ==
    ASSUME Routed, UNCHANGED <<turn, solved>>, NEW n \in SkillNodes \ {"turn_router"},
           NEW branch \in {"pass", "fail"}, Return(n, branch), n # "curriculum_solve"
    PROVE  Routed'
  <1>1. n \in SkillNodes /\ current = n
    BY DEF Return
  <1>2. /\ current' \in Early => n = "input_guard"
        /\ current' \notin Curriculum /\ current' # "exercise_generate"
    BY <1>1, ReturnLeads, NodeFacts DEF Early, Curriculum
  <1> QED
    BY <1>1, <1>2 DEF Routed, Early, Curriculum

LEMMA SkillTypes ==
    ASSUME TypeOK, Routed, Skill
    PROVE  TypeOK' /\ Routed'
  <1>1. CASE TurnRouter
    <2>1. current' \in Nodes
      BY <1>1, ReturnStays, NodeFacts DEF TurnRouter
    <2>2. TypeOK'
      BY <1>1, <2>1 DEF TurnRouter, Return, TypeOK
    <2> QED
      BY <1>1, <2>2, ReturnLeads, NodeFacts DEF TurnRouter, Routed, Early, Curriculum
  <1>2. CASE Prepare
    <2>1. PICK n \in {"input_guard", "question_parse", "query_rewrite", "knowledge_classify"} :
            Return(n, "pass")
      BY <1>2 DEF Prepare
    <2>2. n \in SkillNodes
      BY NodeFacts
    <2>3. TypeOK'
      BY <1>2, <2>1, <2>2, ReturnStays DEF Prepare, Return, TypeOK
    <2> QED
      BY <1>2, <2>1, <2>2, <2>3, RoutedStays DEF Prepare
  <1>3. CASE CurriculumSolve
    <2>1. PICK r \in Replies("curriculum_solve") \union {Nothing} :
            /\ Respond("curriculum_solve", r)
            /\ solved' = IF r # Nothing /\ (r.type \in CheckedTypes \/ turn.intent # "problem_solve")
                         THEN "handled" ELSE "unhandled"
      BY <1>3 DEF CurriculumSolve
    <2>2. "curriculum_solve" \in SkillNodes /\ r \in Responses
      BY RepliesKnown, ResponseTypes, NodeFacts DEF Texts
    <2>3. TypeOK'
      BY <2>1, <2>2, RespondTypes DEF TypeOK
    <2>4. current = "curriculum_solve" /\ current' = "curriculum_route" /\ turn' = turn
      BY <2>1, <2>2, ReturnLeads, RespondTypes DEF Respond
    <2> QED
      BY <2>3, <2>4 DEF Routed, Early, Curriculum
  <1>4. CASE CurriculumTutor
    <2>1. PICK text \in {reply.text, "curriculum_tutor"} :
            Respond("curriculum_tutor", [reply EXCEPT !.text = text])
      BY <1>4 DEF CurriculumTutor
    <2>2. "curriculum_tutor" \in SkillNodes /\ [reply EXCEPT !.text = text] \in Responses
      BY NodeFacts DEF TypeOK, Responses, Texts
    <2>3. TypeOK'
      BY <1>4, <2>1, <2>2, RespondTypes DEF CurriculumTutor, TypeOK
    <2> QED
      BY <1>4, <2>1, <2>2, <2>3, RoutedStays DEF CurriculumTutor, Respond
  <1>5. CASE ExerciseGenerate
    <2>1. PICK r \in Replies("exercise_generate") \union {Nothing} :
            Respond("exercise_generate", r)
      BY <1>5 DEF ExerciseGenerate
    <2>2. "exercise_generate" \in SkillNodes /\ r \in Responses
      BY RepliesKnown, ResponseTypes, NodeFacts DEF Texts
    <2>3. TypeOK'
      BY <1>5, <2>1, <2>2, RespondTypes DEF ExerciseGenerate, TypeOK
    <2> QED
      BY <1>5, <2>1, <2>2, <2>3, RoutedStays DEF ExerciseGenerate, Respond
  <1>6. CASE DirectReply
    <2>1. PICK n \in DirectNodes :
            Respond(n, [type |-> CASE n = "scope_response"       -> "supported_refusal"
                                   [] n = "no_evidence_response" -> "clarification_required"
                                   [] OTHER                      -> "general_answer",
                        text |-> n, passed |-> TRUE])
      BY <1>6 DEF DirectReply, DirectNodes
    <2> DEFINE type == CASE n = "scope_response"       -> "supported_refusal"
                         [] n = "no_evidence_response" -> "clarification_required"
                         [] OTHER                      -> "general_answer"
    <2>2. type \in Types /\ n \in Texts /\ n \in SkillNodes
      BY NodeFacts DEF Types, Texts, DirectNodes
    <2>3. [type |-> type, text |-> n, passed |-> TRUE] \in Responses
      BY <2>2, ResponseTypes
    <2>4. TypeOK'
      BY <1>6, <2>1, <2>2, <2>3, RespondTypes DEF DirectReply, TypeOK
    <2> QED
      BY <1>6, <2>1, <2>2, <2>4, RoutedStays DEF DirectReply, Respond, DirectNodes
  <1>7. CASE RetrievalParallel
    <2>1. "retrieval_parallel" \in SkillNodes
      BY NodeFacts
    <2>2. evidence' \in [rankings : BOOLEAN, contexts : {"absent", "empty", "some"}]
      BY <1>7 DEF RetrievalParallel, TypeOK
    <2>3. TypeOK'
      BY <1>7, <2>1, <2>2, ReturnStays DEF RetrievalParallel, Return, TypeOK
    <2> QED
      BY <1>7, <2>1, <2>3, RoutedStays DEF RetrievalParallel
  <1>8. CASE RrfFusion \/ RerankFilter \/ TavilySearch
    <2>1. PICK n \in {"rrf_fusion", "rerank_filter", "web_search"}, found \in BOOLEAN :
            Candidates(n, found)
      BY <1>8 DEF RrfFusion, RerankFilter, TavilySearch, TypeOK
    <2>2. n \in SkillNodes
      BY NodeFacts
    <2>3. TypeOK'
      BY <2>1, <2>2, CandidatesTypes
    <2> QED
      BY <2>1, <2>2, <2>3, RoutedStays DEF Candidates
  <1>9. CASE AnswerGenerate \/ AnswerRepair
    <2>1. PICK n \in {"answer_generate", "answer_repair"}, text \in Texts : Draft(n, text)
      BY <1>9, AnswerType DEF AnswerGenerate, AnswerRepair, Texts
    <2>2. n \in SkillNodes
      BY NodeFacts
    <2>3. TypeOK'
      BY <2>1, <2>2, DraftTypes
    <2> QED
      BY <2>1, <2>2, <2>3, RoutedStays DEF Draft
  <1>10. CASE AnswerCritic
    <2>1. PICK n \in {"answer_critic", "answer_repair_critic"}, ok \in BOOLEAN :
            /\ Return(n, IF ok THEN "pass" ELSE "fail")
            /\ contract' = [type |-> IF ok THEN "verified_answer" ELSE "clarification_required",
                            text |-> "nothing", passed |-> ok]
            /\ verdicts' = Judge(Answer, ok)
      BY <1>10 DEF AnswerCritic
    <2>2. n \in SkillNodes
      BY NodeFacts
    <2>3. contract' \in Responses
      BY <2>1 DEF Responses, Types, CheckedTypes, Texts
    <2>4. verdicts' \in [Texts -> {"none", "passed", "rejected"}]
      BY <2>1, AnswerType, JudgeTypes
    <2>5. TypeOK'
      BY <1>10, <2>1, <2>2, <2>3, <2>4, ReturnStays DEF AnswerCritic, Return, TypeOK
    <2> QED
      BY <1>10, <2>1, <2>2, <2>5, RoutedStays DEF AnswerCritic
  <1>11. CASE AuditFinalJudge \/ AnswerFinalJudge \/ TargetedFallback
    <2>1. PICK n \in {"audit_final_judge", "answer_final_judge", "targeted_fallback"},
               type \in Types, ok \in BOOLEAN : Envelope(n, type, ok)
      BY <1>11 DEF AuditFinalJudge, AnswerFinalJudge, TargetedFallback, Types, CheckedTypes
    <2>2. n \in SkillNodes \intersect Texts
      BY NodeFacts DEF Texts
    <2>3. TypeOK'
      BY <2>1, <2>2, EnvelopeTypes
    <2> QED
      BY <2>1, <2>2, <2>3, RoutedStays DEF Envelope
  <1>12. CASE ResponseRender
    <2>1. "response_render" \in SkillNodes
      BY NodeFacts
    <2>2. rendered' \in Responses
      BY <1>12, AnswerType DEF ResponseRender, TypeOK, Responses, Types, Texts
    <2>3. TypeOK'
      BY <1>12, <2>1, <2>2, ReturnStays DEF ResponseRender, Return, TypeOK
    <2> QED
      BY <1>12, <2>1, <2>3, RoutedStays DEF ResponseRender
  <1> QED
    BY <1>1, <1>2, <1>3, <1>4, <1>5, <1>6, <1>7, <1>8, <1>9, <1>10, <1>11, <1>12 DEF Skill

\* Only turns of the deterministic route reach the solver, which then has not
\* run; with that the types are inductive.
THEOREM RoutesKept == Spec => [](TypeOK /\ Routed)
  <1>1. Init => TypeOK /\ Routed
    <2> SUFFICES ASSUME Init PROVE TypeOK /\ Routed
      OBVIOUS
    <2>1. verdicts \in [Texts -> {"none", "passed", "rejected"}]
      BY DEF Init
    <2>2. current \in Nodes /\ failed \subseteq SkillNodes
      BY NodeFacts DEF Init
    <2>3. reply \in Responses /\ contract \in Responses /\ rendered \in Responses
      BY ResponseTypes DEF Init
    <2>4. draft \in Texts
      BY DEF Init, Texts
    <2> QED
      BY <2>1, <2>2, <2>3, <2>4 DEF Init, TypeOK, Routed, Early, Curriculum
  <1>2. TypeOK /\ Routed /\ [Next]_vars => TypeOK' /\ Routed'
    <2> SUFFICES ASSUME TypeOK, Routed, [Next]_vars PROVE TypeOK' /\ Routed'
      OBVIOUS
    <2>1. CASE Route
      <3>1. UNCHANGED <<turn, solved>>
        BY <2>1 DEF Route
      <3>2. Routed'
        BY <2>1, <3>1, RouteLeads, NodeFacts, RoutesKnown DEF Routed, Early, Curriculum, TypeOK
      <3> QED
        BY <2>1, <3>2, RouteTypes
    <2>2. CASE Skill
      BY <2>2, SkillTypes
    <2>3. ASSUME NEW n \in SkillNodes, Fail(n) PROVE TypeOK' /\ Routed'
      <3>1. UNCHANGED <<turn, solved>>
        BY <2>3 DEF Fail
      <3>2. Routed'
        BY <2>3, <3>1, FailLeads, NodeFacts DEF Routed, Early, Curriculum
      <3> QED
        BY <2>3, <3>2, FailTypes
    <2>4. CASE Expire
      BY <2>4 DEF Expire, TypeOK, Routed
    <2>5. CASE UNCHANGED vars
      BY <2>5 DEF vars, TypeOK, Routed
    <2> QED
      BY <2>1, <2>2, <2>3, <2>4, <2>5 DEF Next, Step, Finished
  <1> QED
    BY <1>1, <1>2, PTL DEF Spec

\* Type correctness.
THEOREM PipelineTypes == Spec => []TypeOK
  BY RoutesKept, PTL

-----------------------------------------------------------------------------
(* The verdicts.                                                           *)

Drafts == {"answer_generate", "answer_repair"}

SomePassed == \E t \in Texts : verdicts[t] = "passed"

(* What ResponseRender makes of the state.                                 *)
Published ==
  IF contract.passed \/ (contract.type = "general_answer" /\ Answer = "targeted_fallback")
  THEN [type |-> contract.type, text |-> Answer, passed |-> contract.passed]
  ELSE [type |-> "clarification_required", text |-> "response_render", passed |-> FALSE]

(* The nodes between the turn route and the render on every way but the    *)
(* solver's.                                                               *)
Answering ==
  {"question_parse", "query_rewrite", "knowledge_classify", "retrieval_parallel",
   "rrf_fusion", "rerank_filter", "web_search", "no_evidence_route", "answer_generate",
   "exercise_generate"} \union DirectNodes \union Judging

\* A reply of the solver or of the exercises is a finished response, never a
\* draft of the model; a handled turn has one.
ReplyKnown ==
  /\ reply # Nothing =>
       reply.passed = TRUE /\ reply.text \notin Drafts /\ reply.text # "nothing"
  /\ solved = "handled" => reply # Nothing

\* The last contract and the verdicts agree: a passed text is under a checked
\* contract; a checked contract stands on a verdict about the merged answer,
\* unless the solver left a reply behind; a draft is trusted as verified only.
Trusted ==
  /\ SomePassed => contract.type \in CheckedTypes /\ contract.passed
  /\ contract.type \in CheckedTypes => LeftoverReply \/ verdicts[Answer] = "passed"
  /\ contract.passed /\ Answer \in Drafts =>
       contract.type = "verified_answer" /\ verdicts[Answer] = "passed"

\* A response is rendered in the last step, from the state as it stays.
RenderedLast == rendered # Nothing => current = "END" /\ rendered = Published

\* Before the turn is routed and solved there is nothing to publish.
Fresh == current \in Early => reply = Nothing /\ contract = Nothing /\ ~SomePassed

\* Behind the solver, the trusted contract is that of its reply; an unhandled
\* turn is one without a verdict.
SolverReplied ==
  /\ current \in {"curriculum_route", "curriculum_tutor"} => contract = reply
  /\ current = "curriculum_route" /\ solved = "unhandled" =>
       ~SomePassed /\ contract.type \notin CheckedTypes

\* On the way to an answer nothing is passed yet: a verdict that passes leads
\* to the render at once.  What is trusted meanwhile can only be a reply the
\* solver did not count as handled.
Unjudged ==
  current \in Answering =>
    /\ ~SomePassed /\ contract.type \notin CheckedTypes
    /\ contract.passed => reply # Nothing
    /\ reply # Nothing => solved = "unhandled"

VerdictInv ==
  /\ ReplyKnown /\ Trusted /\ RenderedLast
  /\ Fresh /\ SolverReplied /\ Unjudged

\* A step that writes nothing of the response and leads on along the graph.
LEMMA QuietStep ==
    ASSUME Routed, VerdictInv,
           UNCHANGED <<solved, reply, draft, contract, rendered, verdicts>>,
           current # "END" \/ current' = current,
           current' \in Early => current \in Early,
           current' = "curriculum_route" => current \in {"curriculum_solve", "curriculum_route"},
           current' = "curriculum_tutor" => current \in {"curriculum_route", "curriculum_tutor"},
           current' \in Answering =>
             \/ current \in Answering \union Early
             \/ current = "curriculum_route" /\ solved = "unhandled"
    PROVE  VerdictInv'
  <1>1. ReplyKnown' /\ Trusted'
    BY DEF VerdictInv, ReplyKnown, Trusted, SomePassed, Answer, LeftoverReply
  <1>2. RenderedLast'
    BY DEF VerdictInv, RenderedLast, Published, Answer
  <1>3. Fresh' /\ SolverReplied'
    BY DEF VerdictInv, Fresh, SolverReplied, SomePassed, Routed, Early
  <1>4. Unjudged'
    BY ResponseTypes DEF VerdictInv, Unjudged, Fresh, SolverReplied, SomePassed
  <1> QED
    BY <1>1, <1>2, <1>3, <1>4 DEF VerdictInv

LEMMA AnsweringFacts ==
    /\ Answering \intersect Early = {} /\ "END" \notin Answering
    /\ "response_render" \notin Answering \union Early
    /\ {"curriculum_route", "curriculum_tutor"} \intersect (Answering \union Early) = {}
  BY DEF Answering, Early, DirectNodes, Judging

\* A response that is trusted leaves the contract and the verdicts in accord.
LEMMA RespondTrusted ==
    ASSUME TypeOK, NEW n, NEW r \in Responses, Respond(n, r),
           r # Nothing, r.passed = TRUE, r.text \notin Drafts,
           r.type \notin CheckedTypes => ~SomePassed
    PROVE  /\ reply' = r /\ contract' = r
           /\ Trusted'
  <1>1. /\ reply' = r /\ contract' = r
        /\ verdicts' = IF r.type \in CheckedTypes THEN Judge(r.text, TRUE) ELSE verdicts
    BY DEF Respond
  <1>2. Answer' = r.text /\ r.text \in Texts
    BY <1>1 DEF Answer, Responses
  <1>3. r.type \in CheckedTypes => verdicts'[r.text] = "passed"
    BY <1>1, <1>2, JudgeTypes
  <1>4. r.type \notin CheckedTypes => ~SomePassed'
    BY <1>1 DEF SomePassed
  <1> QED
    BY <1>1, <1>2, <1>3, <1>4 DEF Trusted

LEMMA CurriculumSolveVerdicts ==
    ASSUME TypeOK, Routed, VerdictInv, CurriculumSolve
    PROVE  VerdictInv'
  <1>1. PICK r \in Replies("curriculum_solve") \union {Nothing} :
          /\ Respond("curriculum_solve", r)
          /\ solved' = IF r # Nothing /\ (r.type \in CheckedTypes \/ turn.intent # "problem_solve")
                       THEN "handled" ELSE "unhandled"
    BY DEF CurriculumSolve
  <1>2. /\ "curriculum_solve" \in SkillNodes /\ "curriculum_solve" \in Texts
        /\ "curriculum_solve" \notin Drafts
    BY NodeFacts DEF Texts, Drafts
  <1>3. current = "curriculum_solve" /\ current' = "curriculum_route"
    BY <1>1, <1>2, ReturnLeads DEF Respond
  <1>4. reply = Nothing /\ contract = Nothing /\ ~SomePassed /\ rendered' = rendered
        /\ draft' = draft
    BY <1>1, <1>3 DEF VerdictInv, Fresh, Early, Respond
  <1>5. RenderedLast'
    BY <1>3, <1>4 DEF VerdictInv, RenderedLast
  <1>6. Fresh' /\ Unjudged'
    BY <1>3, AnsweringFacts DEF Fresh, Unjudged
  <1>7. CASE r = Nothing
    <2>1. solved' = "unhandled" /\ UNCHANGED <<reply, contract, verdicts>>
      BY <1>1, <1>7 DEF Respond
    <2>2. ReplyKnown' /\ Trusted' /\ SolverReplied'
      BY <1>4, <2>1, ResponseTypes
         DEF ReplyKnown, Trusted, SolverReplied, SomePassed, Nothing
    <2> QED
      BY <1>5, <1>6, <2>2 DEF VerdictInv
  <1>8. CASE r \in Replies("curriculum_solve")
    <2>1. /\ r \in Responses /\ r # Nothing /\ r.passed = TRUE /\ r.text = "curriculum_solve"
      BY <1>2, <1>8, RepliesKnown
    <2>2. reply' = r /\ contract' = r /\ Trusted'
      BY <1>1, <1>2, <1>4, <2>1, RespondTrusted
    <2>3. ReplyKnown'
      BY <2>1, <2>2 DEF ReplyKnown, Drafts
    <2>4. ~SomePassed' \/ r.type \in CheckedTypes
      BY <1>1, <1>4, <2>1 DEF Respond, SomePassed
    <2>5. SolverReplied'
      BY <1>1, <2>1, <2>2, <2>4 DEF SolverReplied
    <2> QED
      BY <1>5, <1>6, <2>2, <2>3, <2>5 DEF VerdictInv
  <1> QED
    BY <1>7, <1>8

\* The tutor publishes the solver's reply, or its own wording of it.
LEMMA CurriculumTutorVerdicts ==
    ASSUME TypeOK, Routed, VerdictInv, CurriculumTutor
    PROVE  VerdictInv'
  <1>1. PICK text \in {reply.text, "curriculum_tutor"} :
          Respond("curriculum_tutor", [reply EXCEPT !.text = text])
    BY DEF CurriculumTutor
  <1> DEFINE r == [reply EXCEPT !.text = text]
  <1>2. "curriculum_tutor" \in SkillNodes
    BY NodeFacts
  <1>3. current = "curriculum_tutor" /\ current' = "response_render" /\ reply # Nothing
    BY <1>1, <1>2, ReturnLeads DEF Respond, Return, InputValid
  <1>4. contract = reply /\ reply.passed = TRUE /\ reply.text \notin Drafts
        /\ reply.text # "nothing"
    BY <1>3 DEF VerdictInv, SolverReplied, ReplyKnown
  <1>5. /\ r \in Responses /\ r.type = reply.type /\ r.passed = TRUE /\ r.text = text
        /\ text \notin Drafts /\ text # "nothing"
    BY <1>4 DEF TypeOK, Responses, Texts, Drafts
  <1>6. r # Nothing
    BY <1>5, ResponseTypes
  <1>7. r.type \notin CheckedTypes => ~SomePassed
    BY <1>4, <1>5 DEF VerdictInv, Trusted
  <1> HIDE DEF r
  <1>8. reply' = r /\ contract' = r /\ Trusted'
    BY <1>1, <1>5, <1>6, <1>7, RespondTrusted DEF r
  <1>9. ReplyKnown'
    BY <1>5, <1>6, <1>8 DEF ReplyKnown
  <1>10. RenderedLast'
    BY <1>1, <1>3 DEF VerdictInv, RenderedLast, Respond
  <1>11. Fresh' /\ SolverReplied' /\ Unjudged'
    BY <1>3, AnsweringFacts DEF Fresh, SolverReplied, Unjudged
  <1> QED
    BY <1>8, <1>9, <1>10, <1>11 DEF VerdictInv

\* A node on the way to an answer gives a response of its own.
LEMMA ReplyVerdicts ==
    ASSUME TypeOK, Routed, VerdictInv, solved' = solved,
           NEW n \in DirectNodes \union {"exercise_generate"},
           NEW r \in Responses, Respond(n, r),
           r = Nothing \/ (r.passed = TRUE /\ r.text = n)
    PROVE  VerdictInv'
  <1>1. n \in SkillNodes /\ n \in Answering /\ n \notin Drafts /\ n # "nothing"
    BY NodeFacts DEF DirectNodes, Answering, Drafts
  <1>2. current = n /\ current' = "response_render"
    BY <1>1, ReturnLeads DEF Respond, DirectNodes
  <1>3. ~SomePassed /\ contract.type \notin CheckedTypes
    BY <1>1, <1>2 DEF VerdictInv, Unjudged
  <1>4. ReplyKnown' /\ Trusted'
    <2>1. CASE r = Nothing
      <3>1. UNCHANGED <<reply, contract, verdicts, draft>>
        BY <2>1 DEF Respond
      <3> QED
        BY <3>1 DEF VerdictInv, ReplyKnown, Trusted, SomePassed, Answer, LeftoverReply
    <2>2. CASE r # Nothing
      <3>1. reply' = r /\ contract' = r /\ Trusted'
        BY <1>1, <1>3, <2>2, RespondTrusted
      <3> QED
        BY <1>1, <2>2, <3>1 DEF ReplyKnown
    <2> QED
      BY <2>1, <2>2
  <1>5. RenderedLast'
    BY <1>1, <1>2, AnsweringFacts DEF VerdictInv, RenderedLast, Respond
  <1>6. Fresh' /\ SolverReplied' /\ Unjudged'
    BY <1>2, AnsweringFacts DEF Fresh, SolverReplied, Unjudged
  <1> QED
    BY <1>4, <1>5, <1>6 DEF VerdictInv

\* A draft is written while nothing is trusted that could be shown for it.
LEMMA DraftVerdicts ==
    ASSUME TypeOK, Routed, VerdictInv, NEW n \in Drafts, NEW text, Draft(n, text)
    PROVE  VerdictInv'
  <1>1. n \in SkillNodes /\ n \in Answering
    BY NodeFacts DEF Drafts, Answering, Judging
  <1>2. current = n /\ current' \in Answering \ DirectNodes
    BY <1>1, ReturnLeads DEF Draft, Drafts, Answering, Judging, DirectNodes
  <1>3. UNCHANGED <<solved, reply, contract, verdicts, rendered>>
    BY DEF Draft
  <1>4. /\ ~SomePassed /\ contract.type \notin CheckedTypes
        /\ contract.passed => reply # Nothing
        /\ reply # Nothing => solved = "unhandled"
    BY <1>1, <1>2 DEF VerdictInv, Unjudged
  <1>5. ReplyKnown' /\ Unjudged'
    BY <1>3, <1>4 DEF VerdictInv, ReplyKnown, Unjudged, SomePassed
  <1>6. Trusted'
    BY <1>3, <1>4, <1>5 DEF Trusted, ReplyKnown, SomePassed, Answer
  <1>7. RenderedLast'
    BY <1>1, <1>2, <1>3, AnsweringFacts DEF VerdictInv, RenderedLast
  <1>8. Fresh' /\ SolverReplied'
    BY <1>2, AnsweringFacts DEF Fresh, SolverReplied
  <1> QED
    BY <1>5, <1>6, <1>7, <1>8 DEF VerdictInv

\* A critic passes the merged answer and the contract becomes verified, or
\* rejects it and nothing is trusted.
LEMMA CriticVerdicts ==
    ASSUME TypeOK, Routed, VerdictInv, AnswerCritic
    PROVE  VerdictInv'
  <1>1. PICK n \in {"answer_critic", "answer_repair_critic"}, ok \in BOOLEAN :
          /\ Return(n, IF ok THEN "pass" ELSE "fail")
          /\ contract' = [type |-> IF ok THEN "verified_answer" ELSE "clarification_required",
                          text |-> "nothing", passed |-> ok]
          /\ verdicts' = Judge(Answer, ok)
    BY DEF AnswerCritic
  <1>2. n \in SkillNodes /\ n \in Answering
    BY NodeFacts DEF Answering, Judging
  <1>3. current = n /\ current' = IF ok THEN "response_render"
                                        ELSE IF n = "answer_critic" THEN "answer_repair"
                                                                    ELSE "audit_failure_route"
    BY <1>1, <1>2, ReturnLeads
  <1>4. UNCHANGED <<solved, reply, draft, rendered>>
    BY DEF AnswerCritic
  <1>5. ~SomePassed /\ (reply # Nothing => solved = "unhandled")
    BY <1>2, <1>3 DEF VerdictInv, Unjudged
  <1>6. Answer' = Answer /\ Answer \in Texts
    BY <1>4, AnswerType DEF Answer
  <1>7. /\ contract'.passed = ok
        /\ contract'.type = IF ok THEN "verified_answer" ELSE "clarification_required"
    BY <1>1
  <1>8. verdicts'[Answer] = IF ok THEN "passed" ELSE "rejected"
    BY <1>1, <1>6, JudgeTypes
  <1>9. ok \/ ~SomePassed'
    BY <1>1, <1>5, <1>6, <1>8, JudgeTypes DEF SomePassed
  <1>10. ReplyKnown' /\ Trusted'
    BY <1>4, <1>6, <1>7, <1>8, <1>9 DEF VerdictInv, ReplyKnown, Trusted, CheckedTypes
  <1>11. RenderedLast'
    BY <1>2, <1>3, <1>4, AnsweringFacts DEF VerdictInv, RenderedLast
  <1>12. Fresh' /\ SolverReplied'
    BY <1>3 DEF Fresh, SolverReplied, Early
  <1>13. Unjudged'
    BY <1>3, <1>4, <1>5, <1>7, <1>9, AnsweringFacts DEF Unjudged, CheckedTypes
  <1> QED
    BY <1>10, <1>11, <1>12, <1>13 DEF VerdictInv

\* A judge or the fallback writes an answer of its own with its contract.
LEMMA EnvelopeVerdicts ==
    ASSUME TypeOK, Routed, VerdictInv, NEW type, NEW ok \in BOOLEAN,
           NEW n \in {"audit_final_judge", "answer_final_judge", "targeted_fallback"},
           Envelope(n, type, ok), type \in CheckedTypes => ok
    PROVE  VerdictInv'
  <1>1. n \in SkillNodes /\ n \in Answering /\ n \in Texts /\ n \notin Drafts
    BY NodeFacts DEF Answering, Judging, Texts, Drafts
  <1>2. current = n /\ current' = "response_render"
    BY <1>1, ReturnLeads DEF Envelope
  <1>3. UNCHANGED <<solved, reply, rendered>> /\ draft' = n
        /\ contract'.type = type /\ contract'.passed = ok
    BY DEF Envelope
  <1>4. ~SomePassed /\ (reply # Nothing => solved = "unhandled")
    BY <1>1, <1>2 DEF VerdictInv, Unjudged
  <1>5. IF type \in CheckedTypes THEN verdicts'[n] = "passed" ELSE ~SomePassed'
    BY <1>1, <1>4, JudgeTypes DEF Envelope, SomePassed
  <1>6. ReplyKnown'
    BY <1>3 DEF VerdictInv, ReplyKnown
  <1>7. Answer' \notin Drafts /\ (LeftoverReply' \/ Answer' = n)
    BY <1>1, <1>3, <1>4, <1>6 DEF Answer, ReplyKnown, LeftoverReply
  <1>8. Trusted'
    BY <1>3, <1>5, <1>7 DEF Trusted
  <1>9. RenderedLast'
    BY <1>1, <1>2, <1>3, AnsweringFacts DEF VerdictInv, RenderedLast
  <1>10. Fresh' /\ SolverReplied' /\ Unjudged'
    BY <1>2, AnsweringFacts DEF Fresh, SolverReplied, Unjudged
  <1> QED
    BY <1>6, <1>8, <1>9, <1>10 DEF VerdictInv

LEMMA RenderVerdicts ==
    ASSUME TypeOK, Routed, VerdictInv, ResponseRender
    PROVE  VerdictInv'
  <1>1. current = "response_render" /\ current' = "END"
    BY NodeFacts, ReturnLeads DEF ResponseRender
  <1>2. UNCHANGED <<solved, reply, draft, contract, verdicts>>
    BY DEF ResponseRender
  <1>3. ReplyKnown' /\ Trusted'
    BY <1>2 DEF VerdictInv, ReplyKnown, Trusted, SomePassed, Answer, LeftoverReply
  <1>4. RenderedLast'
    BY <1>1, <1>2 DEF RenderedLast, Published, Answer, ResponseRender
  <1>5. Fresh' /\ SolverReplied' /\ Unjudged'
    BY <1>1, AnsweringFacts DEF Fresh, SolverReplied, Unjudged, Early
  <1> QED
    BY <1>3, <1>4, <1>5 DEF VerdictInv

\* The steps that write nothing of the response: the router, the failures, the
\* deadline, and the skills that classify the turn or look for candidates.
LEMMA QuietVerdicts ==
    ASSUME TypeOK, Routed, VerdictInv
    PROVE  /\ Route => VerdictInv'
           /\ TurnRouter \/ Prepare => VerdictInv'
           /\ RetrievalParallel \/ RrfFusion \/ RerankFilter \/ TavilySearch => VerdictInv'
           /\ (\E n \in SkillNodes : Fail(n)) => VerdictInv'
           /\ Expire => VerdictInv'
  <1> DEFINE Kept == UNCHANGED <<solved, reply, draft, contract, rendered, verdicts>>
  <1>1. ASSUME Route PROVE VerdictInv'
    <2>1. /\ current \in {"turn_route", "curriculum_route", "no_evidence_route",
                          "audit_failure_route"}
          /\ Kept
      BY <1>1, NodeFacts DEF Route
    <2>2. turn = NoTurn \/ turn \in RoutedTurns
      BY DEF TypeOK
    <2>3. /\ current = "turn_route" => current' \in Answering \union {"curriculum_solve"}
          /\ current = "curriculum_route" =>
               current' = IF solved = "unhandled" THEN "answer_generate" ELSE "curriculum_tutor"
          /\ current \in {"no_evidence_route", "audit_failure_route"} => current' \in Answering
      BY <1>1, <2>2, RouteLeads, RoutesKnown DEF Answering, DirectNodes, Judging
    <2>4. /\ current' \in Early => current \in Early
          /\ current' # "curriculum_route"
          /\ current' = "curriculum_tutor" => current = "curriculum_route"
      BY <2>1, <2>3, AnsweringFacts DEF Early
    <2>5. current' \in Answering =>
            \/ current \in Answering \union Early
            \/ current = "curriculum_route" /\ solved = "unhandled"
      BY <2>1, <2>3, AnsweringFacts DEF Answering, Early, Judging
    <2> QED
      BY <2>1, <2>4, <2>5, QuietStep
  <1>2. ASSUME TurnRouter \/ Prepare PROVE VerdictInv'
    <2>1. PICK n \in {"turn_router", "input_guard", "question_parse", "query_rewrite",
                      "knowledge_classify"} : Return(n, "pass")
      BY <1>2 DEF TurnRouter, Prepare
    <2>2. Kept
      BY <1>2 DEF TurnRouter, Prepare
    <2>3. current = n /\ current' = CASE n = "turn_router" -> "input_guard"
                                      [] n = "input_guard" -> "turn_route"
                                      [] n = "question_parse" -> "query_rewrite"
                                      [] n = "query_rewrite" -> "knowledge_classify"
                                      [] n = "knowledge_classify" -> "retrieval_parallel"
      BY <2>1, ReturnLeads, NodeFacts
    <2> QED
      BY <2>2, <2>3, QuietStep DEF Early, Answering, DirectNodes, Judging
  <1>3. ASSUME RetrievalParallel \/ RrfFusion \/ RerankFilter \/ TavilySearch
        PROVE  VerdictInv'
    <2>1. PICK n \in {"retrieval_parallel", "rrf_fusion", "rerank_filter", "web_search"},
               branch \in {"pass", "fail"} : Return(n, branch)
      BY <1>3 DEF RetrievalParallel, RrfFusion, RerankFilter, TavilySearch, Candidates
    <2>2. Kept
      BY <1>3 DEF RetrievalParallel, RrfFusion, RerankFilter, TavilySearch, Candidates
    <2>3. n \in SkillNodes
      BY NodeFacts
    <2>4. current = n /\ current' \in {"rrf_fusion", "rerank_filter", "web_search",
                                       "no_evidence_route", "answer_generate"}
      BY <2>1, <2>3, ReturnLeads
    <2> QED
      BY <2>2, <2>4, QuietStep DEF Early, Answering, DirectNodes, Judging
  <1>4. ASSUME NEW n \in SkillNodes, Fail(n) PROVE VerdictInv'
    <2>1. Kept /\ current = n
      BY <1>4 DEF Fail
    <2>2. CASE n \in {"turn_router", "input_guard", "curriculum_solve", "curriculum_tutor",
                      "response_render"}
      <3>1. /\ n \in {"turn_router", "input_guard"} => current' \in {"input_guard", "turn_route"}
            /\ n = "curriculum_solve" => current' = "curriculum_route"
            /\ n = "curriculum_tutor" => current' = "response_render"
            /\ n = "response_render" => current' = "END"
        BY <1>4, FailLeads
      <3> QED
        BY <2>1, <2>2, <3>1, AnsweringFacts, QuietStep DEF Early
    <2>3. CASE n \in Answering
      <3>1. current' \in Answering \union {"response_render"}
        <4>1. CASE n \in DirectNodes \union {"exercise_generate", "targeted_fallback"}
          BY <1>4, <4>1, FailLeads DEF DirectNodes
        <4>2. CASE n \in {"question_parse", "query_rewrite", "knowledge_classify",
                          "retrieval_parallel", "rrf_fusion", "rerank_filter", "web_search"}
          BY <1>4, <4>2, FailLeads DEF Answering
        <4>3. CASE n \in Judging \union {"answer_generate"} /\ n # "targeted_fallback"
          BY <1>4, <4>3, FailLeads, NodeFacts DEF Answering, Judging
        <4> QED
          BY <1>4, <2>3, <4>1, <4>2, <4>3, NodeFacts DEF Answering
      <3> QED
        BY <2>1, <2>3, <3>1, AnsweringFacts, QuietStep DEF Early
    <2> QED
      BY <2>2, <2>3, NodeFacts DEF Answering, DirectNodes, Judging
  <1>5. ASSUME Expire PROVE VerdictInv'
    BY <1>5, QuietStep DEF Expire
  <1> QED
    BY <1>1, <1>2, <1>3, <1>4, <1>5

LEMMA SkillVerdicts ==
    ASSUME TypeOK, Routed, VerdictInv, Skill
    PROVE  VerdictInv'
  <1>1. CASE ExerciseGenerate
    <2>1. PICK r \in Replies("exercise_generate") \union {Nothing} :
            Respond("exercise_generate", r)
      BY <1>1 DEF ExerciseGenerate
    <2>2. r \in Responses /\ (r = Nothing \/ (r.passed = TRUE /\ r.text = "exercise_generate"))
      BY RepliesKnown, ResponseTypes DEF Texts
    <2> QED
      BY <1>1, <2>1, <2>2, ReplyVerdicts DEF ExerciseGenerate
  <1>2. CASE DirectReply
    <2>1. PICK n \in DirectNodes :
            Respond(n, [type |-> CASE n = "scope_response"       -> "supported_refusal"
                                   [] n = "no_evidence_response" -> "clarification_required"
                                   [] OTHER                      -> "general_answer",
                        text |-> n, passed |-> TRUE])
      BY <1>2 DEF DirectReply, DirectNodes
    <2> DEFINE type == CASE n = "scope_response"       -> "supported_refusal"
                         [] n = "no_evidence_response" -> "clarification_required"
                         [] OTHER                      -> "general_answer"
               r == [type |-> type, text |-> n, passed |-> TRUE]
    <2>2. type \in Types /\ n \in Texts
      BY DEF Types, Texts, DirectNodes
    <2>3. r \in Responses /\ r.passed = TRUE /\ r.text = n
      BY <2>2, ResponseTypes
    <2>4. Respond(n, r)
      BY <2>1
    <2> HIDE DEF r
    <2> QED
      BY <1>2, <2>3, <2>4, ReplyVerdicts DEF DirectReply
  <1>3. CASE AnswerGenerate \/ AnswerRepair
    BY <1>3, DraftVerdicts DEF AnswerGenerate, AnswerRepair, Drafts
  <1>4. CASE AuditFinalJudge \/ AnswerFinalJudge
    BY <1>4, EnvelopeVerdicts DEF AuditFinalJudge, AnswerFinalJudge
  <1>5. CASE TargetedFallback
    <2>1. PICK excerpt \in BOOLEAN :
            Envelope("targeted_fallback",
                     IF excerpt THEN "general_answer" ELSE "clarification_required", ~excerpt)
      BY <1>5 DEF TargetedFallback
    <2>2. (IF excerpt THEN "general_answer" ELSE "clarification_required") \notin CheckedTypes
      BY DEF CheckedTypes
    <2> QED
      BY <2>1, <2>2, EnvelopeVerdicts
  <1> QED
    BY <1>1, <1>2, <1>3, <1>4, <1>5, QuietVerdicts, CurriculumSolveVerdicts,
       CurriculumTutorVerdicts, CriticVerdicts, RenderVerdicts DEF Skill

\* The contract and the verdicts stay in accord through every run.
THEOREM VerdictsKept == Spec => []VerdictInv
  <1>1. Init => VerdictInv
    <2> SUFFICES ASSUME Init PROVE VerdictInv
      OBVIOUS
    <2>1. ~SomePassed
      BY DEF Init, SomePassed
    <2> QED
      BY <2>1, ResponseTypes, AnsweringFacts
         DEF Init, VerdictInv, ReplyKnown, Trusted, RenderedLast, Fresh, SolverReplied,
             Unjudged, Early
  <1>2. TypeOK /\ Routed /\ VerdictInv /\ [Next]_vars => VerdictInv'
    <2>1. ASSUME VerdictInv, UNCHANGED vars PROVE VerdictInv'
      BY <2>1 DEF vars, VerdictInv, ReplyKnown, Trusted, RenderedLast, Fresh, SolverReplied,
                  Unjudged, SomePassed, Answer, LeftoverReply, Published
    <2> QED
      BY <2>1, SkillVerdicts, QuietVerdicts DEF Next, Step, Finished
  <1> QED
    BY <1>1, <1>2, RoutesKept, PTL DEF Spec

\* A response published as verified or as a guided exercise is the text on
\* which the last verdict was a pass, unless the solver left a reply behind.
THEOREM VerifiedAreChecked == Spec => []VerifiedIsChecked
  <1>1. VerdictInv => VerifiedIsChecked
    BY ResponseTypes DEF VerdictInv, Trusted, RenderedLast, Published, VerifiedIsChecked,
                         PublishedIsChecked, CheckedTypes
  <1> QED
    BY <1>1, VerdictsKept, PTL

\* A text of the model is published under no type without a verdict on it.
THEOREM DraftsNeedVerdicts == Spec => []DraftNeedsVerdict
  <1>1. VerdictInv => DraftNeedsVerdict
    BY DEF VerdictInv, Trusted, RenderedLast, Published, DraftNeedsVerdict, Drafts, Nothing
  <1> QED
    BY <1>1, VerdictsKept, PTL

\* No older rejection in the state downgrades an answer that was passed.
THEOREM VerdictsArePublished == Spec => []VerdictIsPublished
  <1>1. VerdictInv => VerdictIsPublished
    BY DEF VerdictInv, Trusted, RenderedLast, Published, VerdictIsPublished, SomePassed
  <1> QED
    BY <1>1, VerdictsKept, PTL

-----------------------------------------------------------------------------
(* Where a published answer can be other than the judged one.              *)

(* The nodes of the ways the solver has no part in.                        *)
Unsolved ==
  Early \union DirectNodes \union
  {"question_parse", "query_rewrite", "knowledge_classify", "retrieval_parallel",
   "rrf_fusion", "rerank_filter", "web_search", "no_evidence_route", "exercise_generate"}

\* A reply the solver leaves behind answers a problem to solve.
LeftoverKnown ==
  /\ current \in Unsolved => solved = "absent"
  /\ LeftoverReply => turn.intent = "problem_solve"

LEMMA LeftoverStays ==
    ASSUME LeftoverKnown, UNCHANGED <<turn, solved, reply>>,
           current' \in Unsolved => current \in Unsolved
    PROVE  LeftoverKnown'
  BY DEF LeftoverKnown, LeftoverReply

LEMMA ReturnUnsolved ==
    ASSUME NEW n \in SkillNodes, NEW branch \in {"pass", "fail"},
           Return(n, branch) \/ Fail(n), current' \in Unsolved
    PROVE  current \in Unsolved
  <1>1. n \notin Unsolved => current' \notin Unsolved
    BY ReturnLeads, FailLeads, NodeFacts DEF Unsolved, Early, DirectNodes
  <1> QED
    BY <1>1 DEF Return, Fail

LEMMA SkillLeftover ==
    ASSUME Routed, VerdictInv, LeftoverKnown, Skill
    PROVE  LeftoverKnown'
  <1>1. CASE TurnRouter
    <2>1. current = "turn_router" /\ current' = "input_guard" /\ solved' = solved
      BY <1>1, ReturnLeads, NodeFacts DEF TurnRouter
    <2> QED
      BY <2>1 DEF LeftoverKnown, LeftoverReply, Unsolved, Early
  <1>2. CASE CurriculumSolve
    <2>1. PICK r \in Replies("curriculum_solve") \union {Nothing} :
            /\ Respond("curriculum_solve", r)
            /\ solved' = IF r # Nothing /\ (r.type \in CheckedTypes \/ turn.intent # "problem_solve")
                         THEN "handled" ELSE "unhandled"
      BY <1>2 DEF CurriculumSolve
    <2>2. current = "curriculum_solve" /\ current' = "curriculum_route" /\ turn' = turn
      BY <2>1, ReturnLeads, NodeFacts DEF Respond
    <2>3. reply = Nothing \/ reply' = r
      BY <2>1, <2>2 DEF VerdictInv, Fresh, Early
    <2> QED
      BY <2>1, <2>2, <2>3 DEF LeftoverKnown, LeftoverReply, Unsolved, Early, DirectNodes, Respond
  <1>3. CASE CurriculumTutor
    <2>1. current = "curriculum_tutor" /\ current' = "response_render" /\ UNCHANGED solved
      BY <1>3, ReturnLeads, NodeFacts DEF CurriculumTutor, Respond
    <2> QED
      BY <2>1 DEF Routed, LeftoverKnown, LeftoverReply, Unsolved, Early, DirectNodes
  <1>4. CASE ExerciseGenerate \/ DirectReply
    <2>1. PICK n \in DirectNodes \union {"exercise_generate"} : Return(n, "pass")
      BY <1>4 DEF ExerciseGenerate, DirectReply, Respond, DirectNodes
    <2>2. n \in SkillNodes /\ n \in Unsolved
      BY NodeFacts DEF DirectNodes, Unsolved
    <2>3. current = n /\ current' = "response_render"
      BY <2>1, <2>2, ReturnLeads DEF DirectNodes
    <2>4. solved' = solved
      BY <1>4 DEF ExerciseGenerate, DirectReply
    <2> QED
      BY <2>2, <2>3, <2>4 DEF LeftoverKnown, LeftoverReply, Unsolved, Early, DirectNodes
  <1>5. CASE Prepare \/ RetrievalParallel \/ RrfFusion \/ RerankFilter \/ TavilySearch
    <2>1. PICK n \in SkillNodes, branch \in {"pass", "fail"} : Return(n, branch)
      BY <1>5, NodeFacts
         DEF Prepare, RetrievalParallel, RrfFusion, RerankFilter, TavilySearch, Candidates
    <2>2. UNCHANGED <<turn, solved, reply>>
      BY <1>5 DEF Prepare, RetrievalParallel, RrfFusion, RerankFilter, TavilySearch, Candidates
    <2> QED
      BY <2>1, <2>2, ReturnUnsolved, LeftoverStays
  <1>6. CASE \/ AnswerGenerate \/ AnswerRepair \/ AnswerCritic \/ ResponseRender
             \/ AuditFinalJudge \/ AnswerFinalJudge \/ TargetedFallback
    <2>1. PICK n \in SkillNodes, branch \in {"pass", "fail"} : Return(n, branch)
      BY <1>6, NodeFacts
         DEF AnswerGenerate, AnswerRepair, AnswerCritic, ResponseRender, AuditFinalJudge,
             AnswerFinalJudge, TargetedFallback, Draft, Envelope
    <2>2. UNCHANGED <<turn, solved, reply>>
      BY <1>6 DEF AnswerGenerate, AnswerRepair, AnswerCritic, ResponseRender, AuditFinalJudge,
                  AnswerFinalJudge, TargetedFallback, Draft, Envelope
    <2> QED
      BY <2>1, <2>2, ReturnUnsolved, LeftoverStays
  <1> QED
    BY <1>1, <1>2, <1>3, <1>4, <1>5, <1>6 DEF Skill

\* For every turn but a problem to solve, what is published as checked is the
\* text that was checked: the leftover reply is the only way to publish another.
THEOREM OnlyProblemsLeaveReplies ==
    Spec => [](turn.intent # "problem_solve" => PublishedIsChecked)
  <1>1. Init => LeftoverKnown
    BY DEF Init, LeftoverKnown, LeftoverReply
  <1>2. TypeOK /\ Routed /\ VerdictInv /\ LeftoverKnown /\ [Next]_vars => LeftoverKnown'
    <2> SUFFICES ASSUME TypeOK, Routed, VerdictInv, LeftoverKnown, [Next]_vars
                 PROVE  LeftoverKnown'
      OBVIOUS
    <2>1. CASE Route
      <3>1. UNCHANGED <<turn, solved, reply>>
        BY <2>1 DEF Route
      <3>2. current' \in Unsolved => current \in Unsolved
        BY <2>1, RouteLeads, NodeFacts DEF Unsolved, Early, DirectNodes
      <3> QED
        BY <3>1, <3>2, LeftoverStays
    <2>2. ASSUME NEW n \in SkillNodes, Fail(n) PROVE LeftoverKnown'
      <3>1. UNCHANGED <<turn, solved, reply>>
        BY <2>2 DEF Fail
      <3> QED
        BY <2>2, <3>1, ReturnUnsolved, LeftoverStays
    <2>3. CASE Expire \/ UNCHANGED vars
      BY <2>3, LeftoverStays DEF Expire, vars
    <2> QED
      BY <2>1, <2>2, <2>3, SkillLeftover DEF Next, Step, Finished
  <1>3. VerifiedIsChecked /\ LeftoverKnown =>
          (turn.intent # "problem_solve" => PublishedIsChecked)
    BY DEF VerifiedIsChecked, LeftoverKnown
  <1> QED
    BY <1>1, <1>2, <1>3, RoutesKept, VerdictsKept, VerifiedAreChecked, PTL DEF Spec

-----------------------------------------------------------------------------
(* The failures the graph is built to survive.                             *)

\* While only tolerated skills failed: the solver has decided before its route,
\* the tutor has a reply to word, the judges have an answer to judge, and the
\* render has an answer and a contract.
Survival ==
  failed \subseteq Tolerated =>
    /\ current = "curriculum_route" => solved # "absent"
    /\ current = "curriculum_tutor" => reply # Nothing
    /\ current \in Judging => Answer # "nothing"
    /\ current = "response_render" =>
         (Answer # "nothing" /\ contract # Nothing) \/ turn.route = "exercise_agent"
    /\ current = "END" => rendered # Nothing \/ turn.route = "exercise_agent"

\* Nodes at which Survival asks nothing.
LEMMA SurvivalElsewhere ==
    ASSUME current' \notin {"curriculum_route", "curriculum_tutor", "response_render", "END"},
           current' \notin Judging
    PROVE  Survival'
  BY DEF Survival

\* A skill that leaves an answer and a contract to the render.
LEMMA SurvivalAtRender ==
    ASSUME current' = "response_render", Answer' # "nothing", contract' # Nothing
    PROVE  Survival'
  BY DEF Survival, Judging

LEMMA FailSurvives ==
    ASSUME TypeOK, Routed, VerdictInv, Survival, NEW n \in SkillNodes, Fail(n)
    PROVE  Survival'
  <1> SUFFICES ASSUME failed' \subseteq Tolerated
               PROVE  Survival'
    BY DEF Survival
  <1>1. failed \subseteq Tolerated /\ (InputValid(n) => n \in Tolerated)
    BY DEF Fail
  <1>2. UNCHANGED <<turn, solved, reply, draft, contract, rendered>> /\ current = n
    BY DEF Fail
  <1>3. Answer' = Answer
    BY <1>2 DEF Answer
  <1>4. CASE n = "curriculum_tutor"
    <2>1. reply # Nothing /\ contract = reply /\ reply.text # "nothing"
      BY <1>1, <1>2, <1>4 DEF Survival, VerdictInv, SolverReplied, ReplyKnown
    <2> QED
      BY <1>2, <1>4, <2>1, FailLeads, SurvivalAtRender DEF Answer
  <1>5. CASE n = "response_render"
    <2>1. turn.route = "exercise_agent"
      BY <1>1, <1>2, <1>5 DEF Survival, InputValid, Tolerated
    <2> QED
      BY <1>2, <1>5, <2>1, FailLeads DEF Survival, Judging
  <1>6. CASE n \in {"answer_critic", "answer_repair", "answer_repair_critic",
                    "audit_final_judge", "answer_final_judge"}
    <2>1. Answer # "nothing"
      BY <1>1, <1>2, <1>6 DEF Survival, Judging
    <2>2. current' \in Judging
      BY <1>6, FailLeads DEF Judging
    <2> QED
      BY <1>3, <2>1, <2>2 DEF Survival, Judging
  <1>7. CASE n \in {"turn_router", "input_guard", "question_parse", "query_rewrite",
                    "knowledge_classify", "retrieval_parallel", "rrf_fusion",
                    "rerank_filter", "web_search"}
    <2>1. current' \in {"input_guard", "turn_route", "query_rewrite", "knowledge_classify",
                        "retrieval_parallel", "rrf_fusion", "rerank_filter", "web_search",
                        "no_evidence_route"}
      BY <1>7, FailLeads
    <2> QED
      BY <2>1, SurvivalElsewhere DEF Judging
  <1>8. CASE n = "targeted_fallback"
    BY <1>1, <1>2, <1>8 DEF Survival, Judging, InputValid, Tolerated
  <1>9. CASE n \in {"utility_tool", "general_agent", "scope_response", "exercise_generate",
                    "curriculum_solve", "no_evidence_response", "answer_generate"}
    BY <1>1, <1>9 DEF InputValid, Tolerated
  <1> QED
    BY <1>4, <1>5, <1>6, <1>7, <1>8, <1>9, NodeFacts

LEMMA RouteSurvives ==
    ASSUME TypeOK, Routed, VerdictInv, Survival, Route
    PROVE  Survival'
  <1>1. UNCHANGED <<solved, reply, draft, failed>> /\ Answer' = Answer
    BY DEF Route, Answer
  <1>2. turn = NoTurn \/ turn \in RoutedTurns
    BY DEF TypeOK
  <1>3. CASE current = "turn_route"
    <2>1. current' \in {"question_parse", "curriculum_solve", "exercise_generate",
                        "answer_generate", "scope_response", "utility_tool", "general_agent"}
      BY <1>2, <1>3, RouteLeads, RoutesKnown
    <2> QED
      BY <2>1, SurvivalElsewhere DEF Judging
  <1>4. CASE current = "curriculum_route"
    <2>1. current' = IF solved = "unhandled" THEN "answer_generate" ELSE "curriculum_tutor"
      BY <1>4, RouteLeads
    <2>2. failed \subseteq Tolerated /\ solved # "unhandled" => reply # Nothing
      BY <1>4 DEF Survival, TypeOK, VerdictInv, ReplyKnown
    <2> QED
      BY <1>1, <2>1, <2>2 DEF Survival, Judging
  <1>5. CASE current = "no_evidence_route"
    BY <1>5, RouteLeads, SurvivalElsewhere DEF Judging
  <1>6. CASE current = "audit_failure_route"
    <2>1. current' \in {"audit_final_judge", "answer_final_judge", "targeted_fallback"}
      BY <1>6, RouteLeads
    <2> QED
      BY <1>1, <1>6, <2>1 DEF Survival, Judging
  <1> QED
    BY <1>3, <1>4, <1>5, <1>6, RouteLeads, NodeFacts

\* A response other than Nothing is an answer and a contract.
LEMMA RespondSurvives ==
    ASSUME NEW n, NEW r \in Responses, Respond(n, r), r # Nothing, r.text # "nothing",
           current' = "response_render"
    PROVE  Survival'
  BY SurvivalAtRender DEF Respond, Answer

LEMMA EnvelopeSurvives ==
    ASSUME VerdictInv, NEW type \in Types \ {"nothing"}, NEW ok \in BOOLEAN,
           NEW n \in {"audit_final_judge", "answer_final_judge", "targeted_fallback"},
           Envelope(n, type, ok)
    PROVE  Survival'
  <1>1. n \in SkillNodes
    BY NodeFacts
  <1>2. current' = "response_render"
    BY <1>1, ReturnLeads DEF Envelope
  <1>3. Answer' # "nothing"
    BY DEF Envelope, Answer, VerdictInv, ReplyKnown
  <1>4. contract' # Nothing
    BY DEF Envelope, Nothing
  <1> QED
    BY <1>2, <1>3, <1>4, SurvivalAtRender

LEMMA SkillSurvives ==
    ASSUME TypeOK, Routed, VerdictInv, Survival, Skill
    PROVE  Survival'
  <1>1. CASE TurnRouter \/ Prepare
    <2>1. PICK n \in {"turn_router", "input_guard", "question_parse", "query_rewrite",
                      "knowledge_classify"} : Return(n, "pass")
      BY <1>1 DEF TurnRouter, Prepare
    <2>2. current' \in {"input_guard", "turn_route", "query_rewrite", "knowledge_classify",
                        "retrieval_parallel"}
      BY <2>1, ReturnLeads, NodeFacts
    <2> QED
      BY <2>2, SurvivalElsewhere DEF Judging
  <1>2. CASE CurriculumSolve
    <2>1. /\ current' = "curriculum_route" /\ solved' \in {"handled", "unhandled"}
      BY <1>2, ReturnLeads, NodeFacts DEF CurriculumSolve, Respond
    <2> QED
      BY <2>1 DEF Survival, Judging
  <1>3. CASE CurriculumTutor
    <2>1. PICK text \in {reply.text, "curriculum_tutor"} :
            Respond("curriculum_tutor", [reply EXCEPT !.text = text])
      BY <1>3 DEF CurriculumTutor
    <2>2. reply # Nothing /\ current' = "response_render"
      BY <2>1, ReturnLeads, NodeFacts DEF Respond, Return, InputValid
    <2>3. reply.passed = TRUE /\ text # "nothing"
      BY <2>2 DEF VerdictInv, ReplyKnown
    <2> DEFINE r == [reply EXCEPT !.text = text]
    <2>4. r \in Responses /\ r.passed = TRUE /\ r.text = text
      BY <2>3 DEF TypeOK, Responses, Texts
    <2>5. r # Nothing
      BY <2>4, ResponseTypes
    <2> HIDE DEF r
    <2> QED
      BY <2>1, <2>2, <2>3, <2>4, <2>5, RespondSurvives DEF r
  <1>4. CASE ExerciseGenerate
    <2>1. /\ current = "exercise_generate" /\ current' = "response_render" /\ turn' = turn
      BY <1>4, ReturnLeads, NodeFacts DEF ExerciseGenerate, Respond
    <2>2. turn.route = "exercise_agent"
      BY <2>1 DEF Routed
    <2> QED
      BY <2>1, <2>2 DEF Survival, Judging
  <1>5. CASE DirectReply
    <2>1. PICK n \in DirectNodes :
            Respond(n, [type |-> CASE n = "scope_response"       -> "supported_refusal"
                                   [] n = "no_evidence_response" -> "clarification_required"
                                   [] OTHER                      -> "general_answer",
                        text |-> n, passed |-> TRUE])
      BY <1>5 DEF DirectReply, DirectNodes
    <2> DEFINE type == CASE n = "scope_response"       -> "supported_refusal"
                         [] n = "no_evidence_response" -> "clarification_required"
                         [] OTHER                      -> "general_answer"
               r == [type |-> type, text |-> n, passed |-> TRUE]
    <2>2. type \in Types /\ n \in Texts /\ n # "nothing" /\ n \in SkillNodes
      BY NodeFacts DEF Types, Texts, DirectNodes
    <2>3. r \in Responses /\ r.passed = TRUE /\ r.text = n
      BY <2>2, ResponseTypes
    <2>4. Respond(n, r) /\ r # Nothing
      BY <2>1, <2>3, ResponseTypes
    <2>5. current' = "response_render"
      BY <2>1, <2>2, ReturnLeads DEF Respond, DirectNodes
    <2> HIDE DEF r
    <2> QED
      BY <2>2, <2>3, <2>4, <2>5, RespondSurvives
  <1>6. CASE RetrievalParallel \/ RrfFusion \/ RerankFilter \/ TavilySearch
    <2>1. PICK n \in {"retrieval_parallel", "rrf_fusion", "rerank_filter", "web_search"},
               branch \in {"pass", "fail"} : Return(n, branch)
      BY <1>6 DEF RetrievalParallel, RrfFusion, RerankFilter, TavilySearch, Candidates
    <2>2. n \in SkillNodes
      BY NodeFacts
    <2>3. current' \in {"rrf_fusion", "rerank_filter", "web_search", "no_evidence_route",
                        "answer_generate"}
      BY <2>1, <2>2, ReturnLeads
    <2> QED
      BY <2>3, SurvivalElsewhere DEF Judging
  <1>7. CASE AnswerGenerate
    <2>1. current' = "answer_critic"
      BY <1>7, ReturnLeads, NodeFacts DEF AnswerGenerate, Draft
    <2>2. Answer' # "nothing"
      BY <1>7 DEF AnswerGenerate, Draft, Answer, VerdictInv, ReplyKnown
    <2> QED
      BY <2>1, <2>2 DEF Survival, Judging
  <1>8. CASE AnswerRepair
    <2>1. PICK text \in {"answer_repair", Answer} : Draft("answer_repair", text)
      BY <1>8 DEF AnswerRepair
    <2>2. current' = "answer_repair_critic" /\ Answer # "nothing"
      BY <2>1, ReturnLeads, NodeFacts DEF Draft, Return, InputValid
    <2>3. Answer' # "nothing"
      BY <2>1, <2>2 DEF Draft, Answer
    <2> QED
      BY <2>2, <2>3 DEF Survival, Judging
  <1>9. CASE AnswerCritic
    <2>1. PICK n \in {"answer_critic", "answer_repair_critic"}, ok \in BOOLEAN :
            /\ Return(n, IF ok THEN "pass" ELSE "fail")
            /\ contract' = [type |-> IF ok THEN "verified_answer" ELSE "clarification_required",
                            text |-> "nothing", passed |-> ok]
      BY <1>9 DEF AnswerCritic
    <2>2. n \in SkillNodes
      BY NodeFacts
    <2>3. current' \in {"response_render", "answer_repair", "audit_failure_route"}
      BY <2>1, <2>2, ReturnLeads
    <2>4. Answer # "nothing" /\ Answer' = Answer
      BY <1>9, <2>1 DEF AnswerCritic, Return, InputValid, Answer
    <2>5. contract' # Nothing
      BY <2>1 DEF Nothing
    <2> QED
      BY <2>3, <2>4, <2>5 DEF Survival, Judging
  <1>10. CASE AuditFinalJudge \/ AnswerFinalJudge \/ TargetedFallback
    <2>1. PICK n \in {"audit_final_judge", "answer_final_judge", "targeted_fallback"},
               type \in Types \ {"nothing"}, ok \in BOOLEAN : Envelope(n, type, ok)
      BY <1>10 DEF AuditFinalJudge, AnswerFinalJudge, TargetedFallback, Types, CheckedTypes
    <2> QED
      BY <2>1, EnvelopeSurvives
  <1>11. CASE ResponseRender
    <2>1. current' = "END"
      BY <1>11, ReturnLeads, NodeFacts DEF ResponseRender
    <2>2. rendered' # Nothing
      BY <1>11 DEF ResponseRender, Nothing
    <2> QED
      BY <2>1, <2>2 DEF Survival, Judging
  <1> QED
    BY <1>1, <1>2, <1>3, <1>4, <1>5, <1>6, <1>7, <1>8, <1>9, <1>10, <1>11 DEF Skill

\* Whatever tolerated skills fail in one run, it renders a response.
THEOREM FailuresAreSurvived == Spec => []SurvivesFailures
  <1>1. Init => Survival
    BY DEF Init, Survival, Judging
  <1>2. TypeOK /\ Routed /\ VerdictInv /\ Survival /\ [Next]_vars => Survival'
    <2> SUFFICES ASSUME TypeOK, Routed, VerdictInv, Survival, [Next]_vars PROVE Survival'
      OBVIOUS
    <2>1. CASE Expire \/ UNCHANGED vars
      BY <2>1 DEF Expire, vars, Survival, Answer
    <2> QED
      BY <2>1, RouteSurvives, SkillSurvives, FailSurvives DEF Next, Step, Finished
  <1>3. Survival => SurvivesFailures
    BY DEF Survival, SurvivesFailures
  <1> QED
    BY <1>1, <1>2, <1>3, RoutesKept, VerdictsKept, PTL DEF Spec

-----------------------------------------------------------------------------
(* The length of a run.                                                    *)

\* At most this many nodes are left, whichever branches are taken.
Left ==
  [turn_router          |-> 19, input_guard          |-> 18, turn_route           |-> 17,
   question_parse       |-> 16, query_rewrite        |-> 15, knowledge_classify   |-> 14,
   retrieval_parallel   |-> 13, rrf_fusion           |-> 12, rerank_filter        |-> 11,
   web_search           |-> 10, no_evidence_route    |-> 9,  answer_generate      |-> 8,
   curriculum_solve     |-> 10, curriculum_route     |-> 9,  curriculum_tutor     |-> 2,
   answer_critic        |-> 7,  answer_repair        |-> 6,  answer_repair_critic |-> 5,
   audit_failure_route  |-> 4,  audit_final_judge    |-> 3,  answer_final_judge   |-> 3,
   targeted_fallback    |-> 2,  no_evidence_response |-> 2,  exercise_generate    |-> 2,
   utility_tool         |-> 2,  general_agent        |-> 2,  scope_response       |-> 2,
   response_render      |-> 1,  END                  |-> 0]

\* Every step of the executor, a failure or a branch included, brings the run
\* nearer to its end: no node runs twice, and no more than nineteen run.
StepsDescend == [][Step => Left[current'] < Left[current]]_vars

LEMMA SkillMoves ==
    ASSUME TypeOK, Skill
    PROVE  \E n \in SkillNodes, branch \in {"pass", "fail"} : Return(n, branch)
  <1>1. CASE TurnRouter \/ Prepare \/ RetrievalParallel \/ ResponseRender
    BY <1>1, NodeFacts DEF TurnRouter, Prepare, RetrievalParallel, ResponseRender
  <1>2. CASE CurriculumSolve \/ CurriculumTutor \/ ExerciseGenerate \/ DirectReply
    BY <1>2, NodeFacts
       DEF CurriculumSolve, CurriculumTutor, ExerciseGenerate, DirectReply, Respond
  <1>3. CASE RrfFusion \/ RerankFilter \/ TavilySearch
    BY <1>3, NodeFacts DEF RrfFusion, RerankFilter, TavilySearch, Candidates
  <1>4. CASE AnswerGenerate \/ AnswerRepair
    BY <1>4, NodeFacts DEF AnswerGenerate, AnswerRepair, Draft
  <1>5. CASE AnswerCritic
    BY <1>5, NodeFacts DEF AnswerCritic
  <1>6. CASE AuditFinalJudge \/ AnswerFinalJudge \/ TargetedFallback
    BY <1>6, NodeFacts DEF AuditFinalJudge, AnswerFinalJudge, TargetedFallback, Envelope
  <1> QED
    BY <1>1, <1>2, <1>3, <1>4, <1>5, <1>6 DEF Skill

\* The executor terminates for want of nodes, not of time: the graph, with what
\* choose takes of its branches, has no way back.
THEOREM EveryRunDescends == Spec => StepsDescend
  <1>1. TypeOK /\ Routed /\ Step => Left[current'] < Left[current]
    <2> SUFFICES ASSUME TypeOK, Routed, Step
                 PROVE  Left[current'] < Left[current]
      OBVIOUS
    <2>1. CASE Route
      <3>1. turn = NoTurn \/ turn \in RoutedTurns
        BY DEF TypeOK
      <3>2. CASE current = "turn_route"
        <4>1. current' \in {"question_parse", "curriculum_solve", "exercise_generate",
                            "answer_generate", "scope_response", "utility_tool",
                            "general_agent"}
          BY <2>1, <3>1, <3>2, RouteLeads, RoutesKnown
        <4> QED
          BY <3>2, <4>1 DEF Left
      <3>3. CASE current = "curriculum_route"
        BY <2>1, <3>3, RouteLeads DEF Left
      <3>4. CASE current = "no_evidence_route"
        BY <2>1, <3>4, RouteLeads DEF Left
      <3>5. CASE current = "audit_failure_route"
        BY <2>1, <3>5, RouteLeads DEF Left
      <3> QED
        BY <2>1, <3>2, <3>3, <3>4, <3>5, RouteLeads, NodeFacts
    <2>2. ASSUME NEW n \in SkillNodes, NEW branch \in {"pass", "fail"}, Return(n, branch)
          PROVE  Left[current'] < Left[current]
      BY <2>2, ReturnLeads, NodeFacts DEF Left
    <2>3. ASSUME NEW n \in SkillNodes, Fail(n) PROVE Left[current'] < Left[current]
      BY <2>3, FailLeads, NodeFacts DEF Left
    <2> QED
      BY <2>1, <2>2, <2>3, SkillMoves DEF Step
  <1>2. TypeOK /\ Routed /\ [Next]_vars => [Step => Left[current'] < Left[current]]_vars
    BY <1>1
  <1> QED
    BY <1>2, RoutesKept, PTL DEF Spec, StepsDescend

=============================================================================
