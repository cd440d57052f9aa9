---------------------------- MODULE ResearchGraph ----------------------------
(***************************************************************************)
(* One run of the research graph of app/agents/service.py, from the        *)
(* request to the stored session and evidence ledger and, for a workflow,  *)
(* the work product built from the response.  "node" is the graph node     *)
(* that runs next.  Retrieval, the web service, the answer model and the   *)
(* language-inference model may answer anything; the verdicts on what they *)
(* answer are those of Evidence.                                           *)
(***************************************************************************)
EXTENDS Evidence

CONSTANTS Passages,         \* texts that retrieval may find
          WebPages,         \* texts that the web service may find
          Sentences,        \* sentences that a model may write
          MaxInternal,      \* contexts of one retrieval
          MaxWeb,           \* tavily_max_results, to which the service keeps
          MaxSentences,     \* sentences of one answer
          MaxRetries,       \* tavily_max_retries
          MinScore,         \* research_min_context_score, in percent
          RequiredFields,   \* the fields a workflow demands
          UseNli,           \* is there a language-inference model
          ReusedTrace       \* has an earlier run used the trace id of this one

ASSUME GraphAssumption == /\ MaxInternal \in Nat
                          /\ MaxWeb \in Nat
                          /\ MaxSentences \in Nat
                          /\ MaxRetries \in Nat
                          /\ MinScore \in Nat
                          /\ UseNli \in BOOLEAN
                          /\ ReusedTrace \in BOOLEAN

ASSUME SourcesAssumption == /\ \A p \in Passages : p.source = "internal"
                            /\ \A p \in WebPages : p.source = "web"

ASSUME SentencesAssumption == \A s \in Sentences : IsFiniteSet(s)

VARIABLES node, request, plan, contexts, calls, answer, cited, decisions,
          verification, response, ledger, product

vars == <<node, request, plan, contexts, calls, answer, cited, decisions,
          verification, response, ledger, product>>

\* query: blank, small talk, a question, one that asks for fresh or online
\* sources; web, python: what the request and the settings permit; code: the
\* analysis code; workflow: whether a work product is wanted, and whether
\* its manifest always asks for review.
Request ==
    {r \in [query : {"blank", "greeting", "question", "fresh"},
            web : BOOLEAN, python : BOOLEAN,
            code : {"none", "blank", "valid", "banned", "malformed"},
            workflow : {"none", "lenient", "reviewed"}] :
        r.workflow # "none" => r.code = "none"}

Context == Passages \cup WebPages

NoPlan == [use_web |-> FALSE, use_python |-> FALSE, insufficient |-> FALSE]
NoAnswer == [text |-> "none", sentences |-> << >>, citations |-> {}, status |-> "draft"]
NoVerification == [overall |-> "unsupported", claims |-> << >>, flagged |-> {}]
NoResponse == [ready |-> FALSE, answer |-> NoAnswer, verification |-> NoVerification,
               error |-> FALSE]
NoLedger == [run |-> "none", links |-> {}]
NoProduct == [status |-> "none", findings |-> {}]

\* What blank code prints in the sandbox.
AnalysisOutput == [words |-> {}, span |-> {}, exact |-> TRUE, score |-> 100,
                   source |-> "analysis", anchored |-> FALSE]

Answers == UNION {[1..n -> Sentences] : n \in 0..MaxSentences}

Ranked(found) == \A i, j \in DOMAIN found : i < j => found[i].score >= found[j].score

Init ==
    /\ node = "validate_input"
    /\ request \in Request
    /\ plan = NoPlan
    /\ contexts = << >>
    /\ calls = 0
    /\ answer = NoAnswer
    /\ cited = << >>
    /\ decisions = << >>
    /\ verification = NoVerification
    /\ response = NoResponse
    /\ ledger = IF ReusedTrace THEN [NoLedger EXCEPT !.run = "other"] ELSE NoLedger
    /\ product = NoProduct

-----------------------------------------------------------------------------
(* Routing to the tools. *)

AfterWebSearch(p) == IF p.use_python THEN "python_analysis" ELSE "answer_generation"

\* Mutant: the web is asked whatever the project has.
AfterRetrievalAlwaysWeb(p) == IF p.use_web THEN "web_search" ELSE AfterWebSearch(p)

AfterRetrieval(p) == IF p.use_web /\ p.insufficient THEN "web_search"
                     ELSE AfterWebSearch(p)

ValidateInput ==
    /\ node = "validate_input"
    /\ node' = IF request.query = "blank" THEN "error_handler" ELSE "classify_query"
    /\ UNCHANGED <<request, plan, contexts, calls, answer, cited, decisions,
                   verification, response, ledger, product>>

\* Small talk is answered at once; its reply counts as supported.
ClassifyQuery ==
    /\ node = "classify_query"
    /\ node' = IF request.query = "greeting" THEN "conversational_response"
                                             ELSE "plan_retrieval"
    /\ UNCHANGED <<request, plan, contexts, calls, answer, cited, decisions,
                   verification, response, ledger, product>>

ConversationalResponse ==
    /\ node = "conversational_response"
    /\ answer' = [NoAnswer EXCEPT !.text = "reply", !.status = "supported"]
    /\ verification' = [NoVerification EXCEPT !.overall = "supported"]
    /\ node' = "final_response_formatting"
    /\ UNCHANGED <<request, plan, contexts, calls, cited, decisions, response, ledger,
                   product>>

\* With the rewriting before it, which changes only white space.
PlanRetrieval ==
    /\ node = "plan_retrieval"
    /\ plan' = [NoPlan EXCEPT !.use_web = request.web /\ request.query = "fresh",
                              !.use_python = request.python /\ request.code # "none"]
    /\ node' = "hybrid_retrieval"
    /\ UNCHANGED <<request, contexts, calls, answer, cited, decisions, verification,
                   response, ledger, product>>

HybridRetrieval ==
    /\ node = "hybrid_retrieval"
    /\ \/ \E n \in 0..MaxInternal : \E found \in [1..n -> Passages] :
              /\ Ranked(found)
              /\ contexts' = found
              /\ plan' = [plan EXCEPT !.insufficient =
                                found = << >> \/ found[1].score < MinScore]
              /\ node' = AfterRetrieval(plan')
       \/ /\ node' = "error_handler"
          /\ UNCHANGED <<contexts, plan>>
    /\ UNCHANGED <<request, calls, answer, cited, decisions, verification, response,
                   ledger, product>>

-----------------------------------------------------------------------------
(* The tools. *)

MayRetry(attempt) == attempt < MaxRetries

\* One call of the web service, or none if it is switched off.  Overload and
\* transport errors are retried, after the last attempt they are a failure
\* like any other, which adds no page.  A body that is no JSON raises.
WebSearch ==
    /\ node = "web_search"
    /\ \/ /\ calls = 0
          /\ node' = AfterWebSearch(plan)
          /\ UNCHANGED <<contexts, calls>>
       \/ /\ calls' = calls + 1
          /\ \/ MayRetry(calls) /\ UNCHANGED <<node, contexts>>
             \/ \E n \in 0..MaxWeb : \E pages \in [1..n -> WebPages] :
                   /\ contexts' = contexts \o pages
                   /\ node' = AfterWebSearch(plan)
             \/ node' = "raised" /\ UNCHANGED contexts
    /\ UNCHANGED <<request, plan, answer, cited, decisions, verification, response,
                   ledger, product>>

\* The script given to the interpreter: a header indented by 8, the code by
\* 4 unless it is blank.  dedent takes away the least of these; strip takes
\* the rest from the first line alone, so the header must be left with none.
ScriptParses(code) ==
    LET least == IF code = "blank" THEN 8 ELSE 4 IN 8 - least = 0

\* What the sandbox may come to.  Code that does not parse raises in the
\* validation, and so does a missing interpreter; banned code, a time-out and a
\* failing script print nothing.
Execute(code) ==
    {outcome \in {"printed", "nothing", "raised"} :
        /\ outcome = "printed" => code \in {"blank", "valid"} /\ ScriptParses(code)
        /\ outcome = "nothing" => code \in {"blank", "valid", "banned"}
        /\ outcome = "raised" => code # "banned"}

PythonAnalysis ==
    /\ node = "python_analysis"
    /\ \E outcome \in Execute(request.code) :
          /\ contexts' = IF outcome = "printed" THEN Append(contexts, AnalysisOutput)
                         ELSE contexts
          /\ node' = IF outcome = "raised" THEN "raised" ELSE "answer_generation"
    /\ UNCHANGED <<request, plan, calls, answer, cited, decisions, verification,
                   response, ledger, product>>

-----------------------------------------------------------------------------
(* Generation and verification. *)

\* Whatever the model writes, the citations are the first contexts.  A model
\* that cannot be reached or answers something else than an object raises.
AnswerGeneration ==
    /\ node = "answer_generation"
    /\ \/ \E sentences \in Answers :
              /\ answer' = [text |-> "model", sentences |-> sentences,
                            citations |-> Citations(contexts), status |-> "draft"]
              /\ node' = "claim_extraction"
       \/ node' = "raised" /\ UNCHANGED answer
    /\ UNCHANGED <<request, plan, contexts, calls, cited, decisions, verification,
                   response, ledger, product>>

ClaimExtraction ==
    /\ node = "claim_extraction"
    /\ cited' = [i \in DOMAIN answer.sentences |->
                    NearestCitation(answer.sentences[i], contexts)]
    /\ node' = "deterministic_verification"
    /\ UNCHANGED <<request, plan, contexts, calls, answer, decisions, verification,
                   response, ledger, product>>

\* With the evidence selection before it, which only ranks the contexts.
DeterministicVerification ==
    /\ node = "deterministic_verification"
    /\ decisions' = [i \in DOMAIN answer.sentences |->
                        Decision(answer.sentences[i], cited[i], contexts)]
    /\ node' = "citation_verification"
    /\ UNCHANGED <<request, plan, contexts, calls, answer, cited, verification,
                   response, ledger, product>>

\* Mutant: an answer is generated again until it is supported.
AfterVerificationAgain(overall) ==
    IF overall = "supported" THEN "final_response_formatting" ELSE "answer_generation"

AfterVerification(overall) ==
    IF overall = "supported" THEN "final_response_formatting" ELSE "guarded_response"

\* Flags given by the citation check stay, whatever a decision makes of them.
CitationVerification ==
    /\ node = "citation_verification"
    /\ \E checked \in CitationClaims(answer.sentences, contexts, UseNli) :
           LET claims == ApplyDecisions(checked, decisions)
           IN  verification' = [overall |-> Overall(claims), claims |-> claims,
                                flagged |-> Flagged(checked) \cup Flagged(claims)]
    /\ node' = AfterVerification(verification'.overall)
    /\ UNCHANGED <<request, plan, contexts, calls, answer, cited, decisions, response,
                   ledger, product>>

\* Mutant: the text of the model is kept when its last citation goes.
RefineKeepsText(a, claims) ==
    [a EXCEPT !.citations = Kept(a.citations, claims), !.status = "qualified"]

Refine(a, claims) ==
    LET kept == Kept(a.citations, claims)
    IN  IF kept = {}
        THEN [a EXCEPT !.text = "guarded", !.citations = {},
                       !.status = "insufficient_evidence"]
        ELSE [a EXCEPT !.citations = kept,
                       !.status = IF \E i \in DOMAIN claims :
                                        claims[i].verdict \in {"contradicted", "insufficient"}
                                  THEN "needs_review" ELSE "qualified"]

GuardedResponse ==
    /\ node = "guarded_response"
    /\ answer' = Refine(answer, verification.claims)
    /\ node' = "final_response_formatting"
    /\ UNCHANGED <<request, plan, contexts, calls, cited, decisions, verification,
                   response, ledger, product>>

FinalResponseFormatting ==
    /\ node = "final_response_formatting"
    /\ LET status == IF verification.overall = "supported" THEN "supported"
                     ELSE IF answer.status = "draft" THEN "qualified" ELSE answer.status
       IN  response' = [ready |-> TRUE, answer |-> [answer EXCEPT !.status = status],
                        verification |-> verification, error |-> FALSE]
    /\ node' = "persist_session"
    /\ UNCHANGED <<request, plan, contexts, calls, answer, cited, decisions,
                   verification, ledger, product>>

ErrorHandler ==
    /\ node = "error_handler"
    /\ response' = [ready |-> TRUE, answer |-> [NoAnswer EXCEPT !.text = "guarded"],
                    verification |-> NoVerification, error |-> TRUE]
    /\ node' = "persist_session"
    /\ UNCHANGED <<request, plan, contexts, calls, answer, cited, decisions,
                   verification, ledger, product>>

-----------------------------------------------------------------------------
(* After the graph. *)

PersistSession ==
    /\ node = "persist_session"
    /\ node' \in {"save_ledger", "raised"}
    /\ UNCHANGED <<request, plan, contexts, calls, answer, cited, decisions,
                   verification, response, ledger, product>>

Relation(verdict) == IF verdict = "contradicted" THEN "contradicts" ELSE "supports"

\* Mutant: claims are linked to the citations they were checked with.
LinksOfAllCitations(r, found) ==
    LET claims == r.verification.claims
    IN  {[claim |-> i, relation |-> Relation(claims[i].verdict)] :
            i \in {i \in DOMAIN claims : /\ claims[i].citation # 0
                                         /\ found[claims[i].citation].anchored}}

\* A claim is linked to the anchors of its citation, if the answer kept that.
Links(r, found) ==
    LET claims == r.verification.claims
    IN  {[claim |-> i, relation |-> Relation(claims[i].verdict)] :
            i \in {i \in DOMAIN claims : /\ claims[i].citation \in r.answer.citations
                                         /\ found[claims[i].citation].anchored}}

\* The ledger is keyed by the trace id; failing to write it is only logged.
SaveLedger ==
    /\ node = "save_ledger"
    /\ \/ /\ ledger.run = "none"
          /\ ledger' = [run |-> IF response.error THEN "failed" ELSE "completed",
                        links |-> Links(response, contexts)]
       \/ UNCHANGED ledger
    /\ node' = IF request.workflow = "none" THEN "done" ELSE "build_product"
    /\ UNCHANGED <<request, plan, contexts, calls, answer, cited, decisions,
                   verification, response, product>>

FindingStatus(verdict) ==
    CASE verdict = "supported" -> "supported"
      [] verdict = "partially_supported" -> "needs_review"
      [] verdict = "contradicted" -> "contradicted"
      [] OTHER -> "insufficient"

\* One finding per claim, for the field whose name its text contains, and
\* one per required field that no claim is for.
Findings(r, field) ==
    LET claims == r.verification.claims
    IN  {[field |-> field[i], status |-> FindingStatus(claims[i].verdict),
          evidence |-> claims[i].citation \in r.answer.citations, claim |-> i] :
             i \in DOMAIN claims}
        \cup {[field |-> f, status |-> "missing", evidence |-> FALSE, claim |-> 0] :
                 f \in RequiredFields \ {field[i] : i \in DOMAIN claims}}

\* Mutant: fields that are missing do not ask for a review.
NeedsReviewOfClaims(findings, always) ==
    always \/ \E f \in findings : f.status \notin {"supported", "missing"}

NeedsReview(findings, always) == always \/ \E f \in findings : f.status # "supported"

\* A supported finding without evidence is refused.
BuildProduct ==
    /\ node = "build_product"
    /\ \E field \in [DOMAIN response.verification.claims -> RequiredFields \cup {"claim"}] :
           LET findings == Findings(response, field)
           IN  product' = [findings |-> findings,
                           status |->
                               IF \E f \in findings : f.status = "supported" /\ ~f.evidence
                               THEN "refused"
                               ELSE IF NeedsReview(findings, request.workflow = "reviewed")
                               THEN "needs_review" ELSE "draft"]
    /\ node' = "done"
    /\ UNCHANGED <<request, plan, contexts, calls, answer, cited, decisions,
                   verification, response, ledger>>

-----------------------------------------------------------------------------
Next == \/ ValidateInput \/ ClassifyQuery \/ ConversationalResponse \/ PlanRetrieval
        \/ HybridRetrieval \/ WebSearch \/ PythonAnalysis \/ AnswerGeneration
        \/ ClaimExtraction \/ DeterministicVerification \/ CitationVerification
        \/ GuardedResponse \/ FinalResponseFormatting \/ ErrorHandler
        \/ PersistSession \/ SaveLedger \/ BuildProduct

Spec == Init /\ [][Next]_vars

\* The event loop runs the next node, and what a node waits for has a
\* timeout: the web service, the interpreter and the models.
FairSpec == Spec /\ WF_vars(Next)

-----------------------------------------------------------------------------
Node == {"validate_input", "classify_query", "conversational_response",
         "plan_retrieval", "hybrid_retrieval", "web_search", "python_analysis",
         "answer_generation", "claim_extraction", "deterministic_verification",
         "citation_verification", "guarded_response", "final_response_formatting",
         "error_handler", "persist_session", "save_ledger", "build_product",
         "done", "raised"}

Answer == [text : {"none", "model", "reply", "guarded"}, sentences : Answers,
           citations : SUBSET (1..MaxCitations),
           status : {"draft", "supported", "qualified", "needs_review",
                     "insufficient_evidence"}]

Claim == [citation : 0..MaxCitations, verdict : Verdict]

Verification == [overall : {"supported", "partially_supported", "unsupported"},
                 claims : UNION {[1..n -> Claim] : n \in 0..MaxCitations},
                 flagged : SUBSET (0..MaxCitations)]

\* Every variable keeps its type; in particular the web service is called
\* at most once more than tavily_max_retries.
TypeOK ==
    /\ node \in Node
    /\ request \in Request
    /\ plan \in [use_web : BOOLEAN, use_python : BOOLEAN, insufficient : BOOLEAN]
    /\ \A i \in DOMAIN contexts : contexts[i] \in Context \cup {AnalysisOutput}
    /\ Len(contexts) <= MaxInternal + MaxWeb + 1
    /\ calls \in 0..(MaxRetries + 1)
    /\ answer \in Answer
    /\ Len(cited) \in {0, Len(answer.sentences)}
    /\ \A i \in DOMAIN cited : cited[i] \in 0..MaxCitations
    /\ \A i \in DOMAIN decisions : decisions[i] \in Verdict
    /\ verification \in Verification
    /\ response \in [ready : BOOLEAN, answer : Answer, verification : Verification,
                     error : BOOLEAN]
    /\ ledger.run \in {"none", "other", "completed", "failed"}
    /\ product.status \in {"none", "draft", "needs_review", "refused"}

\* A response that is called supported, other than small talk, has claims,
\* every one is supported, and every citation of the answer is one of them:
\* the status, the verdicts and the citations were not computed at different
\* stages of the same answer.
SupportedIsVerified ==
    response.ready /\ response.answer.status = "supported" /\ response.answer.text # "reply" =>
        LET claims == response.verification.claims
        IN  /\ DOMAIN claims # {}
            /\ \A i \in DOMAIN claims : claims[i].verdict = "supported"
            /\ response.answer.citations = {claims[i].citation : i \in DOMAIN claims}

\* What a model wrote is given only with a citation, and no answer with one that
\* failed its verification: an answer none of whose citations passes is replaced.
AnswerIsGrounded ==
    response.ready =>
        /\ response.answer.text = "model" => response.answer.citations # {}
        /\ \A i \in DOMAIN response.verification.claims :
               response.verification.claims[i].verdict \in Failed =>
                   response.verification.claims[i].citation \notin response.answer.citations

\* A sentence whose critical check failed keeps the answer from being
\* supported, as far as the join by number reaches: the sentence has the
\* number of a citation.
JoinedChecksBlock ==
    response.ready /\ response.answer.status = "supported" =>
        \A i \in DOMAIN decisions \cap DOMAIN response.verification.claims :
            decisions[i] \notin {"contradicted", "insufficient"}

\* The web is asked only if it is permitted, asked for, and what the project
\* has does not suffice; code runs only if it is permitted and given.
ToolsAllowed ==
    /\ (calls > 0 \/ \E i \in DOMAIN contexts : contexts[i].source = "web") =>
           /\ request.web /\ request.query = "fresh"
           /\ \/ contexts = << >>
              \/ contexts[1].source # "internal"
              \/ contexts[1].score < MinScore
    /\ (\E i \in DOMAIN contexts : contexts[i].source = "analysis") =>
           request.python /\ request.code # "none"

\* The ledger of a run agrees with its response: it links only claims that
\* passed, none that contradicts its anchor, and says failed just for an
\* error; a run that raised has none.
LedgerAgrees ==
    ledger.run \in {"completed", "failed"} =>
        /\ node # "raised"
        /\ response.error <=> ledger.run = "failed"
        /\ \A l \in ledger.links :
               /\ response.verification.claims[l.claim].verdict \notin Failed
               /\ l.relation = "supports"

\* Building a product never fails on what the graph returns, and a product
\* that needs no review has every required field supported with evidence.
ProductSound ==
    /\ product.status # "refused"
    /\ product.status = "draft" =>
           /\ response.answer.status = "supported"
           /\ \A f \in RequiredFields :
                  \E g \in product.findings : /\ g.field = f /\ g.status = "supported"
                                              /\ g.evidence

\* Every request ends, in an answer or an exception.
Ends == <>(node \in {"done", "raised"})

-----------------------------------------------------------------------------
(* What the code does not have. *)

\* A failed critical check of any sentence keeps an answer from being supported.
FailedCheckBlocks ==
    response.ready /\ response.answer.status = "supported" =>
        \A i \in DOMAIN decisions : decisions[i] \notin {"contradicted", "insufficient"}

\* No claim passes that the citation check flagged.
FlaggedNotCited ==
    response.ready => response.verification.flagged \cap response.answer.citations = {}

\* Results of the web can be cited.
WebIsCited ==
    response.ready /\ response.answer.text = "model" =>
        \A i \in DOMAIN contexts : contexts[i].source = "web" => i <= MaxCitations

\* What the sandbox contributes is the output of some code.
OutputHasCode ==
    \A i \in DOMAIN contexts : contexts[i].source = "analysis" => request.code # "blank"

\* The ledger under the trace id of a run is that run's.
LedgerIsOwn == node = "done" => ledger.run # "other"
=============================================================================
