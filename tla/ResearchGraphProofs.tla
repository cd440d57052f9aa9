------------------------- MODULE ResearchGraphProofs -------------------------
(***************************************************************************)
(* What the research graph promises about its answers, for every corpus,   *)
(* every model and every web service.                                      *)
(***************************************************************************)
EXTENDS ResearchGraph, FiniteSetTheorems, WellFoundedInduction, TLAPS

\* The nodes between the generation and the verdict.
Verifying == {"claim_extraction", "deterministic_verification", "citation_verification"}

\* Until the verdict, an answer cites the first contexts.
CitesContexts ==
    node \in Verifying => /\ answer.text = "model"
                          /\ answer.citations = Citations(contexts)
                          /\ answer.status = "draft"

\* An answer that passes is not small talk only if its claims are its citations.
Verified(a, v) ==
    v.overall = "supported" /\ a.text # "reply" =>
        /\ DOMAIN v.claims # {}
        /\ \A i \in DOMAIN v.claims : v.claims[i].verdict = "supported"
        /\ a.citations = {v.claims[i].citation : i \in DOMAIN v.claims}

Grounded(a, v) ==
    /\ a.text = "model" => a.citations # {}
    /\ \A i \in DOMAIN v.claims :
           v.claims[i].verdict \in Failed => v.claims[i].citation \notin a.citations

\* Only the verdict, or small talk, makes an answer supported.
StatusEarned(a, v) ==
    a.status = "supported" /\ a.text # "reply" => v.overall = "supported"

BeforeFormatting ==
    node = "final_response_formatting" =>
        /\ Verified(answer, verification)
        /\ Grounded(answer, verification)
        /\ StatusEarned(answer, verification)

BeforeGuard == node = "guarded_response" => verification.overall # "supported"

Responded ==
    response.ready => /\ Verified(response.answer, response.verification)
                      /\ Grounded(response.answer, response.verification)
                      /\ StatusEarned(response.answer, response.verification)

AnswerShape == DOMAIN answer = {"text", "sentences", "citations", "status"}

AnswerInv == AnswerShape /\ CitesContexts /\ BeforeFormatting /\ BeforeGuard /\ Responded

-----------------------------------------------------------------------------
\* A verdict that passes was given by the citation check: the decisions on the
\* sentences can only replace it by another one that does not.
LEMMA DecisionsNeverSupport ==
    ASSUME NEW claims, NEW verdicts, NEW i \in DOMAIN claims,
           ApplyDecisions(claims, verdicts)[i].verdict = "supported",
           claims[i] \in [citation : 0..MaxCitations, verdict : Verdict]
    PROVE  claims[i].verdict = "supported"
  BY DEF ApplyDecisions

\* Applying verdicts keeps the claims and their citations.
LEMMA DecisionsKeepCitations ==
    ASSUME NEW claims, NEW verdicts
    PROVE  /\ DOMAIN ApplyDecisions(claims, verdicts) = DOMAIN claims
           /\ \A i \in DOMAIN claims :
                  claims[i] \in [citation : 0..MaxCitations, verdict : Verdict] =>
                      ApplyDecisions(claims, verdicts)[i].citation = claims[i].citation
  BY DEF ApplyDecisions

\* What the citation check claims: one claim per citation, in order, or a claim
\* that fails.
LEMMA ClaimsOfCheck ==
    ASSUME NEW sentences, NEW found, NEW model \in BOOLEAN,
           NEW claims \in CitationClaims(sentences, found, model)
    PROVE  \/ /\ DOMAIN claims = Citations(found)
              /\ \A i \in DOMAIN claims : /\ claims[i] \in Claim
                                          /\ claims[i].citation = i
           \/ /\ Citations(found) = {}
              /\ \A i \in DOMAIN claims : /\ claims[i] \in Claim
                                          /\ claims[i].verdict = "insufficient"
<1>1. Citations(found) \subseteq 1..MaxCitations
  BY MaxCitationsAssumption DEF Citations
<1>2. CASE Citations(found) # {}
  BY <1>1, <1>2, MaxCitationsAssumption DEF CitationClaims, Claim
<1>3. CASE Citations(found) = {}
  <2>1. claims = << >> \/ claims = <<[citation |-> 0, verdict |-> "insufficient"]>>
    BY <1>3 DEF CitationClaims
  <2>2. \A i \in DOMAIN claims : claims[i] = [citation |-> 0, verdict |-> "insufficient"]
    BY <2>1
  <2>3. QED
    BY <1>3, <2>2, MaxCitationsAssumption DEF Claim, Verdict
<1>4. QED
  BY <1>2, <1>3

-----------------------------------------------------------------------------
\* A run starts without an answer.
LEMMA InitAnswers == Init => AnswerInv
  BY DEF Init, AnswerInv, AnswerShape, CitesContexts, BeforeFormatting, BeforeGuard,
         Responded, Verifying, NoResponse, NoAnswer

\* The verdict on an answer establishes what formatting relies on.
LEMMA VerdictStep == AnswerInv /\ CitationVerification => AnswerInv'
<1> SUFFICES ASSUME AnswerInv, CitationVerification PROVE AnswerInv'
  OBVIOUS
<1>1. PICK checked \in CitationClaims(answer.sentences, contexts, UseNli) :
          verification' = [overall |-> Overall(ApplyDecisions(checked, decisions)),
                           claims |-> ApplyDecisions(checked, decisions),
                           flagged |-> Flagged(checked)
                                \cup Flagged(ApplyDecisions(checked, decisions))]
  BY DEF CitationVerification
<1> DEFINE claims == ApplyDecisions(checked, decisions)
<1>2. /\ node = "citation_verification"
      /\ node' = AfterVerification(verification'.overall)
      /\ UNCHANGED <<contexts, answer, response>>
      /\ answer.text = "model"
      /\ answer.citations = Citations(contexts)
      /\ answer.status = "draft"
  BY DEF CitationVerification, AnswerInv, CitesContexts, Verifying
<1>3. /\ verification'.overall = Overall(claims)
      /\ verification'.claims = claims
  BY <1>1
<1>4. DOMAIN claims = DOMAIN checked
  BY DecisionsKeepCitations
<1>5. ASSUME Overall(claims) = "supported"
      PROVE  /\ DOMAIN claims # {}
             /\ \A i \in DOMAIN claims : claims[i].verdict = "supported"
             /\ answer.citations = {claims[i].citation : i \in DOMAIN claims}
  <2>1. /\ DOMAIN claims # {}
        /\ \A i \in DOMAIN claims : claims[i].verdict = "supported"
    BY <1>5 DEF Overall
  <2>2. \A i \in DOMAIN checked : checked[i] \in Claim
    BY ClaimsOfCheck, GraphAssumption
  <2>3. \A i \in DOMAIN checked : checked[i].verdict = "supported"
    BY <1>4, <2>1, <2>2, DecisionsNeverSupport DEF Claim
  <2>4. /\ DOMAIN checked = Citations(contexts)
        /\ \A i \in DOMAIN checked : checked[i].citation = i
    BY <1>4, <2>1, <2>3, ClaimsOfCheck, GraphAssumption
  <2>5. \A i \in DOMAIN claims : claims[i].citation = i
    BY <1>4, <2>2, <2>4, DecisionsKeepCitations DEF Claim
  <2>6. QED
    BY <1>2, <1>4, <2>1, <2>4, <2>5
<1>6. AnswerShape' /\ CitesContexts' /\ BeforeGuard'
  BY <1>2 DEF AfterVerification, AnswerInv, AnswerShape, CitesContexts, BeforeGuard,
              Verifying
<1>7. Responded'
  BY <1>2 DEF AnswerInv, Responded
<1>8. BeforeFormatting'
  <2> SUFFICES ASSUME node' = "final_response_formatting" PROVE BeforeFormatting'
    BY DEF BeforeFormatting
  <2>1. Overall(claims) = "supported"
    BY <1>2, <1>3 DEF AfterVerification
  <2>2. /\ DOMAIN claims # {}
        /\ \A i \in DOMAIN claims : claims[i].verdict = "supported"
        /\ answer.citations = {claims[i].citation : i \in DOMAIN claims}
    BY <1>5, <2>1
  <2> HIDE DEF claims
  <2>3. Verified(answer, verification)' /\ StatusEarned(answer, verification)'
    BY <1>2, <1>3, <2>1, <2>2 DEF Verified, StatusEarned
  <2>4. Grounded(answer, verification)'
    BY <1>2, <1>3, <2>2 DEF Grounded, Failed
  <2>5. QED
    BY <2>3, <2>4 DEF BeforeFormatting
<1>9. QED
  BY <1>6, <1>7, <1>8 DEF AnswerInv


\* Refining drops every citation that failed, and the text with the last one.
LEMMA GuardStep == AnswerInv /\ GuardedResponse => AnswerInv'
<1> SUFFICES ASSUME AnswerInv, GuardedResponse PROVE AnswerInv'
  OBVIOUS
<1>1. /\ node = "guarded_response"
      /\ node' = "final_response_formatting"
      /\ answer' = Refine(answer, verification.claims)
      /\ UNCHANGED <<contexts, verification, response>>
      /\ verification.overall # "supported"
  BY DEF GuardedResponse, AnswerInv, BeforeGuard
<1>2. answer'.text = "model" => answer'.citations # {}
  BY <1>1 DEF Refine
<1>3. answer'.citations \cap Flagged(verification.claims) = {}
  BY <1>1 DEF Refine, Kept
<1>4. Grounded(answer, verification)'
  BY <1>1, <1>2, <1>3 DEF Grounded, Flagged
<1>5. Verified(answer, verification)'
  BY <1>1 DEF Verified
<1>6. StatusEarned(answer, verification)'
  BY <1>1 DEF StatusEarned, Refine
<1>7. AnswerShape'
  BY <1>1 DEF Refine, AnswerInv, AnswerShape
<1>8. QED
  BY <1>1, <1>4, <1>5, <1>6, <1>7
     DEF AnswerInv, CitesContexts, BeforeFormatting, BeforeGuard, Responded, Verifying

\* Formatting hands on what was established, and never calls an answer
\* supported that is not.
LEMMA FormatStep == AnswerInv /\ FinalResponseFormatting => AnswerInv'
<1> SUFFICES ASSUME AnswerInv, FinalResponseFormatting PROVE AnswerInv'
  OBVIOUS
<1> DEFINE status == IF verification.overall = "supported" THEN "supported"
                     ELSE IF answer.status = "draft" THEN "qualified" ELSE answer.status
<1>1. /\ node = "final_response_formatting"
      /\ node' = "persist_session"
      /\ UNCHANGED <<answer, verification>>
      /\ DOMAIN answer = {"text", "sentences", "citations", "status"}
      /\ response' = [ready |-> TRUE, answer |-> [answer EXCEPT !.status = status],
                      verification |-> verification, error |-> FALSE]
  BY DEF FinalResponseFormatting, AnswerInv, AnswerShape
<1>2. /\ Verified(answer, verification)
      /\ Grounded(answer, verification)
      /\ StatusEarned(answer, verification)
  BY <1>1 DEF AnswerInv, BeforeFormatting
<1>3. /\ response'.answer.text = answer.text
      /\ response'.answer.citations = answer.citations
      /\ response'.verification = verification
  BY <1>1
<1>4. Verified(response.answer, response.verification)'
  BY <1>2, <1>3 DEF Verified
<1>5. Grounded(response.answer, response.verification)'
  BY <1>2, <1>3 DEF Grounded
<1>6. StatusEarned(response.answer, response.verification)'
  BY <1>1, <1>2 DEF StatusEarned
<1>7. QED
  BY <1>1, <1>4, <1>5, <1>6
     DEF AnswerInv, AnswerShape, CitesContexts, BeforeFormatting, BeforeGuard, Responded,
         Verifying


\* Small talk and errors carry no claims; the rest moves answers, verdicts and
\* responses nowhere but towards the next node.
LEMMA OtherSteps ==
    ASSUME AnswerInv, [Next]_vars,
           ~ CitationVerification, ~ GuardedResponse, ~ FinalResponseFormatting
    PROVE  AnswerInv'
<1> USE DEF AnswerInv, AnswerShape, CitesContexts, BeforeFormatting, BeforeGuard, Responded,
            Verifying
<1>1. CASE ConversationalResponse
  BY <1>1 DEF ConversationalResponse, NoAnswer, NoVerification, Verified, Grounded,
              StatusEarned
<1>2. CASE AnswerGeneration
  BY <1>2 DEF AnswerGeneration
<1>3. CASE ErrorHandler
  BY <1>3 DEF ErrorHandler, NoAnswer, NoVerification, Verified, Grounded, StatusEarned
<1>4. CASE HybridRetrieval \/ WebSearch \/ PythonAnalysis
  BY <1>4 DEF HybridRetrieval, WebSearch, PythonAnalysis, AfterRetrieval, AfterWebSearch
<1>5. CASE ClaimExtraction \/ DeterministicVerification
  BY <1>5 DEF ClaimExtraction, DeterministicVerification
<1>6. CASE ValidateInput \/ ClassifyQuery \/ PlanRetrieval
  BY <1>6 DEF ValidateInput, ClassifyQuery, PlanRetrieval
<1>7. CASE PersistSession \/ SaveLedger \/ BuildProduct
  BY <1>7 DEF PersistSession, SaveLedger, BuildProduct
<1>8. CASE UNCHANGED vars
  BY <1>8 DEF vars
<1>9. QED
  BY <1>1, <1>2, <1>3, <1>4, <1>5, <1>6, <1>7, <1>8 DEF Next

\* The invariant about answers.
LEMMA AnswerInvInductive == Spec => []AnswerInv
<1>1. AnswerInv /\ [Next]_vars => AnswerInv'
  BY VerdictStep, GuardStep, FormatStep, OtherSteps
<1>2. QED
  BY InitAnswers, <1>1, PTL DEF Spec

\* An answer of the model has a citation, and none that failed.
THEOREM AnswersAreGrounded == Spec => []AnswerIsGrounded
<1>1. AnswerInv => AnswerIsGrounded
  BY DEF AnswerInv, Responded, Grounded, AnswerIsGrounded
<1>2. QED
  BY AnswerInvInductive, <1>1, PTL

\* A supported answer rests on citations that are all supported.
THEOREM SupportIsVerified == Spec => []SupportedIsVerified
<1>1. AnswerInv => SupportedIsVerified
  BY DEF AnswerInv, Responded, Verified, StatusEarned, SupportedIsVerified
<1>2. QED
  BY AnswerInvInductive, <1>1, PTL


-----------------------------------------------------------------------------
(* The tools. *)

Source(i) == contexts[i].source

Insufficient == \/ contexts = << >>
                \/ Source(1) # "internal"
                \/ contexts[1].score < MinScore

ContextsTyped == /\ contexts \in Seq(Context \cup {AnalysisOutput})
                 /\ calls \in Nat

PlanPermitted ==
    /\ plan \in [use_web : BOOLEAN, use_python : BOOLEAN, insufficient : BOOLEAN]
    /\ plan.use_web => request.web /\ request.query = "fresh"
    /\ plan.use_python => request.python /\ request.code # "none"

ToolNodes ==
    /\ node \in {"plan_retrieval", "hybrid_retrieval"} => contexts = << >> /\ calls = 0
    /\ node \in {"validate_input", "classify_query"} => contexts = << >> /\ calls = 0
    /\ node = "web_search" => plan.use_web /\ Insufficient
    /\ node = "python_analysis" => plan.use_python

WebPermitted ==
    (calls > 0 \/ \E i \in DOMAIN contexts : Source(i) = "web") =>
        request.web /\ request.query = "fresh" /\ Insufficient

AnalysisPermitted ==
    (\E i \in DOMAIN contexts : Source(i) = "analysis") =>
        request.python /\ request.code # "none"

ToolInv ==
    ContextsTyped /\ PlanPermitted /\ ToolNodes /\ WebPermitted /\ AnalysisPermitted

\* What the tools add goes behind what is there.
LEMMA Appended ==
    ASSUME ContextsTyped, NEW c \in Context \cup {AnalysisOutput},
           contexts' = Append(contexts, c), c.source # "internal"
    PROVE  /\ contexts' \in Seq(Context \cup {AnalysisOutput})
           /\ Insufficient => Insufficient'
           /\ \A i \in DOMAIN contexts' :
                  \/ i \in DOMAIN contexts /\ Source(i)' = Source(i)
                  \/ Source(i)' = c.source
<1>1. /\ contexts \in Seq(Context \cup {AnalysisOutput})
      /\ contexts' \in Seq(Context \cup {AnalysisOutput})
      /\ Len(contexts') = Len(contexts) + 1
      /\ \A i \in 1..Len(contexts) : contexts'[i] = contexts[i]
      /\ contexts'[Len(contexts) + 1] = c
  BY DEF ContextsTyped
<1>2. CASE contexts = << >>
  BY <1>1, <1>2 DEF Insufficient, Source
<1>3. CASE contexts # << >>
  BY <1>1, <1>3 DEF Insufficient, Source
<1>4. QED
  BY <1>2, <1>3

\* So does a list of them.
LEMMA Concatenated ==
    ASSUME ContextsTyped, NEW n \in Nat, NEW pages \in [1..n -> Context],
           contexts' = contexts \o pages, \A i \in 1..n : pages[i].source = "web"
    PROVE  /\ contexts' \in Seq(Context \cup {AnalysisOutput})
           /\ Insufficient => Insufficient'
           /\ \A i \in DOMAIN contexts' :
                  \/ i \in DOMAIN contexts /\ Source(i)' = Source(i)
                  \/ Source(i)' = "web"
<1>1. /\ contexts \in Seq(Context \cup {AnalysisOutput})
      /\ pages \in Seq(Context \cup {AnalysisOutput}) /\ Len(pages) = n
  BY DEF ContextsTyped
<1>2. /\ contexts' \in Seq(Context \cup {AnalysisOutput})
      /\ Len(contexts') = Len(contexts) + n
      /\ \A i \in 1..Len(contexts) : contexts'[i] = contexts[i]
      /\ \A i \in Len(contexts) + 1..Len(contexts) + n :
             contexts'[i] = pages[i - Len(contexts)]
  BY <1>1
<1>3. /\ DOMAIN contexts = 1..Len(contexts) /\ DOMAIN contexts' = 1..Len(contexts) + n
      /\ Len(contexts) \in Nat
  BY <1>1, <1>2
<1>4. ASSUME NEW i \in 1..Len(contexts) + n, i \notin 1..Len(contexts)
      PROVE  contexts'[i].source = "web"
  <2>1. i - Len(contexts) \in 1..n /\ i \in Len(contexts) + 1..Len(contexts) + n
    BY <1>3, <1>4
  <2>2. QED
    BY <1>2, <2>1
<1>5. \A i \in DOMAIN contexts' :
          \/ i \in DOMAIN contexts /\ Source(i)' = Source(i)
          \/ Source(i)' = "web"
  BY <1>2, <1>3, <1>4 DEF Source
<1>6. Insufficient => Insufficient'
  <2>1. CASE contexts = << >>
    <3>1. contexts' = << >> \/ contexts'[1].source = "web"
      BY <2>1, <1>2, <1>3, <1>4
    <3>2. QED
      BY <3>1 DEF Insufficient, Source
  <2>2. CASE contexts # << >>
    <3>1. 1 \in 1..Len(contexts)
      BY <2>2, <1>1, <1>3
    <3>2. contexts'[1] = contexts[1]
      BY <3>1, <1>2
    <3>3. QED
      BY <2>2, <3>2 DEF Insufficient, Source
  <2>3. QED
    BY <2>1, <2>2
<1>7. QED
  BY <1>2, <1>5, <1>6

\* A run starts without contexts.
LEMMA InitTools == Init => ToolInv
  BY DEF Init, NoPlan, ToolInv, ContextsTyped, PlanPermitted, ToolNodes, WebPermitted,
         AnalysisPermitted

\* The plan permits what the request permits.
LEMMA PlanStep == ToolInv /\ PlanRetrieval => ToolInv'
  BY DEF PlanRetrieval, NoPlan, ToolInv, ContextsTyped, PlanPermitted, ToolNodes,
         WebPermitted, AnalysisPermitted, Insufficient, Source

\* Retrieval adds internal contexts, then the route looks at them.
LEMMA RetrievalStep == ToolInv /\ HybridRetrieval => ToolInv'
<1> SUFFICES ASSUME ToolInv, HybridRetrieval PROVE ToolInv'
  OBVIOUS
<1>1. /\ node = "hybrid_retrieval"
      /\ contexts = << >>
      /\ calls = 0
      /\ UNCHANGED <<request, calls>>
  BY DEF HybridRetrieval, ToolInv, ToolNodes
<1>2. CASE node' = "error_handler" /\ UNCHANGED <<contexts, plan>>
  BY <1>1, <1>2 DEF ToolInv, ContextsTyped, PlanPermitted, ToolNodes, WebPermitted,
                    AnalysisPermitted, Insufficient, Source
<1>3. ASSUME NEW n \in 0..MaxInternal, NEW found \in [1..n -> Passages],
             contexts' = found,
             plan' = [plan EXCEPT !.insufficient =
                            found = << >> \/ found[1].score < MinScore],
             node' = AfterRetrieval(plan')
      PROVE  ToolInv'
  <2>1. /\ contexts' \in Seq(Context \cup {AnalysisOutput})
        /\ \A i \in DOMAIN contexts' : Source(i)' = "internal"
    BY <1>3, SourcesAssumption, GraphAssumption DEF Context, Source
  <2>2. PlanPermitted'
    BY <1>1, <1>3 DEF ToolInv, PlanPermitted
  <2>3. plan'.insufficient => Insufficient'
    BY <1>3 DEF Insufficient, ToolInv, PlanPermitted
  <2>4. ToolNodes'
    BY <1>3, <2>2, <2>3 DEF ToolNodes, AfterRetrieval, AfterWebSearch
  <2>5. QED
    BY <1>1, <2>1, <2>2, <2>4 DEF ToolInv, ContextsTyped, WebPermitted, AnalysisPermitted
<1>4. QED
  BY <1>2, <1>3 DEF HybridRetrieval

\* The web adds its contexts behind the internal ones.
LEMMA SearchStep == ToolInv /\ WebSearch => ToolInv'
<1> SUFFICES ASSUME ToolInv, WebSearch PROVE ToolInv'
  OBVIOUS
<1>1. /\ node = "web_search"
      /\ UNCHANGED <<request, plan>>
      /\ plan.use_web
      /\ Insufficient
      /\ request.web /\ request.query = "fresh"
  BY DEF WebSearch, ToolInv, ToolNodes, PlanPermitted
<1>2. node' \in {"web_search", "python_analysis", "answer_generation", "raised"}
  BY <1>1 DEF WebSearch, AfterWebSearch
<1>3. node' = "python_analysis" => plan.use_python
  BY <1>1 DEF WebSearch, AfterWebSearch
<1>4. calls' \in Nat
  BY DEF WebSearch, ToolInv, ContextsTyped
<1>5. CASE UNCHANGED contexts
  BY <1>1, <1>2, <1>3, <1>4, <1>5
     DEF ToolInv, ContextsTyped, PlanPermitted, ToolNodes, WebPermitted, AnalysisPermitted,
         Insufficient, Source
<1>6. ASSUME NEW n \in 0..MaxWeb, NEW pages \in [1..n -> WebPages],
             contexts' = contexts \o pages
      PROVE  ToolInv'
  <2>1. n \in Nat /\ pages \in [1..n -> Context] /\ \A i \in 1..n : pages[i].source = "web"
    BY SourcesAssumption, GraphAssumption DEF Context
  <2>2. /\ contexts' \in Seq(Context \cup {AnalysisOutput})
        /\ Insufficient'
        /\ \A i \in DOMAIN contexts' :
               \/ i \in DOMAIN contexts /\ Source(i)' = Source(i)
               \/ Source(i)' = "web"
    BY <1>1, <1>6, <2>1, Concatenated DEF ToolInv
  <2>3. QED
    BY <1>1, <1>2, <1>3, <1>4, <2>2
       DEF ToolInv, ContextsTyped, PlanPermitted, ToolNodes, WebPermitted,
           AnalysisPermitted
<1>7. QED
  BY <1>5, <1>6 DEF WebSearch

\* The interpreter adds its output last.
LEMMA AnalysisStep == ToolInv /\ PythonAnalysis => ToolInv'
<1> SUFFICES ASSUME ToolInv, PythonAnalysis PROVE ToolInv'
  OBVIOUS
<1>1. /\ node = "python_analysis"
      /\ node' \in {"answer_generation", "raised"}
      /\ UNCHANGED <<request, plan, calls>>
      /\ request.python /\ request.code # "none"
  BY DEF PythonAnalysis, ToolInv, ToolNodes, PlanPermitted
<1>2. CASE UNCHANGED contexts
  BY <1>1, <1>2 DEF ToolInv, ContextsTyped, PlanPermitted, ToolNodes, WebPermitted,
                    AnalysisPermitted, Insufficient, Source
<1>3. CASE contexts' = Append(contexts, AnalysisOutput)
  <2>1. AnalysisOutput.source = "analysis"
    BY DEF AnalysisOutput
  <2>2. /\ contexts' \in Seq(Context \cup {AnalysisOutput})
        /\ Insufficient => Insufficient'
        /\ \A i \in DOMAIN contexts' :
               \/ i \in DOMAIN contexts /\ Source(i)' = Source(i)
               \/ Source(i)' = "analysis"
    BY <1>3, <2>1, Appended DEF ToolInv
  <2>3. QED
    BY <1>1, <2>2 DEF ToolInv, ContextsTyped, PlanPermitted, ToolNodes, WebPermitted,
                      AnalysisPermitted
<1>4. QED
  BY <1>2, <1>3 DEF PythonAnalysis

\* No other step touches the contexts, or leads to a tool.
LEMMA StepsWithoutTools ==
    ASSUME ToolInv, [Next]_vars,
           ~ PlanRetrieval, ~ HybridRetrieval, ~ WebSearch, ~ PythonAnalysis
    PROVE  ToolInv'
<1>1. UNCHANGED <<request, plan, contexts, calls>>
  BY DEF Next, vars, ValidateInput, ClassifyQuery, ConversationalResponse,
         AnswerGeneration, ClaimExtraction, DeterministicVerification,
         CitationVerification, GuardedResponse, FinalResponseFormatting, ErrorHandler,
         PersistSession, SaveLedger, BuildProduct
<1>2. \/ node' \in {"classify_query", "plan_retrieval"} /\ contexts = << >> /\ calls = 0
      \/ node' \notin {"validate_input", "classify_query", "plan_retrieval",
                       "hybrid_retrieval", "web_search", "python_analysis"}
      \/ node' = node
  BY DEF Next, vars, ToolInv, ToolNodes, ValidateInput, ClassifyQuery,
         ConversationalResponse, AnswerGeneration, ClaimExtraction,
         DeterministicVerification, CitationVerification, AfterVerification,
         GuardedResponse, FinalResponseFormatting, ErrorHandler, PersistSession,
         SaveLedger, BuildProduct
<1>3. QED
  BY <1>1, <1>2 DEF ToolInv, ContextsTyped, PlanPermitted, ToolNodes, WebPermitted,
                    AnalysisPermitted, Insufficient, Source

\* Whatever retrieval and the web return, tools run only where the request and
\* the contexts of the project let them.
THEOREM ToolsAreAllowed == Spec => []ToolsAllowed
<1>1. ToolInv /\ [Next]_vars => ToolInv'
  BY PlanStep, RetrievalStep, SearchStep, AnalysisStep, StepsWithoutTools
<1>2. ToolInv => ToolsAllowed
  BY DEF ToolInv, WebPermitted, AnalysisPermitted, Insufficient, Source, ToolsAllowed
<1>3. QED
  BY InitTools, <1>1, <1>2, PTL DEF Spec

-----------------------------------------------------------------------------
(***************************************************************************)
(* What becomes of a response: the ledger and the work product.  Sound is  *)
(* what the claims of an answer have to do with the decisions on its       *)
(* sentences and with the citations it keeps.                              *)
(***************************************************************************)
Past == {"persist_session", "save_ledger", "build_product", "done", "raised"}

DecisionsJoined(v) ==
    v.overall = "supported" =>
        \A i \in DOMAIN decisions \cap DOMAIN v.claims :
            decisions[i] \notin {"contradicted", "insufficient"}

SupportKept(a, v) ==
    \A i \in DOMAIN v.claims :
        v.claims[i].verdict = "supported" => v.claims[i].citation \in a.citations

SupportJudged(v) ==
    DOMAIN v.claims # {} /\ (\A i \in DOMAIN v.claims : v.claims[i].verdict = "supported")
        => v.overall = "supported"

Sound(a, v) == /\ DecisionsJoined(v)
               /\ SupportKept(a, v)
               /\ SupportJudged(v)
               /\ a.text = "reply" => DOMAIN v.claims = {}

\* No claim shares the citation of one that passed.
Unshared(v) ==
    \A i, j \in DOMAIN v.claims :
        v.claims[i].verdict = "supported" /\ v.claims[j].citation = v.claims[i].citation
            => i = j

OutcomeInv ==
    /\ response.ready => /\ node \in Past
                         /\ Sound(response.answer, response.verification)
                         /\ response.error \in BOOLEAN
                         /\ response.verification.overall = "supported" =>
                                response.answer.status = "supported"
    /\ node \in {"persist_session", "save_ledger", "build_product"} => response.ready
    /\ node \in {"guarded_response", "final_response_formatting"} =>
           Sound(answer, verification) /\ Unshared(verification)

\* A run starts without a response.
LEMMA InitOutcome == Init => OutcomeInv
  BY DEF Init, OutcomeInv, NoResponse, Past

\* The verdict: what it calls supported no decision contradicts, and what
\* passes is cited under a number of its own.
LEMMA VerdictIsSound ==
    ASSUME AnswerInv, OutcomeInv, CitationVerification
    PROVE  OutcomeInv'
<1>1. PICK checked \in CitationClaims(answer.sentences, contexts, UseNli) :
          verification' = [overall |-> Overall(ApplyDecisions(checked, decisions)),
                           claims |-> ApplyDecisions(checked, decisions),
                           flagged |-> Flagged(checked) \cup
                                           Flagged(ApplyDecisions(checked, decisions))]
  BY DEF CitationVerification
<1> DEFINE claims == ApplyDecisions(checked, decisions)
<1>2. /\ node = "citation_verification"
      /\ node' \in {"guarded_response", "final_response_formatting"}
      /\ UNCHANGED <<answer, decisions, response>>
      /\ answer.text = "model" /\ answer.citations = Citations(contexts)
      /\ verification'.claims = claims /\ verification'.overall = Overall(claims)
  BY <1>1 DEF CitationVerification, AfterVerification, AnswerInv, CitesContexts, Verifying
<1>3. /\ DOMAIN claims = DOMAIN checked
      /\ \A i \in DOMAIN checked : checked[i] \in Claim
      /\ \A i \in DOMAIN checked : claims[i].citation = checked[i].citation
      /\ \A i \in DOMAIN checked : claims[i].verdict = "supported" =>
                                       checked[i].verdict = "supported"
  <2>1. \A i \in DOMAIN checked : checked[i] \in Claim
    BY ClaimsOfCheck, GraphAssumption
  <2>2. QED
    BY <2>1, DecisionsKeepCitations, DecisionsNeverSupport DEF Claim
<1>4. \A i \in DOMAIN checked : checked[i].verdict = "supported" =>
          i \in Citations(contexts) /\ \A j \in DOMAIN checked : checked[j].citation = j
  BY ClaimsOfCheck, GraphAssumption
<1>5. DecisionsJoined(verification)'
  <2> SUFFICES ASSUME Overall(claims) = "supported",
                      NEW i \in DOMAIN decisions \cap DOMAIN claims,
                      decisions[i] \in {"contradicted", "insufficient"}
               PROVE  FALSE
    BY <1>2 DEF DecisionsJoined
  <2>1. claims[i].verdict = "supported"
    BY DEF Overall
  <2>2. claims[i] = [checked[i] EXCEPT !.verdict = decisions[i]]
    BY <1>3 DEF ApplyDecisions
  <2>3. claims[i].verdict = decisions[i]
    BY <1>3, <2>2 DEF Claim
  <2>4. QED
    BY <2>1, <2>3
<1> HIDE DEF claims
<1>6. SupportKept(answer, verification)' /\ Unshared(verification)'
  BY <1>2, <1>3, <1>4 DEF SupportKept, Unshared
<1>7. SupportJudged(verification)'
  BY <1>2 DEF SupportJudged, Overall
<1>8. QED
  BY <1>2, <1>5, <1>6, <1>7 DEF OutcomeInv, Sound, Past

\* Refining takes the failed citations only, so what passed stays cited.
LEMMA GuardIsSound ==
    ASSUME AnswerInv, OutcomeInv, GuardedResponse
    PROVE  OutcomeInv'
<1>1. /\ node = "guarded_response" /\ node' = "final_response_formatting"
      /\ answer' = Refine(answer, verification.claims)
      /\ UNCHANGED <<decisions, verification, response>>
      /\ Sound(answer, verification) /\ Unshared(verification)
      /\ DOMAIN answer = {"text", "sentences", "citations", "status"}
  BY DEF GuardedResponse, OutcomeInv, AnswerInv, AnswerShape
<1>2. /\ answer'.citations = Kept(answer.citations, verification.claims)
      /\ answer'.text = "reply" => answer.text = "reply"
  BY <1>1 DEF Refine
<1>3. SupportKept(answer, verification)'
  <2> SUFFICES ASSUME NEW i \in DOMAIN verification.claims,
                      verification.claims[i].verdict = "supported"
               PROVE  verification.claims[i].citation \in answer'.citations
    BY <1>1 DEF SupportKept
  <2>1. verification.claims[i].citation \in answer.citations
    BY <1>1 DEF Sound, SupportKept
  <2>2. verification.claims[i].citation \notin Flagged(verification.claims)
    BY <1>1 DEF Unshared, Flagged, Failed
  <2>3. QED
    BY <1>2, <2>1, <2>2 DEF Kept
<1>4. Sound(answer, verification)' /\ Unshared(verification)'
  BY <1>1, <1>2, <1>3 DEF Sound, DecisionsJoined, SupportJudged, Unshared
<1>5. QED
  BY <1>1, <1>4 DEF OutcomeInv, Past

\* What the final node puts together of a sound answer and its verification is sound.
LEMMA FormatIsSound ==
    ASSUME AnswerInv, OutcomeInv, FinalResponseFormatting
    PROVE  OutcomeInv'
<1>1. /\ node = "final_response_formatting" /\ node' = "persist_session"
      /\ UNCHANGED <<decisions, verification>>
      /\ Sound(answer, verification)
      /\ DOMAIN answer = {"text", "sentences", "citations", "status"}
      /\ response' = [ready |-> TRUE,
                      answer |-> [answer EXCEPT !.status =
                          IF verification.overall = "supported" THEN "supported"
                          ELSE IF answer.status = "draft" THEN "qualified"
                          ELSE answer.status],
                      verification |-> verification, error |-> FALSE]
  BY DEF FinalResponseFormatting, OutcomeInv, AnswerInv, AnswerShape
<1>2. /\ response'.answer.text = answer.text
      /\ response'.answer.citations = answer.citations
      /\ response'.verification = verification /\ response'.error = FALSE
      /\ verification.overall = "supported" => response'.answer.status = "supported"
  BY <1>1
<1>3. Sound(response.answer, response.verification)'
  BY <1>1, <1>2 DEF Sound, DecisionsJoined, SupportKept, SupportJudged
<1>4. QED
  BY <1>1, <1>2, <1>3 DEF OutcomeInv, Past

\* No other node touches a verdict that is still to be used.
LEMMA OutcomeOfOthers ==
    ASSUME OutcomeInv, [Next]_vars,
           ~ CitationVerification, ~ GuardedResponse, ~ FinalResponseFormatting
    PROVE  OutcomeInv'
<1> USE DEF OutcomeInv, Past
<1>1. CASE ConversationalResponse
  <2>1. /\ verification' = [NoVerification EXCEPT !.overall = "supported"]
        /\ node' = "final_response_formatting" /\ response' = response
        /\ node = "conversational_response"
    BY <1>1 DEF ConversationalResponse
  <2>2. DOMAIN verification'.claims = {}
    BY <2>1 DEF NoVerification
  <2>3. Sound(answer, verification)' /\ Unshared(verification)'
    BY <2>2 DEF Sound, DecisionsJoined, SupportKept, SupportJudged, Unshared
  <2>4. QED
    BY <2>1, <2>3
<1>2. CASE ErrorHandler
  <2>1. /\ response' = [ready |-> TRUE, answer |-> [NoAnswer EXCEPT !.text = "guarded"],
                        verification |-> NoVerification, error |-> TRUE]
        /\ node' = "persist_session"
    BY <1>2 DEF ErrorHandler
  <2>2. /\ response'.verification.overall = "unsupported"
        /\ DOMAIN response'.verification.claims = {}
        /\ response'.error = TRUE
    BY <2>1 DEF NoVerification
  <2>3. Sound(response.answer, response.verification)'
    BY <2>2 DEF Sound, DecisionsJoined, SupportKept, SupportJudged
  <2>4. QED
    BY <2>1, <2>2, <2>3
<1>3. CASE AnswerGeneration \/ ClaimExtraction \/ DeterministicVerification
  BY <1>3 DEF AnswerGeneration, ClaimExtraction, DeterministicVerification
<1>4. CASE HybridRetrieval \/ WebSearch \/ PythonAnalysis
  BY <1>4 DEF HybridRetrieval, WebSearch, PythonAnalysis, AfterRetrieval, AfterWebSearch
<1>5. CASE ValidateInput \/ ClassifyQuery \/ PlanRetrieval
  BY <1>5 DEF ValidateInput, ClassifyQuery, PlanRetrieval
<1>6. CASE PersistSession \/ SaveLedger \/ BuildProduct
  <2>1. /\ UNCHANGED <<decisions, answer, verification, response>>
        /\ response.ready /\ node' \in {"save_ledger", "raised", "build_product", "done"}
    BY <1>6 DEF PersistSession, SaveLedger, BuildProduct
  <2>2. QED
    BY <2>1 DEF Sound, DecisionsJoined
<1>7. CASE UNCHANGED vars
  BY <1>7 DEF vars, Sound, DecisionsJoined
<1>8. QED
  BY <1>1, <1>2, <1>3, <1>4, <1>5, <1>6, <1>7 DEF Next

\* The invariant about responses.
LEMMA OutcomeInvariant == Spec => [](AnswerInv /\ OutcomeInv)
<1>1. AnswerInv /\ OutcomeInv /\ [Next]_vars => OutcomeInv'
  BY VerdictIsSound, GuardIsSound, FormatIsSound, OutcomeOfOthers
<1>2. QED
  BY InitOutcome, AnswerInvInductive, <1>1, PTL DEF Spec

\* A sentence whose critical check failed keeps the answer from being supported,
\* where its number is that of a claim, whatever the models say.
THEOREM ChecksBlock == Spec => []JoinedChecksBlock
<1>1. AnswerInv /\ OutcomeInv => JoinedChecksBlock
  <2> SUFFICES ASSUME AnswerInv, OutcomeInv, response.ready,
                      response.answer.status = "supported",
                      NEW i \in DOMAIN decisions \cap DOMAIN response.verification.claims
               PROVE  decisions[i] \notin {"contradicted", "insufficient"}
    BY DEF JoinedChecksBlock
  <2>1. /\ response.answer.text = "reply" => DOMAIN response.verification.claims = {}
        /\ DecisionsJoined(response.verification)
    BY DEF OutcomeInv, Sound
  <2>2. response.verification.overall = "supported"
    BY <2>1 DEF AnswerInv, Responded, StatusEarned
  <2>3. QED
    BY <2>1, <2>2 DEF DecisionsJoined
<1>2. QED
  BY OutcomeInvariant, <1>1, PTL

-----------------------------------------------------------------------------
\* The ledger is written once, before the work product, from a response that
\* no longer changes.
LedgerInv ==
    /\ ledger.run \in {"completed", "failed"} => node \in {"build_product", "done"}
    /\ LedgerAgrees

\* The ledger is written once, from the response.
LEMMA LedgerStep ==
    ASSUME AnswerInv, OutcomeInv, LedgerInv, [Next]_vars
    PROVE  LedgerInv'
<1>1. CASE SaveLedger /\ ledger' # ledger
  <2>1. /\ node = "save_ledger" /\ node' \in {"build_product", "done"}
        /\ response' = response
        /\ ledger' = [run |-> IF response.error THEN "failed" ELSE "completed",
                      links |-> Links(response, contexts)]
        /\ Grounded(response.answer, response.verification)
        /\ response.error \in BOOLEAN
    BY <1>1 DEF SaveLedger, OutcomeInv, AnswerInv, Responded
  <2>2. \A l \in Links(response, contexts) :
            /\ response.verification.claims[l.claim].verdict \notin Failed
            /\ l.relation = "supports"
    BY <2>1 DEF Links, Relation, Grounded, Failed
  <2>3. ledger'.run = "failed" <=> response.error
    BY <2>1
  <2>4. QED
    BY <2>1, <2>2, <2>3 DEF LedgerInv, LedgerAgrees
<1>2. CASE ledger' = ledger /\ ledger.run \in {"completed", "failed"}
  <2>1. node \in {"build_product", "done"}
    BY <1>2 DEF LedgerInv
  <2>2. node' \in {"build_product", "done"} /\ response' = response
    BY <2>1 DEF Next, vars, ValidateInput, ClassifyQuery, ConversationalResponse,
                PlanRetrieval, HybridRetrieval, WebSearch, PythonAnalysis, AnswerGeneration,
                ClaimExtraction, DeterministicVerification, CitationVerification,
                GuardedResponse, FinalResponseFormatting, ErrorHandler, PersistSession,
                SaveLedger, BuildProduct
  <2>3. QED
    BY <1>2, <2>1, <2>2 DEF LedgerInv, LedgerAgrees
<1>3. CASE ledger' = ledger /\ ledger.run \notin {"completed", "failed"}
  BY <1>3 DEF LedgerInv, LedgerAgrees
<1>4. ledger' = ledger \/ SaveLedger
  BY DEF Next, vars, ValidateInput, ClassifyQuery, ConversationalResponse, PlanRetrieval,
         HybridRetrieval, WebSearch, PythonAnalysis, AnswerGeneration, ClaimExtraction,
         DeterministicVerification, CitationVerification, GuardedResponse,
         FinalResponseFormatting, ErrorHandler, PersistSession, BuildProduct
<1>5. QED
  BY <1>1, <1>2, <1>3, <1>4

\* The ledger of a run agrees with its response, for every number of claims,
\* citations and contexts.
THEOREM LedgerAgreesWithResponse == Spec => []LedgerAgrees
<1>1. Init => LedgerInv
  BY DEF Init, NoLedger, LedgerInv, LedgerAgrees
<1>2. AnswerInv /\ OutcomeInv /\ LedgerInv /\ [Next]_vars => LedgerInv'
  BY LedgerStep
<1>3. LedgerInv => LedgerAgrees
  BY DEF LedgerInv
<1>4. QED
  BY OutcomeInvariant, <1>1, <1>2, <1>3, PTL DEF Spec

-----------------------------------------------------------------------------
\* The work product is built last, from the response as it is.
ProductInv == (product.status # "none" => node = "done") /\ ProductSound

\* What build_product makes of a sound response.
LEMMA BuildIsSound ==
    ASSUME RequiredFields # {}, AnswerInv, OutcomeInv, BuildProduct
    PROVE  ProductSound' /\ node' = "done"
<1>1. /\ node = "build_product" /\ node' = "done" /\ response' = response
      /\ Sound(response.answer, response.verification)
      /\ response.verification.overall = "supported" => response.answer.status = "supported"
  BY DEF BuildProduct, OutcomeInv
<1> DEFINE claims == response.verification.claims
<1>2. PICK field \in [DOMAIN claims -> RequiredFields \cup {"claim"}] :
          product' = [findings |-> Findings(response, field),
                      status |->
                          IF \E f \in Findings(response, field) :
                                 f.status = "supported" /\ ~f.evidence
                          THEN "refused"
                          ELSE IF NeedsReview(Findings(response, field),
                                              request.workflow = "reviewed")
                          THEN "needs_review" ELSE "draft"]
  BY DEF BuildProduct
<1> DEFINE found == Findings(response, field)
           ofClaim(i) == [field |-> field[i], status |-> FindingStatus(claims[i].verdict),
                          evidence |-> claims[i].citation \in response.answer.citations,
                          claim |-> i]
           missing(f) == [field |-> f, status |-> "missing", evidence |-> FALSE, claim |-> 0]
<1>3. found = {ofClaim(i) : i \in DOMAIN claims}
                \cup {missing(f) : f \in RequiredFields \ {field[i] : i \in DOMAIN claims}}
  BY DEF Findings
<1> HIDE DEF found
<1>4. /\ \A f \in found : \/ \E i \in DOMAIN claims : f = ofClaim(i)
                          \/ f.status = "missing"
      /\ \A i \in DOMAIN claims : ofClaim(i) \in found
      /\ \A f \in RequiredFields : \/ missing(f) \in found
                                   \/ \E i \in DOMAIN claims : field[i] = f
  <2>1. \A f \in found : \/ \E i \in DOMAIN claims : f = ofClaim(i)
                         \/ \E g \in RequiredFields : f = missing(g)
    BY <1>3, Zenon
  <2>2. \A g \in RequiredFields : missing(g).status = "missing"
    OBVIOUS
  <2>3. \A i \in DOMAIN claims : ofClaim(i) \in found
    BY <1>3, Zenon
  <2>4. \A f \in RequiredFields : \/ missing(f) \in found
                                  \/ \E i \in DOMAIN claims : field[i] = f
    BY <1>3, Zenon
  <2>5. QED
    BY <2>1, <2>2, <2>3, <2>4
<1>5. \A i \in DOMAIN claims :
          /\ ofClaim(i).status = "supported" <=> claims[i].verdict = "supported"
          /\ ofClaim(i).evidence <=> claims[i].citation \in response.answer.citations
          /\ ofClaim(i).field = field[i]
  BY DEF FindingStatus
<1>6. \A i \in DOMAIN claims : claims[i].verdict = "supported" => ofClaim(i).evidence
  BY <1>1, <1>5 DEF Sound, SupportKept
<1> HIDE DEF ofClaim
<1>7. ~ \E f \in found : f.status = "supported" /\ ~f.evidence
  BY <1>4, <1>5, <1>6
<1>8. product'.status # "refused" /\ product'.findings = found
  BY <1>2, <1>7 DEF found
<1>9. ASSUME product'.status = "draft"
      PROVE  /\ response.answer.status = "supported"
             /\ \A f \in RequiredFields :
                    \E g \in found : g.field = f /\ g.status = "supported" /\ g.evidence
  <2>1. \A f \in found : f.status = "supported"
    BY <1>2, <1>7, <1>9 DEF NeedsReview, found
  <2>2. \A f \in RequiredFields : missing(f) \notin found
    BY <2>1
  <2> HIDE DEF missing
  <2>3. \A i \in DOMAIN claims : claims[i].verdict = "supported"
    BY <1>4, <1>5, <2>1
  <2>4. DOMAIN claims # {}
    BY <1>4, <2>2
  <2>5. response.answer.status = "supported"
    BY <1>1, <2>3, <2>4 DEF Sound, SupportJudged
  <2>6. QED
    BY <1>4, <1>5, <1>6, <2>1, <2>2, <2>3, <2>5
<1>10. QED
  BY <1>1, <1>8, <1>9 DEF ProductSound

\* A product is built once, from the response.
LEMMA ProductStep ==
    ASSUME RequiredFields # {}, AnswerInv, OutcomeInv, ProductInv, [Next]_vars
    PROVE  ProductInv'
<1>1. CASE BuildProduct
  BY <1>1, BuildIsSound DEF ProductInv
<1>2. product' = product \/ BuildProduct
  BY DEF Next, vars, ValidateInput, ClassifyQuery, ConversationalResponse, PlanRetrieval,
         HybridRetrieval, WebSearch, PythonAnalysis, AnswerGeneration, ClaimExtraction,
         DeterministicVerification, CitationVerification, GuardedResponse,
         FinalResponseFormatting, ErrorHandler, PersistSession, SaveLedger
<1>3. node = "done" => node' = "done" /\ response' = response
  BY DEF Next, vars, ValidateInput, ClassifyQuery, ConversationalResponse, PlanRetrieval,
         HybridRetrieval, WebSearch, PythonAnalysis, AnswerGeneration, ClaimExtraction,
         DeterministicVerification, CitationVerification, GuardedResponse,
         FinalResponseFormatting, ErrorHandler, PersistSession, SaveLedger, BuildProduct
<1>4. CASE product' = product
  BY <1>3, <1>4 DEF ProductInv, ProductSound
<1>5. QED
  BY <1>1, <1>2, <1>4

\* Building a work product never fails on what the graph returns, and one that
\* needs no review has every required field supported with evidence.
THEOREM ProductsAreSound ==
    ASSUME RequiredFields # {}
    PROVE  Spec => []ProductSound
<1>1. Init => ProductInv
  BY DEF Init, NoProduct, ProductInv, ProductSound
<1>2. AnswerInv /\ OutcomeInv /\ ProductInv /\ [Next]_vars => ProductInv'
  BY ProductStep
<1>3. ProductInv => ProductSound
  BY DEF ProductInv
<1>4. QED
  BY OutcomeInvariant, <1>1, <1>2, <1>3, PTL DEF Spec

-----------------------------------------------------------------------------
(* Every step is a step towards the end. *)

\* The nodes in the order in which a run can pass them.
Stage ==
    [n \in Node |-> CASE n = "validate_input" -> 0
                      [] n = "classify_query" -> 1
                      [] n \in {"conversational_response", "plan_retrieval"} -> 2
                      [] n = "hybrid_retrieval" -> 3
                      [] n = "web_search" -> 4
                      [] n = "python_analysis" -> 5
                      [] n = "answer_generation" -> 6
                      [] n = "claim_extraction" -> 7
                      [] n = "deterministic_verification" -> 8
                      [] n = "citation_verification" -> 9
                      [] n = "guarded_response" -> 10
                      [] n \in {"final_response_formatting", "error_handler"} -> 11
                      [] n = "persist_session" -> 12
                      [] n = "save_ledger" -> 13
                      [] n = "build_product" -> 14
                      [] n \in {"done", "raised"} -> 15]

\* How many steps a run can still take: one per node, and the retries of the web.
StepsLeft == (15 - Stage[node]) + (IF Stage[node] <= 4 THEN MaxRetries - calls ELSE 0)

\* The retries left are counted down where the web is called, and nowhere else.
CallsInv ==
    /\ node \in Node /\ calls \in 0..(MaxRetries + 1)
    /\ Stage[node] < 4 => calls = 0
    /\ node = "web_search" => calls <= MaxRetries

\* The web service is asked once more at most than tavily_max_retries.
WebCallsBounded == calls <= MaxRetries + 1

\* Every stage is a number, and the fourth is that of the web search.
LEMMA StagesAreNumbered ==
    /\ \A n \in Node : Stage[n] \in 0..15
    /\ \A n \in Node : Stage[n] = 4 <=> n = "web_search"
<1>1. ASSUME NEW n \in Node PROVE Stage[n] \in 0..15
  BY DEF Stage, Node
<1>2. ASSUME NEW n \in Node PROVE Stage[n] = 4 <=> n = "web_search"
  BY DEF Stage, Node
<1>3. QED
  BY <1>1, <1>2

\* A step goes on to a later node, or counts a call of the web service.
LEMMA StepGoesOn ==
    ASSUME CallsInv, Next
    PROVE  /\ node' \in Node
           /\ \/ Stage[node'] > Stage[node] /\ calls' = calls
              \/ /\ node = "web_search" /\ calls' = calls + 1
                 /\ \/ node' = node /\ calls < MaxRetries
                    \/ Stage[node'] > 4
<1>1. CASE WebSearch
  BY <1>1 DEF WebSearch, MayRetry, AfterWebSearch, CallsInv, Stage, Node
<1>2. CASE HybridRetrieval
  BY <1>2 DEF HybridRetrieval, AfterRetrieval, AfterWebSearch, CallsInv, Stage, Node
<1>3. CASE CitationVerification
  BY <1>3 DEF CitationVerification, AfterVerification, CallsInv, Stage, Node
<1>4. CASE ValidateInput \/ ClassifyQuery \/ ConversationalResponse \/ PlanRetrieval
  BY <1>4 DEF ValidateInput, ClassifyQuery, ConversationalResponse, PlanRetrieval,
              CallsInv, Stage, Node
<1>5. CASE PythonAnalysis \/ AnswerGeneration \/ ClaimExtraction \/ DeterministicVerification
  BY <1>5 DEF PythonAnalysis, AnswerGeneration, ClaimExtraction, DeterministicVerification,
              CallsInv, Stage, Node
<1>6. CASE \/ GuardedResponse \/ FinalResponseFormatting \/ ErrorHandler
           \/ PersistSession \/ SaveLedger \/ BuildProduct
  BY <1>6 DEF GuardedResponse, FinalResponseFormatting, ErrorHandler, PersistSession,
              SaveLedger, BuildProduct, CallsInv, Stage, Node
<1>7. QED
  BY <1>1, <1>2, <1>3, <1>4, <1>5, <1>6 DEF Next

\* What is counted stays within its bound.
LEMMA CallsStep == CallsInv /\ [Next]_vars => CallsInv'
<1> SUFFICES ASSUME CallsInv, [Next]_vars PROVE CallsInv'
  OBVIOUS
<1>1. CASE Next
  <2>1. /\ Stage[node] \in 0..15 /\ Stage[node'] \in 0..15
        /\ node = "web_search" => Stage[node] = 4
        /\ node' = "web_search" => Stage[node'] = 4
    BY <1>1, StepGoesOn, StagesAreNumbered DEF CallsInv
  <2>2. Stage[node'] <= 4 => calls' <= MaxRetries
    BY <1>1, <2>1, StepGoesOn, GraphAssumption DEF CallsInv
  <2>3. QED
    BY <1>1, <2>1, <2>2, StepGoesOn, GraphAssumption DEF CallsInv
<1>2. CASE UNCHANGED vars
  BY <1>2 DEF vars, CallsInv
<1>3. QED
  BY <1>1, <1>2

\* A run starts without calls.
LEMMA CallsStart == Init => CallsInv
  BY GraphAssumption DEF Init, CallsInv, Stage, Node

\* So it is in every reachable state.
LEMMA CallsInvariant == Spec => []CallsInv
  BY CallsStart, CallsStep, PTL DEF Spec

\* However the web service answers, it is asked a bounded number of times
\* (TavilyWebSearchTool.search).
THEOREM WebCallsAreBounded == Spec => []WebCallsBounded
<1>1. CallsInv => WebCallsBounded
  BY GraphAssumption DEF CallsInv, WebCallsBounded
<1>2. QED
  BY <1>1, CallsInvariant, PTL

\* Whatever retrieval, the web service, the interpreter and the models answer or raise,
\* a request takes at most 15 steps and the retries: no node but the web search is run
\* twice, and the routes of the graph (_build_graph) have no way back.  That it takes the
\* next step is a matter of fairness.
THEOREM StepsAreBounded ==
    Spec => [](StepsLeft \in 0..(MaxRetries + 15)) /\ [][StepsLeft' < StepsLeft]_vars
<1>1. CallsInv => StepsLeft \in 0..(MaxRetries + 15)
  <2> SUFFICES ASSUME CallsInv PROVE StepsLeft \in 0..(MaxRetries + 15)
    OBVIOUS
  <2>1. Stage[node] \in 0..15 /\ (Stage[node] = 4 => node = "web_search")
    BY StagesAreNumbered DEF CallsInv
  <2>2. QED
    BY <2>1, GraphAssumption DEF CallsInv, StepsLeft
<1>2. CallsInv /\ CallsInv' /\ [Next]_vars => [StepsLeft' < StepsLeft]_vars
  <2> SUFFICES ASSUME CallsInv, CallsInv', Next PROVE StepsLeft' < StepsLeft
    OBVIOUS
  <2> DEFINE now == Stage[node]
             next == Stage[node']
  <2>1. /\ now \in 0..15 /\ next \in 0..15
        /\ now = 4 <=> node = "web_search"
        /\ next = 4 => calls' <= MaxRetries
        /\ next < 4 => calls' = 0
    BY StagesAreNumbered DEF CallsInv
  <2>2. /\ StepsLeft = (15 - now) + (IF now <= 4 THEN MaxRetries - calls ELSE 0)
        /\ StepsLeft' = (15 - next) + (IF next <= 4 THEN MaxRetries - calls' ELSE 0)
    BY DEF StepsLeft
  <2>3. \/ next > now /\ calls' = calls
        \/ /\ now = 4 /\ calls' = calls + 1
           /\ \/ next = now /\ calls < MaxRetries
              \/ next > 4
    BY <2>1, StepGoesOn
  <2>4. MaxRetries \in Nat /\ calls \in Nat /\ (now <= 4 => calls <= MaxRetries)
    BY <2>1, GraphAssumption DEF CallsInv
  <2> HIDE DEF now, next
  <2>5. QED
    BY <2>1, <2>2, <2>3, <2>4
<1>3. QED
  BY <1>1, <1>2, CallsInvariant, PTL DEF Spec

-----------------------------------------------------------------------------
(* Types *)

\* A set of numbers has a least one.
LEMMA LeastExists ==
    ASSUME NEW T \in SUBSET Nat, T # {}
    PROVE  \E m \in T : \A k \in T : m <= k
<1>1. PICK m \in T : \A k \in T : <<k, m>> \notin OpToRel(<, Nat)
  BY WFMin, NatLessThanWellFounded, Zenon
<1>2. \A k \in T : ~(k < m)
  BY <1>1, Zenon DEF OpToRel
<1>3. QED
  BY <1>2

\* Of finitely many ranks the first of the best ones exists.
LEMMA FirstBestExists ==
    ASSUME NEW n \in Nat \ {0}, NEW rank \in [1..n -> Nat],
           NEW bound \in Nat, \A i \in 1..n : rank[i] <= bound
    PROVE  FirstBest(rank) \in 1..n
<1> DEFINE gaps == {bound - rank[i] : i \in 1..n}
<1>1. gaps \in SUBSET Nat /\ gaps # {}
  <2>1. 1 \in 1..n
    OBVIOUS
  <2>2. \A i \in 1..n : bound - rank[i] \in Nat
    OBVIOUS
  <2>3. QED
    BY <2>1, <2>2
<1>2. PICK gap \in gaps : \A g \in gaps : gap <= g
  <2> HIDE DEF gaps
  <2>1. QED
    BY <1>1, LeastExists
<1> DEFINE best == {i \in 1..n : bound - rank[i] = gap}
<1>3. best \in SUBSET Nat /\ best # {}
  <2>1. PICK i \in 1..n : gap = bound - rank[i]
    BY <1>2
  <2>2. i \in best
    BY <2>1
  <2>3. best \in SUBSET Nat
    OBVIOUS
  <2> HIDE DEF best
  <2>4. QED
    BY <2>2, <2>3
<1>4. \E i \in best : \A j \in best : i <= j
  <2> HIDE DEF best, gaps
  <2>1. QED
    BY <1>3, LeastExists
<1>5. PICK i \in best : \A j \in best : i <= j
  BY <1>4
<1>6. ASSUME NEW j \in 1..n
      PROVE  rank[j] < rank[i] \/ (rank[j] = rank[i] /\ i <= j)
  <2>1. gap <= bound - rank[j] /\ bound - rank[i] = gap
    BY <1>2
  <2>2. bound - rank[j] = gap => i <= j
    BY <1>5
  <2>3. QED
    BY <2>1, <2>2
<1>7. \A j \in DOMAIN rank : rank[j] < rank[i] \/ (rank[j] = rank[i] /\ i <= j)
  BY <1>6
<1> HIDE DEF best, gaps
<1>8. i \in DOMAIN rank /\ DOMAIN rank = 1..n
  BY <1>5 DEF best
<1>9. QED
  BY <1>7, <1>8 DEF FirstBest

\* The citation that a sentence is given is one of the answer's.
LEMMA NearestIsCitation ==
    ASSUME NEW sentence \in Sentences, NEW found \in Seq(Context \cup {AnalysisOutput})
    PROVE  NearestCitation(sentence, found) \in 0..MaxCitations
<1> DEFINE n == IF Len(found) < MaxCitations THEN Len(found) ELSE MaxCitations
           rank == [c \in Citations(found) |-> Cardinality(sentence \cap found[c].span)]
           bound == Cardinality(sentence)
<1>1. Citations(found) = 1..n /\ n \in Nat /\ n <= MaxCitations
  BY MaxCitationsAssumption DEF Citations
<1>2. CASE n = 0
  BY <1>1, <1>2, MaxCitationsAssumption DEF NearestCitation
<1>3. CASE n # 0
  <2>1. \A c \in 1..n : /\ Cardinality(sentence \cap found[c].span) \in Nat
                        /\ Cardinality(sentence \cap found[c].span) <= bound
    <3>1. IsFiniteSet(sentence)
      BY SentencesAssumption
    <3>2. ASSUME NEW c \in 1..n
          PROVE  /\ IsFiniteSet(sentence \cap found[c].span)
                 /\ Cardinality(sentence \cap found[c].span) <= bound
      BY <3>1, FS_Subset
    <3>3. QED
      BY <3>2, FS_CardinalityType
  <2>2. rank \in [1..n -> Nat] /\ bound \in Nat /\ \A c \in 1..n : rank[c] <= bound
    BY <1>1, <2>1, SentencesAssumption, FS_CardinalityType
  <2>3. NearestCitation(sentence, found) = FirstBest(rank)
    BY <1>1, <1>3 DEF NearestCitation
  <2> HIDE DEF rank, bound, n
  <2>4. FirstBest(rank) \in 1..n
    BY <1>1, <1>3, <2>2, FirstBestExists
  <2>5. QED
    BY <1>1, <2>3, <2>4, MaxCitationsAssumption
<1>4. QED
  BY <1>2, <1>3

\* The contexts are a list: those of one retrieval, then pages of the web, then the
\* output of the analysis, and no sentence has a citation before it is extracted.
ListsInv ==
    /\ contexts \in Seq(Context \cup {AnalysisOutput})
    /\ Len(contexts) <= MaxInternal + MaxWeb + 1
    /\ Stage[node] <= 5 => Len(contexts) <= MaxInternal + MaxWeb
    /\ Stage[node] <= 4 => Len(contexts) <= MaxInternal
    /\ Stage[node] <= 7 => cited = << >>

TypeInv == TypeOK /\ ListsInv

\* A list of claims has at most one claim per citation of an answer.
ClaimLists == UNION {[1..n -> Claim] : n \in 0..MaxCitations}

\* A list that grows by one item is a list.
LEMMA ListGrows ==
    ASSUME NEW S, NEW list \in Seq(S), NEW item \in S
    PROVE  /\ Append(list, item) \in Seq(S)
           /\ Len(Append(list, item)) = Len(list) + 1
  OBVIOUS

\* The step that adds no context and extracts nothing keeps the lists.
LEMMA ListsKept ==
    ASSUME ListsInv, CallsInv, Next, UNCHANGED <<contexts, cited>>
    PROVE  ListsInv'
<1>1. /\ Stage[node'] >= Stage[node]
      /\ Stage[node] \in 0..15 /\ Stage[node'] \in 0..15
  <2>1. /\ Stage[node] \in 0..15 /\ Stage[node'] \in 0..15
        /\ node = "web_search" => Stage[node] = 4
    BY StepGoesOn, StagesAreNumbered DEF CallsInv
  <2>2. QED
    BY <2>1, StepGoesOn
<1>2. \A n \in 0..15 : Stage[node'] <= n => Stage[node] <= n
  BY <1>1
<1>3. /\ Stage[node'] <= 5 => Stage[node] <= 5
      /\ Stage[node'] <= 4 => Stage[node] <= 4
      /\ Stage[node'] <= 7 => Stage[node] <= 7
  BY <1>2
<1>4. contexts' = contexts /\ cited' = cited
  OBVIOUS
<1>5. QED
  BY <1>3, <1>4 DEF ListsInv

\* The lists keep their bounds along a run.
LEMMA ListsStep ==
    ASSUME ListsInv, CallsInv, [Next]_vars
    PROVE  ListsInv'
<1>1. CASE HybridRetrieval
  <2>1. CASE UNCHANGED contexts
    BY <1>1, <2>1, ListsKept DEF HybridRetrieval, Next
  <2>2. CASE \E n \in 0..MaxInternal : \E found \in [1..n -> Passages] : contexts' = found
    <3>1. contexts' \in Seq(Context \cup {AnalysisOutput}) /\ Len(contexts') <= MaxInternal
      BY <2>2, GraphAssumption DEF Context
    <3>2. cited' = << >>
      BY <1>1 DEF HybridRetrieval, ListsInv, Stage, Node
    <3>3. QED
      BY <3>1, <3>2, GraphAssumption DEF ListsInv
  <2>3. QED
    BY <1>1, <2>1, <2>2 DEF HybridRetrieval
<1>2. CASE WebSearch
  <2>1. CASE UNCHANGED contexts
    BY <1>2, <2>1, ListsKept DEF WebSearch, Next
  <2>2. CASE contexts' # contexts
    <3>0. PICK n \in 0..MaxWeb : \E pages \in [1..n -> WebPages] : contexts' = contexts \o pages
      BY <1>2, <2>2 DEF WebSearch
    <3>1. /\ contexts' \in Seq(Context \cup {AnalysisOutput})
          /\ Len(contexts') <= Len(contexts) + MaxWeb /\ Len(contexts') \in Nat
      <4>1. n \in Nat /\ n <= MaxWeb
        BY GraphAssumption
      <4>2. PICK pages \in [1..n -> WebPages] : contexts' = contexts \o pages
        BY <3>0
      <4>3. pages \in Seq(Context \cup {AnalysisOutput}) /\ Len(pages) = n
        BY <4>1 DEF Context
      <4>4. contexts \in Seq(Context \cup {AnalysisOutput})
        BY DEF ListsInv
      <4>5. QED
        BY <4>1, <4>2, <4>3, <4>4, GraphAssumption
    <3>2. Len(contexts) <= MaxInternal /\ cited' = << >> /\ Len(contexts) \in Nat
      BY <1>2 DEF WebSearch, ListsInv, Stage, Node
    <3>3. Stage[node'] > 4 /\ Stage[node'] \in 0..15
      <4>1. node' = AfterWebSearch(plan) \/ node' = "raised"
        BY <1>2, <2>2 DEF WebSearch
      <4>2. node' \in {"python_analysis", "answer_generation", "raised"}
        BY <4>1 DEF AfterWebSearch
      <4>3. /\ Stage["python_analysis"] = 5
            /\ Stage["answer_generation"] = 6
            /\ Stage["raised"] = 15
        BY DEF Stage, Node
      <4>4. QED
        BY <4>2, <4>3
    <3>4. Len(contexts') <= MaxInternal + MaxWeb /\ Len(contexts') <= MaxInternal + MaxWeb + 1
      BY <3>1, <3>2, GraphAssumption
    <3>5. QED
      BY <3>1, <3>2, <3>3, <3>4 DEF ListsInv
  <2>3. QED
    BY <2>1, <2>2
<1>3. CASE PythonAnalysis
  <2>1. CASE UNCHANGED contexts
    BY <1>3, <2>1, ListsKept DEF PythonAnalysis, Next
  <2>2. CASE contexts' = Append(contexts, AnalysisOutput)
    <3>1. /\ contexts' \in Seq(Context \cup {AnalysisOutput})
          /\ Len(contexts') = Len(contexts) + 1
      BY <2>2, ListGrows DEF ListsInv
    <3>2. Len(contexts) <= MaxInternal + MaxWeb /\ cited' = << >> /\ Len(contexts) \in Nat
      BY <1>3 DEF PythonAnalysis, ListsInv, Stage, Node
    <3>3. Stage[node'] > 5 /\ Stage[node'] \in 0..15
      BY <1>3 DEF PythonAnalysis, Stage, Node
    <3>4. Len(contexts') <= MaxInternal + MaxWeb + 1
      BY <3>1, <3>2, GraphAssumption
    <3>5. QED
      BY <3>1, <3>2, <3>3, <3>4 DEF ListsInv
  <2>3. QED
    BY <1>3, <2>1, <2>2 DEF PythonAnalysis
<1>4. CASE ClaimExtraction
  <2>1. Stage[node'] = 8 /\ Stage[node] = 7
    BY <1>4 DEF ClaimExtraction, Stage, Node
  <2>2. QED
    BY <1>4, <2>1 DEF ClaimExtraction, ListsInv
<1>5. CASE UNCHANGED vars
  BY <1>5 DEF vars, ListsInv
<1>6. CASE Next /\ UNCHANGED <<contexts, cited>>
  BY <1>6, ListsKept
<1>7. QED
  <2>1. Next => \/ HybridRetrieval \/ WebSearch \/ PythonAnalysis \/ ClaimExtraction
                \/ UNCHANGED <<contexts, cited>>
    BY DEF Next, ValidateInput, ClassifyQuery, ConversationalResponse, PlanRetrieval,
           AnswerGeneration, DeterministicVerification, CitationVerification,
           GuardedResponse, FinalResponseFormatting, ErrorHandler, PersistSession,
           SaveLedger, BuildProduct
  <2>2. QED
    BY <1>1, <1>2, <1>3, <1>4, <1>5, <1>6, <2>1

\* Lists of claims are claimed and decided on.
LEMMA ClaimsTyped ==
    ASSUME NEW sentences, NEW found, NEW model \in BOOLEAN,
           NEW checked \in CitationClaims(sentences, found, model),
           NEW verdicts, \A i \in DOMAIN verdicts : verdicts[i] \in Verdict
    PROVE  /\ checked \in ClaimLists
           /\ ApplyDecisions(checked, verdicts) \in ClaimLists
<1>1. PICK n \in 0..MaxCitations : checked \in [1..n -> Claim]
  <2>1. PICK n \in 0..MaxCitations : Citations(found) = 1..n
    BY MaxCitationsAssumption DEF Citations
  <2>2. CASE Citations(found) # {}
    BY <2>1, <2>2, ClaimsOfCheck DEF CitationClaims
  <2>3. CASE Citations(found) = {}
    <3>1. checked = << >> \/ checked = <<[citation |-> 0, verdict |-> "insufficient"]>>
      BY <2>3 DEF CitationClaims
    <3>2. [citation |-> 0, verdict |-> "insufficient"] \in Claim
      BY MaxCitationsAssumption DEF Claim, Verdict
    <3>3. CASE checked = << >>
      <4>1. checked \in [1..0 -> Claim]
        BY <3>3
      <4>2. QED
        BY <4>1, MaxCitationsAssumption
    <3>4. CASE checked = <<[citation |-> 0, verdict |-> "insufficient"]>>
      <4> DEFINE claim == [citation |-> 0, verdict |-> "insufficient"]
      <4>1. claim \in Claim
        BY <3>2
      <4> HIDE DEF claim
      <4>2. <<claim>> \in [1..1 -> Claim]
        BY <4>1
      <4>3. QED
        BY <3>4, <4>2, MaxCitationsAssumption DEF claim
    <3>5. QED
      BY <3>1, <3>3, <3>4
  <2>4. QED
    BY <2>2, <2>3
<1>2. ApplyDecisions(checked, verdicts) \in [1..n -> Claim]
  BY <1>1 DEF ApplyDecisions, Claim
<1>3. QED
  BY <1>1, <1>2 DEF ClaimLists

\* What the citation check finds is a verification.
LEMMA VerificationTyped ==
    ASSUME NEW checked \in ClaimLists, NEW claims \in ClaimLists
    PROVE  [overall |-> Overall(claims), claims |-> claims,
            flagged |-> Flagged(checked) \cup Flagged(claims)] \in Verification
<1>1. \A list \in ClaimLists : Flagged(list) \subseteq 0..MaxCitations
  BY DEF ClaimLists, Claim, Flagged
<1>2. Overall(claims) \in {"supported", "partially_supported", "unsupported"}
  BY DEF Overall
<1>3. QED
  BY <1>1, <1>2 DEF Verification, ClaimLists

-----------------------------------------------------------------------------
\* Nothing answered and nothing verified have the types of an answer and a verdict.
LEMMA NothingAnswered == << >> \in Answers /\ NoAnswer \in Answer
<1>1. << >> \in [1..0 -> Sentences]
  OBVIOUS
<1>2. << >> \in Answers
  BY <1>1, GraphAssumption DEF Answers
<1>3. QED
  BY <1>2 DEF NoAnswer, Answer

\* A run starts with nothing verified.
LEMMA NothingVerified == NoVerification \in Verification
<1>1. << >> \in [1..0 -> Claim]
  OBVIOUS
<1>2. << >> \in UNION {[1..n -> Claim] : n \in 0..MaxCitations}
  BY <1>1, MaxCitationsAssumption
<1>3. QED
  BY <1>2 DEF NoVerification, Verification

\* A run starts with the types.
LEMMA InitTypes == Init => TypeInv
<1> SUFFICES ASSUME Init PROVE TypeInv
  OBVIOUS
<1>1. NoAnswer \in Answer /\ Len(NoAnswer.sentences) = 0
  BY NothingAnswered DEF NoAnswer
<1>2. NoVerification \in Verification
  BY NothingVerified
<1>3. NoResponse \in [ready : BOOLEAN, answer : Answer, verification : Verification,
                      error : BOOLEAN]
  BY <1>1, <1>2 DEF NoResponse
<1>4. ListsInv
  BY GraphAssumption DEF Init, ListsInv, Stage, Node
<1>5. QED
  BY <1>1, <1>2, <1>3, <1>4, GraphAssumption
  DEF Init, TypeInv, TypeOK, Node, NoPlan, NoLedger, NoProduct

\* An answer keeps its type, and a sentence has one citation once they are extracted.
LEMMA AnswerStep ==
    ASSUME TypeInv, Next
    PROVE  /\ answer' \in Answer
           /\ Len(cited') \in {0, Len(answer'.sentences)}
           /\ \A i \in DOMAIN cited' : cited'[i] \in 0..MaxCitations
<1>1. CASE ConversationalResponse
  <2>1. << >> \in Answers
    BY NothingAnswered
  <2>2. cited' = << >>
    BY <1>1 DEF ConversationalResponse, TypeInv, ListsInv, Stage, Node
  <2>3. answer' = [text |-> "reply", sentences |-> << >>, citations |-> {},
                   status |-> "supported"]
    BY <1>1 DEF ConversationalResponse, NoAnswer
  <2>4. answer' \in Answer
    BY <2>1, <2>3 DEF Answer
  <2>5. QED
    BY <2>2, <2>4
<1>2. CASE AnswerGeneration
  <2>1. cited' = << >>
    BY <1>2 DEF AnswerGeneration, TypeInv, ListsInv, Stage, Node
  <2>2. Citations(contexts) \subseteq 1..MaxCitations
    BY MaxCitationsAssumption DEF Citations, TypeInv, ListsInv
  <2>3. QED
    BY <1>2, <2>1, <2>2 DEF AnswerGeneration, Answer, TypeInv, TypeOK
<1>3. CASE ClaimExtraction
  <2>1. PICK n \in 0..MaxSentences : answer.sentences \in [1..n -> Sentences]
    BY DEF TypeInv, TypeOK, Answer, Answers
  <2>2. /\ answer' = answer
        /\ cited' = [i \in 1..n |-> NearestCitation(answer.sentences[i], contexts)]
    BY <1>3, <2>1 DEF ClaimExtraction
  <2>3. \A i \in 1..n : NearestCitation(answer.sentences[i], contexts) \in 0..MaxCitations
    BY <2>1, NearestIsCitation DEF TypeInv, ListsInv
  <2>4. Len(cited') = n /\ Len(answer.sentences) = n
    BY <2>1, <2>2, GraphAssumption
  <2>5. QED
    BY <2>2, <2>3, <2>4 DEF TypeInv, TypeOK
<1>4. CASE GuardedResponse
  <2>1. Kept(answer.citations, verification.claims) \subseteq 1..MaxCitations
    BY DEF Kept, TypeInv, TypeOK, Answer
  <2>2. /\ answer' \in Answer
        /\ answer'.sentences = answer.sentences
    BY <1>4, <2>1 DEF GuardedResponse, Refine, TypeInv, TypeOK, Answer
  <2>3. QED
    BY <1>4, <2>2 DEF GuardedResponse, TypeInv, TypeOK
<1>5. CASE UNCHANGED <<answer, cited>>
  BY <1>5 DEF TypeInv, TypeOK
<1>6. QED
  <2>1. \/ ConversationalResponse \/ AnswerGeneration \/ ClaimExtraction \/ GuardedResponse
        \/ UNCHANGED <<answer, cited>>
    BY DEF Next, ValidateInput, ClassifyQuery, PlanRetrieval, HybridRetrieval, WebSearch,
           PythonAnalysis, DeterministicVerification, CitationVerification,
           FinalResponseFormatting, ErrorHandler, PersistSession, SaveLedger, BuildProduct
  <2>2. QED
    BY <1>1, <1>2, <1>3, <1>4, <1>5, <2>1

\* The decision on a sentence is a verdict, whatever the sentence is.
LEMMA DecisionIsVerdict ==
    ASSUME NEW sentence, NEW citation, NEW found
    PROVE  Decision(sentence, citation, found) \in Verdict
  BY DEF Decision, Verdict

\* Decisions and verifications keep their types.
LEMMA VerdictsStep ==
    ASSUME TypeInv, Next
    PROVE  /\ \A i \in DOMAIN decisions' : decisions'[i] \in Verdict
           /\ verification' \in Verification
<1>1. CASE DeterministicVerification
  BY <1>1, DecisionIsVerdict DEF DeterministicVerification, TypeInv, TypeOK
<1>2. CASE CitationVerification
  <2>1. PICK checked \in CitationClaims(answer.sentences, contexts, UseNli) :
            verification' = [overall |-> Overall(ApplyDecisions(checked, decisions)),
                             claims |-> ApplyDecisions(checked, decisions),
                             flagged |-> Flagged(checked)
                                  \cup Flagged(ApplyDecisions(checked, decisions))]
    BY <1>2 DEF CitationVerification
  <2>2. checked \in ClaimLists /\ ApplyDecisions(checked, decisions) \in ClaimLists
    BY ClaimsTyped, GraphAssumption DEF TypeInv, TypeOK
  <2>3. verification' \in Verification
    BY <2>1, <2>2, VerificationTyped
  <2>4. QED
    BY <1>2, <2>3 DEF CitationVerification, TypeInv, TypeOK
<1>3. CASE ConversationalResponse
  <2>1. NoVerification \in Verification
    BY NothingVerified
  <2>2. verification' \in Verification
    BY <1>3, <2>1 DEF ConversationalResponse, Verification, NoVerification
  <2>3. QED
    BY <1>3, <2>2 DEF ConversationalResponse, TypeInv, TypeOK
<1>4. CASE UNCHANGED <<decisions, verification>>
  BY <1>4 DEF TypeInv, TypeOK
<1>5. QED
  <2>1. \/ DeterministicVerification \/ CitationVerification \/ ConversationalResponse
        \/ UNCHANGED <<decisions, verification>>
    BY DEF Next, ValidateInput, ClassifyQuery, PlanRetrieval, HybridRetrieval, WebSearch,
           PythonAnalysis, AnswerGeneration, ClaimExtraction, GuardedResponse,
           FinalResponseFormatting, ErrorHandler, PersistSession, SaveLedger, BuildProduct
  <2>2. QED
    BY <1>1, <1>2, <1>3, <1>4, <2>1

\* What is stored and returned keeps its type.
LEMMA OutcomeStep ==
    ASSUME TypeInv, Next
    PROVE  /\ response' \in [ready : BOOLEAN, answer : Answer,
                             verification : Verification, error : BOOLEAN]
           /\ ledger'.run \in {"none", "other", "completed", "failed"}
           /\ product'.status \in {"none", "draft", "needs_review", "refused"}
<1>1. CASE FinalResponseFormatting
  BY <1>1 DEF FinalResponseFormatting, TypeInv, TypeOK, Answer, Verification
<1>2. CASE ErrorHandler
  BY <1>2, NothingVerified, NothingAnswered
  DEF ErrorHandler, NoAnswer, Answer, TypeInv, TypeOK
<1>3. CASE SaveLedger
  BY <1>3 DEF SaveLedger, TypeInv, TypeOK
<1>4. CASE BuildProduct
  BY <1>4 DEF BuildProduct, TypeInv, TypeOK
<1>5. CASE UNCHANGED <<response, ledger, product>>
  BY <1>5 DEF TypeInv, TypeOK
<1>6. QED
  <2>1. \/ FinalResponseFormatting \/ ErrorHandler \/ SaveLedger \/ BuildProduct
        \/ UNCHANGED <<response, ledger, product>>
    BY DEF Next, ValidateInput, ClassifyQuery, ConversationalResponse, PlanRetrieval,
           HybridRetrieval, WebSearch, PythonAnalysis, AnswerGeneration, ClaimExtraction,
           DeterministicVerification, CitationVerification, GuardedResponse, PersistSession
  <2>2. QED
    BY <1>1, <1>2, <1>3, <1>4, <1>5, <2>1

\* A request is not changed, and a plan says what to use.
LEMMA RequestStep ==
    ASSUME TypeInv, Next
    PROVE  /\ request' \in Request
           /\ plan' \in [use_web : BOOLEAN, use_python : BOOLEAN, insufficient : BOOLEAN]
<1>1. request' = request
  BY DEF Next, ValidateInput, ClassifyQuery, ConversationalResponse, PlanRetrieval,
         HybridRetrieval, WebSearch, PythonAnalysis, AnswerGeneration, ClaimExtraction,
         DeterministicVerification, CitationVerification, GuardedResponse,
         FinalResponseFormatting, ErrorHandler, PersistSession, SaveLedger, BuildProduct
<1>2. request.web \in BOOLEAN /\ request.python \in BOOLEAN
  BY DEF TypeInv, TypeOK, Request
<1>3. CASE PlanRetrieval
  BY <1>1, <1>2, <1>3 DEF PlanRetrieval, NoPlan, TypeInv, TypeOK
<1>4. CASE HybridRetrieval
  BY <1>1, <1>4 DEF HybridRetrieval, TypeInv, TypeOK
<1>5. CASE UNCHANGED plan
  BY <1>1, <1>5 DEF TypeInv, TypeOK
<1>6. QED
  <2>1. PlanRetrieval \/ HybridRetrieval \/ UNCHANGED plan
    BY DEF Next, ValidateInput, ClassifyQuery, ConversationalResponse, WebSearch,
           PythonAnalysis, AnswerGeneration, ClaimExtraction, DeterministicVerification,
           CitationVerification, GuardedResponse, FinalResponseFormatting, ErrorHandler,
           PersistSession, SaveLedger, BuildProduct
  <2>2. QED
    BY <1>3, <1>4, <1>5, <2>1

\* Every step keeps the types.
LEMMA TypeStep ==
    TypeInv /\ CallsInv /\ CallsInv' /\ [Next]_vars => TypeInv'
<1> SUFFICES ASSUME TypeInv, CallsInv, CallsInv', [Next]_vars PROVE TypeInv'
  OBVIOUS
<1>1. ListsInv'
  BY ListsStep DEF TypeInv
<1>2. CASE Next
  <2>1. node' \in Node /\ calls' \in 0..(MaxRetries + 1)
    BY DEF CallsInv
  <2>2. /\ \A i \in DOMAIN contexts' : contexts'[i] \in Context \cup {AnalysisOutput}
        /\ Len(contexts') <= MaxInternal + MaxWeb + 1
    BY <1>1 DEF ListsInv
  <2>3. QED
    BY <1>1, <1>2, <2>1, <2>2, RequestStep, AnswerStep, VerdictsStep, OutcomeStep
    DEF TypeInv, TypeOK
<1>3. CASE UNCHANGED vars
  BY <1>1, <1>3 DEF vars, TypeInv, TypeOK
<1>4. QED
  BY <1>2, <1>3

\* Every variable of a run keeps its type: whatever the models and the web answer, a
\* sentence has a citation of the answer or none (NearestCitation), a claim one of the
\* citations or 0, and at most one page and one output join what retrieval found.
THEOREM TypeCorrect == Spec => []TypeOK
<1>1. TypeInv => TypeOK
  BY DEF TypeInv
<1>2. QED
  BY <1>1, InitTypes, TypeStep, CallsInvariant, PTL DEF Spec

=============================================================================
