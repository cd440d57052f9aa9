------------------------------ MODULE Evidence ------------------------------
(***************************************************************************)
(* The verdicts of app/evidence and app/tools/citation_verifier.py as      *)
(* operators.                                                              *)
(*                                                                         *)
(* A sentence of an answer is the set of its words.  A context is a        *)
(* retrieved text: its words, those of the excerpt a citation quotes       *)
(* ("span"), whether the excerpt is literally part of the text ("exact": a *)
(* text over 180 characters is cut and gets an ellipsis, which is not), a  *)
(* score in percent, where it comes from, and whether it has source        *)
(* anchors.  Citation c of an answer cites context c.                      *)
(***************************************************************************)
EXTENDS Integers, Sequences, FiniteSets

CONSTANTS Numbers,      \* the words that are numbers
          Negations,    \* the words that negate
          MaxCitations  \* an answer cites that many contexts at most

ASSUME MaxCitationsAssumption == MaxCitations \in Nat \ {0}

Verdict == {"supported", "partially_supported", "unsupported", "contradicted",
            "insufficient"}

\* Verdicts that take a citation out of an answer.  "stale" is one too, but
\* every web context has the time it was fetched.
Failed == {"unsupported", "contradicted", "insufficient"}

\* The share of a sentence's words that a text has, in percent.
Overlap(sentence, words) ==
    IF sentence = {} THEN 0
    ELSE (100 * Cardinality(sentence \cap words)) \div Cardinality(sentence)

\* A stable descending sort puts the first of the best in front.
FirstBest(rank) ==
    CHOOSE i \in DOMAIN rank :
        \A j \in DOMAIN rank : \/ rank[j] < rank[i]
                               \/ rank[j] = rank[i] /\ i <= j

Citations(contexts) == 1..(IF Len(contexts) < MaxCitations THEN Len(contexts)
                                                           ELSE MaxCitations)

-----------------------------------------------------------------------------
(* Sentence by sentence: extraction, selection, deterministic checks. *)

\* The citation whose excerpt shares most words with the sentence; 0: none.
NearestCitation(sentence, contexts) ==
    IF Citations(contexts) = {} THEN 0
    ELSE FirstBest([c \in Citations(contexts) |->
                        Cardinality(sentence \cap contexts[c].span)])

CandidateScore(sentence, cited, contexts, i) ==
    Overlap(sentence, contexts[i].words)
        + (IF i = cited THEN 50 ELSE 0) + contexts[i].score \div 10

\* The context that ranks first for a sentence; 0 if none scores at all.
TopCandidate(sentence, cited, contexts) ==
    LET score == [i \in {i \in DOMAIN contexts :
                            CandidateScore(sentence, cited, contexts, i) > 0}
                    |-> CandidateScore(sentence, cited, contexts, i)]
    IN  IF DOMAIN score = {} THEN 0 ELSE FirstBest(score)

NumbersMissing(sentence, words) == ~ (sentence \cap Numbers \subseteq words)

NegationDiffers(sentence, words) ==
    (sentence \cap Negations = {}) # (words \cap Negations = {})

\* The decision on a sentence, from its top candidate.
Decision(sentence, cited, contexts) ==
    LET top == TopCandidate(sentence, cited, contexts)
    IN  CASE top = 0 -> "insufficient"
          [] /\ top # 0
             /\ \/ NumbersMissing(sentence, contexts[top].words)
                \/ NegationDiffers(sentence, contexts[top].words) -> "contradicted"
          [] OTHER -> IF CandidateScore(sentence, cited, contexts, top) >= 65
                      THEN "supported" ELSE "partially_supported"

-----------------------------------------------------------------------------
(* Citation by citation. *)

\* The sentence that a citation is checked against.
BestSentence(sentences, context) ==
    IF sentences = << >> THEN context.span
    ELSE sentences[FirstBest([i \in DOMAIN sentences |->
                                  Overlap(sentences[i], context.words)])]

CitationVerdict(sentences, context) ==
    LET claim == BestSentence(sentences, context)
    IN  IF NumbersMissing(claim, context.words) THEN "contradicted"
        ELSE IF context.exact THEN "supported"
        ELSE IF Overlap(claim, context.words) >= 40 THEN "partially_supported"
        ELSE "unsupported"

\* What an optional language-inference model may make of a verdict.
Reconsidered(verdict, model) ==
    IF model /\ verdict \in {"unsupported", "partially_supported"}
    THEN {verdict, "supported", "contradicted"} ELSE {verdict}

\* One claim per citation; an answer that cites nothing is a claim of its
\* own, of citation 0, unless it is blank.
CitationClaims(sentences, contexts, model) ==
    IF Citations(contexts) # {}
    THEN {[c \in Citations(contexts) |-> [citation |-> c, verdict |-> v[c]]] :
             v \in {v \in [Citations(contexts) -> Verdict] :
                       \A c \in Citations(contexts) :
                           v[c] \in Reconsidered(
                                     CitationVerdict(sentences, contexts[c]), model)}}
    ELSE IF sentences = << >> THEN {<< >>}
    ELSE {<<[citation |-> 0, verdict |-> "insufficient"]>>}

Flagged(claims) ==
    {claims[i].citation : i \in {i \in DOMAIN claims : claims[i].verdict \in Failed}}

\* Mutant: partial support counts as support.
OverallOfAnySupport(claims) ==
    IF DOMAIN claims # {} /\ \A i \in DOMAIN claims :
                            claims[i].verdict \in {"supported", "partially_supported"}
    THEN "supported" ELSE "unsupported"

Overall(claims) ==
    IF DOMAIN claims # {} /\ \A i \in DOMAIN claims : claims[i].verdict = "supported"
    THEN "supported"
    ELSE IF \E i \in DOMAIN claims :
                claims[i].verdict \in {"supported", "partially_supported"}
    THEN "partially_supported" ELSE "unsupported"

-----------------------------------------------------------------------------
\* Mutant: a decision does not replace a verdict that is "supported".
ApplyKeepsSupported(claims, decisions) ==
    [i \in DOMAIN claims |->
        IF i \in DOMAIN decisions /\ claims[i].verdict # "supported"
        THEN [claims[i] EXCEPT !.verdict = decisions[i]] ELSE claims[i]]

\* Both lists are numbered claim-1, claim-2, ... and joined by number:
\* sentence i decides over citation i.
ApplyDecisions(claims, decisions) ==
    [i \in DOMAIN claims |->
        IF i \in DOMAIN decisions /\ decisions[i] # "supported"
        THEN [claims[i] EXCEPT !.verdict = decisions[i]] ELSE claims[i]]

\* The citations that an answer keeps.
Kept(citations, claims) == citations \ Flagged(claims)
=============================================================================
