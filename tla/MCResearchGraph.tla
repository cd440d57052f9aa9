--------------------------- MODULE MCResearchGraph ---------------------------
(* A small instance of ResearchGraph: four words, one of them a number and   *)
\* one a negation.
EXTENDS ResearchGraph

MCNumbers == {"100"}
MCNegations == {"not"}

Text(words, span, exact, score, source, anchored) ==
    [words |-> words, span |-> span, exact |-> exact, score |-> score,
     source |-> source, anchored |-> anchored]

MCPassages == {Text({"rent", "100"}, {"rent", "100"}, TRUE, 60, "internal", TRUE),
               Text({"rent", "term"}, {"rent"}, FALSE, 60, "internal", TRUE),
               Text({"term", "not"}, {"term", "not"}, TRUE, 10, "internal", FALSE)}

MCWebPages == {Text({"term", "100"}, {"term"}, FALSE, 90, "web", FALSE)}

MCSentences == {{"rent"}, {"rent", "100"}, {"rent", "term", "note"}, {"term", "not"}}
=============================================================================
