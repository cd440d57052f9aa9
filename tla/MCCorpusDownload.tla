-------------------------- MODULE MCCorpusDownload --------------------------
(***************************************************************************)
(* Four results of each service and one more that may be published.  Of    *)
(* arXiv the last one is not usable, nor is a new one; of the others two   *)
(* that are not usable fill a page.                                        *)
(***************************************************************************)
EXTENDS CorpusDownload

MCResults == [s \in Source |-> IF s = "arxiv" THEN <<1, 3, 4, 2>> ELSE <<1, 2, 3, 4>>]

\* Another order of the same results, and one with a new entry among them.
MCRankings == {<<4, 1, 2, 3>>, <<2, 3, 5, 1, 4>>}

MCUsable == [s \in Source |-> IF s = "arxiv" THEN {1, 3, 4} ELSE {1, 4, 5}]

=============================================================================
