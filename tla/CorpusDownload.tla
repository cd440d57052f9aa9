--------------------------- MODULE CorpusDownload ---------------------------
(***************************************************************************)
(* scripts/download_corpus.py: papers are read page by page from up to     *)
(* three services and appended to one JSONL file per service.  A run that  *)
(* failed or was killed is repeated, and goes on after the number of lines *)
(* it finds.  In the model the process and the services change; between    *)
(* the reading of a page and its writing nothing else matters to either,   *)
(* so both are one step.  An answer may lack what the code takes as absent *)
(* for a reason: the entries, the number of results, the next cursor.      *)
(***************************************************************************)
EXTENDS Integers, Sequences, FiniteSets, Functions

CONSTANTS
    Entry,          \* what the services list
    Usable,         \* of each service, the entries its parser keeps: those with
                    \* a title and an abstract, of Semantic Scholar recent ones
    FirstResults,   \* what each service lists for the query at the beginning
    Rankings,       \* bound: how Semantic Scholar may rank its results later
    MaxPapers,      \* --max-papers
    PageSize,       \* the batch sizes
    S2MaxOffset,    \* S2_MAX_OFFSET
    Retries,        \* the attempts of _http_get
    MaxRuns,        \* bound: starts of the script
    MaxCrashes      \* bound: runs that are killed

Source == {"arxiv", "semantic-scholar", "openalex"}
OffsetSource == Source \ {"openalex"}
AllSources == <<"arxiv", "semantic-scholar", "openalex">>

ASSUME EntryAssumption == Usable \in [Source -> SUBSET Entry]
ASSUME ResultsAssumption == /\ FirstResults \in [Source -> Seq(Entry)]
                            /\ Rankings \subseteq Seq(Entry)
ASSUME LimitAssumption == MaxPapers \in Nat /\ PageSize \in Nat \ {0}
                          /\ S2MaxOffset \in Nat /\ Retries \in Nat \ {0}
ASSUME RunAssumption == MaxRuns \in Nat /\ MaxCrashes \in Nat

VARIABLES
    results,    \* what each service lists for the query
    file,       \* the lines of each file
    todo,       \* the sources this run has yet to finish, the current one first
    loop,       \* the local variables of the current source's function
    runs, crashes

vars == <<results, file, todo, loop, runs, crashes>>

\* A line holds the record it was written for.  A write that is cut short leaves
\* a torn line, without its end; what is written next is glued to it, and the
\* line is broken from then on.
Line == [of : SUBSET Entry, state : {"whole", "torn", "broken"}]

\* "start": main has not called the source's function; "loop": at the head of
\* its loop; otherwise why it left the loop.
Phase == {"start", "loop", "limit", "end", "nothing usable", "offset cap", "failed"}

NoLoop == [phase |-> "start", already |-> 0, written |-> 0, position |-> 0,
           attempt |-> 1]

TypeOK ==
    /\ results \in [Source -> Seq(Entry)]
    /\ file \in [Source -> Seq(Line)]
    /\ todo \in Seq(Source)
    /\ loop \in [phase : Phase, already : Nat, written : Nat, position : Nat,
                 attempt : Nat]
    /\ runs \in Nat /\ crashes \in Nat

Lesser(m, n) == IF m <= n THEN m ELSE n

First(seq, n) == [i \in 1..Lesser(n, Len(seq)) |-> seq[i]]

\* The page of a service at a position.
Page(seq, position) ==
    [i \in 1..(Lesser(position + PageSize, Len(seq)) - Lesser(position, Len(seq)))
        |-> seq[position + i]]

\* _parse_arxiv_atom, _parse_s2_paper, _parse_openalex_work: the records of a
\* page, in its order.
Parse(s, page) ==
    LET kept == {i \in DOMAIN page : page[i] \in Usable[s]}
    IN [n \in 1..Cardinality(kept) |->
            page[CHOOSE i \in kept : Cardinality({k \in kept : k <= i}) = n]]

-----------------------------------------------------------------------------
(* Files *)

Torn(lines) == Len(lines) > 0 /\ lines[Len(lines)].state = "torn"

Whole(batch) == [i \in DOMAIN batch |-> [of |-> {batch[i]}, state |-> "whole"]]

Glue(lines, record, state) ==
    [lines EXCEPT ![Len(lines)] = [of |-> @.of \union {record}, state |-> state]]

Write(lines, batch) ==
    IF batch # <<>> /\ Torn(lines)
    THEN Glue(lines, batch[1], "broken") \o Whole(Tail(batch))
    ELSE lines \o Whole(batch)

\* The process is killed in _write_jsonl: n records have reached the file and, if
\* cut, a part of the next one.
WriteCut(lines, batch, n, cut) ==
    LET before == Write(lines, First(batch, n))
    IN IF ~cut THEN before
       ELSE IF Torn(before) THEN Glue(before, batch[n + 1], "torn")
       ELSE Append(before, [of |-> {batch[n + 1]}, state |-> "torn"])

-----------------------------------------------------------------------------
(* The loops *)

Current == todo[1]

\* What the loop compares with max_papers: arXiv its offset, the others the
\* number of records in the file.
Got(s, l) == IF s = "arxiv" THEN l.position ELSE l.already + l.written

\* At the head of the loop: its condition, and the service's limit on offsets.
AtHead(s, l) ==
    IF Got(s, l) >= MaxPapers THEN "limit"
    ELSE IF s = "semantic-scholar" /\ l.position >= S2MaxOffset THEN "offset cap"
    ELSE "loop"

CurrentPage == Page(results[Current], loop.position)

\* Mutant: the last page is written whole.
BatchUncut == Parse(Current, CurrentPage)

Batch == First(Parse(Current, CurrentPage), MaxPapers - Got(Current, loop))

\* One iteration that wrote its batch and goes on at the position, unless it
\* found a reason to stop.
Iterate(position, ended) ==
    LET next == [loop EXCEPT !.written = @ + Len(Batch),
                             !.position = position,
                             !.attempt = 1]
    IN /\ file' = [file EXCEPT ![Current] = Write(@, Batch)]
       /\ loop' = [next EXCEPT !.phase =
                      IF ended THEN "end" ELSE AtHead(Current, next)]

Stop(why) == loop' = [loop EXCEPT !.phase = why] /\ UNCHANGED file

ArxivPosition == loop.position + Len(Parse(Current, CurrentPage))

\* Without a readable entry, be it that the answer lists none, the loop ends.  A
\* totalResults that is missing is read as 0.
FetchArxiv ==
    /\ Current = "arxiv"
    /\ \/ Stop("nothing usable")
       \/ /\ Parse(Current, CurrentPage) # <<>>
          /\ \E total \in {Len(results["arxiv"]), 0} :
                Iterate(ArxivPosition, ArxivPosition >= total)

\* Mutant: the offset counts the records that were kept.
S2PositionOfKept == loop.position + Len(Parse(Current, CurrentPage))

S2Position == loop.position + Len(CurrentPage)

\* An answer without data, which may be behind the last page or not, is the end.
FetchS2 ==
    /\ Current = "semantic-scholar"
    /\ \/ Stop("end")
       \/ CurrentPage # <<>> /\ Iterate(S2Position, FALSE)

\* The position stands for the cursor, which is not kept from run to run.  An answer
\* without results is the end, and so is one without the next cursor.
FetchOpenAlex ==
    /\ Current = "openalex"
    /\ \/ Stop("end")
       \/ /\ CurrentPage # <<>>
          /\ \E ended \in BOOLEAN :
                Iterate(loop.position + Len(CurrentPage), ended)

-----------------------------------------------------------------------------
(* The script *)

\* One source, or all of them in turn.
StartRun ==
    /\ todo = <<>> /\ runs < MaxRuns
    /\ todo' \in {<<s>> : s \in Source} \union {AllSources}
    /\ loop' = NoLoop
    /\ runs' = runs + 1
    /\ UNCHANGED <<results, file, crashes>>

\* Mutant: the offset of the services is taken to begin with one.
ResumeAtNext(s, count) == IF s \in OffsetSource THEN count + 1 ELSE 0

\* The cursor of OpenAlex begins at "*" in every run.
ResumeAt(s, count) == IF s \in OffsetSource THEN count ELSE 0

\* A source's function is called: it counts the lines, and starts there.
Begin ==
    /\ todo # <<>> /\ loop.phase = "start"
    /\ LET count == Len(file[Current])
           l == [NoLoop EXCEPT !.already = count,
                               !.position = ResumeAt(Current, count)]
       IN loop' = [l EXCEPT !.phase = AtHead(Current, l)]
    /\ UNCHANGED <<results, file, todo, runs, crashes>>

InLoop == todo # <<>> /\ loop.phase = "loop"

Fetch ==
    /\ InLoop
    /\ FetchArxiv \/ FetchS2 \/ FetchOpenAlex
    /\ UNCHANGED <<results, todo, runs, crashes>>

\* _http_get: 429, an error of the server or the network: once more, after a pause.
Retry ==
    /\ InLoop /\ loop.attempt < Retries
    /\ loop' = [loop EXCEPT !.attempt = @ + 1]
    /\ UNCHANGED <<results, file, todo, runs, crashes>>

\* The last attempt fails, which breaks the loop; or another error, which main
\* catches.
GiveUp ==
    /\ InLoop
    /\ Stop("failed")
    /\ UNCHANGED <<results, todo, runs, crashes>>

\* main goes on with the next source, whatever ended this one.
NextSource ==
    /\ todo # <<>> /\ loop.phase \notin {"start", "loop"}
    /\ todo' = Tail(todo)
    /\ loop' = NoLoop
    /\ UNCHANGED <<results, file, runs, crashes>>

\* The process is killed, perhaps while it writes.
Crash ==
    /\ todo # <<>> /\ crashes < MaxCrashes
    /\ \/ UNCHANGED file
       \/ /\ InLoop
          /\ \E n \in 0..Len(Batch) :
                \E cut \in {n < Len(Batch), FALSE} :
                    file' = [file EXCEPT ![Current] = WriteCut(@, Batch, n, cut)]
    /\ todo' = <<>> /\ loop' = NoLoop
    /\ crashes' = crashes + 1
    /\ UNCHANGED <<results, runs>>

Listed(s) == {results[s][i] : i \in DOMAIN results[s]}

\* What a service lists changes.  arXiv is asked for the newest first, so a new entry
\* is at the head.  The results of Semantic Scholar are not stable: another ranking
\* replaces them.  What OpenAlex adds does not move its cursor.  Nobody sees the
\* change before the service is asked next, so it may have come long before.
Publish ==
    /\ InLoop
    /\ \/ /\ Current = "arxiv"
          /\ \E e \in Entry \ Listed("arxiv") :
                results' = [results EXCEPT !["arxiv"] = <<e>> \o @]
       \/ /\ Current = "semantic-scholar"
          /\ \E ranking \in Rankings :
                results' = [results EXCEPT !["semantic-scholar"] = ranking]
    /\ UNCHANGED <<file, todo, loop, runs, crashes>>

Init ==
    /\ results = FirstResults
    /\ file = [s \in Source |-> <<>>]
    /\ todo = <<>>
    /\ loop = NoLoop
    /\ runs = 0 /\ crashes = 0

Work == Begin \/ Fetch \/ Retry \/ GiveUp \/ NextSource

Next == StartRun \/ Work \/ Crash \/ Publish

Spec == Init /\ [][Next]_vars

\* A request ends with a page or, after its timeout, with an error.
FairSpec == Spec /\ WF_vars(Work)

-----------------------------------------------------------------------------
(* Properties *)

\* However often the script is run, and wherever it is killed, a file never has
\* more than max_papers lines.
NeverBeyondMax == \A s \in Source : Len(file[s]) <= MaxPapers

OldUsable(s) == {FirstResults[s][i] : i \in DOMAIN FirstResults[s]} \intersect Usable[s]

\* What a reader of the file gets: the records of its whole lines.
Readable(s) == UNION {line.of : line \in {l \in Range(file[s]) : l.state = "whole"}}

\* The usable entries that were listed from the beginning and now stand before the
\* offset at which the next run resumes, but cannot be read in the file.
Missed(s) ==
    ({results[s][i] : i \in 1..Lesser(Len(file[s]), Len(results[s]))}
        \intersect OldUsable(s)) \ Readable(s)

\* The number of lines in the file of arXiv is an offset before which next to nothing
\* is missed, although unusable entries are not counted, new entries move the old
\* ones and answers are incomplete: at most two entries for every kill, the one it
\* tore and the one that was glued to it.
FewAreMissed == Cardinality(Missed("arxiv")) <= 2 * crashes

\* Every run ends, whatever the services do: with no source is it caught in its
\* loop, nor does the failure of one keep it from the next.
RunsEnd == todo # <<>> ~> todo = <<>>

\* What the code does not have.

\* The offset of a source never lies below the entries it has written
\* (download_corpus.py:332 "Supports resuming by counting lines already present").
NoDuplicates ==
    \A s \in Source : \A i, j \in DOMAIN file[s] :
        i # j => file[s][i].of \intersect file[s][j].of = {}

\* A run resumes where nothing before is missing (download_corpus.py:332, likewise).
NothingMissed == \A s \in OffsetSource : Missed(s) = {}

Ended(why) == todo # <<>> /\ loop.phase = why /\ Got(Current, loop) < MaxPapers

\* A function that says it has reached the end of the results, by its count below
\* max_papers, has written everything usable that was listed from the beginning.
EndIsComplete == Ended("end") => OldUsable(Current) \subseteq Readable(Current)

\* "no more results" is said only where there are none.
NothingUsableIsEnd ==
    Ended("nothing usable") => OldUsable(Current) \subseteq Readable(Current)

\* Every line can be read.
LinesReadable == \A s \in Source : \A line \in Range(file[s]) : line.state = "whole"

=============================================================================
