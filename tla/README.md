# CiteBot: specifications, model checking and proofs

CiteBot (`src/app`) ingests documents, indexes them, answers research questions
with cited evidence and puts the results through a human review.  This
directory holds TLA+ models of the parts where several actors share state, TLC
runs over small instances of them, and TLAPS proofs for all instances.
`PROJECT.json` lists the components, the runs, for every property a mutation of
the model that breaks it, the source lines behind every definition, the hazards
and the theorems.

    tlc -workers 2 -config IngestionQueue_safety.cfg MCIngestionQueue
    tlapm IngestionQueueProofs.tla

Paths below are relative to `src/`.

## 1. Inventory

One API process (FastAPI, one asyncio event loop, synchronous routes in a thread
pool), one or more ingestion workers, a relational database (PostgreSQL, or
SQLite) and an object store.

| Component | State | Operations | What is hard | Correct when |
|---|---|---|---|---|
| Ingestion queue and worker (`app/ingestion/{repository,service,worker,bootstrap}.py`) | table `ingestion_jobs`: status, owner, lease, attempts, counts; what each process holds in memory | `enqueue_path`, `ingest_path`, `claim_next_job`, `heartbeat`, `recover_stale_jobs`, `complete_job`, `fail_job`, `run_worker` | leases that run out under a live worker; crashes; late outcomes; recovery only at start | attempts are bounded, a lease excludes, an outcome is complete and final, no job is stranded |
| Document index (`ingestion/{repository,service,vector_writers}.py`, `chunker.py`) | `documents`, `chunks`, `chunk_embeddings`, `document_versions`, `source_anchors`, object store | skip, `save_document`, `save_provenance`, `upsert_chunks` | three transactions per document; overlapping runs; interruptions; keys derived from content | one searchable generation per document, it matches the row; only a run cut off leaves it without embeddings; versions are immutable |
| Review workflow (`app/workflows/{review,repository,review_gate}.py`, `api/routes/workflows.py`) | `work_products`, `review_events`, `review_checkpoints`, the LangGraph thread | `save`, `decide`, `start`, `resume`, `restart` | optimistic concurrency; column-wise updates; two stores without a common transaction | history is a chain, approval names the content approved, no interrupt is orphaned |
| Work-product construction (`workflows/service.py`) | none | `build_product` | support rules | status follows from evidence |
| Bounded admission (`app/core/admission.py`) | `_waiting`, the semaphore's value and futures | `acquire` | cancellation between a grant and its resumption | permits are conserved, bounds hold, no wakeup is lost |
| Research requests and conversations (`api/routes/research.py`, `agents/{service,session_store}.py`) | `research_sessions` | ask, stream, list, delete | read - run a graph for minutes - write back; deletion and projects meanwhile | turns grow, projects do not mix, graphs are bounded |
| Research graph and evidence (`agents/service.py`, `agents/generation.py`, `app/evidence/`, `tools/`) | the state of one run; `analysis_runs` with their claims and links | the nodes of the graph from `_validate_input` to `_persist_session`, `save_response` | verdicts of two lists joined by number; what is dropped after what was judged; retries and exceptions of tools; a ledger keyed by a trace id | status, verdicts, citations and links fit together; tools run only when allowed; every request ends |
| Retrieval (`app/retrieval/`) | none | dense search with a local fallback, sparse search, weighted reciprocal-rank fusion, reranking of a window, at most two passages per document, `top_k`, parents | ties, limits, duplicates, a missing ranker | order and limits as documented, nothing twice |
| Projects, uploads, bootstrap (`app/projects`, `api/routes/{projects,documents}.py`, `ingestion/bootstrap.py`) | `projects`, uploads, the bootstrap's lock | create, update, archive, upload, admin job, bootstrap | archived between check and use; API processes that start together; jobs given up or left running | one bootstrap of the corpus at a time; a summary hides no failed job; nothing enters an archived project |
| Document diffing (`app/diffing`) | none | align two versions | ties, moved passages | every passage once |
| Workflow checkpointer | saver of LangGraph | open, close | fallback | external storage |
| Web search, sandbox (`app/tools/`) | none | `search`, `run` | retries; which failures escape | bounded attempts, every failure ends |
| Corpus download (`scripts/download_corpus.py`) | a JSONL file per service | one loop per service: read a page, append what is usable, go on | the number of lines is the offset a repeated run resumes at; kills while appending; services that list more or rank anew meanwhile; pages with nothing usable, answers that lack a part | at most two entries for a kill are missed before the offset of arXiv, the limit holds, every run ends |
| Model provisioning (`scripts/{provision_local_models,verify_model_manifest}.py`, `app/core/model_manifest.py`, `docker-compose.yml`) | model files, `manifest.lock.json` | plain, `--ensure`, `--force`; two verifiers | failures between removal, download and manifest; revisions that move; damage on disk | what verifies is one snapshot of each artifact; a valid set is not harmed; the stack comes up again |
| Parsers, OCR, model endpoints, calculations, evaluation harness, configuration, static client | little | - | - | not protocols |

Interactions.  The API inserts rows into the queue; workers poll it.  Both run
`_process_job`, which writes the index.  Research requests pass the admission,
run the graph, which reads the index, and write the conversation.  Workflow
routes run the same graph *without* the admission, write work products and start
the gate.  Nothing but the database is shared between processes, so the hazards
are interleavings of transactions; inside the API process they are interleavings
at `await`.

The hazards, each at its line, are in `PROJECT.json`.

## 2. Modules

| Module | Models | Extends / composes |
|---|---|---|
| `JobLifecycle` | abstract: what a client sees of one job | |
| `IngestionQueue` | queue, worker loop, foreground jobs, crashes, clock | implements `JobLifecycle` (`Lifecycle`) |
| `ReviewPolicy` | abstract: one product, one decision at a time | |
| `ReviewWorkflow` | tables, gate, routes, overlapping requests, crashes | implements `ReviewPolicy` (`Promised`) |
| `DocumentIndex` | skip and three transactions of a document | refines what "a document" is in `IngestionQueue` |
| `Retrieval` | one search beside the ingestion | extends `DocumentIndex` |
| `Admission` | `BoundedAdmission` with asyncio's semaphore | |
| `ResearchSession` | requests of one conversation | composes `Admission` |
| `Workspaces` | projects, uploads, admin jobs and bootstraps | extends `JobLifecycle` |
| `ProjectSummary` | the statements of one summary beside all that | extends `Workspaces` |
| `Evidence` | the verdicts of the evidence pipeline, as operators | |
| `ResearchGraph` | one run of the graph, its tools, ledger and work product | extends `Evidence` |
| `CorpusDownload` | the downloader, its files and the services | |
| `Provisioning` | the provisioner, the verifiers and the order compose starts them in | |
| `MC...` | TLC instances of the above | |
| `IngestionQueueProofs`, `ReviewWorkflowProofs`, `ResearchSessionProofs`, `ResearchGraphProofs`, `WorkspacesProofs`, `RetrievalProofs` (with those of `DocumentIndex`), `CorpusDownloadProofs`, `ProvisioningProofs` | theorems | |

Definitions marked `Mutant:` are not part of a specification: each is a
plausible bug in the definition that follows it and shows which property would
notice it.

### IngestionQueue

`job[j]` is the row of `ingestion_jobs`, `proc[p]` what a process holds in
memory, `clock` the time in ticks.  A status "absent" means that there is no row
yet.  `EnqueuePath`/`IngestPath` are the two submissions.  `claim_next_job` is
two statements, so it is two steps: `ClaimSelect` chooses the oldest queued job
and reads the time, `ClaimUpdate` is the conditional `UPDATE`, `ClaimLost` its
empty result.  `_process_job` is `ProcessDocument` per document (heartbeat, then
work), then `CompleteJob`; `FailJob` is its `except` clause.  Both load the row by
its id (`LoadRow`), and `WriteOutcome` is the `UPDATE` at the end of the session,
which has only the columns that differ from those loaded (`Flushed`), whatever the
row has become by then.  `LoseOutcome` is
the case where the outcome itself cannot be written, or the task is cancelled.
`RunWorker` is the start of a worker with the *only* call of
`recover_stale_jobs`.  `Crash` forgets `proc[p]`.

`proc[w].lease` is the expiry last granted to a worker.  The code does not keep
it.  It is read by the property `LeaseExclusive` and, if `TimelyHeartbeats`, by
`Tick`: with that constant the clock does not run past a lease whose worker is
alive, which says that parsing one document takes less than
`QUEUE_LEASE_SECONDS`.  The code neither ensures nor checks that, so runs are
made with and without it.

Abstractions: what a document does to the index (see `DocumentIndex`);
`current_stage`, `error`, the counters but `documents_seen`; jobs that are
retried through the API are new jobs.

### ReviewWorkflow

`decide` loads the row (`Load`), checks, and flushes an `UPDATE` with the columns
that differ from those it loaded (`Flushed`); from the flush on the row is locked
and the transaction is one step (`Commit`).  Refusals (`409`) are `Refuse`;
repeated approvals and rejections return the product (`ReturnCurrent`).  The
route reads the checkpoint before (`ReadCheckpoint`) and drives the gate after
(`ResumeGate`, and for an edit `DeleteThread`, `RestartGate`).  A hash is the
pair it is computed from.  In each of these steps the database or the saver of the gate
may raise, the task may be cancelled, and the process may stop: `Lose`.  `cut` is
history: the products whose last decision was lost between its commit and the gate.

### DocumentIndex

Each of `save_document`, `save_provenance`, `upsert_chunks` is its read and its
flush with commit, so that overlapping runs interleave between them.
Primary-key collisions are the `Reject...` actions, after which the job fails.
The chunks of one document, content and index version are one element: they are
inserted and retired together.

### Retrieval

`search` is one search; `IndexStep` lets the ingestion take any of its steps
meanwhile.  The service opens a transaction for each read: `SearchDense` (one step
per backend asked), `SearchSparse`, and the siblings, which `Answer` reads after
ranking.  Ranking itself reads nothing and is part of `Answer`.  A chunk is a part
of a generation of `DocumentIndex`.  How well a part matches is given by constants;
what the code computes from that is computed: limits, fusion, the window of the
ranker, diversification, `top_k`.  Scores are integers, thousandths rounded down.
Equal matches come back from a query in any order; what Python sorts keeps the order of
equals, and is listed by rank (`InOrder`: an element's place is the number of those that
go before it), which needs no recursion.  `seen` is history: the
generations that were current at some time of the search, for `ResultsCurrent`.  An
answer is forgotten when the index moves on.  The embedding of the query, the
ranker's model, the full-text dialects and the cutting of texts are left out.

### Admission

Between two awaits everything is one step.  A future is pending, granted
(resolved, its task not yet run), cancelled, or revoked (resolved and then
cancelled); `Resume`, `Reject` are the task running after a grant or a
cancellation with the `finally` blocks of `Semaphore.acquire` and of `acquire`.
`wait_for` and a client going away are both `Cancel`.  The semaphore is external
(Python 3.13, the version of the `Dockerfile`) and modelled from how `acquire`
uses it.

### ResearchSession

`ask[q]` is one request, `stored` the row of one conversation.  `Admit`, `Wait`,
`TurnAway`, `Finish` are steps of `Admission`; `Load`, `Generate`, `SaveLoad`,
`SaveCommit` are the transactions of `get` and `save` around the graph.
Workflow runs take `Load` directly.  A request adds itself as its turn.  The
summaries and memory written beside the turns are left out.

### Workspaces

`origin[j]` is the project and path of a job, and whether a bootstrap made it.
`task[t]` is one task of an API process: a request, or the bootstrap at its start.
An upload is two steps, the route's check (`Upload`) and the job after the file has
been received (`AcceptUpload`); a bootstrap is `StartBootstrap` (the lock is taken),
`CheckCorpus` and `ScheduleCorpus`, the last two in transactions of their own.  In
foreground mode the task then runs its job.  `Abandon` is an exception, a client
going away or the end of the process, with which the system drops its lock.

Jobs take the steps of `JobLifecycle`, and `ReportLate` is what `IngestionQueue` does
beyond it: a worker whose lease ran out reports by job id, whatever the row says by
then.
`whole` holds the completed jobs whose `documents_seen` is the expected count.  Slugs,
names, files on disk and `prune_stale_sample_documents` are left out.

### ProjectSummary

`_summary` awaits its counts one after another, and at READ COMMITTED each sees what
is committed by then.  `view` is one such summary: `BeginSummary` loads the record of
the project, each `Count` is the next statement, with the last one, behind which nothing is awaited,
the summary is made (`Respond`), and `Readiness` is what the `if` chain makes of them.  Between any two of them everything in `Workspaces` may happen, and
`SaveDocument`, by which a project comes to have documents (`filled`).  A job may
complete without saving any: the loaders yield nothing, and raise nothing, for an
empty list, a blank `.jsonl` or a directory without supported files.  So a project
that has been given a job may read "empty" (section 5).  What is checked is that such
a summary hides no failure: `EmptyHidesNoFailure` needs the live jobs to be counted
before the failed ones.  `prune_stale_sample_documents` keeps the documents its run has
seen, so `filled` does not shrink.

### Evidence, ResearchGraph

`node` is the graph node that runs next; each action is one node with the route
out of it.  What retrieval, the web service, the answer model and the
language-inference model return is any value from small sets; what the code makes
of it is computed.  The graph has no loop: an answer is refined once, and only the
web search retries (`calls`).

A sentence is the set of its words, so that overlap, numbers and negations can be
computed as in the code.  `_build_citations` cites the first contexts in their
order, so citation `c` is context `c`.  Sentences are judged in two steps
(`ClaimExtraction`, `DeterministicVerification`), citations in a third
(`CitationVerification`), which joins both lists by number (`ApplyDecisions`).
An excerpt that is cut at 180 characters gets an ellipsis and is not part of its
text any more (`exact`).  The language-inference model may turn a weak verdict
into either of its answers.  Query rewriting and evidence selection change nothing
a property can see and are part of the node that follows.  Verdicts
`stale` and `uncertain` do not arise: web contexts carry the time of their fetch.

`SaveLedger` is `save_response` with the exception handler around it;
`BuildProduct` is `build_product`, for which the model may read any required field
into a claim.  `ReusedTrace` says whether the trace id of the request, which a
client may send as `X-Trace-ID` (`observability/middleware.py:77`), belongs to an
earlier run.

### CorpusDownload

`file[s]` is the JSONL file of service `s`, `todo` the services a run has yet to
finish, `loop` the local variables of the current function: `phase` is where it
stands or why its loop ended, `position` is `start`, `offset` or the cursor.  A line
is a record, or what a kill in `_write_jsonl` made of it: a torn line has no end, so
the next record is glued to it, and `_count_lines` counts both as one.  `StartRun` is
`main` with one source or all, `Begin` the part of a function before its loop,
`FetchArxiv`, `FetchS2`, `FetchOpenAlex` an iteration each: the page, what its
parser keeps (`Usable`: a title, an abstract, for Semantic Scholar a recent date),
the cut at `max_papers`, the write and the condition of the loop.  An answer may lack
what the code reads with a default: without `totalResults` (`:256`, read as 0), `data`
(`:534`), `results` (`:701`) or the next cursor (`:718`) a loop takes itself to be at the
end.  `Retry` and `GiveUp` are `_http_get`; `NextSource` is `main` after a function
returned or raised.

`results[s]` is what a service lists; `Publish` adds an entry to arXiv, at the head
(the request sorts by date, newest first, and a date does not change), and gives Semantic
Scholar another ranking out of `Rankings` ("S2 results are not stable across runs",
`:509`), so that its offset means nothing and `FewAreMissed` speaks of arXiv alone.
OpenAlex is read with a cursor, which what it adds does not move.  `Publish` happens only
while its source is in its loop: nobody sees the change before the next request, so this
leaves nothing out.  `Missed` compares what stands before the next run's offset with what
can be read: only the records of whole lines.  A kill costs at most two entries, the one it tears and
the one that is later glued to it, and the count of lines moves the offset past both.
Two downloaders at once, time, URLs and the fields of records are left out.

### Provisioning

`disk[a]` is what is at an artifact's path, each file with the commit it comes from and
whether its body arrived whole, was cut short, or was changed on disk;
`manifest` what `manifest.lock.json` holds, its digests being the files they were
computed from.  `proc` is the provisioner: `RemoveArtifact`, `RemoveManifest` are
`remove_known_artifacts`; `Refuse`, `Resolve` and `Download` (a file at a time) are
`provision`; `WriteManifest` is `write_manifest`.  `Fail` ends it at any step and leaves
what that step leaves `Unfinished`: a directory half removed or half downloaded,
with a temporary file or without, or a manifest opened and not written.  A body
that ends early is no error: `Download` may keep such a file.  `ComposeUp`,
`Preflight` and `StartApi` follow `depends_on` in `docker-compose.yml`: the
provisioner with `--ensure`, `validate_manifest`, and `verify_model_manifest` in
`ServiceContainer.initialize`, after the services that load the models are healthy, which
one whose model was cut short (`Served`) may never be.  `RunByHand` starts it in any mode.  `HeadMoves` is a new
commit under the configured revision, `Damage` a file lost or changed while no
provisioner runs.  Nothing keeps an operator from starting a second provisioner while
one runs (there is no lock); that is not modelled.

## 3. Runs

| Run | Bounds | Shows |
|---|---|---|
| `queue_safety` | 1 job of 1 document, 3 workers with own ids (symmetric), 1 caller, lease 1, 6 ticks, 3 attempts, 2 crashes | leases running out under live workers, late outcomes, double processing: live leases exclude one another, terminal jobs stay terminal, and completed jobs claimed twice at most went through all documents |
| `queue_timely` | 2 jobs (2 documents and 1), 2 workers with one shared id, 1 caller, lease 2, 5 ticks, 2 attempts, 1 crash, timely heartbeats, fair workers | owner, lease and row agree (`OwnerWorks`), `JobLifecycle` implemented (in which outcomes are final), restart recovers, queued jobs are taken |
| `review_single` | 1 product, 2 contents, 1 request at a time, any of them lost anywhere, 4 events | stores agree, events chain, an interrupt waits for a review or was left by a lost resume, `ReviewPolicy` implemented |
| `review_concurrent` | 2 requests at a time, any of them lost anywhere, 3 events | what survives overlap: approved content has its approval, one event per change |
| `index_concurrent` | 2 overlapping runs out of 3, 2 edits, 1 interruption, 1 index version | one generation, the one the row names; chunks without embeddings are on the way or were left by a run cut off between its transactions |
| `search` | 2 documents, 2 contents of 3 parts, 3 runs one after another, 1 edit, 1 query of every strategy, reranked or not, with and without filters, `top_k` 3 | results were current during the search and passed the filters, no read mixes two versions of a document, at most two per document and no more room wasted, a missing dense backend leaves the full-text order |
| `workspaces` | 2 jobs, 2 API processes (one queues, one runs its jobs), the sample project and another, an absolute corpus path, 2 attempts, one summary at a time of either project | bootstraps never have two live jobs of the corpus; a summary that reads "empty" hides no job that waits, is at work, failed or was given up |
| `admission` | 4 returning requests, 2 active, 1 more waiting (3 inside, 1 refused) | permits, no lost wakeup; a waiter is served |
| `session` | 3 requests, 2 projects, 1 active, 1 waiting, all routes | projects isolated and turns monotone among queries; graphs bounded beside workflow runs |
| `research_graph` | 3 passages and 1 web page over 4 words, up to 2 results of the web (one a number, one a negation), up to 2 internal contexts, answers of up to 2 of 4 sentences, 2 citations, 1 retry, 1 required field, fair | answers grounded, supported answers verified, failed checks block, tools allowed, ledger and work product agree with the response; every request ends |
| `download` | 5 entries, of each service 4 from the beginning, 2 other rankings of Semantic Scholar, pages of 2, at most 4 papers, an offset cap of 5, 2 runs, 2 kills, 2 attempts per request | files never beyond the limit, at most two entries for a kill missed before the offset of a repeated run over arXiv, every run ends |
| `provision` | 2 directories and 1 file, 2 commits of each repository, the second with a file less, 2 failures or bodies cut short, 2 damages, 2 runs by hand beside compose, fair | what verifies is one snapshot of each artifact, a verified set is not harmed, the stack comes up again unless a model was cut short |

Why the bounds are enough.  Two workers on one job are all that a lease can
separate; a third, with three attempts (the default), lets three reports on one row
overlap, which is what it takes for their columns to mix; two jobs are needed for the
order of the queue and for a worker that goes on to the next job while an earlier claim
is recovered; five ticks let a lease run out twice, which with two attempts reaches
quarantine, and six do so with three.  Two requests suffice for a lost update, and three events let a
decision be made on the result of two.  Two documents with two contents let keys
collide across documents, and three runs let an interrupted run be retried beside
another one.  In `search` a content has three parts, so that a cap of two
matters; two documents with one content give ties; six chunks are more than the
local backend takes (5) and more than the read of siblings returns (5), and three
of one document are fewer.  In `workspaces` two processes race for the
lock; two live jobs of bootstraps are all that `OneLiveCorpus` is about, and a third could
only keep a bootstrap from scheduling; for a summary, one job is recovered or reported late
between the counts while the other completes.  Four requests against three places have every role in the
admission at once: active, granted, waiting and refused.  In the graph, two
sentences and two citations of three contexts (two passages and a web page) make
every list longer, shorter or equal to the one it is joined with; the three
passages are one that holds a number, one whose excerpt is cut, and one with a
negation, no anchor and a score below the threshold; the four sentences are
supported, contradicted by a number or a negation, or partly supported by them.
In `download` two unusable entries fill a page of Semantic Scholar and of OpenAlex; two
runs with a kill each let a torn line be glued to the next run's first record, let the
count of lines and the position differ, and reach the bound of two missed entries for a
kill; the cap lies between the number of results and the next page.  In `provision` a commit that
drops a file is what a half-removed directory could be mistaken for, and two
failures let one strike what another left.
Every bound is a
constant named in its module (`MaxTime`, `MaxCrashes`, `MaxEvents`, `MaxRuns`,
`MaxEdits`, `MaxInterrupts`); a run whose bounds end every behaviour does not
check deadlock.  The admission run does.  A queue whose jobs are all terminal
leaves idle workers polling, which stutters.

Fairness.  `WorkerFairness`: compose restarts workers (`restart:
unless-stopped`), the loop polls until it is stopped, a document is parsed in
finite time, and a claim is not refused by the database for ever, hence the
strong fairness of `ClaimUpdate`, which `LoseOutcome` and another worker may
disable again and again.  `AdmissionFairness`: the event loop runs ready tasks,
and every model call has a timeout, so a graph ends.  The time-out of `wait_for`
is *not* assumed: a waiter is served without it.  `FairSpec` of the graph: a node
is run when it is next, and what it awaits has a timeout (`httpx` clients,
the `timeout` of `subprocess.run` around the interpreter).  `FairSpec` of
`CorpusDownload`: a request has a timeout and a bounded number of attempts, so the loop
takes its next step.  `FairSpec` of `Provisioning`: likewise for the provisioner; and
`docker compose up` is repeated until the stack is up, by whoever wants it, for
compose itself does not restart these containers (`restart: "no"`).  Failures are
bounded there, since a registry that never answers lets nothing come up.  Crashes,
failures, submissions and time are never fair.

## 4. What is proved

For every value of the constants that satisfies the named assumptions.

* `IngestionQueueProofs` (assuming `QueueAssumption`): `TypeCorrect`,
  `AttemptsAreBounded`, `LeasesAreDisciplined`, which the runs
  need not check again, `TerminalIsAbsorbing` and `CompletedJobsSawAll`.  The
  inductive invariant is `QueueInv`: the types; `BusyHasJob` (a process beyond
  idle has a job in hand); `OwnerIffLease` (a row names an owner exactly while it
  has a lease), without which a heartbeat that matches by owner could put a lease
  on a row that must not have one; `ReportsLoaded` (a report has loaded such a row,
  so it writes both columns or neither, and if it found a terminal status, the row has one
  still); `AbsentUnclaimed`; `AttemptsBounded`;
  `LeaseDiscipline`, which is of running and queued rows: a late report may leave a
  terminal row with a lease.  The rows are reasoned
  about through one disjunction, `RowChange`: every step leaves a row alone,
  creates, claims, renews, reports on or recovers it; a lemma per kind says what the row
  looks like afterwards.  `ProcChange` does the same for processes.
  `CompletedJobsSawAll` adds `ReportInv`: a job that was claimed twice at most has two runs
  at most, and one after the first report (`FewRuns`), so nobody changes what the
  second finds (`LoadedIsCurrent`), and a column it leaves unwritten has what it would write.
  `LeasesExclude` takes distinct worker ids: by `LiveOwns`, a worker whose lease
  still runs is named, with that lease, in the row of its job, or the job is over; a
  row names one worker.
  `OwnersWork`, `OutcomesAreFinal` and `QueueImplementsLifecycle` take timely
  heartbeats instead, which is what they are about.  Their invariant `TimelyInv` adds
  `WorkedRuns` (a job somebody works on runs, under that worker's lease), `Alone`
  (nobody else works on it) and `InTime` (its lease has not run out, nor has the time
  a claim has read).  So nothing is recovered that is worked on, and nobody is left to
  report on a job that is over: the two ways in which the queue is not `JobLifecycle`.
* `ReviewWorkflowProofs` (assuming `ReviewAssumption`, `HashAssumption`).  For any
  overlap of requests: `TypeCorrect`, `ApprovalsHaveEvents`, `TransitionsHaveEvents`.
  The inductive invariant is `ReviewInv`: the types, and `InProgress` (what a request
  has read exists).  The heart is `StoredChange`: a row and its history change in a save
  or in the commit of a decision only.
  For requests one at a time (`OneAtATime`), any of them lost anywhere:
  `StoresAlwaysAgree`, `EventsFormAChain`, `InterruptsAwaitReview` and
  `WorkflowImplementsPolicy`.  `StoryInv` adds `LoadedIsCurrent` (a row has not changed
  since it was loaded), which is exactly what an overlapping decision breaks, and
  `UnsavedIsBlank`; `GateInv` adds whose the interrupts are: one beside a product that
  needs no review is one that the request in progress is about to resume, or that a lost
  one should have resumed (`cut`).
  The refinement maps a row to its payload and the events to what they say was before
  and after; `LoadedAllowed` carries the check of the policy from the load to the commit.
* `ResearchSessionProofs` (assuming `AdmissionAssumption`, `ResearchAssumption`).  Of the admission: `AdmissionInvariant`,
  `PermitsAreConserved`, `QueueIsBounded`, `ActiveIsBounded`, `WakeupsAreNotLost`.  The
  inductive invariant adds `WaitingIsQueued` (a request in one of the waiting states is
  in the queue), so that dequeuing is defined.  The heart is `FirstPendingBound`: waking
  `n` times wakes at most `n`, so permits never go below zero.  `NoLostWakeup` needs
  `QueueInOrder` besides (nobody is in the queue twice, and nobody who does not wait),
  for the first pending request must be found: `MoveWakes`.
  Of the routes: `RoutesUseAdmission`, every behaviour of the routes is
  a behaviour of `Admission`, so its theorems hold for them; and
  `GraphsAreBounded`, from `GraphInside`: a query in the graph is active in the
  admission, and nothing but its own `Leave` ends that.
  Of conversations, if one graph runs at a time, the default of `RESEARCH_CONCURRENCY`
  (`core/config.py`): `ConversationsAreIsolated`, `TurnsAreOnlyAdded`.  `SessionInv`
  says that what a query has loaded still `Fits` what is stored: since it is the only one
  in the graph, nothing but a deletion can have come between.
* `ResearchGraphProofs` (assuming `GraphAssumption`, `SourcesAssumption`,
  `SentencesAssumption` (a sentence has finitely many words), `MaxCitationsAssumption`):
  `AnswersAreGrounded`, `SupportIsVerified`,
  `ToolsAreAllowed`, `ChecksBlock`, `LedgerAgreesWithResponse` and, if a lens requires a
  field, `ProductsAreSound`.  A response is put together from an answer and a verification
  that earlier nodes left, so the invariant `AnswerInv` follows them from node to
  node: `CitesContexts` (what a generated answer cites, and what its claims are
  about), `BeforeFormatting` and `BeforeGuard` (what holds of answer and claims
  at the node that is next), `Responded` (what holds of a response).  `ToolInv`
  does so for the plan: what it permits, it permits because of the request.  The
  verdicts themselves enter only through three lemmas: a decision on a sentence
  never turns a claim into a supported one, it keeps its citation, and the citation
  check claims something of every citation, or fails.
  `OutcomeInv` follows an answer with its verification beyond that: `DecisionsJoined` (a
  verification that says supported has no decision against a sentence with the number of a
  claim),
  `SupportKept` (the citations of supported claims stay in the answer),
  `SupportJudged` (if every claim is supported, so is the whole), `Unshared` (no claim shares the citation
  of one that passed).  Ledger and product are written once, from such a response.

  A run ends because it cannot go on: `StepsAreBounded` proves that `StepsLeft`, the nodes
  that come after the one at hand and the retries that are left, is a number of at most
  `MaxRetries + 15` that every step makes smaller, so that of `Ends` only the
  fairness is left to TLC.  `WebCallsAreBounded` is a corollary of its invariant, `CallsInv`.
  `TypeCorrect` has the type invariant: a sentence is given a citation of the answer or
  none, since finitely many ranks have a first best (`FirstBestExists`, from
  `LeastExists`: a set of numbers has a least one), and `ListsInv` counts the contexts
  along the same stages.
* `WorkspacesProofs` (assuming `WorkspaceAssumption`): `CorpusIsNotDoubled`, if the
  configured path is absolute, and `EmptySummariesHideNoFailure`.  For the first the inductive invariant is `BootstrapInv`: the types;
  `LockHeld` (who is past the lock and before the submission holds it);
  `BootstrapIsCorpus` (what bootstraps submit is what the check looks for);
  `CheckedIsFree` (after the check no job of a bootstrap is live).  The heart is that
  no step of a worker, late or not, makes a job live that was over.  For the second it is
  `SummaryInv`: the jobs a summary is about stay jobs of its project (`AcceptedStay`), and
  once no live job was counted they are all over and stay so (`UncountedAreOver`).
* `RetrievalProofs`, of the index (assuming `IndexAssumption`): `TypeCorrect`,
  `GenerationsAreWhole` for one index version, and `OnlyCutRunsLeaveGaps` for any.  For the first the inductive invariant is
  `GenerationInv`: the types; `NamedGeneration` (the chunks that can be searched are
  those of the content the row names); `LoadedHasChunks` (the chunks of the content
  that `save_document` loaded exist, be they retired).  The last is what makes the
  column-wise update safe: a hash is left unwritten only if it equals the loaded one,
  and then the chunk ids exist and the transaction fails.  With two index versions
  that argument breaks, and so does the property.  For the second `GapsAreCut`
  is inductive with the types: only `save_document` adds chunks, and its run then embeds
  exactly these or is cut off.
* `RetrievalProofs`, of searches (assuming `RetrievalAssumption` besides: finitely many
  parts, integer scores, weights that are not negative): `SearchesOnlyRead`,
  `ResultsAreCurrent`, `ResultsAreDiverse`, `SearchDegradesToSparse`, and
  `ReadsAreOfOneVersion` for one index version.  `SearchesOnlyRead` says that a search is a
  stutter of the index, so what is proved of the index holds beside searches; the last
  theorem takes `OneGeneration` from there.  The inductive invariant is `SearchInv`:
  the types; `Found` (each list is of matches, none twice, the best first; a strategy
  leaves the other list empty); `ReadWasCurrent` (what was read so far was current at some
  time of the search and passed the filters); `SeenIsComplete` (`seen` misses nothing that
  is current while the search runs), without which the next read could show what `seen`
  lacks; `AnswerIsRanked` (the answer is the ranking of the two lists, with siblings seen).
  It needs the index to be finite at any time (`PresentStaysFinite`), for a query cuts a
  finite set.  What is then left says something of `Ranked` alone, whatever it is given.
  That rests on lemmas about the operators: ranks are a bijection (`PlacesAreABijection`), so
  `InOrder` lists every element once and in order (`InOrderLists`), and sorting
  arranges (`SortingArranges`); fusion lists what either backend found once (`PoolHas`), the
  ranker changes places only (`RerankedHas`), the cap keeps two of a document or all of it
  (`DiversifyKeepsTwo`).  For a search without a dense backend the fused scores are shown
  to fall along the full-text list (`FusedScoresFall`: both the rounded share and the
  rounded reciprocal rank fall, so rounding makes ties at most, which keep their order), so
  that sorting leaves it as it is (`SortedStays`).
* `CorpusDownloadProofs` (assuming `EntryAssumption`, `ResultsAssumption`,
  `LimitAssumption`, `RunAssumption`): `DownloadInvariant`, `FilesAreBounded`,
  `ResumingMissesFew`.  The inductive invariant is
  `DownloadInv`: the types; `FilesAreBounded`'s bound; `LoopInv` (in a loop the file is no
  longer than what the loop counts, and a line was written for everything before the
  position of arXiv); `Covered` (for every usable entry of arXiv listed from the beginning
  that stands before a given offset a line was written, be it readable or not), for the
  number of lines; `StillListed` (arXiv does not withdraw entries); `LossOf` (what the damaged
  lines were written for is at most two records for a kill, one fewer while the last line has no
  end, which the next record to be glued to it uses up).  A publication only moves old
  entries back, out of the part before the offset; a torn line makes the count
  smaller, never larger.
* `ProvisioningProofs` (assuming `SpecsAssumption`, `SnapshotAssumption`,
  `BoundAssumption`): `ProvisioningInvariant`, `VerifiedSetsAreSnapshots`, `VerifiedSetsSurvive`.  The
  inductive invariant is `ProvisioningInv`: the types; `ManifestComplete` (what a
  written manifest describes are the files of the commit it names, whatever has become of the disk);
  `AbsentIsEmpty`; `DoneComplete` (the artifacts a run has resolved lack no file);
  `CurrentGrows` (the one it downloads lacks only what is left of its commit);
  `Started`.  A provisioner refuses what exists, so it starts from nothing, and asks
  for files by commit, so a revision that moves changes nothing.  `NotAtWork` adds that what is being
  removed, if not by `--force`, does not verify, and that a download has files left, so
  that no manifest of a whole set describes it (`HalfIsNotVerified`).

Every invariant and every action property of the runs, and each refinement, is stated by
a theorem.  Only model-checked is liveness under fairness, which is beyond the prover's reach:
`QueuedIsTaken`, `RestartRecovers`, `WaiterServed`, `Ends` (for which `StepsAreBounded`
proves the measure), `RunsEnd`, `StackComesUp`.

## 5. Properties the code does not have

These are stated in the modules and left out of the runs because the code does not
have them.  Adding one to a configuration shows how it fails:

| Property | Add to | Because |
|---|---|---|
| `EventChain` | `ReviewWorkflow_concurrent.cfg` | two decisions with the same, at their load correct, hash both commit, and the later one replaces the earlier one's payload (`workflows/repository.py:94`); the docstring has "optimistic concurrency" (`:83`), `docs/architecture/evidence-intelligence-implementation-plan.md:475` "Concurrent edits return `409 Conflict` rather than overwriting."  For requests one at a time `review_single` checks it |
| `CompletedIsIndexed` | `DocumentIndex_concurrent.cfg` | the skip compares a hash that the first of three transactions commits, so the retry of an interrupted run skips the document and completes without embeddings (`ingestion/service.py:188`); `projects/repository.py:156`: "A persisted document is indexed by this application", `docs/architecture/local-only-implementation-plan.md:275`: "Reindex resumes after interruption" |
| `RunsSucceed` | `Retrieval.cfg` | a forced run over unchanged content inserts chunk ids that exist (`ingestion/repository.py:381`) |
| `CompletedHasVersion` | `Retrieval.cfg` | two documents with one text share a version key (`ingestion/repository.py:435`) |
| `AnchorsResolve` | `Retrieval.cfg` | the chunker and the repository derive the version id differently (`chunker.py:52`, `ingestion/repository.py:475`) |
| `OneCurrentVersion` | `DocumentIndex_concurrent.cfg` | two overlapping runs of one document both retire the same predecessor (`ingestion/repository.py:445`) |
| `OneGeneration` | `DocumentIndex_concurrent.cfg` with `IndexVersions = {"v1", "v2"}` | a `content_hash` equal to the loaded one is not written, while a new index version makes new chunk ids (`ingestion/repository.py:372`); the run keeps to one index version |
| `TextOfOneVersion` | `Retrieval.cfg` | a parent id names document and section but not the version (`chunker.py:206`), and siblings are read after the results (`retrieval/service.py:427`) |
| `OneVersionPerDocument` | `Retrieval.cfg` | the dense and the full-text list are read in different transactions (`retrieval/service.py:369`) |
| `BetterIsFirst` | `Retrieval.cfg` | a match of the dense list alone keeps its share unweighted (`retrieval/service.py:572`), and so passes one that is better in both lists; `docs/architecture/system-design.md:33` has "weighted reciprocal-rank fusion" |
| `SiblingsFound` | `Retrieval.cfg` | the read of siblings is limited and unordered (`retrieval/service.py:427`) |
| `PendingListed` | `ReviewWorkflow_concurrent.cfg` | only changed columns are written (`workflows/repository.py:113`) |
| `DecidedHasNoInterrupt` | `ReviewWorkflow_single.cfg` | the gate is resumed after the decision has been committed (`api/routes/workflows.py:194`): if that raises, is cancelled or is lost, the interrupt stays, and a repeated decision finds a checkpoint that is decided and does not resume it |
| `PendingHasInterrupt` | `ReviewWorkflow_single.cfg` | reanalysis, then an edit, does not restart the gate (`api/routes/workflows.py:193`) |
| `ExpiredIsRecovered` | `IngestionQueue_timely.cfg` | a worker recovers once, at its start (`ingestion/worker.py:21`), and one that restarts before its own lease has run out finds nothing; `docs/architecture/local-only-implementation-plan.md:253`: "worker restarts recover expired leases" |
| `CountsAreOfCompletion` | `IngestionQueue_safety.cfg` | only columns that differ from the loaded ones are written (`ingestion/repository.py:178`): of three overlapping runs, one that failed can write its counts between the load and the write of one that completes and leaves the counts it loaded unwritten |
| `OutcomeFinal` | `IngestionQueue_safety.cfg` | outcomes are written by id alone (`ingestion/repository.py:178`) |
| `DeletedStaysDeleted` | `ResearchSession.cfg` | `save` inserts when there is no row (`agents/session_store.py:51`) |
| `AnswersRecorded` | `ResearchSession.cfg` | a workflow run and a query in one conversation load the same turns, and the later `save` drops the other's (`agents/session_store.py:63`); `README.md:162` promises "durable history" |
| `OneLiveCorpus` | `ProjectSummary.cfg` with `CorpusSource = "relative"` | the check looks for the resolved path (`ingestion/bootstrap.py:49`), a job has the path as configured, which is relative by default (`core/config.py:81`); `README.md:102`: "The job is idempotent" |
| `CorpusOnce` | `ProjectSummary.cfg` | a completed corpus job with another count, or one whose count a late report changed, does not keep the next bootstrap from scheduling; the docstring has "exactly once" (`ingestion/bootstrap.py:26`) |
| `AcceptedIsVisible` | `ProjectSummary.cfg` | a job over a source without documents completes (`ingestion/loaders.py:40`, `ingestion/service.py:251`), and documents saved after they were counted belong to a job that has completed when live jobs are (`projects/repository.py:148`): either way a project that has been given a job reads "empty" |
| `EmptyHasNoDocument` | `ProjectSummary.cfg` | likewise, with documents in the project |
| `ReadyIsPrepared` | `ProjectSummary.cfg` | one document is enough for "ready", whatever jobs are under way (`projects/repository.py:178`); `docs/architecture/projects-implementation-plan.md:49` wants "no active initial seed job" |
| `RunningIsWorked` | `ProjectSummary.cfg` | a foreground job whose process stopped stays running (`ingestion/service.py:75`), and later bootstraps take it for active work (`ingestion/repository.py:236`) |
| `ArchivedReadOnly` | `ProjectSummary.cfg` | an upload is checked before it is received (`api/routes/documents.py:137`), and the admin route does not check (`api/routes/admin_ingestion.py:36`); `docs/architecture/projects-implementation-plan.md:47`: "Archived projects are read-only" |
| `FailedCheckBlocks` | `ResearchGraph.cfg` | a verdict on a sentence is applied to the citation with its number; a sentence beyond the last citation has none (`evidence/service.py:86`).  `evidence/aggregator.py`: "Never upgrade a failed critical deterministic check to supported." |
| `FlaggedNotCited` | `ResearchGraph.cfg` | a decision of partial support replaces a citation's "unsupported" or "contradicted", so the citation is flagged and kept (`evidence/service.py:93`) |
| `WebIsCited` | `ResearchGraph.cfg` | web contexts come after the internal ones, and only the first ones are cited (`agents/generation.py:411`) |
| `OutputHasCode` | `ResearchGraph.cfg` | the script for the interpreter keeps an indentation of four on its header unless the code is blank, and does not parse (`tools/python_sandbox.py:155`) |
| `LedgerIsOwn` | `ResearchGraph.cfg` with `ReusedTrace = TRUE` | a second run under a trace id is not recorded (`evidence/repository.py:37`) |
| `NoDuplicates` | `CorpusDownload.cfg` | the offset counts lines, not entries: unusable ones before it, and new ones at the head of the results, make a later page repeat what was written; OpenAlex starts at the first page again (`scripts/download_corpus.py:347`, `:509`, `:671`) |
| `NothingMissed` | `CorpusDownload.cfg` | a torn record and the one glued to it are lost, and the count of lines moves the offset past them (`scripts/download_corpus.py:206`); without a kill, Semantic Scholar ranks anew (`:509`).  `:332`: "Supports resuming by counting lines already present" |
| `EndIsComplete` | `CorpusDownload.cfg` | an answer without a total, without entries or without a cursor is taken for the last one (`scripts/download_corpus.py:256`, `:373`, `:534`, `:701`, `:718`), which logs "reached end of result set" |
| `NothingUsableIsEnd` | `CorpusDownload.cfg` | a page of arXiv of which nothing is usable ends its loop (`scripts/download_corpus.py:364`), which logs "no more results" |
| `VerifiedIsWhole` | `Provisioning.cfg` | a download reads until nothing comes and compares no length (`scripts/provision_local_models.py:93`), so a body cut short is kept and digested; `:46` has "A fully downloaded artifact ready to be placed in the runtime manifest" |
| `StackAlwaysComesUp` | `Provisioning.cfg` | what was cut short verifies, so `--ensure` keeps it (`scripts/provision_local_models.py:344`), and a service that cannot load its model keeps the API from starting |
| `LinesReadable` | `CorpusDownload.cfg` | a kill while appending leaves a torn line, to which the next run's first record is glued (`scripts/download_corpus.py:189`) |

`ProjectIsolated` and `TurnsOnlyGrow`
are stated for conversations without workflow runs, and `GraphsBounded` does not
count those: their routes do not enter the admission
(`api/routes/workflows.py:46`, `:82`), while
`docs/architecture/local-only-implementation-plan.md:125` bounds research graphs.

## 6. Plan

In this order; each module with its runs, hazards and, where marked, proofs.

1. Done: `JobLifecycle`, `IngestionQueue` and its proofs; `ReviewPolicy`,
   `ReviewWorkflow`; `DocumentIndex`, `Retrieval`; `Admission`, `ResearchSession` and their
   proofs; `Evidence`, `ResearchGraph` and its proofs;
   `Workspaces` and its proofs; `RetrievalProofs`; `CorpusDownload`,
   `Provisioning` and their proofs.
2. Projects, in what `Workspaces` leaves out: creation with its slugs, updates,
   `prune_stale_sample_documents` against overlapping ingestion (in `DocumentIndex`),
   archival against research requests (in `ResearchSession`); and `Workspaces` over
   `IngestionQueue` instead of `JobLifecycle`.
3. `Diffing`: the alignment of two versions, as an operator against a reference
   definition.
4. Proofs: those of what 2 and 3 add; the theorems that hold for requests or graphs one at
   a time, for overlaps that do not meet in one row.

## 7. Not modelled

Two provisioners, or two downloaders, at once.  Text extraction, OCR, chunk boundaries and tokenization, prompts and model answers,
metrics and logging, configuration, authentication, the static client, the
calculator and the evaluation harness: sequential handling of data, or inputs to
the components above.  The database is modelled at READ COMMITTED with row locks;
a connection lost between a commit and its acknowledgement is `LoseOutcome` or
`Interrupt`.
