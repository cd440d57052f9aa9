---------------------------- MODULE DocumentIndex ----------------------------
(***************************************************************************)
(* What _process_job does to the index for one document                    *)
(* (app/ingestion/service.py): the skip of unchanged content, and the      *)
(* three transactions of a changed one, save_document and save_provenance  *)
(* (app/ingestion/repository.py) and upsert_chunks                         *)
(* (app/ingestion/vector_writers.py).  Several runs, of one worker after   *)
(* another or of a worker and a foreground request, may have one document  *)
(* in hand.                                                                *)
(*                                                                         *)
(* A content stands for the text with its hash; the chunks of one document,*)
(* content and index version are inserted and retired together and are one *)
(* element here.  A transaction is the read its session starts from and    *)
(* the step that flushes and commits.                                      *)
(***************************************************************************)
EXTENDS Naturals

CONSTANTS
  Docs,            \* documents of one project, by source URI
  Contents,        \* normalized texts
  IndexVersions,   \* index_version of a submission
  Runs,            \* executions of _process_job that may overlap
  Project,
  NoContent, NoDoc,
  MaxRuns,         \* bound on the runs started
  MaxEdits,        \* bound on the changes of source files
  MaxInterrupts    \* bound on the runs that raise or are killed

ASSUME IndexAssumption ==
  /\ NoContent \notin Contents /\ NoDoc \notin Docs
  /\ MaxRuns \in Nat /\ MaxEdits \in Nat /\ MaxInterrupts \in Nat

VARIABLES
  source,     \* document -> what its source file holds
  rawText,    \* document -> the copy in the object store
  hash,       \* document -> content_hash of its row in documents
  chunk,      \* <<document, content, index version>> -> its rows in chunks
  embedded,   \* the chunks that have rows in chunk_embeddings
  version,    \* content -> its row in document_versions
  anchors,    \* version ids that the rows of source_anchors name
  run,        \* run -> what it is doing
  outcome,    \* document -> status of the last job that ended with it
  cut,        \* not in the code: the chunks of runs that ended halfway
  used        \* what has been used of the three bounds

vars == <<source, rawText, hash, chunk, embedded, version, anchors, run,
          outcome, cut, used>>

ChunkIds == Docs \X Contents \X IndexVersions
NoVersion == [doc |-> NoDoc, current |-> FALSE]
Versions == [doc : Docs, current : BOOLEAN] \cup {NoVersion}

\* "loaded" and "exists", "retired" are what a session read before its flush.
Idle == [pc |-> "idle", doc |-> NoDoc, content |-> NoContent, iv |-> "none",
         force |-> FALSE, loaded |-> NoContent, exists |-> FALSE, retired |-> {}]
RunState == [pc : {"read", "prepared", "loaded", "saved", "versioned", "sourced"},
             doc : Docs, content : Contents, iv : IndexVersions,
             force : BOOLEAN, loaded : Contents \cup {NoContent},
             exists : BOOLEAN, retired : SUBSET Contents]

\* The two names of a version: DocumentVersionRecord's primary key, and the
\* version_id and anchor prefix that the chunker writes into a chunk.
VersionKey(content) == <<Project, content>>
ChunkVersion(content) == <<content>>

TypeOK ==
  /\ source \in [Docs -> Contents]
  /\ rawText \in [Docs -> Contents \cup {NoContent}]
  /\ hash \in [Docs -> Contents \cup {NoContent}]
  /\ chunk \in [ChunkIds -> {"absent", "stale", "current"}]
  /\ embedded \subseteq ChunkIds
  /\ version \in [Contents -> Versions]
  /\ anchors \subseteq {VersionKey(c) : c \in Contents}
  /\ run \in [Runs -> RunState \cup {Idle}]
  /\ outcome \in [Docs -> {"none", "completed", "failed"}]
  /\ cut \subseteq ChunkIds
  /\ used \in [runs : Nat, edits : Nat, interrupts : Nat]

Init ==
  /\ source \in [Docs -> Contents]
  /\ rawText = [d \in Docs |-> NoContent]
  /\ hash = [d \in Docs |-> NoContent]
  /\ chunk = [id \in ChunkIds |-> "absent"]
  /\ embedded = {}
  /\ version = [c \in Contents |-> NoVersion]
  /\ anchors = {}
  /\ run = [r \in Runs |-> Idle]
  /\ outcome = [d \in Docs |-> "none"]
  /\ cut = {}
  /\ used = [runs |-> 0, edits |-> 0, interrupts |-> 0]

-----------------------------------------------------------------------------
(* The skip *)

\* iter_load reads the file; get_document_state comes later.
ReadSource(r, d, iv, force) ==
  /\ run[r] = Idle
  /\ used.runs < MaxRuns
  /\ run' = [run EXCEPT ![r] = [Idle EXCEPT !.pc = "read", !.doc = d, !.iv = iv,
                                  !.content = source[d], !.force = force]]
  /\ used' = [used EXCEPT !.runs = @ + 1]
  /\ UNCHANGED <<source, rawText, hash, chunk, embedded, version, anchors, outcome,
                 cut>>

Unchanged(r) == hash[run[r].doc] = run[r].content /\ ~run[r].force

\* The run of this document ends, and so does the job: complete_job, or
\* fail_job after an exception (its transaction is rolled back).
End(r, status) ==
  /\ run' = [run EXCEPT ![r] = Idle]
  /\ outcome' = [outcome EXCEPT ![run[r].doc] = status]

\* Between these the chunks of a run are committed and their embeddings are not.
Saving == {"saved", "versioned", "sourced"}

\* Chunk ids depend on document, content, position and index version only.
Chunk(r) == <<run[r].doc, run[r].content, run[r].iv>>

\* What is cut once this run does not go on.
Unfinished(r) == IF run[r].pc \in Saving THEN cut \cup {Chunk(r)} ELSE cut

Skip(r) ==
  /\ run[r].pc = "read" /\ Unchanged(r)
  /\ End(r, "completed")
  /\ UNCHANGED <<source, rawText, hash, chunk, embedded, version, anchors, cut, used>>

\* The chunks are cut and embedded, and the text is stored under the name of
\* the document.
Prepare(r) ==
  /\ run[r].pc = "read" /\ ~Unchanged(r)
  /\ rawText' = [rawText EXCEPT ![run[r].doc] = run[r].content]
  /\ run' = [run EXCEPT ![r].pc = "prepared"]
  /\ UNCHANGED <<source, hash, chunk, embedded, version, anchors, outcome, cut, used>>

-----------------------------------------------------------------------------
(* save_document *)

LoadDocument(r) ==
  /\ run[r].pc = "prepared"
  /\ run' = [run EXCEPT ![r].pc = "loaded", ![r].loaded = hash[run[r].doc]]
  /\ UNCHANGED <<source, rawText, hash, chunk, embedded, version, anchors,
                 outcome, cut, used>>

\* The row appeared since it was looked up, or the chunks are there already.
KeyTaken(r) ==
  \/ run[r].loaded = NoContent /\ hash[run[r].doc] # NoContent
  \/ chunk[Chunk(r)] # "absent"

\* A content_hash equal to the loaded one is left out of the UPDATE.
HashWritten(r) ==
  IF run[r].loaded = run[r].content THEN hash[run[r].doc] ELSE run[r].content

\* Mutant: the chunks of the document's former generations stay current.
ChunksAdded(r) == [chunk EXCEPT ![Chunk(r)] = "current"]

\* The chunks of every former generation are retired, of every index version.
ChunksReplaced(r) ==
  [id \in ChunkIds |->
     CASE id = Chunk(r) -> "current"
       [] id # Chunk(r) /\ id[1] = run[r].doc /\ chunk[id] = "current" -> "stale"
       [] OTHER -> chunk[id]]

SaveDocument(r) ==
  /\ run[r].pc = "loaded" /\ ~KeyTaken(r)
  /\ hash' = [hash EXCEPT ![run[r].doc] = HashWritten(r)]
  /\ chunk' = ChunksReplaced(r)
  /\ run' = [run EXCEPT ![r].pc = "saved"]
  /\ UNCHANGED <<source, rawText, embedded, version, anchors, outcome, cut, used>>

RejectDocument(r) ==
  /\ run[r].pc = "loaded" /\ KeyTaken(r)
  /\ End(r, "failed")
  /\ UNCHANGED <<source, rawText, hash, chunk, embedded, version, anchors, cut, used>>

-----------------------------------------------------------------------------
(* save_provenance *)

\* The rows the UPDATE of the current version finds.
Superseded(d) == {c \in Contents : version[c].doc = d /\ version[c].current}

LoadVersion(r) ==
  /\ run[r].pc = "saved"
  /\ LET exists == version[run[r].content] # NoVersion
     IN  run' = [run EXCEPT ![r].pc = "versioned", ![r].exists = exists,
                    ![r].retired = IF exists THEN {} ELSE Superseded(run[r].doc)]
  /\ UNCHANGED <<source, rawText, hash, chunk, embedded, version, anchors,
                 outcome, cut, used>>

\* The version appeared since it was looked up: its primary key is the hash of
\* project and content, whatever the document.
VersionTaken(r) == ~run[r].exists /\ version[run[r].content] # NoVersion

\* An existing version keeps its document and its place; a new one becomes the
\* current one of its document.
SaveProvenance(r) ==
  /\ run[r].pc = "versioned" /\ ~VersionTaken(r)
  /\ version' = [c \in Contents |->
       CASE c = run[r].content /\ ~run[r].exists ->
              [doc |-> run[r].doc, current |-> TRUE]
         [] c # run[r].content /\ c \in run[r].retired ->
              [version[c] EXCEPT !.current = FALSE]
         [] OTHER -> version[c]]
  /\ anchors' = anchors \cup {VersionKey(run[r].content)}
  /\ run' = [run EXCEPT ![r].pc = "sourced"]
  /\ UNCHANGED <<source, rawText, hash, chunk, embedded, outcome, cut, used>>

RejectProvenance(r) ==
  /\ run[r].pc = "versioned" /\ VersionTaken(r)
  /\ End(r, "failed")
  /\ cut' = Unfinished(r)
  /\ UNCHANGED <<source, rawText, hash, chunk, embedded, version, anchors, used>>

-----------------------------------------------------------------------------
(* upsert_chunks *)

\* Mutant: embeds the chunks of the content that was replaced.
EmbeddedBefore(r) ==
  {<<run[r].doc, c, run[r].iv>> : c \in {run[r].loaded} \cap Contents}

\* The embeddings that the transaction writes.
EmbeddedNow(r) == {Chunk(r)}

UpsertChunks(r) ==
  /\ run[r].pc = "sourced"
  /\ embedded' = embedded \cup EmbeddedNow(r)
  /\ End(r, "completed")
  /\ UNCHANGED <<source, rawText, hash, chunk, version, anchors, cut, used>>

-----------------------------------------------------------------------------
(* The environment *)

\* The source file is replaced by another upload or edit.
EditSource(d) ==
  /\ used.edits < MaxEdits
  /\ \E c \in Contents \ {source[d]} : source' = [source EXCEPT ![d] = c]
  /\ used' = [used EXCEPT !.edits = @ + 1]
  /\ UNCHANGED <<rawText, hash, chunk, embedded, version, anchors, run, outcome,
                 cut>>

\* A step raises and the job fails, or its process is killed and the job keeps
\* the status it had: what is committed stays.
Interrupt(r) ==
  /\ run[r] # Idle
  /\ used.interrupts < MaxInterrupts
  /\ \E status \in {"failed", outcome[run[r].doc]} : End(r, status)
  /\ cut' = Unfinished(r)
  /\ used' = [used EXCEPT !.interrupts = @ + 1]
  /\ UNCHANGED <<source, rawText, hash, chunk, embedded, version, anchors>>

Process(r) ==
  \/ Skip(r) \/ Prepare(r)
  \/ LoadDocument(r) \/ SaveDocument(r) \/ RejectDocument(r)
  \/ LoadVersion(r) \/ SaveProvenance(r) \/ RejectProvenance(r)
  \/ UpsertChunks(r)

Next ==
  \/ \E r \in Runs, d \in Docs, iv \in IndexVersions, force \in BOOLEAN :
       ReadSource(r, d, iv, force)
  \/ \E r \in Runs : Process(r) \/ Interrupt(r)
  \/ \E d \in Docs : EditSource(d)

Spec == Init /\ [][Next]_vars

-----------------------------------------------------------------------------
(* Properties *)

Quiet == \A r \in Runs : run[r] = Idle
Generations(d) == {id \in ChunkIds : id[1] = d /\ chunk[id] = "current"}

\* A search sees exactly one generation of the chunks of a saved document, the
\* one cut from the content its row names, whatever runs overlap and wherever
\* they stop (save_document).
OneGeneration ==
  \A d \in Docs : IF hash[d] = NoContent
                    THEN Generations(d) = {}
                    ELSE \E id \in ChunkIds : Generations(d) = {id} /\ id[2] = hash[d]

\* Chunks without embeddings are on the way, or a run that was killed, raised or lost
\* the race for a version left them so (_process_job): no skip, no rejected retry and no
\* overlap of runs adds to what a dense search cannot find.
GapsAreCut ==
  \A id \in ChunkIds : chunk[id] # "absent" =>
    \/ id \in embedded \cup cut
    \/ \E r \in Runs : run[r].pc \in Saving /\ id = Chunk(r)

\* Between runs, a document whose last job reads completed can be found.
CompletedIsIndexed ==
  Quiet => \A d \in Docs : outcome[d] = "completed" =>
    Generations(d) # {} /\ Generations(d) \subseteq embedded

\* A document has at most one current version.
OneCurrentVersion ==
  \A v, w \in Contents :
    (version[v].current /\ version[w].current /\ version[v].doc = version[w].doc)
      => v = w

\* A run that nothing interrupts and no other run disturbs succeeds.
RunsSucceed == \A d \in Docs : outcome[d] # "failed"

\* A document whose job has completed has a version of its own.
CompletedHasVersion ==
  \A d \in Docs : outcome[d] = "completed"
    => \E c \in Contents : version[c].doc = d

\* Between runs, the version that a current chunk and its anchors name exists.
AnchorsResolve ==
  Quiet => \A d \in Docs : \A id \in Generations(d) : ChunkVersion(id[2]) \in anchors
=============================================================================
