-------------------------- MODULE RetrievalProofs --------------------------
(***************************************************************************)
(* Theorems about Retrieval and the DocumentIndex it reads, for any        *)
(* documents, contents, passages, scores, weights and filters.             *)
(*                                                                         *)
(* The index: under one index version a search sees one whole generation   *)
(* of a saved document, whatever runs overlap or are interrupted, and only *)
(* runs cut off halfway leave chunks without embeddings, under any index   *)
(* versions.                                                               *)
(*                                                                         *)
(* Searches: they only read; results and the siblings in their texts were  *)
(* current while the search ran; the answer is diversified; and without a  *)
(* dense backend a hybrid search keeps the order of the full-text search.  *)
(* Lists are put in order by ranks, so these need no induction over lists. *)
(***************************************************************************)
EXTENDS Retrieval, FiniteSetTheorems, FunctionTheorems, SequenceTheorems, TLAPS

(* The index: definitions *)


\* Only the generation that the row of a document names can be searched.
NamedGeneration(v) ==
  \A d \in Docs, c \in Contents :
    chunk[<<d, c, v>>] = "current" <=> hash[d] = c

\* The chunks of the content that save_document loaded are there, be they
\* retired meanwhile.
LoadedHasChunks(v) ==
  \A r \in Runs : run[r].pc = "loaded" /\ run[r].loaded # NoContent =>
    chunk[<<run[r].doc, run[r].loaded, v>>] # "absent"

GenerationInv(v) == TypeOK /\ NamedGeneration(v) /\ LoadedHasChunks(v)

-----------------------------------------------------------------------------
(* Types *)

\* A run that does something is a run of a document.
LEMMA BusyHasDocument ==
  ASSUME TypeOK, NEW r \in Runs, run[r].pc # "idle"
  PROVE  run[r] \in RunState
  BY DEF TypeOK, Idle

\* What the end of a run keeps.
LEMMA EndKeepsTypes ==
  ASSUME TypeOK, NEW r \in Runs, run[r] \in RunState,
         NEW status \in {"none", "completed", "failed"}, End(r, status)
  PROVE  /\ run' \in [Runs -> RunState \cup {Idle}]
         /\ outcome' \in [Docs -> {"none", "completed", "failed"}]
  BY DEF TypeOK, End, RunState

\* What is cut are chunks.
LEMMA UnfinishedAreChunks ==
  ASSUME TypeOK, NEW r \in Runs, run[r] \in RunState
  PROVE  Unfinished(r) \subseteq ChunkIds
  BY DEF TypeOK, Unfinished, Chunk, ChunkIds, RunState

\* What a step does to the run it belongs to.
LEMMA StepKeepsRuns ==
  ASSUME TypeOK, NEW r \in Runs, NEW step \in RunState, run' = [run EXCEPT ![r] = step]
  PROVE  run' \in [Runs -> RunState \cup {Idle}]
  BY DEF TypeOK

\* A version is its document and its place.
LEMMA VersionIsItsFields ==
  \A S, T : \A x \in [doc : S, current : T] : x = [doc |-> x.doc, current |-> x.current]
  BY SMT

\* The types hold of every state.
LEMMA NextKeepsTypes == TypeOK /\ [Next]_vars => TypeOK'
<1> SUFFICES ASSUME TypeOK, [Next]_vars PROVE TypeOK'
  OBVIOUS
<1>1. ASSUME NEW r \in Runs, NEW d \in Docs, NEW iv \in IndexVersions,
             NEW force \in BOOLEAN, ReadSource(r, d, iv, force)
      PROVE  TypeOK'
  <2> DEFINE step == [Idle EXCEPT !.pc = "read", !.doc = d, !.iv = iv,
                        !.content = source[d], !.force = force]
  <2>1. step \in RunState
    BY DEF TypeOK, RunState, Idle
  <2>2. run' = [run EXCEPT ![r] = step]
    BY <1>1 DEF ReadSource
  <2> HIDE DEF step
  <2>3. run' \in [Runs -> RunState \cup {Idle}]
    BY <2>1, <2>2, StepKeepsRuns
  <2>4. used' \in [runs : Nat, edits : Nat, interrupts : Nat]
    BY <1>1 DEF ReadSource, TypeOK
  <2> QED
    BY <1>1, <2>3, <2>4 DEF ReadSource, TypeOK
<1>2. ASSUME NEW r \in Runs, Process(r) PROVE TypeOK'
  <2>1. run[r] \in RunState
    BY <1>2, BusyHasDocument DEF Process, Skip, Prepare, LoadDocument, SaveDocument,
       RejectDocument, LoadVersion, SaveProvenance, RejectProvenance, UpsertChunks
  <2>2. CASE Skip(r)
    BY <2>1, <2>2, EndKeepsTypes DEF Skip, TypeOK
  <2>3. CASE Prepare(r)
    <3>1. run' = [run EXCEPT ![r] = [run[r] EXCEPT !.pc = "prepared"]]
      BY <2>3 DEF Prepare, TypeOK
    <3>2. [run[r] EXCEPT !.pc = "prepared"] \in RunState
      BY <2>1 DEF RunState
    <3>3. rawText' \in [Docs -> Contents \cup {NoContent}]
      BY <2>1, <2>3 DEF Prepare, TypeOK, RunState
    <3> QED
      BY <2>3, <3>1, <3>2, <3>3, StepKeepsRuns DEF Prepare, TypeOK
  <2>4. CASE LoadDocument(r)
    <3> DEFINE step == [run[r] EXCEPT !.pc = "loaded", !.loaded = hash[run[r].doc]]
    <3>1. run' = [run EXCEPT ![r] = step]
      BY <2>4 DEF LoadDocument, TypeOK
    <3>2. step \in RunState
      BY <2>1 DEF RunState, TypeOK
    <3> HIDE DEF step
    <3> QED
      BY <2>4, <3>1, <3>2, StepKeepsRuns DEF LoadDocument, TypeOK
  <2>5. CASE SaveDocument(r)
    <3>1. run' = [run EXCEPT ![r] = [run[r] EXCEPT !.pc = "saved"]]
      BY <2>5 DEF SaveDocument, TypeOK
    <3>2. [run[r] EXCEPT !.pc = "saved"] \in RunState
      BY <2>1 DEF RunState
    <3>3. hash' \in [Docs -> Contents \cup {NoContent}]
      BY <2>1, <2>5 DEF SaveDocument, HashWritten, TypeOK, RunState
    <3>4. chunk' \in [ChunkIds -> {"absent", "stale", "current"}]
      BY <2>5 DEF SaveDocument, ChunksReplaced, TypeOK
    <3> QED
      BY <2>5, <3>1, <3>2, <3>3, <3>4, StepKeepsRuns DEF SaveDocument, TypeOK
  <2>6. CASE RejectDocument(r)
    BY <2>1, <2>6, EndKeepsTypes DEF RejectDocument, TypeOK
  <2>7. CASE LoadVersion(r)
    <3> DEFINE exists == version[run[r].content] # NoVersion
               step == [run[r] EXCEPT !.pc = "versioned", !.exists = exists,
                          !.retired = IF exists THEN {} ELSE Superseded(run[r].doc)]
    <3>1. run' = [run EXCEPT ![r] = step]
      BY <2>7 DEF LoadVersion, TypeOK
    <3>2. Superseded(run[r].doc) \in SUBSET Contents
      BY DEF Superseded
    <3>3. step \in RunState
      BY <2>1, <3>2 DEF RunState
    <3> HIDE DEF step
    <3> QED
      BY <2>7, <3>1, <3>3, StepKeepsRuns DEF LoadVersion, TypeOK
  <2>8. CASE SaveProvenance(r)
    <3>1. run' = [run EXCEPT ![r] = [run[r] EXCEPT !.pc = "sourced"]]
      BY <2>8 DEF SaveProvenance, TypeOK
    <3>2. [run[r] EXCEPT !.pc = "sourced"] \in RunState
      BY <2>1 DEF RunState
    <3>3. ASSUME NEW c \in Contents PROVE version'[c] \in Versions
      <4>1. CASE c = run[r].content /\ ~run[r].exists
        BY <2>1, <2>8, <4>1 DEF SaveProvenance, Versions, RunState
      <4>2. CASE c # run[r].content /\ c \in run[r].retired
        <5>1. version'[c] = [version[c] EXCEPT !.current = FALSE]
          BY <2>8, <4>2 DEF SaveProvenance
        <5>2. version[c] \in [doc : Docs, current : BOOLEAN] \/ version[c] = NoVersion
          BY DEF TypeOK, Versions
        <5>3. version[c] = NoVersion => [version[c] EXCEPT !.current = FALSE] = NoVersion
          <6> DEFINE x == [NoVersion EXCEPT !.current = FALSE]
          <6>1. x \in [doc : {NoDoc}, current : {FALSE}]
            BY DEF NoVersion
          <6>2. x.doc = NoDoc /\ x.current = FALSE
            BY <6>1
          <6>3. x = [doc |-> x.doc, current |-> x.current]
            BY <6>1, VersionIsItsFields
          <6> HIDE DEF x
          <6>4. x = NoVersion
            BY <6>2, <6>3 DEF NoVersion
          <6> QED
            BY <6>4 DEF x
        <5>4. version[c] \in [doc : Docs, current : BOOLEAN]
                => [version[c] EXCEPT !.current = FALSE] \in [doc : Docs, current : BOOLEAN]
          OBVIOUS
        <5> QED
          BY <5>1, <5>2, <5>3, <5>4 DEF Versions
      <4>3. CASE /\ ~(c = run[r].content /\ ~run[r].exists)
                 /\ ~(c # run[r].content /\ c \in run[r].retired)
        BY <2>8, <4>3 DEF SaveProvenance, TypeOK
      <4> QED
        BY <4>1, <4>2, <4>3
    <3>4. version' \in [Contents -> Versions]
      BY <2>8, <3>3 DEF SaveProvenance
    <3>5. anchors' \subseteq {VersionKey(c) : c \in Contents}
      BY <2>1, <2>8 DEF SaveProvenance, TypeOK, RunState
    <3> QED
      BY <2>8, <3>1, <3>2, <3>4, <3>5, StepKeepsRuns DEF SaveProvenance, TypeOK
  <2>9. CASE RejectProvenance(r)
    BY <2>1, <2>9, EndKeepsTypes, UnfinishedAreChunks DEF RejectProvenance, TypeOK
  <2>10. CASE UpsertChunks(r)
    <3>1. embedded' \subseteq ChunkIds
      BY <2>1, <2>10 DEF UpsertChunks, EmbeddedNow, Chunk, ChunkIds, RunState, TypeOK
    <3> QED
      BY <2>1, <2>10, <3>1, EndKeepsTypes DEF UpsertChunks, TypeOK
  <2> QED
    BY <1>2, <2>2, <2>3, <2>4, <2>5, <2>6, <2>7, <2>8, <2>9, <2>10 DEF Process
<1>3. ASSUME NEW r \in Runs, Interrupt(r) PROVE TypeOK'
  <2>1. run[r] \in RunState
    BY <1>3 DEF Interrupt, TypeOK
  <2>2. PICK status \in {"failed", outcome[run[r].doc]} : End(r, status)
    BY <1>3 DEF Interrupt
  <2>3. status \in {"none", "completed", "failed"}
    BY <2>1, <2>2 DEF TypeOK, RunState
  <2>4. used' \in [runs : Nat, edits : Nat, interrupts : Nat]
    BY <1>3 DEF Interrupt, TypeOK
  <2>5. cut' \subseteq ChunkIds
    BY <1>3, <2>1, UnfinishedAreChunks DEF Interrupt
  <2> QED
    BY <1>3, <2>1, <2>2, <2>3, <2>4, <2>5, EndKeepsTypes DEF Interrupt, TypeOK
<1>4. ASSUME NEW d \in Docs, EditSource(d) PROVE TypeOK'
  <2>1. source' \in [Docs -> Contents]
    BY <1>4 DEF EditSource, TypeOK
  <2>2. used' \in [runs : Nat, edits : Nat, interrupts : Nat]
    BY <1>4 DEF EditSource, TypeOK
  <2> QED
    BY <1>4, <2>1, <2>2 DEF EditSource, TypeOK
<1>5. CASE UNCHANGED vars
  BY <1>5 DEF vars, TypeOK
<1> QED
  BY <1>1, <1>2, <1>3, <1>4, <1>5 DEF Next

\* The types of the index, whatever runs overlap, fail or are killed.
THEOREM TypeCorrect == Spec => []TypeOK
<1>1. Init => TypeOK
  BY DEF Init, TypeOK, Versions
<1> QED
  BY <1>1, NextKeepsTypes, PTL DEF Spec

-----------------------------------------------------------------------------
(* Generations *)

\* A chunk that is there stays there.
LEMMA ChunksStay ==
  ASSUME TypeOK, [Next]_vars, NEW id \in ChunkIds, chunk[id] # "absent"
  PROVE  chunk'[id] # "absent"
<1>1. ASSUME NEW r \in Runs, SaveDocument(r) PROVE chunk'[id] # "absent"
  BY <1>1 DEF SaveDocument, ChunksReplaced, TypeOK
<1>2. ASSUME UNCHANGED chunk PROVE chunk'[id] # "absent"
  BY <1>2
<1> QED
  BY <1>1, <1>2 DEF Next, Process, ReadSource, Skip, Prepare, LoadDocument, RejectDocument,
     LoadVersion, SaveProvenance, RejectProvenance, UpsertChunks, Interrupt, EditSource, vars

\* What a run that loads or saves a document keeps of its index version.
LEMMA ChunkIsInVersion ==
  ASSUME NEW v, IndexVersions = {v}, TypeOK, NEW r \in Runs, run[r] \in RunState
  PROVE  /\ Chunk(r) = <<run[r].doc, run[r].content, v>>
         /\ run[r].doc \in Docs /\ run[r].content \in Contents
  BY DEF Chunk, RunState

\* save_document retires what its row named and adds what it names from then on.
\* Were the loaded hash equal to the new one, the chunks would be there already.
LEMMA SaveKeepsGeneration ==
  ASSUME NEW v, IndexVersions = {v}, GenerationInv(v), NEW r \in Runs, SaveDocument(r)
  PROVE  NamedGeneration(v)'
<1> USE DEF GenerationInv
<1>1. run[r] \in RunState
  BY BusyHasDocument DEF SaveDocument
<1>2. /\ Chunk(r) = <<run[r].doc, run[r].content, v>>
      /\ run[r].doc \in Docs /\ run[r].content \in Contents
  BY <1>1, ChunkIsInVersion
<1>3. run[r].loaded # run[r].content
  BY <1>2, IndexAssumption DEF SaveDocument, KeyTaken, LoadedHasChunks
<1>4. hash' = [hash EXCEPT ![run[r].doc] = run[r].content]
  BY <1>3 DEF SaveDocument, HashWritten
<1> SUFFICES ASSUME NEW d \in Docs, NEW c \in Contents
             PROVE  chunk'[<<d, c, v>>] = "current" <=> hash'[d] = c
  BY DEF NamedGeneration
<1>5. <<d, c, v>> \in ChunkIds
  BY DEF ChunkIds
<1>6. CASE d = run[r].doc /\ c = run[r].content
  <2>1. chunk'[<<d, c, v>>] = "current"
    BY <1>2, <1>5, <1>6 DEF SaveDocument, ChunksReplaced
  <2> QED
    BY <2>1, <1>2, <1>4, <1>6 DEF TypeOK
<1>7. CASE d = run[r].doc /\ c # run[r].content
  <2>1. <<d, c, v>> # Chunk(r) /\ <<d, c, v>>[1] = run[r].doc
    BY <1>2, <1>7
  <2>2. chunk'[<<d, c, v>>] # "current"
    BY <1>5, <2>1 DEF SaveDocument, ChunksReplaced
  <2> QED
    BY <2>2, <1>2, <1>4, <1>7 DEF TypeOK
<1>8. CASE d # run[r].doc
  <2>1. <<d, c, v>> # Chunk(r) /\ <<d, c, v>>[1] # run[r].doc
    BY <1>2, <1>8
  <2>2. chunk'[<<d, c, v>>] = chunk[<<d, c, v>>]
    BY <1>5, <2>1 DEF SaveDocument, ChunksReplaced
  <2> QED
    BY <2>2, <1>4, <1>8 DEF NamedGeneration, TypeOK
<1> QED
  BY <1>6, <1>7, <1>8

\* No other step changes a generation or the row that names it.
LEMMA NextKeepsGenerations ==
  ASSUME NEW v, IndexVersions = {v}, GenerationInv(v), [Next]_vars
  PROVE  NamedGeneration(v)'
<1>1. ASSUME NEW r \in Runs, SaveDocument(r) PROVE NamedGeneration(v)'
  BY <1>1, SaveKeepsGeneration
<1>2. ASSUME UNCHANGED <<hash, chunk>> PROVE NamedGeneration(v)'
  BY <1>2 DEF NamedGeneration, GenerationInv
<1> QED
  BY <1>1, <1>2 DEF Next, Process, ReadSource, Skip, Prepare, LoadDocument, RejectDocument,
     LoadVersion, SaveProvenance, RejectProvenance, UpsertChunks, Interrupt, EditSource, vars

\* A run is at "loaded" since its LoadDocument, which found the row it remembers.
LEMMA NextKeepsLoaded ==
  ASSUME NEW v, IndexVersions = {v}, GenerationInv(v), [Next]_vars, TypeOK'
  PROVE  LoadedHasChunks(v)'
<1> USE DEF GenerationInv
<1> SUFFICES ASSUME NEW r \in Runs, run'[r].pc = "loaded", run'[r].loaded # NoContent
             PROVE  chunk'[<<run'[r].doc, run'[r].loaded, v>>] # "absent"
  BY DEF LoadedHasChunks
<1>1. run'[r] \in RunState
  BY DEF TypeOK, Idle
<1>2. <<run'[r].doc, run'[r].loaded, v>> \in ChunkIds
  BY <1>1 DEF RunState, ChunkIds
<1>3. CASE run'[r] = run[r]
  BY <1>2, <1>3, ChunksStay DEF LoadedHasChunks
<1>4. CASE LoadDocument(r)
  <2>1. run[r] \in RunState
    BY <1>4, BusyHasDocument DEF LoadDocument
  <2>2. run'[r].doc = run[r].doc /\ run'[r].loaded = hash[run[r].doc]
    BY <1>4, <2>1 DEF LoadDocument, TypeOK, RunState
  <2>3. chunk[<<run'[r].doc, run'[r].loaded, v>>] = "current"
    BY <1>1, <2>1, <2>2 DEF NamedGeneration, RunState
  <2> QED
    BY <1>2, <2>3, ChunksStay
<1>5. run'[r] = run[r] \/ LoadDocument(r)
  <2>1. ASSUME NEW s \in Runs, NEW step, run' = [run EXCEPT ![s] = step], step.pc # "loaded"
        PROVE  run'[r] = run[r]
    BY <2>1 DEF TypeOK
  <2>2. ASSUME NEW s \in Runs, NEW d \in Docs, NEW iv \in IndexVersions,
               NEW force \in BOOLEAN, ReadSource(s, d, iv, force)
        PROVE  run'[r] = run[r]
    BY <2>1, <2>2 DEF ReadSource, Idle
  <2>3. ASSUME NEW s \in Runs, NEW status, End(s, status) PROVE run'[r] = run[r]
    BY <2>1, <2>3 DEF End, Idle
  <2>4. ASSUME NEW s \in Runs, run[s] \in RunState, NEW pc,
               pc # "loaded", run' = [run EXCEPT ![s] = [run[s] EXCEPT !.pc = pc]]
        PROVE  run'[r] = run[r]
    BY <2>1, <2>4 DEF RunState
  <2>5. ASSUME NEW s \in Runs, LoadDocument(s) PROVE run'[r] = run[r] \/ LoadDocument(r)
    BY <2>5 DEF LoadDocument, TypeOK
  <2>6. ASSUME NEW s \in Runs, Process(s) PROVE run'[r] = run[r] \/ LoadDocument(r)
    <3>1. run[s] \in RunState
      BY <2>6, BusyHasDocument DEF Process, Skip, Prepare, LoadDocument, SaveDocument,
         RejectDocument, LoadVersion, SaveProvenance, RejectProvenance, UpsertChunks
    <3>2. CASE Skip(s) \/ RejectDocument(s) \/ RejectProvenance(s) \/ UpsertChunks(s)
      BY <2>3, <3>2 DEF Skip, RejectDocument, RejectProvenance, UpsertChunks
    <3>3. CASE Prepare(s)
      BY <2>4, <3>1, <3>3 DEF Prepare, TypeOK
    <3>4. CASE SaveDocument(s)
      BY <2>4, <3>1, <3>4 DEF SaveDocument, TypeOK
    <3>5. CASE SaveProvenance(s)
      BY <2>4, <3>1, <3>5 DEF SaveProvenance, TypeOK
    <3>6. CASE LoadVersion(s)
      <4> DEFINE exists == version[run[s].content] # NoVersion
                 step == [run[s] EXCEPT !.pc = "versioned", !.exists = exists,
                            !.retired = IF exists THEN {} ELSE Superseded(run[s].doc)]
      <4>1. run' = [run EXCEPT ![s] = step]
        BY <3>6 DEF LoadVersion, TypeOK
      <4>2. step.pc # "loaded"
        BY <3>1 DEF RunState
      <4> HIDE DEF step
      <4> QED
        BY <2>1, <4>1, <4>2
    <3> QED
      BY <2>5, <2>6, <3>2, <3>3, <3>4, <3>5, <3>6 DEF Process
  <2>7. ASSUME NEW s \in Runs, Interrupt(s) PROVE run'[r] = run[r]
    BY <2>3, <2>7 DEF Interrupt
  <2> QED
    BY <2>2, <2>6, <2>7 DEF Next, EditSource, vars
<1> QED
  BY <1>3, <1>4, <1>5

\* What the invariant says of the generations of a document.
LEMMA InvariantGivesOneGeneration ==
  ASSUME NEW v, IndexVersions = {v}, GenerationInv(v)
  PROVE  OneGeneration
<1> SUFFICES ASSUME NEW d \in Docs
             PROVE  IF hash[d] = NoContent
                      THEN Generations(d) = {}
                      ELSE \E id \in ChunkIds : Generations(d) = {id} /\ id[2] = hash[d]
  BY DEF OneGeneration
<1>1. ASSUME NEW id \in Generations(d)
      PROVE  id = <<d, hash[d], v>> /\ hash[d] \in Contents
  <2>1. PICK c \in Contents : id = <<d, c, v>>
    BY <1>1 DEF Generations, ChunkIds
  <2>2. hash[d] = c
    BY <1>1, <2>1 DEF Generations, GenerationInv, NamedGeneration
  <2> QED
    BY <2>1, <2>2
<1>2. CASE hash[d] = NoContent
  BY <1>1, <1>2, IndexAssumption
<1>3. CASE hash[d] # NoContent
  <2>1. hash[d] \in Contents
    BY <1>3 DEF GenerationInv, TypeOK
  <2>2. <<d, hash[d], v>> \in ChunkIds
    BY <2>1 DEF ChunkIds
  <2>3. chunk[<<d, hash[d], v>>] = "current"
    BY <2>1 DEF GenerationInv, NamedGeneration
  <2>4. <<d, hash[d], v>> \in Generations(d)
    BY <2>2, <2>3 DEF Generations
  <2>5. Generations(d) = {<<d, hash[d], v>>}
    BY <1>1, <2>4
  <2> QED
    BY <1>3, <2>2, <2>5
<1> QED
  BY <1>2, <1>3

\* Under one index version, a search sees exactly one generation of a saved
\* document, the one its row names, for any documents and contents, and whatever
\* runs overlap, fail or are killed between their transactions (save_document).
THEOREM GenerationsAreWhole ==
  ASSUME NEW v, IndexVersions = {v}
  PROVE  Spec => []OneGeneration
<1>1. Init => GenerationInv(v)
  <2> SUFFICES ASSUME Init PROVE GenerationInv(v)
    OBVIOUS
  <2>1. TypeOK
    BY DEF Init, TypeOK, Versions
  <2>2. NamedGeneration(v)
    BY IndexAssumption DEF Init, NamedGeneration, ChunkIds
  <2>3. LoadedHasChunks(v)
    BY DEF Init, LoadedHasChunks, Idle
  <2> QED
    BY <2>1, <2>2, <2>3 DEF GenerationInv
<1>2. GenerationInv(v) /\ [Next]_vars => GenerationInv(v)'
  <2> SUFFICES ASSUME GenerationInv(v), [Next]_vars PROVE GenerationInv(v)'
    OBVIOUS
  <2>1. TypeOK'
    BY NextKeepsTypes DEF GenerationInv
  <2>2. NamedGeneration(v)'
    BY NextKeepsGenerations
  <2>3. LoadedHasChunks(v)'
    BY <2>1, NextKeepsLoaded
  <2> QED
    BY <2>1, <2>2, <2>3 DEF GenerationInv
<1>3. GenerationInv(v) => OneGeneration
  BY InvariantGivesOneGeneration
<1> QED
  BY <1>1, <1>2, <1>3, PTL DEF Spec

-----------------------------------------------------------------------------
(* Embeddings *)

GapsInv == TypeOK /\ GapsAreCut

\* A chunk is still on its way, or was: what a step of one run must show.
LEMMA StepKeepsGaps ==
  ASSUME GapsInv, NEW r \in Runs, NEW step, run' = [run EXCEPT ![r] = step],
         cut \subseteq cut', embedded \subseteq embedded',
         \A id \in ChunkIds : chunk'[id] # "absent" => chunk[id] # "absent" \/ id = Chunk(r),
         run[r].pc \in Saving \/ chunk' # chunk =>
           \/ Chunk(r) \in embedded' \cup cut'
           \/ /\ step.pc \in Saving /\ step.doc = run[r].doc
              /\ step.content = run[r].content /\ step.iv = run[r].iv
  PROVE  GapsAreCut'
<1>1. run'[r] = step /\ \A s \in Runs : s # r => run'[s] = run[s]
  BY DEF GapsInv, TypeOK
<1>2. /\ step.doc = run[r].doc /\ step.content = run[r].content /\ step.iv = run[r].iv
        => Chunk(r)' = Chunk(r)
  BY <1>1 DEF Chunk
<1> SUFFICES ASSUME NEW id \in ChunkIds, chunk'[id] # "absent", id \notin embedded' \cup cut'
             PROVE  \E s \in Runs : run'[s].pc \in Saving /\ id = Chunk(s)'
  BY DEF GapsAreCut, Saving
<1>3. CASE id = Chunk(r) /\ (run[r].pc \in Saving \/ chunk' # chunk)
  BY <1>1, <1>2, <1>3
<1>4. CASE ~(id = Chunk(r) /\ (run[r].pc \in Saving \/ chunk' # chunk))
  <2>1. chunk[id] # "absent"
    BY <1>4
  <2>2. PICK s \in Runs : run[s].pc \in Saving /\ id = Chunk(s)
    BY <2>1 DEF GapsInv, GapsAreCut
  <2>3. s # r
    BY <1>4, <2>2
  <2>4. run'[s].pc \in Saving /\ Chunk(s)' = Chunk(s)
    BY <1>1, <2>2, <2>3 DEF Chunk
  <2> QED
    BY <2>2, <2>4
<1> QED
  BY <1>3, <1>4

\* Every step keeps it: only save_document adds chunks, and its run then goes on to the
\* embeddings or is cut.
LEMMA NextKeepsGaps == GapsInv /\ [Next]_vars => GapsAreCut'
<1> SUFFICES ASSUME GapsInv, [Next]_vars PROVE GapsAreCut'
  OBVIOUS
<1>1. ASSUME UNCHANGED <<run, chunk, embedded, cut>> PROVE GapsAreCut'
  BY <1>1 DEF GapsInv, GapsAreCut, Chunk
<1>2. ASSUME NEW r \in Runs, NEW d \in Docs, NEW iv \in IndexVersions,
             NEW force \in BOOLEAN, ReadSource(r, d, iv, force)
      PROVE  GapsAreCut'
  <2> DEFINE step == [Idle EXCEPT !.pc = "read", !.doc = d, !.iv = iv,
                        !.content = source[d], !.force = force]
  <2>1. run' = [run EXCEPT ![r] = step] /\ run[r].pc = "idle"
    BY <1>2 DEF ReadSource, Idle
  <2> HIDE DEF step
  <2>2. run[r].pc \notin Saving
    BY <2>1 DEF Saving
  <2>3. UNCHANGED <<chunk, embedded, cut>>
    BY <1>2 DEF ReadSource
  <2> QED
    BY <2>1, <2>2, <2>3, StepKeepsGaps
<1>3. ASSUME NEW r \in Runs, Process(r) PROVE GapsAreCut'
  <2>1. run[r] \in RunState
    BY <1>3, BusyHasDocument DEF GapsInv, Process, Skip, Prepare, LoadDocument,
       SaveDocument, RejectDocument, LoadVersion, SaveProvenance, RejectProvenance, UpsertChunks
  <2>2. CASE Skip(r) \/ RejectDocument(r)
    <3>1. /\ run' = [run EXCEPT ![r] = Idle] /\ run[r].pc \notin Saving
          /\ UNCHANGED <<chunk, embedded, cut>>
      BY <2>2 DEF Skip, RejectDocument, End, Saving
    <3> QED
      BY <3>1, StepKeepsGaps
  <2>3. CASE Prepare(r)
    <3>1. /\ run' = [run EXCEPT ![r] = [run[r] EXCEPT !.pc = "prepared"]]
          /\ run[r].pc \notin Saving /\ UNCHANGED <<chunk, embedded, cut>>
      BY <2>3 DEF Prepare, Saving, GapsInv, TypeOK
    <3> QED
      BY <3>1, StepKeepsGaps
  <2>4. CASE LoadDocument(r)
    <3> DEFINE step == [run[r] EXCEPT !.pc = "loaded", !.loaded = hash[run[r].doc]]
    <3>1. /\ run' = [run EXCEPT ![r] = step]
          /\ run[r].pc \notin Saving /\ UNCHANGED <<chunk, embedded, cut>>
      BY <2>4 DEF LoadDocument, Saving, GapsInv, TypeOK
    <3> HIDE DEF step
    <3> QED
      BY <3>1, StepKeepsGaps
  <2>5. CASE SaveDocument(r)
    <3> DEFINE step == [run[r] EXCEPT !.pc = "saved"]
    <3>1. run' = [run EXCEPT ![r] = step] /\ UNCHANGED <<embedded, cut>>
      BY <2>5 DEF SaveDocument, GapsInv, TypeOK
    <3>2. /\ step.pc \in Saving /\ step.doc = run[r].doc
          /\ step.content = run[r].content /\ step.iv = run[r].iv
      BY <2>1 DEF RunState, Saving
    <3>3. ASSUME NEW id \in ChunkIds, chunk'[id] # "absent", id # Chunk(r)
          PROVE  chunk[id] # "absent"
      BY <2>5, <3>3 DEF SaveDocument, ChunksReplaced
    <3> HIDE DEF step
    <3> QED
      BY <3>1, <3>2, <3>3, StepKeepsGaps
  <2>6. CASE LoadVersion(r)
    <3> DEFINE exists == version[run[r].content] # NoVersion
               step == [run[r] EXCEPT !.pc = "versioned", !.exists = exists,
                          !.retired = IF exists THEN {} ELSE Superseded(run[r].doc)]
    <3>1. run' = [run EXCEPT ![r] = step] /\ UNCHANGED <<chunk, embedded, cut>>
      BY <2>6 DEF LoadVersion, GapsInv, TypeOK
    <3>2. /\ step.pc \in Saving /\ step.doc = run[r].doc
          /\ step.content = run[r].content /\ step.iv = run[r].iv
      BY <2>1 DEF RunState, Saving
    <3> HIDE DEF step
    <3> QED
      BY <3>1, <3>2, StepKeepsGaps
  <2>7. CASE SaveProvenance(r)
    <3> DEFINE step == [run[r] EXCEPT !.pc = "sourced"]
    <3>1. run' = [run EXCEPT ![r] = step] /\ UNCHANGED <<chunk, embedded, cut>>
      BY <2>7 DEF SaveProvenance, GapsInv, TypeOK
    <3>2. /\ step.pc \in Saving /\ step.doc = run[r].doc
          /\ step.content = run[r].content /\ step.iv = run[r].iv
      BY <2>1 DEF RunState, Saving
    <3> HIDE DEF step
    <3> QED
      BY <3>1, <3>2, StepKeepsGaps
  <2>8. CASE RejectProvenance(r)
    <3>1. run' = [run EXCEPT ![r] = Idle] /\ UNCHANGED <<chunk, embedded>>
      BY <2>8 DEF RejectProvenance, End
    <3>2. cut' = cut \cup {Chunk(r)}
      BY <2>8 DEF RejectProvenance, Unfinished, Saving
    <3> QED
      BY <3>1, <3>2, StepKeepsGaps
  <2>9. CASE UpsertChunks(r)
    <3>1. run' = [run EXCEPT ![r] = Idle] /\ UNCHANGED <<chunk, cut>>
      BY <2>9 DEF UpsertChunks, End
    <3>2. embedded' = embedded \cup {Chunk(r)}
      BY <2>9 DEF UpsertChunks, EmbeddedNow
    <3> QED
      BY <3>1, <3>2, StepKeepsGaps
  <2> QED
    BY <1>3, <2>2, <2>3, <2>4, <2>5, <2>6, <2>7, <2>8, <2>9 DEF Process
<1>4. ASSUME NEW r \in Runs, Interrupt(r) PROVE GapsAreCut'
  <2>1. run' = [run EXCEPT ![r] = Idle] /\ UNCHANGED <<chunk, embedded>>
    BY <1>4 DEF Interrupt, End
  <2>2. cut \subseteq cut' /\ (run[r].pc \in Saving => Chunk(r) \in cut')
    BY <1>4 DEF Interrupt, Unfinished
  <2> QED
    BY <2>1, <2>2, StepKeepsGaps
<1> QED
  BY <1>1, <1>2, <1>3, <1>4 DEF Next, EditSource, vars

\* Whatever runs overlap, fail or are killed, a chunk that a dense search cannot find is
\* on its way, or its own run was cut off between save_document and upsert_chunks
\* (_process_job): skips, rejected retries and overlaps leave no others, under any index
\* versions.
THEOREM OnlyCutRunsLeaveGaps == Spec => []GapsAreCut
<1>1. Init => GapsInv
  <2> SUFFICES ASSUME Init PROVE GapsInv
    OBVIOUS
  <2>1. TypeOK
    BY DEF Init, TypeOK, Versions
  <2> QED
    BY <2>1 DEF Init, GapsInv, GapsAreCut
<1>2. GapsInv /\ [Next]_vars => GapsInv'
  BY NextKeepsTypes, NextKeepsGaps DEF GapsInv
<1>3. GapsInv => GapsAreCut
  BY DEF GapsInv
<1> QED
  BY <1>1, <1>2, <1>3, PTL DEF Spec

-----------------------------------------------------------------------------
(* Orders *)

\* The elements that an order puts before x.
Before(S, before, x) == {y \in S : <<y, x>> \in before}

\* A strict order of all of S.
IsOrder(S, before) ==
  /\ \A x \in S : <<x, x>> \notin before
  /\ \A x, y \in S : x = y \/ <<x, y>> \in before \/ <<y, x>> \in before
  /\ \A x, y, z \in S : <<x, y>> \in before /\ <<y, z>> \in before => <<x, z>> \in before

\* There are fewer elements before one than before a later one.
LEMMA RanksGrow ==
  ASSUME NEW S, IsFiniteSet(S), NEW before, IsOrder(S, before),
         NEW x \in S, NEW y \in S, <<x, y>> \in before
  PROVE  Cardinality(Before(S, before, x)) < Cardinality(Before(S, before, y))
<1> DEFINE X == Before(S, before, x)
           Y == Before(S, before, y)
<1>1. IsFiniteSet(Y) /\ IsFiniteSet(X) /\ Cardinality(X) \in Nat /\ Cardinality(Y) \in Nat
  BY FS_Subset, FS_CardinalityType DEF Before
<1>2. X \subseteq Y \ {x}
  BY DEF Before, IsOrder
<1>3. x \in Y
  BY DEF Before
<1>4. IsFiniteSet(Y \ {x}) /\ Cardinality(Y \ {x}) = Cardinality(Y) - 1
  BY <1>1, <1>3, FS_RemoveElement
<1>5. Cardinality(X) <= Cardinality(Y \ {x})
  BY <1>2, <1>4, FS_Subset
<1> QED
  BY <1>1, <1>4, <1>5

\* Every element of an ordered finite set has a place of its own, the number of those
\* before it and one.
LEMMA PlacesAreABijection ==
  ASSUME NEW S, IsFiniteSet(S), NEW before, IsOrder(S, before)
  PROVE  /\ Cardinality(S) \in Nat
         /\ [x \in S |-> Cardinality(Before(S, before, x)) + 1]
              \in Bijection(S, 1..Cardinality(S))
<1> DEFINE N == Cardinality(S)
           place == [x \in S |-> Cardinality(Before(S, before, x)) + 1]
<1>1. N \in Nat
  BY FS_CardinalityType
<1>2. ASSUME NEW x \in S PROVE place[x] \in 1..N
  <2>1. IsFiniteSet(S \ {x}) /\ Cardinality(S \ {x}) = N - 1
    BY FS_RemoveElement
  <2>2. Before(S, before, x) \subseteq S \ {x}
    BY DEF Before, IsOrder
  <2>3. /\ Cardinality(Before(S, before, x)) \in Nat
        /\ Cardinality(Before(S, before, x)) <= N - 1
    BY <2>1, <2>2, FS_Subset, FS_CardinalityType
  <2> QED
    BY <1>1, <2>3
<1>3. ASSUME NEW x \in S, NEW y \in S, place[x] = place[y] PROVE x = y
  <2>1. Cardinality(Before(S, before, x)) = Cardinality(Before(S, before, y))
    <3>1. /\ Cardinality(Before(S, before, x)) \in Nat
          /\ Cardinality(Before(S, before, y)) \in Nat
      BY FS_Subset, FS_CardinalityType DEF Before
    <3> QED
      BY <1>3, <3>1
  <2>2. /\ <<x, y>> \in before => Cardinality(Before(S, before, x)) < Cardinality(Before(S, before, y))
        /\ <<y, x>> \in before => Cardinality(Before(S, before, y)) < Cardinality(Before(S, before, x))
    BY RanksGrow
  <2>3. Cardinality(Before(S, before, x)) \in Nat
    BY FS_Subset, FS_CardinalityType DEF Before
  <2> QED
    BY <2>1, <2>2, <2>3 DEF IsOrder
<1> HIDE DEF place
<1>4. place \in Injection(S, 1..N)
  <2>1. place \in [S -> 1..N]
    BY <1>2 DEF place
  <2> QED
    BY <1>3, <2>1 DEF Injection, IsInjective
<1>5. IsFiniteSet(1..N) /\ Cardinality(1..N) = N
  BY <1>1, FS_Interval
<1>6. place \in Surjection(S, 1..N)
  BY <1>4, <1>5, FS_Injection
<1> QED
  BY <1>1, <1>4, <1>6 DEF Bijection, place

\* InOrder lists every element once, and those before an element come before it.
LEMMA InOrderLists ==
  ASSUME NEW S, IsFiniteSet(S), NEW before, IsOrder(S, before)
  PROVE  /\ Cardinality(S) \in Nat
         /\ InOrder(S, before) \in [1..Cardinality(S) -> S]
         /\ \A x \in S : \E n \in 1..Cardinality(S) : InOrder(S, before)[n] = x
         /\ \A n \in 1..Cardinality(S) :
              Cardinality(Before(S, before, InOrder(S, before)[n])) = n - 1
         /\ \A m, n \in 1..Cardinality(S) :
              m < n <=> <<InOrder(S, before)[m], InOrder(S, before)[n]>> \in before
<1> DEFINE N == Cardinality(S)
           place == [x \in S |-> Cardinality(Before(S, before, x)) + 1]
           list == InOrder(S, before)
<1>1. N \in Nat /\ place \in Bijection(S, 1..N)
  BY PlacesAreABijection
<1>2. \A x \in S : Cardinality(Before(S, before, x)) \in Nat
  BY FS_Subset, FS_CardinalityType DEF Before
<1> DEFINE rank == [x \in S |-> Cardinality(Before(S, before, x))]
<1>3. list = [n \in 1..N |-> CHOOSE x \in S : rank[x] = n - 1]
  BY DEF InOrder, Before
<1>4. ASSUME NEW n \in 1..N
      PROVE  list[n] \in S /\ Cardinality(Before(S, before, list[n])) = n - 1
  <2>1. PICK x \in S : place[x] = n
    BY <1>1 DEF Bijection, Surjection
  <2>2. Cardinality(Before(S, before, x)) = n - 1
    BY <1>1, <1>2, <2>1
  <2>3. list[n] = CHOOSE y \in S : rank[y] = n - 1
    BY <1>3
  <2>4. \E y \in S : rank[y] = n - 1
    BY <2>2
  <2>5. list[n] \in S /\ rank[list[n]] = n - 1
    BY <2>3, <2>4
  <2> QED
    BY <2>5
<1>5. list \in [1..N -> S]
  BY <1>3, <1>4
<1>6. ASSUME NEW x \in S PROVE \E n \in 1..N : list[n] = x
  <2>1. place[x] \in 1..N
    BY <1>1 DEF Bijection, Injection
  <2>2. Cardinality(Before(S, before, list[place[x]])) + 1 = place[x]
    BY <1>1, <1>4, <2>1
  <2>3. place[list[place[x]]] = place[x]
    BY <1>4, <2>1, <2>2
  <2>4. list[place[x]] = x
    BY <1>1, <1>4, <2>1, <2>3 DEF Bijection, Injection, IsInjective
  <2> QED
    BY <2>1, <2>4
<1>7. ASSUME NEW m \in 1..N, NEW n \in 1..N
      PROVE  m < n <=> <<list[m], list[n]>> \in before
  <2>1. /\ <<list[m], list[n]>> \in before => m - 1 < n - 1
        /\ <<list[n], list[m]>> \in before => n - 1 < m - 1
    BY <1>4, RanksGrow
  <2>2. \/ list[m] = list[n] \/ <<list[m], list[n]>> \in before
        \/ <<list[n], list[m]>> \in before
    BY <1>4 DEF IsOrder
  <2>3. list[m] = list[n] => m - 1 = n - 1
    BY <1>4
  <2> QED
    BY <1>1, <2>1, <2>2, <2>3
<1> HIDE DEF list
<1> QED
  BY <1>1, <1>4, <1>5, <1>6, <1>7 DEF list

-----------------------------------------------------------------------------
(* Lists of chunks *)

\* A list in which nothing appears twice.
Distinct(s) == \A i, j \in DOMAIN s : i # j => s[i] # s[j]

\* p lists the places of keep, in increasing order.
ListsPlaces(p, keep) ==
  /\ Cardinality(keep) \in Nat
  /\ p \in [1..Cardinality(keep) -> keep]
  /\ \A i \in keep : \E n \in 1..Cardinality(keep) : p[n] = i
  /\ \A m, n \in 1..Cardinality(keep) : m < n <=> p[m] < p[n]

\* Places ranked by their numbers are listed, each after as many as are smaller.
LEMMA EarlierPlaces ==
  ASSUME NEW keep \in SUBSET Int, IsFiniteSet(keep)
  PROVE  LET p == InOrder(keep, {e \in keep \X keep : e[1] < e[2]})
         IN  /\ ListsPlaces(p, keep)
             /\ \A n \in 1..Cardinality(keep) : Cardinality({j \in keep : j < p[n]}) = n - 1
<1> DEFINE before == {e \in keep \X keep : e[1] < e[2]}
           p == InOrder(keep, before)
<1>1. \A x, y \in keep : <<x, y>> \in before <=> x < y
  OBVIOUS
<1> HIDE DEF before
<1>2. IsOrder(keep, before)
  BY <1>1 DEF IsOrder
<1>3. ListsPlaces(p, keep)
  <2> HIDE DEF p
  <2>1. /\ Cardinality(keep) \in Nat
        /\ p \in [1..Cardinality(keep) -> keep]
        /\ \A i \in keep : \E n \in 1..Cardinality(keep) : p[n] = i
        /\ \A m, n \in 1..Cardinality(keep) : m < n <=> <<p[m], p[n]>> \in before
    BY <1>2, InOrderLists DEF p
  <2> QED
    BY <1>1, <2>1 DEF ListsPlaces
<1>4. ASSUME NEW n \in 1..Cardinality(keep)
      PROVE  Cardinality({j \in keep : j < p[n]}) = n - 1
  <2>1. Cardinality(Before(keep, before, p[n])) = n - 1
    BY <1>2, InOrderLists
  <2>2. p[n] \in keep
    BY <1>3 DEF ListsPlaces
  <2>3. Before(keep, before, p[n]) = {j \in keep : j < p[n]}
    BY <1>1, <2>2 DEF Before
  <2> QED
    BY <2>1, <2>3
<1> QED
  BY <1>3, <1>4 DEF before

\* A subsequence is its elements' places in increasing order.
LEMMA SubsequenceIsPicked ==
  ASSUME NEW T, NEW s \in Seq(T), NEW keep \in SUBSET (DOMAIN s)
  PROVE  \E p : /\ ListsPlaces(p, keep)
                /\ Subsequence(s, keep) = [n \in 1..Cardinality(keep) |-> s[p[n]]]
<1> DEFINE p == InOrder(keep, {e \in keep \X keep : e[1] < e[2]})
<1>1. keep \in SUBSET Int /\ IsFiniteSet(keep)
  BY FS_Interval, FS_Subset
<1>2. ListsPlaces(p, keep)
  BY <1>1, EarlierPlaces
<1>3. Subsequence(s, keep) = [n \in DOMAIN p |-> s[p[n]]]
  BY DEF Subsequence, Picked
<1> HIDE DEF p
<1> QED
  BY <1>2, <1>3 DEF ListsPlaces

\* A subsequence has the elements at the places kept, each as often.
LEMMA SubsequenceHas ==
  ASSUME NEW T, NEW s \in Seq(T), NEW keep \in SUBSET (DOMAIN s)
  PROVE  /\ Subsequence(s, keep) \in Seq(T)
         /\ Elements(Subsequence(s, keep)) = {s[i] : i \in keep}
         /\ Distinct(s) => Distinct(Subsequence(s, keep))
<1>1. PICK p : /\ ListsPlaces(p, keep)
               /\ Subsequence(s, keep) = [n \in 1..Cardinality(keep) |-> s[p[n]]]
  BY SubsequenceIsPicked
<1> DEFINE sub == Subsequence(s, keep)
<1>2. DOMAIN sub = 1..Cardinality(keep) /\ \A n \in DOMAIN sub : sub[n] = s[p[n]] /\ p[n] \in keep
  BY <1>1 DEF ListsPlaces
<1>3. sub \in Seq(T)
  BY <1>1 DEF ListsPlaces
<1>4. Elements(sub) = {s[i] : i \in keep}
  BY <1>1, <1>2 DEF Elements, ListsPlaces
<1>5. ASSUME Distinct(s), NEW m \in DOMAIN sub, NEW n \in DOMAIN sub, m # n
      PROVE  sub[m] # sub[n]
  <2>1. m \in Int /\ n \in Int /\ p[m] \in Int /\ p[n] \in Int
    BY <1>1, <1>2 DEF ListsPlaces
  <2>2. p[m] # p[n]
    BY <1>1, <1>2, <1>5, <2>1 DEF ListsPlaces
  <2> QED
    BY <1>2, <1>5, <2>2 DEF Distinct
<1> QED
  BY <1>3, <1>4, <1>5 DEF Distinct

\* Scores of all elements of a list.
Scored(s, score) == \A i \in DOMAIN s : score[s[i]] \in Int

\* The scores order the places of a list.
LEMMA ScoresOrder ==
  ASSUME NEW s, DOMAIN s \subseteq Int, NEW score, Scored(s, score), NEW before,
         \A i, j \in DOMAIN s : <<i, j>> \in before <=> Better(s, score, i, j)
  PROVE  IsOrder(DOMAIN s, before)
<1>1. \A i \in DOMAIN s : i \in Int /\ score[s[i]] \in Int
  BY DEF Scored
<1>2. ASSUME NEW x \in DOMAIN s, NEW y \in DOMAIN s, NEW z \in DOMAIN s,
             Better(s, score, x, y), Better(s, score, y, z)
      PROVE  Better(s, score, x, z)
  BY <1>1, <1>2 DEF Better
<1>3. \A x \in DOMAIN s : ~Better(s, score, x, x)
  BY <1>1 DEF Better
<1>4. \A x, y \in DOMAIN s : x = y \/ Better(s, score, x, y) \/ Better(s, score, y, x)
  BY <1>1 DEF Better
<1> QED
  BY <1>2, <1>3, <1>4 DEF IsOrder

\* Sorting arranges the places of a list, each once, by falling scores, and leaves equal
\* ones in their order.
LEMMA SortingArranges ==
  ASSUME NEW T, NEW s \in Seq(T), NEW score, Scored(s, score)
  PROVE  \E p \in [DOMAIN s -> DOMAIN s] :
           /\ StableDescending(s, score) = [n \in DOMAIN s |-> s[p[n]]]
           /\ \A i \in DOMAIN s : \E n \in DOMAIN s : p[n] = i
           /\ \A m, n \in DOMAIN s : m < n <=> Better(s, score, p[m], p[n])
<1> DEFINE D == DOMAIN s
           before == {e \in D \X D : Better(s, score, e[1], e[2])}
           p == InOrder(D, before)
<1>1. IsFiniteSet(D) /\ D = 1..Cardinality(D) /\ D \subseteq Int
  <2>1. D = 1..Len(s) /\ Len(s) \in Nat
    OBVIOUS
  <2>2. IsFiniteSet(1..Len(s)) /\ Cardinality(1..Len(s)) = Len(s)
    BY <2>1, FS_Interval
  <2> QED
    BY <2>1, <2>2
<1>2. StableDescending(s, score) = [n \in DOMAIN p |-> s[p[n]]]
  BY DEF StableDescending, Picked
<1>3. \A i, j \in D : <<i, j>> \in before <=> Better(s, score, i, j)
  <2> HIDE DEF D
  <2> QED
    OBVIOUS
<1> HIDE DEF before
<1>4. IsOrder(D, before)
  BY <1>1, <1>3, ScoresOrder
<1>5. /\ p \in [1..Cardinality(D) -> D]
      /\ \A i \in D : \E n \in 1..Cardinality(D) : p[n] = i
      /\ \A m, n \in 1..Cardinality(D) : m < n <=> <<p[m], p[n]>> \in before
  <2> HIDE DEF D
  <2> QED
    BY <1>1, <1>4, InOrderLists
<1> HIDE DEF p
<1>6. /\ p \in [D -> D]
      /\ \A i \in D : \E n \in D : p[n] = i
      /\ \A m, n \in D : m < n <=> <<p[m], p[n]>> \in before
  <2> HIDE DEF D
  <2> QED
    BY <1>1, <1>5
<1>7. DOMAIN p = D
  BY <1>6
<1> QED
  BY <1>2, <1>3, <1>6, <1>7

\* A sorted list has the elements of the list, each as often.
LEMMA SortedHas ==
  ASSUME NEW T, NEW s \in Seq(T), NEW score, Scored(s, score)
  PROVE  /\ StableDescending(s, score) \in Seq(T)
         /\ Elements(StableDescending(s, score)) = Elements(s)
         /\ Distinct(s) => Distinct(StableDescending(s, score))
<1> DEFINE sorted == StableDescending(s, score)
<1>1. PICK p \in [DOMAIN s -> DOMAIN s] :
           /\ sorted = [n \in DOMAIN s |-> s[p[n]]]
           /\ \A i \in DOMAIN s : \E n \in DOMAIN s : p[n] = i
           /\ \A m, n \in DOMAIN s : m < n <=> Better(s, score, p[m], p[n])
  BY SortingArranges
<1>2. DOMAIN s = 1..Len(s) /\ Len(s) \in Nat
  OBVIOUS
<1>3. \A n \in DOMAIN s : p[n] \in DOMAIN s /\ sorted[n] = s[p[n]]
  BY <1>1
<1>4. DOMAIN sorted = DOMAIN s
  BY <1>1
<1>5. sorted \in Seq(T)
  BY <1>1, <1>2
<1>6. Elements(sorted) = Elements(s)
  <2> HIDE DEF sorted
  <2> QED
    BY <1>1, <1>3, <1>4 DEF Elements
<1>7. ASSUME Distinct(s), NEW m \in DOMAIN sorted, NEW n \in DOMAIN sorted, m # n
      PROVE  sorted[m] # sorted[n]
  <2>1. m < n \/ n < m
    BY <1>2, <1>4, <1>7
  <2>2. p[m] # p[n]
    <3>1. ASSUME p[m] = p[n] PROVE Better(s, score, p[m], p[n]) <=> Better(s, score, p[n], p[m])
      BY <3>1
    <3>2. m < n <=> ~(n < m)
      BY <1>2, <1>4, <1>7
    <3> QED
      BY <1>1, <1>4, <1>7, <3>1, <3>2
  <2> QED
    BY <1>3, <1>4, <1>7, <2>2 DEF Distinct
<1> QED
  BY <1>5, <1>6, <1>7 DEF Distinct

\* Lists one after the other.
LEMMA ConcatenationHas ==
  ASSUME NEW T, NEW s \in Seq(T), NEW t \in Seq(T)
  PROVE  /\ s \o t \in Seq(T)
         /\ Elements(s \o t) = Elements(s) \cup Elements(t)
         /\ Distinct(s) /\ Distinct(t) /\ Elements(s) \cap Elements(t) = {} => Distinct(s \o t)
<1>1. /\ s \o t \in Seq(T) /\ Len(s \o t) = Len(s) + Len(t)
      /\ \A i \in 1..Len(s) : (s \o t)[i] = s[i]
      /\ \A i \in 1..Len(t) : (s \o t)[Len(s) + i] = t[i]
  OBVIOUS
<1>2. /\ Len(s) \in Nat /\ Len(t) \in Nat
      /\ DOMAIN s = 1..Len(s) /\ DOMAIN t = 1..Len(t) /\ DOMAIN (s \o t) = 1..(Len(s) + Len(t))
  BY <1>1
<1>3. ASSUME NEW i \in 1..(Len(s) + Len(t)), i \notin 1..Len(s)
      PROVE  i - Len(s) \in 1..Len(t) /\ (s \o t)[i] = t[i - Len(s)]
  BY <1>1, <1>2, <1>3
<1> DEFINE u == s \o t
<1> HIDE DEF u
<1>4. Elements(u) = Elements(s) \cup Elements(t)
  <2>1. ASSUME NEW i \in DOMAIN u PROVE u[i] \in Elements(s) \cup Elements(t)
    BY <1>1, <1>2, <1>3 DEF Elements, u
  <2>2. ASSUME NEW i \in DOMAIN s PROVE s[i] \in Elements(u)
    <3>1. i \in DOMAIN u /\ u[i] = s[i]
      BY <1>1, <1>2 DEF u
    <3> QED
      BY <3>1 DEF Elements
  <2>3. ASSUME NEW i \in DOMAIN t PROVE t[i] \in Elements(u)
    <3>1. Len(s) + i \in DOMAIN u /\ u[Len(s) + i] = t[i]
      BY <1>1, <1>2 DEF u
    <3> QED
      BY <3>1 DEF Elements
  <2> QED
    BY <2>1, <2>2, <2>3 DEF Elements
<1>5. ASSUME Distinct(s), Distinct(t), Elements(s) \cap Elements(t) = {},
             NEW i \in DOMAIN u, NEW j \in DOMAIN u, i # j
      PROVE  u[i] # u[j]
  <2>1. CASE i \in DOMAIN s /\ j \in DOMAIN s
    BY <1>1, <1>2, <1>5, <2>1 DEF Distinct, u
  <2>2. CASE i \notin DOMAIN s /\ j \notin DOMAIN s
    <3>1. i - Len(s) # j - Len(s)
      BY <1>2, <1>5 DEF u
    <3> QED
      BY <1>2, <1>3, <1>5, <2>2, <3>1 DEF Distinct, u
  <2>3. CASE i \in DOMAIN s /\ j \notin DOMAIN s
    <3>1. u[i] \in Elements(s) /\ u[j] \in Elements(t)
      BY <1>1, <1>2, <1>3, <2>3 DEF Elements, u
    <3> QED
      BY <1>5, <3>1
  <2>4. CASE i \notin DOMAIN s /\ j \in DOMAIN s
    <3>1. u[j] \in Elements(s) /\ u[i] \in Elements(t)
      BY <1>1, <1>2, <1>3, <2>4 DEF Elements, u
    <3> QED
      BY <1>5, <3>1
  <2> QED
    BY <2>1, <2>2, <2>3, <2>4
<1> QED
  BY <1>1, <1>4, <1>5 DEF Distinct, u

\* A list in two parts.
LEMMA PartsHave ==
  ASSUME NEW T, NEW s \in Seq(T), NEW n \in 0..Len(s)
  PROVE  /\ SubSeq(s, 1, n) \in Seq(T) /\ SubSeq(s, n + 1, Len(s)) \in Seq(T)
         /\ Len(SubSeq(s, 1, n)) = n
         /\ \A i \in 1..n : SubSeq(s, 1, n)[i] = s[i]
         /\ Elements(s) = Elements(SubSeq(s, 1, n)) \cup Elements(SubSeq(s, n + 1, Len(s)))
         /\ Distinct(s) => /\ Distinct(SubSeq(s, 1, n)) /\ Distinct(SubSeq(s, n + 1, Len(s)))
                           /\ Elements(SubSeq(s, 1, n))
                                \cap Elements(SubSeq(s, n + 1, Len(s))) = {}
<1> DEFINE head == SubSeq(s, 1, n)
           tail == SubSeq(s, n + 1, Len(s))
<1>1. /\ DOMAIN s = 1..Len(s) /\ Len(s) \in Nat /\ n \in Nat
      /\ head \in Seq(T) /\ tail \in Seq(T)
      /\ Len(head) = n /\ Len(tail) = Len(s) - n
      /\ DOMAIN head = 1..n /\ DOMAIN tail = 1..(Len(s) - n)
      /\ \A i \in 1..n : head[i] = s[i]
      /\ \A i \in 1..(Len(s) - n) : tail[i] = s[n + i]
  OBVIOUS
<1> HIDE DEF head, tail
<1>2. ASSUME NEW i \in DOMAIN s, i \notin DOMAIN head
      PROVE  i - n \in DOMAIN tail /\ tail[i - n] = s[i]
  BY <1>1, <1>2
<1>3. Elements(s) = Elements(head) \cup Elements(tail)
  <2>1. \A i \in DOMAIN head : i \in DOMAIN s /\ head[i] = s[i]
    BY <1>1
  <2>2. \A i \in DOMAIN tail : n + i \in DOMAIN s /\ tail[i] = s[n + i]
    BY <1>1
  <2> QED
    BY <1>2, <2>1, <2>2 DEF Elements
<1>4. ASSUME Distinct(s)
      PROVE  Distinct(head) /\ Distinct(tail) /\ Elements(head) \cap Elements(tail) = {}
  <2>1. \A i \in DOMAIN head : i \in DOMAIN s /\ head[i] = s[i]
    BY <1>1
  <2>2. \A i \in DOMAIN tail : n + i \in DOMAIN s /\ tail[i] = s[n + i]
    BY <1>1
  <2>3. \A i, j \in DOMAIN tail : i # j => n + i # n + j
    BY <1>1
  <2>4. \A i \in DOMAIN head, j \in DOMAIN tail : i # n + j
    BY <1>1
  <2> QED
    BY <1>4, <2>1, <2>2, <2>3, <2>4 DEF Distinct, Elements
<1> QED
  BY <1>1, <1>3, <1>4 DEF head, tail

-----------------------------------------------------------------------------
(* Diversification *)

\* Two different things are two.
LEMMA PairsHaveTwo == \A a, b : a # b => IsFiniteSet({a, b}) /\ Cardinality({a, b}) = 2
<1> SUFFICES ASSUME NEW a, NEW b, a # b PROVE IsFiniteSet({a, b}) /\ Cardinality({a, b}) = 2
  OBVIOUS
<1>1. IsFiniteSet({a}) /\ Cardinality({a}) = 1
  BY FS_Singleton
<1>2. IsFiniteSet({a} \cup {b}) /\ Cardinality({a} \cup {b}) = 2
  BY <1>1, FS_AddElement
<1>3. {a} \cup {b} = {a, b}
  OBVIOUS
<1> QED
  BY <1>2, <1>3

\* The chunks of one document.
OfDocument(d, ids) == {c \in ids : c[1] = d}

\* _diversify_results keeps two passages of a document, or all it is given if those are
\* less; nothing appears twice that did not before.
LEMMA DiversifyKeepsTwo ==
  ASSUME NEW T, NEW s \in Seq(T), Distinct(s), NEW d
  PROVE  LET kept == OfDocument(d, Elements(Diversify(s)))
         IN  /\ IsFiniteSet(kept) /\ Cardinality(kept) \in 0..2
             /\ Cardinality(kept) = 2 \/ kept = OfDocument(d, Elements(s))
<1> DEFINE earlier(i) == {j \in 1..(i - 1) : s[j][1] = s[i][1]}
           keep == {i \in DOMAIN s : Cardinality(earlier(i)) < 2}
           D == {i \in DOMAIN s : s[i][1] = d}
           N == Cardinality(D)
           p == InOrder(D, {e \in D \X D : e[1] < e[2]})
           kept == OfDocument(d, Elements(Diversify(s)))
<1>1. DOMAIN s = 1..Len(s) /\ Len(s) \in Nat
  OBVIOUS
<1>2. D \in SUBSET Int /\ IsFiniteSet(D) /\ D \subseteq DOMAIN s
  <2>1. IsFiniteSet(1..Len(s))
    BY <1>1, FS_Interval
  <2>2. D \subseteq 1..Len(s)
    BY <1>1
  <2> QED
    BY <1>1, <2>1, <2>2, FS_Subset
<1>3. /\ ListsPlaces(p, D)
      /\ \A n \in 1..N : Cardinality({j \in D : j < p[n]}) = n - 1
  <2> HIDE DEF D
  <2> QED
    BY <1>2, EarlierPlaces
<1>4. ASSUME NEW i \in D PROVE earlier(i) = {j \in D : j < i}
  BY <1>1
<1>5. kept = {s[i] : i \in keep \cap D}
  <2>1. Elements(Diversify(s)) = {s[i] : i \in keep}
    <3>1. keep \in SUBSET (DOMAIN s)
      OBVIOUS
    <3>2. Diversify(s) = Subsequence(s, keep)
      BY DEF Diversify
    <3> HIDE DEF keep
    <3> QED
      BY <3>1, <3>2, SubsequenceHas
  <2> QED
    BY <2>1 DEF OfDocument
<1>6. OfDocument(d, Elements(s)) = {s[i] : i \in D}
  BY DEF OfDocument, Elements
<1>7. \A n \in 1..N : p[n] \in D /\ (p[n] \in keep <=> n < 3)
  <2> SUFFICES ASSUME NEW n \in 1..N PROVE p[n] \in D /\ (p[n] \in keep <=> n < 3)
    OBVIOUS
  <2>1. p[n] \in D
    BY <1>3 DEF ListsPlaces
  <2>2. Cardinality(earlier(p[n])) = n - 1
    <3> HIDE DEF p, earlier, D
    <3> QED
      BY <1>3, <1>4, <2>1
  <2>3. N \in Nat
    BY <1>3 DEF ListsPlaces
  <2>4. p[n] \in DOMAIN s
    BY <1>2, <2>1
  <2>5. p[n] \in keep <=> Cardinality(earlier(p[n])) < 2
    <3> HIDE DEF p, earlier
    <3> QED
      BY <2>4
  <2>6. n - 1 < 2 <=> n < 3
    BY <2>3
  <2> QED
    BY <2>1, <2>2, <2>5, <2>6
<1> HIDE DEF keep, kept, D, p
<1>8. /\ N \in Nat
      /\ \A i \in D : \E n \in 1..N : p[n] = i
      /\ \A m, n \in 1..N : m < n => p[m] # p[n]
  <2>1. \A m, n \in 1..N : m < n => p[m] < p[n] /\ p[m] \in Int /\ p[n] \in Int
    BY <1>2, <1>3 DEF ListsPlaces
  <2> QED
    BY <1>3, <2>1 DEF ListsPlaces
<1>9. CASE N = 0
  <2>1. kept = {} /\ D = {}
    BY <1>5, <1>8, <1>9
  <2> QED
    BY <1>6, <2>1, FS_EmptySet DEF kept
<1>10. CASE N = 1
  <2>1. D = {p[1]} /\ p[1] \in keep
    BY <1>7, <1>8, <1>10
  <2>2. kept = {s[p[1]]}
    BY <1>5, <2>1
  <2>3. IsFiniteSet(kept) /\ Cardinality(kept) = 1
    BY <2>2, FS_Singleton
  <2>4. kept = OfDocument(d, Elements(s))
    BY <1>6, <2>1, <2>2
  <2> QED
    BY <2>3, <2>4 DEF kept
<1>11. CASE N >= 2
  <2>1. 1 \in 1..N /\ 2 \in 1..N
    BY <1>8, <1>11
  <2>2. \A n \in 1..N : n < 3 => n = 1 \/ n = 2
    BY <1>8
  <2>3. keep \cap D = {p[1], p[2]}
    BY <1>7, <1>8, <2>1, <2>2
  <2>4. kept = {s[p[1]], s[p[2]]}
    BY <1>5, <2>3
  <2>5. s[p[1]] # s[p[2]]
    <3>1. p[1] # p[2]
      BY <1>8, <2>1
    <3>2. p[1] \in D /\ p[2] \in D
      BY <1>7, <2>1
    <3>3. p[1] \in DOMAIN s /\ p[2] \in DOMAIN s
      BY <1>2, <3>2
    <3> QED
      BY <3>1, <3>3 DEF Distinct
  <2>6. IsFiniteSet(kept) /\ Cardinality(kept) = 2
    BY <2>4, <2>5, PairsHaveTwo
  <2> QED
    BY <2>6 DEF kept
<1> QED
  BY <1>8, <1>9, <1>10, <1>11

\* What it keeps is from its list, and nothing twice.
LEMMA DiversifyHas ==
  ASSUME NEW T, NEW s \in Seq(T)
  PROVE  /\ Diversify(s) \in Seq(T)
         /\ Elements(Diversify(s)) \subseteq Elements(s)
         /\ Distinct(s) => Distinct(Diversify(s))
<1> DEFINE keep == {i \in DOMAIN s : Cardinality({j \in 1..(i - 1) : s[j][1] = s[i][1]}) < 2}
<1>1. Diversify(s) = Subsequence(s, keep)
  BY DEF Diversify
<1>2. keep \in SUBSET (DOMAIN s)
  OBVIOUS
<1> HIDE DEF keep
<1>3. /\ Diversify(s) \in Seq(T)
      /\ Elements(Diversify(s)) = {s[i] : i \in keep}
      /\ Distinct(s) => Distinct(Diversify(s))
  BY <1>1, <1>2, SubsequenceHas
<1> QED
  BY <1>2, <1>3 DEF Elements

-----------------------------------------------------------------------------
(* Scores *)

\* Division by a positive number gives an integer.
LEMMA QuotientsAreIntegers == \A a \in Int, b \in Int : b > 0 => a \div b \in Int
  OBVIOUS

\* A chunk is of a generation, and of a passage of its content.
LEMMA ChunksHaveFields ==
  ASSUME NEW c \in Chunks
  PROVE  /\ Generation(c) \in ChunkIds /\ Passage(c) \in Contents \X Parts
         /\ c[1] \in Docs /\ c[4] \in Parts
  BY DEF Chunks, ChunkIds, Generation, Passage

\* What a backend returns: each match once, the best first.
Matches(s, score) ==
  /\ s \in Seq(Chunks) /\ Distinct(s)
  /\ \A i \in DOMAIN s : score[Passage(s[i])] > 0
  /\ \A i, j \in DOMAIN s : i < j => score[Passage(s[i])] >= score[Passage(s[j])]

\* The best score of a list is that of its first.
LEMMA BestIsFirst ==
  ASSUME NEW score \in [Contents \X Parts -> Int], NEW s, Matches(s, score), s # <<>>
  PROVE  /\ BestOf(score, s) = score[Passage(s[1])]
         /\ BestOf(score, s) \in Int /\ BestOf(score, s) > 0
<1> DEFINE values == {score[Passage(c)] : c \in Elements(s)}
           first == score[Passage(s[1])]
<1>1. DOMAIN s = 1..Len(s) /\ Len(s) \in Nat /\ Len(s) > 0 /\ \A i \in DOMAIN s : s[i] \in Chunks
  BY EmptySeq DEF Matches
<1>2. \A i \in DOMAIN s : score[Passage(s[i])] \in Int
  BY <1>1, ChunksHaveFields
<1>3. first \in values /\ first > 0 /\ first \in Int
  BY <1>1, <1>2 DEF Elements, Matches
<1>4. \A value \in values : value \in Int /\ value <= first
  <2> SUFFICES ASSUME NEW i \in DOMAIN s
               PROVE  score[Passage(s[i])] \in Int /\ score[Passage(s[i])] <= first
    BY DEF Elements
  <2>1. CASE i = 1
    BY <1>2, <2>1
  <2>2. CASE i # 1
    <3>1. 1 \in DOMAIN s /\ 1 < i
      BY <1>1, <2>2
    <3>2. first >= score[Passage(s[i])]
      BY <3>1 DEF Matches
    <3> QED
      BY <1>2, <1>3, <3>2
  <2> QED
    BY <2>1, <2>2
<1> HIDE DEF values, first
<1>5. (CHOOSE best \in values : \A value \in values : value <= best) = first
  <2>1. \A best \in values : (\A value \in values : value <= best) => best = first
    <3> SUFFICES ASSUME NEW best \in values, \A value \in values : value <= best
                 PROVE  best = first
      OBVIOUS
    <3>1. first <= best /\ best <= first /\ best \in Int
      BY <1>3, <1>4
    <3> QED
      BY <1>3, <3>1
  <2> QED
    BY <1>3, <1>4, <2>1
<1> QED
  BY <1>3, <1>5 DEF BestOf, values, first

\* The lists that the ranking starts from.
Found(r, dense, sparse) ==
  /\ Matches(dense, Dense[r.query]) /\ Matches(sparse, Sparse[r.query])
  /\ r.strategy = "dense" => sparse = <<>>
  /\ r.strategy = "sparse" => dense = <<>>

\* The query of a request has a score of each kind with every passage.
LEMMA QueriesHaveScores ==
  ASSUME NEW r \in Request
  PROVE  /\ Dense[r.query] \in [Contents \X Parts -> Int]
         /\ Sparse[r.query] \in [Contents \X Parts -> Int]
         /\ Rerank[r.query] \in [Contents \X Parts -> Int]
<1>1. r.query \in Queries
  BY DEF Request
<1>2. /\ Dense \in [Queries -> [Contents \X Parts -> Int]]
      /\ Sparse \in [Queries -> [Contents \X Parts -> Int]]
      /\ Rerank \in [Queries -> [Contents \X Parts -> Int]]
  BY RetrievalAssumption
<1> QED
  BY <1>1, <1>2

\* Every candidate has a score, an integer.
LEMMA CandidatesAreScored ==
  ASSUME NEW r \in Request, NEW dense, NEW sparse, Found(r, dense, sparse),
         NEW c \in Elements(dense) \cup Elements(sparse)
  PROVE  Scores(r, dense, sparse)[c] \in Int
<1> DEFINE D == Dense[r.query]
           S == Sparse[r.query]
<1>1. c \in Chunks
  BY DEF Found, Matches, Elements
<1>2. D[Passage(c)] \in Int /\ S[Passage(c)] \in Int
  BY <1>1, ChunksHaveFields, QueriesHaveScores
<1>3. CASE r.strategy = "dense"
  <2>1. c \in Elements(dense)
    BY <1>3 DEF Found, Elements
  <2> QED
    BY <1>2, <1>3, <2>1 DEF Scores
<1>4. CASE r.strategy = "sparse"
  <2>1. c \in Elements(sparse)
    BY <1>4 DEF Found, Elements
  <2> QED
    BY <1>2, <1>4, <2>1 DEF Scores
<1>5. CASE r.strategy = "hybrid"
  <2> DEFINE bestDense == BestOf(D, dense)
             bestSparse == BestOf(S, sparse)
             denseShare == IF c \in Elements(dense) THEN (1000 * D[Passage(c)]) \div bestDense ELSE 0
             sparseShare == (1000 * S[Passage(c)]) \div bestSparse
             bonus(s) == Reciprocal(c, s)
  <2>1. Scores(r, dense, sparse)[c] =
          IF c \notin Elements(sparse) THEN denseShare
          ELSE (DenseWeight * denseShare + SparseWeight * sparseShare) \div 100
               + bonus(dense) + bonus(sparse)
    BY <1>5 DEF Scores, FusedScore
  <2>2. denseShare \in Int
    <3>1. CASE c \in Elements(dense)
      <4>1. dense # <<>>
        BY <3>1 DEF Elements
      <4>2. bestDense \in Int /\ bestDense > 0
        BY <4>1, BestIsFirst, QueriesHaveScores DEF Found
      <4>3. 1000 * D[Passage(c)] \in Int
        BY <1>2
      <4> HIDE DEF bestDense, D
      <4> QED
        BY <3>1, <4>2, <4>3, QuotientsAreIntegers
    <3> QED
      BY <3>1
  <2>3. ASSUME c \in Elements(sparse) PROVE sparseShare \in Int
    <3>1. sparse # <<>>
      BY <2>3 DEF Elements
    <3>2. bestSparse \in Int /\ bestSparse > 0
      BY <3>1, BestIsFirst, QueriesHaveScores DEF Found
    <3>3. 1000 * S[Passage(c)] \in Int
      BY <1>2
    <3> HIDE DEF bestSparse, S
    <3> QED
      BY <3>2, <3>3, QuotientsAreIntegers
  <2>4. ASSUME NEW s \in Seq(Chunks) PROVE bonus(s) \in Int
    <3>1. CASE c \in Elements(s)
      <4> DEFINE place == CHOOSE i \in DOMAIN s : s[i] = c
      <4>1. place \in DOMAIN s
        BY <3>1 DEF Elements
      <4>2. 60 + place \in Int /\ 60 + place > 0
        BY <4>1
      <4> HIDE DEF place
      <4>3. 1000 \div (60 + place) \in Int
        BY <4>2, QuotientsAreIntegers
      <4> QED
        BY <3>1, <4>3 DEF Reciprocal, place
    <3>2. CASE c \notin Elements(s)
      BY <3>2 DEF Reciprocal
    <3> QED
      BY <3>1, <3>2
  <2>5. bonus(dense) \in Int /\ bonus(sparse) \in Int
    BY <2>4 DEF Found, Matches
  <2> HIDE DEF denseShare, sparseShare, bonus
  <2>6. ASSUME c \in Elements(sparse)
        PROVE  (DenseWeight * denseShare + SparseWeight * sparseShare) \div 100 \in Int
    <3>1. DenseWeight * denseShare + SparseWeight * sparseShare \in Int
      BY <2>2, <2>3, <2>6, RetrievalAssumption
    <3> QED
      BY <3>1, QuotientsAreIntegers
  <2> QED
    BY <2>1, <2>2, <2>5, <2>6
<1> QED
  BY <1>3, <1>4, <1>5 DEF Request

\* Before it is sorted, fusion lists what either backend has found, once.
LEMMA PoolHas ==
  ASSUME NEW dense \in Seq(Chunks), NEW sparse \in Seq(Chunks), Distinct(dense), Distinct(sparse)
  PROVE  /\ Pool(dense, sparse) \in Seq(Chunks) /\ Distinct(Pool(dense, sparse))
         /\ Elements(Pool(dense, sparse)) = Elements(dense) \cup Elements(sparse)
<1> DEFINE keep == {i \in DOMAIN sparse : sparse[i] \notin Elements(dense)}
           rest == Subsequence(sparse, keep)
<1>1. Pool(dense, sparse) = dense \o rest
  BY DEF Pool
<1>2. keep \in SUBSET (DOMAIN sparse)
  OBVIOUS
<1>3. /\ rest \in Seq(Chunks) /\ Distinct(rest)
      /\ Elements(rest) = {sparse[i] : i \in keep}
  <2> HIDE DEF keep
  <2> QED
    BY <1>2, SubsequenceHas
<1>4. Elements(rest) = Elements(sparse) \ Elements(dense)
  BY <1>3 DEF Elements
<1> HIDE DEF rest
<1> QED
  BY <1>1, <1>3, <1>4, ConcatenationHas

-----------------------------------------------------------------------------
(* Ranking *)

\* The ranker changes the order of its window only.
LEMMA RerankedHas ==
  ASSUME NEW query, Rerank[query] \in [Contents \X Parts -> Int],
         NEW s \in Seq(Chunks), NEW score, Scored(s, score)
  PROVE  /\ Reranked(query, s, score) \in Seq(Chunks)
         /\ Elements(Reranked(query, s, score)) = Elements(s)
         /\ Distinct(s) => Distinct(Reranked(query, s, score))
<1> DEFINE window == Larger(TopK, Window)
           n == IF Len(s) < window THEN Len(s) ELSE window
           blended == [c \in Elements(s) |->
                         (BaseShare * score[c] + (100 - BaseShare) * 100 * Rerank[query][Passage(c)])
                           \div 100]
           head == SubSeq(s, 1, n)
           tail == SubSeq(s, n + 1, Len(s))
           sorted == StableDescending(head, blended)
<1>1. n \in 0..Len(s)
  BY RetrievalAssumption DEF Larger
<1>2. Reranked(query, s, score) = sorted \o tail
  BY DEF Reranked
<1>3. \A c \in Elements(s) : blended[c] \in Int
  <2> SUFFICES ASSUME NEW c \in Elements(s) PROVE blended[c] \in Int
    OBVIOUS
  <2>1. c \in Chunks /\ score[c] \in Int
    BY DEF Elements, Scored
  <2>2. Rerank[query][Passage(c)] \in Int
    BY <2>1, ChunksHaveFields
  <2>3. BaseShare * score[c] + (100 - BaseShare) * 100 * Rerank[query][Passage(c)] \in Int
    BY <2>1, <2>2, RetrievalAssumption
  <2> QED
    BY <2>3, QuotientsAreIntegers
<1> HIDE DEF n, blended
<1>4. /\ head \in Seq(Chunks) /\ tail \in Seq(Chunks)
      /\ Elements(s) = Elements(head) \cup Elements(tail)
      /\ Distinct(s) => /\ Distinct(head) /\ Distinct(tail)
                        /\ Elements(head) \cap Elements(tail) = {}
  BY <1>1, PartsHave
<1> HIDE DEF head, tail
<1>5. Scored(head, blended)
  BY <1>3, <1>4 DEF Scored, Elements
<1>6. /\ sorted \in Seq(Chunks) /\ Elements(sorted) = Elements(head)
      /\ Distinct(head) => Distinct(sorted)
  BY <1>4, <1>5, SortedHas
<1> HIDE DEF sorted
<1> QED
  BY <1>2, <1>4, <1>6, ConcatenationHas

\* The list before _diversify_results.
Candidate(r, dense, sparse) ==
  LET score == Scores(r, dense, sparse)
      fused == IF r.strategy = "hybrid" THEN StableDescending(Pool(dense, sparse), score)
               ELSE Pool(dense, sparse)
  IN  IF r.rerank THEN Reranked(r.query, fused, score) ELSE fused

\* Before diversification the list is what was found, each chunk once.
LEMMA CandidatesAreFound ==
  ASSUME NEW r \in Request, NEW dense, NEW sparse, Found(r, dense, sparse)
  PROVE  /\ Candidate(r, dense, sparse) \in Seq(Chunks)
         /\ Distinct(Candidate(r, dense, sparse))
         /\ Elements(Candidate(r, dense, sparse)) = Elements(dense) \cup Elements(sparse)
<1> DEFINE score == Scores(r, dense, sparse)
           pool == Pool(dense, sparse)
           fused == IF r.strategy = "hybrid" THEN StableDescending(pool, score) ELSE pool
<1>1. /\ pool \in Seq(Chunks) /\ Distinct(pool)
      /\ Elements(pool) = Elements(dense) \cup Elements(sparse)
  BY PoolHas DEF Found, Matches
<1>2. \A c \in Elements(pool) : score[c] \in Int
  BY <1>1, CandidatesAreScored
<1>3. Candidate(r, dense, sparse) = IF r.rerank THEN Reranked(r.query, fused, score) ELSE fused
  BY DEF Candidate
<1> HIDE DEF pool, score
<1>4. Scored(pool, score)
  BY <1>2 DEF Scored, Elements
<1>5. fused \in Seq(Chunks) /\ Distinct(fused) /\ Elements(fused) = Elements(pool)
  BY <1>1, <1>4, SortedHas
<1> HIDE DEF fused
<1>6. Scored(fused, score)
  BY <1>2, <1>5 DEF Scored, Elements
<1>7. Rerank[r.query] \in [Contents \X Parts -> Int]
  BY QueriesHaveScores
<1>8. /\ Reranked(r.query, fused, score) \in Seq(Chunks)
      /\ Distinct(Reranked(r.query, fused, score))
      /\ Elements(Reranked(r.query, fused, score)) = Elements(fused)
  BY <1>5, <1>6, <1>7, RerankedHas
<1> QED
  BY <1>1, <1>3, <1>5, <1>8

\* A ranking is the first top_k of what diversification leaves.
LEMMA RankedIsPrefix ==
  ASSUME NEW r \in Request, NEW dense, NEW sparse, Found(r, dense, sparse)
  PROVE  LET all == Diversify(Candidate(r, dense, sparse))
             n == IF Len(all) < TopK THEN Len(all) ELSE TopK
         IN  /\ all \in Seq(Chunks) /\ Distinct(all)
             /\ Elements(all) \subseteq Elements(dense) \cup Elements(sparse)
             /\ Ranked(r, dense, sparse) = SubSeq(all, 1, n) /\ n \in 0..Len(all) /\ n <= TopK
<1> DEFINE all == Diversify(Candidate(r, dense, sparse))
           n == IF Len(all) < TopK THEN Len(all) ELSE TopK
<1>1. Ranked(r, dense, sparse) = SubSeq(all, 1, n)
  BY DEF Ranked, Candidate
<1>2. /\ all \in Seq(Chunks) /\ Distinct(all)
      /\ Elements(all) \subseteq Elements(dense) \cup Elements(sparse)
  <2> HIDE DEF all
  <2> QED
    BY CandidatesAreFound, DiversifyHas DEF all
<1> HIDE DEF all
<1>3. n \in 0..Len(all) /\ n <= TopK
  BY <1>2, RetrievalAssumption
<1> QED
  BY <1>1, <1>2, <1>3 DEF all

\* A search gives candidates, each once and top_k at most; two of a document at most,
\* and fewer than it was asked for only if no document has another to give.
LEMMA RankedHas ==
  ASSUME NEW r \in Request, NEW dense, NEW sparse, Found(r, dense, sparse)
  PROVE  LET ranked == Ranked(r, dense, sparse)
             pool == Elements(dense) \cup Elements(sparse)
             of(d) == OfDocument(d, Elements(ranked))
         IN  /\ ranked \in Seq(Chunks) /\ Distinct(ranked) /\ Len(ranked) <= TopK
             /\ Elements(ranked) \subseteq pool
             /\ \A d : /\ Cardinality(of(d)) <= 2
                       /\ Len(ranked) < TopK =>
                            Cardinality(of(d)) = 2 \/ of(d) = OfDocument(d, pool)
<1> DEFINE cand == Candidate(r, dense, sparse)
           all == Diversify(cand)
           n == IF Len(all) < TopK THEN Len(all) ELSE TopK
           ranked == Ranked(r, dense, sparse)
           pool == Elements(dense) \cup Elements(sparse)
<1>1. /\ all \in Seq(Chunks) /\ Distinct(all) /\ Elements(all) \subseteq pool
      /\ ranked = SubSeq(all, 1, n) /\ n \in 0..Len(all) /\ n <= TopK
  BY RankedIsPrefix
<1>2. cand \in Seq(Chunks) /\ Distinct(cand) /\ Elements(cand) = pool
  BY CandidatesAreFound
<1>3. ASSUME NEW d
      PROVE  LET kept == OfDocument(d, Elements(all))
             IN  /\ IsFiniteSet(kept) /\ Cardinality(kept) \in 0..2
                 /\ Cardinality(kept) = 2 \/ kept = OfDocument(d, pool)
  BY <1>2, DiversifyKeepsTwo
<1> HIDE DEF all, ranked
<1>4. /\ ranked \in Seq(Chunks) /\ Distinct(ranked) /\ Len(ranked) = n
      /\ Elements(ranked) \subseteq Elements(all)
  <2> HIDE DEF n
  <2> QED
    BY <1>1, PartsHave
<1>5. Len(ranked) < TopK => ranked = all
  <2>1. Len(ranked) < TopK => n = Len(all)
    BY <1>1, <1>4, RetrievalAssumption
  <2>2. SubSeq(all, 1, Len(all)) = all
    BY <1>1, SubSeqFull
  <2> QED
    BY <1>1, <2>1, <2>2
<1>6. ASSUME NEW d PROVE Cardinality(OfDocument(d, Elements(ranked))) <= 2
  <2> DEFINE kept == OfDocument(d, Elements(all))
             shown == OfDocument(d, Elements(ranked))
  <2>1. IsFiniteSet(kept) /\ Cardinality(kept) \in 0..2
    BY <1>3
  <2>2. shown \subseteq kept
    BY <1>4 DEF OfDocument
  <2>3. Cardinality(shown) \in Nat /\ Cardinality(shown) <= Cardinality(kept)
    <3> HIDE DEF kept, shown
    <3> QED
      BY <2>1, <2>2, FS_Subset, FS_CardinalityType
  <2> QED
    BY <2>1, <2>3
<1>7. ASSUME NEW d, Len(ranked) < TopK
      PROVE  LET of == OfDocument(d, Elements(ranked))
             IN  Cardinality(of) = 2 \/ of = OfDocument(d, pool)
  BY <1>3, <1>5, <1>7
<1> QED
  BY <1>1, <1>4, <1>6, <1>7 DEF ranked

-----------------------------------------------------------------------------
(* Searches *)

\* The chunks that are there.
Present == {id \in ChunkIds : chunk[id] # "absent"}

\* The request of a search that has not begun.
NoRequest == [query |-> "none"]

\* Where a search can be while it runs.
Running == {"dense", "sparse", "answer"}

\* The backends of the dense search (_dense_backend_sequence).
Backend == {"pgvector", "local"}

\* What a search holds.
SearchTypeOK ==
  search \in [pc : {"idle", "done"} \cup Running, request : Request \cup {NoRequest},
              backends : Seq(Backend), dense : Seq(Chunks), sparse : Seq(Chunks),
              results : Seq([id : Chunks, siblings : SUBSET Chunks]), seen : SUBSET ChunkIds]

\* What the filters ask of a chunk; siblings need only be of the documents.
OfDocs(filter, c) == filter.docs = {} \/ c[1] \in filter.docs
OfLevels(filter, c) == filter.levels = {} \/ Level[c[4]] \in filter.levels

\* What a search has read so far was current while it ran and passed the filters.
ReadWasCurrent ==
  \A c \in Elements(search.dense) \cup Elements(search.sparse) :
    /\ Generation(c) \in search.seen
    /\ OfDocs(search.request.filter, c) /\ OfLevels(search.request.filter, c)

\* A search that runs misses no generation that becomes current.
SeenIsComplete == search.pc \in Running => Current \subseteq search.seen

\* An answer is the ranking of what was read, with siblings read after it.
AnswerIsRanked ==
  LET ranked == Ranked(search.request, search.dense, search.sparse)
  IN  /\ DOMAIN search.results = DOMAIN ranked
      /\ \A i \in DOMAIN ranked :
           /\ search.results[i].id = ranked[i]
           /\ \A c \in search.results[i].siblings :
                Generation(c) \in search.seen /\ OfDocs(search.request.filter, c)

\* The inductive invariant: where a search is determines what it has read and answered.
SearchInv ==
  /\ SearchTypeOK
  /\ search.pc = "idle" => search = NoSearch
  /\ search.pc # "idle" =>
       /\ search.request \in Request
       /\ Found(search.request, search.dense, search.sparse)
       /\ ReadWasCurrent
  /\ search.pc = "dense" => search.request.strategy # "sparse"
  /\ search.pc = "sparse" => search.request.strategy # "dense"
  /\ search.pc # "done" => search.results = <<>>
  /\ search.pc = "done" => AnswerIsRanked
  /\ SeenIsComplete

\* The index is finite at any time: a run adds one generation.
LEMMA PresentStaysFinite ==
  ASSUME IsFiniteSet(Present), [Next]_vars
  PROVE  IsFiniteSet(Present')
<1>1. ASSUME NEW r \in Runs, SaveDocument(r) PROVE IsFiniteSet(Present')
  <2>1. ASSUME NEW id \in Present' PROVE id \in Present \cup {Chunk(r)}
    BY <1>1, <2>1 DEF SaveDocument, ChunksReplaced, Present
  <2>2. IsFiniteSet(Present \cup {Chunk(r)})
    BY FS_AddElement
  <2> QED
    BY <2>1, <2>2, FS_Subset
<1>2. ASSUME UNCHANGED chunk PROVE IsFiniteSet(Present')
  BY <1>2 DEF Present
<1> QED
  BY <1>1, <1>2 DEF Next, Process, ReadSource, Skip, Prepare, LoadDocument, RejectDocument,
     LoadVersion, SaveProvenance, RejectProvenance, UpsertChunks, Interrupt, EditSource, vars

\* What the filters let pass is current, and finite.
LEMMA VisibleHas ==
  ASSUME IsFiniteSet(Present), NEW filter
  PROVE  /\ Visible(filter) \in SUBSET Chunks /\ IsFiniteSet(Visible(filter))
         /\ \A c \in Visible(filter) :
              Generation(c) \in Current /\ OfDocs(filter, c) /\ OfLevels(filter, c)
<1>1. \A c \in Visible(filter) : c \in Chunks /\ Generation(c) \in Current
  BY ChunksHaveFields DEF Visible, Current
<1>2. IsFiniteSet(Present \X Parts)
  BY FS_Product, RetrievalAssumption
<1> DEFINE f == [e \in Present \X Parts |-> <<e[1][1], e[1][2], e[1][3], e[2]>>]
           all == {f[e] : e \in Present \X Parts}
<1>3. f \in Surjection(Present \X Parts, all)
  BY DEF Surjection
<1>4. IsFiniteSet(all)
  <2> HIDE DEF f, all
  <2> QED
    BY <1>2, <1>3, FS_Surjection
<1>5. Visible(filter) \subseteq all
  <2> SUFFICES ASSUME NEW c \in Visible(filter) PROVE c \in all
    OBVIOUS
  <2>1. PICK id \in ChunkIds, part \in Parts : c = <<id[1], id[2], id[3], part>>
    BY DEF Visible, Chunks
  <2>2. id = <<id[1], id[2], id[3]>>
    BY DEF ChunkIds
  <2>3. Generation(c) = id
    BY <2>1, <2>2 DEF Generation
  <2>4. id \in Present
    BY <1>1, <2>3 DEF Current, Present
  <2>5. f[<<id, part>>] = c
    BY <2>1, <2>4
  <2> QED
    BY <2>4, <2>5
<1>6. IsFiniteSet(Visible(filter))
  <2> HIDE DEF f, all
  <2> QED
    BY <1>4, <1>5, FS_Subset
<1> QED
  BY <1>1, <1>6 DEF Visible, OfDocs, OfLevels

\* A list of the best matches is of the matches, each once, the best first.
LEMMA BestHas ==
  ASSUME NEW found \in SUBSET Chunks, IsFiniteSet(found),
         NEW score \in [Contents \X Parts -> Int], \A c \in found : score[Passage(c)] > 0,
         NEW k \in Nat, NEW s \in Best(found, ScoreOf(found, score), k)
  PROVE  Matches(s, score) /\ Elements(s) \subseteq found
<1> DEFINE n == IF Cardinality(found) < k THEN Cardinality(found) ELSE k
<1>1. PICK top \in SUBSET found :
        /\ s \in [1..n -> top]
        /\ \A i, j \in 1..n : i < j =>
             s[i] # s[j] /\ ScoreOf(found, score)[s[i]] >= ScoreOf(found, score)[s[j]]
  BY DEF Best
<1>2. n \in Nat
  BY FS_CardinalityType
<1> HIDE DEF n
<1>3. s \in Seq(found) /\ DOMAIN s = 1..n /\ \A i \in 1..n : s[i] \in found
  BY <1>1, <1>2
<1>4. \A i \in 1..n : ScoreOf(found, score)[s[i]] = score[Passage(s[i])]
  BY <1>3 DEF ScoreOf
<1>5. Distinct(s)
  <2> SUFFICES ASSUME NEW i \in 1..n, NEW j \in 1..n, i # j PROVE s[i] # s[j]
    BY <1>3 DEF Distinct
  <2>1. i < j \/ j < i
    BY <1>2
  <2> QED
    BY <1>1, <2>1
<1> QED
  BY <1>1, <1>3, <1>4, <1>5 DEF Matches, Elements

\* A search begins with nothing read and sees what is current.
LEMMA BeginKeeps ==
  ASSUME NEW r \in Request, Begin(r)
  PROVE  SearchInv'
<1>1. search' = [pc |-> IF r.strategy = "sparse" THEN "sparse" ELSE "dense", request |-> r,
                 backends |-> Backends(r.target), dense |-> <<>>, sparse |-> <<>>,
                 results |-> <<>>, seen |-> Current]
  BY DEF Begin, NoSearch
<1>2. Backends(r.target) \in Seq(Backend)
  <2> DEFINE local == IF AllowFallback THEN <<"local">> ELSE <<>>
  <2>1. <<"local">> \in Seq(Backend) /\ <<"pgvector">> \in Seq(Backend)
    BY DEF Backend
  <2>2. local \in Seq(Backend)
    BY <2>1, EmptySeq, Zenon
  <2> HIDE DEF local
  <2>3. <<"pgvector">> \o local \in Seq(Backend)
    BY <2>1, <2>2
  <2> QED
    BY <2>1, <2>2, <2>3, Zenon DEF Backends, local
<1>3. SearchTypeOK'
  BY <1>1, <1>2 DEF SearchTypeOK, Running, Current
<1>4. \A score : Matches(<<>>, score)
  BY DEF Matches, Distinct
<1>5. Current' = Current
  BY DEF Begin, vars, Current
<1> QED
  BY <1>1, <1>3, <1>4, <1>5 DEF SearchInv, Found, ReadWasCurrent, SeenIsComplete, Elements, Running

\* A backend's list is put into the search; or the next backend is.
LEMMA DenseKeeps ==
  ASSUME SearchInv, IsFiniteSet(Present), SearchDense
  PROVE  SearchInv'
<1> DEFINE r == search.request
           score == Dense[r.query]
<1>1. /\ search.pc = "dense" /\ r \in Request /\ r.strategy # "sparse" /\ SearchTypeOK
      /\ Current' = Current /\ search.results = <<>>
  BY DEF SearchDense, SearchInv, Current, vars
<1>2. AfterDense \in {"answer", "sparse"} /\ (AfterDense = "sparse" => r.strategy # "dense")
  BY DEF AfterDense
<1>3. score \in [Contents \X Parts -> Int] /\ DenseLimit \in Nat
  BY <1>1, QueriesHaveScores, RetrievalAssumption DEF DenseLimit, Larger
<1>4. ASSUME NEW dense, Matches(dense, score), Elements(dense) \subseteq Visible(r.filter),
             search' = [search EXCEPT !.dense = dense, !.pc = AfterDense]
      PROVE  SearchInv'
  <2>1. /\ search'.pc = AfterDense /\ search'.request = r /\ search'.dense = dense
        /\ search'.sparse = search.sparse /\ search'.results = search.results
        /\ search'.seen = search.seen /\ SearchTypeOK'
    BY <1>1, <1>2, <1>4 DEF SearchTypeOK, Running, Matches
  <2>2. \A c \in Elements(dense) :
          Generation(c) \in search.seen /\ OfDocs(r.filter, c) /\ OfLevels(r.filter, c)
    BY <1>1, <1>4, VisibleHas DEF SearchInv, SeenIsComplete, Running
  <2>3. Found(r, dense, search.sparse)
    BY <1>1, <1>4 DEF SearchInv, Found
  <2>4. ReadWasCurrent'
    BY <1>1, <2>1, <2>2 DEF SearchInv, ReadWasCurrent
  <2>5. SeenIsComplete'
    BY <1>1, <2>1 DEF SearchInv, SeenIsComplete, Running
  <2> QED
    BY <1>1, <1>2, <2>1, <2>3, <2>4, <2>5 DEF SearchInv
<1>5. ASSUME NEW found \in SUBSET Visible(r.filter), \A c \in found : score[Passage(c)] > 0,
             NEW dense \in Best(found, ScoreOf(found, score), DenseLimit)
      PROVE  Matches(dense, score) /\ Elements(dense) \subseteq Visible(r.filter)
  <2>1. found \in SUBSET Chunks /\ IsFiniteSet(found)
    BY VisibleHas, FS_Subset
  <2> HIDE DEF score
  <2>2. Matches(dense, score) /\ Elements(dense) \subseteq found
    BY <1>3, <1>5, <2>1, BestHas
  <2> QED
    BY <2>2
<1>6. CASE search.backends = <<>>
  <2>1. search' = [search EXCEPT !.pc = AfterDense]
    BY <1>6 DEF SearchDense
  <2>2. /\ search'.pc = AfterDense /\ search'.request = r /\ search'.dense = search.dense
        /\ search'.sparse = search.sparse /\ search'.results = search.results
        /\ search'.seen = search.seen /\ SearchTypeOK'
    BY <1>1, <1>2, <2>1 DEF SearchTypeOK, Running
  <2> QED
    BY <1>1, <1>2, <2>2 DEF SearchInv, ReadWasCurrent, SeenIsComplete, Running
<1>7. CASE search.backends # <<>> /\ SearchPgVector
  <2> DEFINE found == {c \in Matching(Visible(r.filter), score) : Generation(c) \in embedded}
  <2>1. PICK dense \in Best(found, ScoreOf(found, score), DenseLimit) :
          search' = [search EXCEPT !.dense = dense, !.pc = AfterDense]
    BY <1>7 DEF SearchPgVector
  <2>2. found \in SUBSET Visible(r.filter) /\ \A c \in found : score[Passage(c)] > 0
    BY DEF Matching
  <2> HIDE DEF found, score, r
  <2> QED
    BY <1>4, <1>5, <2>1, <2>2
<1>8. CASE search.backends # <<>> /\ SearchLocal
  <2> DEFINE found == Matching(Visible(r.filter), score)
  <2>1. PICK dense \in Best(found, ScoreOf(found, score), DenseLimit) :
          search' = [search EXCEPT !.dense = dense, !.pc = AfterDense]
    BY <1>8 DEF SearchLocal
  <2>2. found \in SUBSET Visible(r.filter) /\ \A c \in found : score[Passage(c)] > 0
    BY DEF Matching
  <2> HIDE DEF found, score, r
  <2> QED
    BY <1>4, <1>5, <2>1, <2>2
<1>9. CASE search.backends # <<>> /\ search' = [search EXCEPT !.backends = Tail(@)]
  <2>1. Tail(search.backends) \in Seq(Backend)
    BY <1>1, <1>9 DEF SearchTypeOK
  <2>2. /\ search'.pc = search.pc /\ search'.request = r /\ search'.dense = search.dense
        /\ search'.sparse = search.sparse /\ search'.results = search.results
        /\ search'.seen = search.seen /\ SearchTypeOK'
    BY <1>1, <1>9, <2>1 DEF SearchTypeOK
  <2> QED
    BY <1>1, <2>2 DEF SearchInv, ReadWasCurrent, SeenIsComplete, Running
<1> QED
  BY <1>6, <1>7, <1>8, <1>9 DEF SearchDense

\* The full-text list is put into the search.
LEMMA SparseKeeps ==
  ASSUME SearchInv, IsFiniteSet(Present), SearchSparse
  PROVE  SearchInv'
<1> DEFINE r == search.request
           score == Sparse[r.query]
           visible == Visible(r.filter)
           found == Matching(visible, score)
           limit == IF r.strategy = "sparse" THEN TopK ELSE DenseLimit
<1>1. /\ search.pc = "sparse" /\ r \in Request /\ r.strategy # "dense" /\ SearchTypeOK
      /\ Current' = Current /\ search.results = <<>>
  BY DEF SearchSparse, SearchInv, Current, vars
<1>2. PICK sparse \in Best(found, ScoreOf(found, score), limit) :
        search' = [search EXCEPT !.sparse = sparse, !.pc = "answer"]
  BY DEF SearchSparse
<1>3. Matches(sparse, score) /\ Elements(sparse) \subseteq visible
  <2>1. score \in [Contents \X Parts -> Int] /\ limit \in Nat
    BY <1>1, QueriesHaveScores, RetrievalAssumption DEF DenseLimit, Larger
  <2>2. found \in SUBSET Chunks /\ found \subseteq visible /\ IsFiniteSet(found)
    BY VisibleHas, FS_Subset DEF Matching
  <2>3. \A c \in found : score[Passage(c)] > 0
    BY DEF Matching
  <2> HIDE DEF score, visible, found, limit
  <2>4. Matches(sparse, score) /\ Elements(sparse) \subseteq found
    BY <1>2, <2>1, <2>2, <2>3, BestHas
  <2> QED
    BY <2>2, <2>4
<1>4. /\ search'.pc = "answer" /\ search'.request = r /\ search'.dense = search.dense
      /\ search'.sparse = sparse /\ search'.results = search.results
      /\ search'.seen = search.seen /\ SearchTypeOK'
  BY <1>1, <1>2, <1>3 DEF SearchTypeOK, Running, Matches
<1>5. \A c \in Elements(sparse) :
        Generation(c) \in search.seen /\ OfDocs(r.filter, c) /\ OfLevels(r.filter, c)
  BY <1>1, <1>3, VisibleHas DEF SearchInv, SeenIsComplete, Running
<1>6. Found(r, search.dense, sparse)
  BY <1>1, <1>3 DEF SearchInv, Found
<1>7. ReadWasCurrent'
  BY <1>1, <1>4, <1>5 DEF SearchInv, ReadWasCurrent
<1> QED
  BY <1>1, <1>4, <1>6, <1>7 DEF SearchInv, SeenIsComplete, Running

\* The answer ranks what was read and adds siblings that are current now.
LEMMA AnswerKeeps ==
  ASSUME SearchInv, IsFiniteSet(Present), Answer
  PROVE  SearchInv'
<1> DEFINE r == search.request
           unleveled == [r.filter EXCEPT !.levels = {}]
           visible == Visible(unleveled)
           ranked == Ranked(r, search.dense, search.sparse)
           siblings(read, i) == IF Section[ranked[i][4]] = NoSection THEN {}
                                ELSE Siblings(ranked[i], read)
           results(read) == Expanded(ranked, read)
<1>1. /\ search.pc = "answer" /\ r \in Request /\ SearchTypeOK /\ Current' = Current
      /\ Found(r, search.dense, search.sparse) /\ ReadWasCurrent /\ Current \subseteq search.seen
  BY DEF Answer, SearchInv, SeenIsComplete, Running, Current, vars
<1>2. PICK read \in SUBSET visible :
        search' = [search EXCEPT !.pc = "done", !.results = results(read)]
  BY DEF Answer
<1>3. ranked \in Seq(Chunks)
  BY <1>1, RankedHas
<1>4. \A c \in read : c \in Chunks /\ Generation(c) \in Current /\ OfDocs(r.filter, c)
  <2>1. unleveled.docs = r.filter.docs
    BY <1>1, RetrievalAssumption DEF Request
  <2>2. \A c \in visible : c \in Chunks /\ Generation(c) \in Current /\ OfDocs(unleveled, c)
    BY VisibleHas
  <2> HIDE DEF visible, unleveled
  <2> QED
    BY <2>1, <2>2 DEF OfDocs
<1> HIDE DEF ranked, visible
<1>5. \A i \in DOMAIN ranked : siblings(read, i) \subseteq read
  BY DEF Siblings
<1>6. results(read) = [i \in DOMAIN ranked |->
                         [id |-> ranked[i], siblings |-> siblings(read, i)]]
  BY DEF Expanded
<1> HIDE DEF siblings
<1>7. \A i \in DOMAIN ranked :
        [id |-> ranked[i], siblings |-> siblings(read, i)] \in [id : Chunks, siblings : SUBSET Chunks]
  BY <1>3, <1>4, <1>5
<1>8. results(read) \in Seq([id : Chunks, siblings : SUBSET Chunks])
  <2>1. DOMAIN ranked = 1..Len(ranked) /\ Len(ranked) \in Nat
    BY <1>3
  <2> QED
    BY <1>7, <1>6, <2>1
<1> HIDE DEF results
<1>9. /\ DOMAIN results(read) = DOMAIN ranked
      /\ \A i \in DOMAIN ranked :
           results(read)[i].id = ranked[i] /\ results(read)[i].siblings = siblings(read, i)
  BY <1>6
<1>10. /\ search'.pc = "done" /\ search'.request = r /\ search'.dense = search.dense
      /\ search'.sparse = search.sparse /\ search'.results = results(read)
      /\ search'.seen = search.seen /\ SearchTypeOK'
  BY <1>1, <1>2, <1>8 DEF SearchTypeOK
<1>11. AnswerIsRanked'
  <2>1. Ranked(search'.request, search'.dense, search'.sparse) = ranked
    BY <1>10 DEF ranked
  <2>2. \A i \in DOMAIN ranked : \A c \in siblings(read, i) :
          Generation(c) \in search.seen /\ OfDocs(r.filter, c)
    BY <1>1, <1>4, <1>5
  <2> QED
    BY <1>10, <1>9, <2>1, <2>2 DEF AnswerIsRanked
<1>12. ReadWasCurrent'
  BY <1>1, <1>10 DEF ReadWasCurrent
<1> QED
  BY <1>1, <1>10, <1>11, <1>12 DEF SearchInv, SeenIsComplete, Running

\* The index moves on: a search that runs sees more, an answer is forgotten.
LEMMA IndexStepKeeps ==
  ASSUME SearchInv, IndexStep
  PROVE  SearchInv'
<1>1. CASE search.pc \in {"idle", "done"}
  <2>1. search' = NoSearch
    BY <1>1 DEF IndexStep
  <2> QED
    BY <2>1 DEF SearchInv, SearchTypeOK, NoSearch, NoRequest, SeenIsComplete, Running
<1>2. CASE search.pc \notin {"idle", "done"}
  <2>1. search' = [search EXCEPT !.seen = search.seen \cup Current']
    BY <1>2 DEF IndexStep
  <2>2. Current' \subseteq ChunkIds
    BY DEF Current
  <2>3. /\ search'.pc = search.pc /\ search'.request = search.request
        /\ search'.dense = search.dense /\ search'.sparse = search.sparse
        /\ search'.results = search.results /\ search'.seen = search.seen \cup Current'
        /\ SearchTypeOK'
    BY <2>1, <2>2 DEF SearchInv, SearchTypeOK
  <2>4. Found(search.request, search.dense, search.sparse) /\ ReadWasCurrent
    BY <1>2 DEF SearchInv
  <2>5. ReadWasCurrent'
    BY <2>3, <2>4 DEF ReadWasCurrent
  <2> QED
    BY <1>2, <2>3, <2>4, <2>5 DEF SearchInv, SeenIsComplete
<1> QED
  BY <1>1, <1>2

\* A search only reads: the index takes the steps of DocumentIndex or none.
THEOREM SearchesOnlyRead == SearchSpec => Spec
<1>1. SearchInit => Init
  BY DEF SearchInit
<1>2. [SearchNext]_searchVars => [Next]_vars
  BY DEF SearchNext, searchVars, Begin, SearchDense, SearchSparse, Answer, RaiseSearch, IndexStep
<1> QED
  BY <1>1, <1>2, PTL DEF SearchSpec, Spec

\* What holds of a search in every reachable state.
THEOREM SearchInvariant == SearchSpec => []SearchInv
<1>1. SearchInit => SearchInv /\ IsFiniteSet(Present)
  <2> SUFFICES ASSUME SearchInit PROVE SearchInv /\ IsFiniteSet(Present)
    OBVIOUS
  <2>1. Present = {}
    BY DEF SearchInit, Init, Present, ChunkIds
  <2>2. search = NoSearch
    BY DEF SearchInit
  <2> QED
    BY <2>1, <2>2, FS_EmptySet
    DEF SearchInv, SearchTypeOK, NoSearch, NoRequest, SeenIsComplete, Running
<1>2. SearchInv /\ IsFiniteSet(Present) /\ [SearchNext]_searchVars
        => SearchInv' /\ IsFiniteSet(Present)'
  <2> SUFFICES ASSUME SearchInv, IsFiniteSet(Present), [SearchNext]_searchVars
               PROVE  SearchInv' /\ IsFiniteSet(Present)'
    OBVIOUS
  <2>1. IsFiniteSet(Present)'
    <3>1. [Next]_vars
      BY DEF SearchNext, searchVars, Begin, SearchDense, SearchSparse, Answer, RaiseSearch, IndexStep
    <3> QED
      BY <3>1, PresentStaysFinite
  <2>2. ASSUME RaiseSearch PROVE SearchInv'
    BY <2>2 DEF RaiseSearch, SearchInv, SearchTypeOK, NoSearch, NoRequest, SeenIsComplete, Running
  <2>3. ASSUME UNCHANGED searchVars PROVE SearchInv'
    <3>1. search' = search /\ Current' = Current
      BY <2>3 DEF searchVars, vars, Current
    <3> QED
      BY <3>1 DEF SearchInv, SearchTypeOK, ReadWasCurrent, AnswerIsRanked, SeenIsComplete
  <2>4. ASSUME NEW r \in Request, Begin(r) PROVE SearchInv'
    BY <2>4, BeginKeeps
  <2>5. ASSUME SearchDense \/ SearchSparse \/ Answer \/ IndexStep PROVE SearchInv'
    BY <2>5, DenseKeeps, SparseKeeps, AnswerKeeps, IndexStepKeeps
  <2>6. SearchInv'
    BY <2>2, <2>3, <2>4, <2>5 DEF SearchNext
  <2> QED
    BY <2>1, <2>6
<1> QED
  BY <1>1, <1>2, PTL DEF SearchSpec

\* Whatever backend answered and whatever runs committed between the reads of a search
\* (search, _expand_parent_context), results and the siblings in their texts were current
\* while it ran and passed the filters.
THEOREM ResultsAreCurrent == SearchSpec => []ResultsCurrent
<1>1. SearchInv => ResultsCurrent
  <2> SUFFICES ASSUME SearchInv, NEW i \in DOMAIN search.results
               PROVE  LET result == search.results[i]
                          filter == search.request.filter
                      IN  /\ \A c \in Texts(result) : /\ Generation(c) \in search.seen
                                                      /\ filter.docs = {} \/ c[1] \in filter.docs
                          /\ filter.levels = {} \/ Level[result.id[4]] \in filter.levels
    BY DEF ResultsCurrent
  <2> DEFINE ranked == Ranked(search.request, search.dense, search.sparse)
  <2>1. search.pc = "done"
    BY DEF SearchInv
  <2>2. AnswerIsRanked /\ ReadWasCurrent
    BY <2>1 DEF SearchInv
  <2>3. ranked \in Seq(Chunks) /\ Elements(ranked) \subseteq Elements(search.dense) \cup Elements(search.sparse)
    BY <2>1, RankedHas DEF SearchInv
  <2>4. i \in DOMAIN ranked /\ search.results[i].id = ranked[i]
    BY <2>2 DEF AnswerIsRanked
  <2>5. search.results[i].id \in Elements(search.dense) \cup Elements(search.sparse)
    BY <2>3, <2>4 DEF Elements
  <2> QED
    BY <2>2, <2>4, <2>5 DEF AnswerIsRanked, ReadWasCurrent, OfDocs, OfLevels, Texts
<1> QED
  BY <1>1, SearchInvariant, PTL

\* Results are at most top_k, no chunk twice, two of a document at most; and fewer than
\* asked for only when every document that was found has two results or all it had
\* (_diversify_results after fusion and reranking).
THEOREM ResultsAreDiverse == SearchSpec => []Diversified
<1>1. SearchInv => Diversified
  <2> SUFFICES ASSUME SearchInv, search.pc = "done" PROVE Diversified
    BY DEF Diversified
  <2> DEFINE ranked == Ranked(search.request, search.dense, search.sparse)
             pool == Elements(search.dense) \cup Elements(search.sparse)
             ids == {search.results[i].id : i \in DOMAIN search.results}
  <2>1. AnswerIsRanked /\ SearchTypeOK
    BY DEF SearchInv
  <2>2. /\ ranked \in Seq(Chunks) /\ Distinct(ranked) /\ Len(ranked) <= TopK
        /\ \A d : /\ Cardinality(OfDocument(d, Elements(ranked))) <= 2
                  /\ Len(ranked) < TopK =>
                       \/ Cardinality(OfDocument(d, Elements(ranked))) = 2
                       \/ OfDocument(d, Elements(ranked)) = OfDocument(d, pool)
    BY RankedHas DEF SearchInv
  <2> HIDE DEF ranked
  <2>3. ids = Elements(ranked)
    BY <2>1 DEF AnswerIsRanked, Elements, ranked
  <2>4. Len(search.results) = Len(ranked)
    <3>1. DOMAIN search.results = DOMAIN ranked
      BY <2>1 DEF AnswerIsRanked, ranked
    <3>2. DOMAIN search.results = 1..Len(search.results) /\ Len(search.results) \in Nat
      BY <2>1 DEF SearchTypeOK
    <3>3. DOMAIN ranked = 1..Len(ranked) /\ Len(ranked) \in Nat
      BY <2>2
    <3>4. \A n \in Nat : Cardinality(1..n) = n
      BY FS_Interval
    <3>5. 1..Len(search.results) = 1..Len(ranked)
      BY <3>1, <3>2, <3>3
    <3> QED
      BY <3>2, <3>3, <3>4, <3>5
  <2>5. Cardinality(ids) = Len(ranked)
    <3>1. Len(ranked) \in Nat /\ DOMAIN ranked = 1..Len(ranked)
      BY <2>2
    <3>2. ranked \in [1..Len(ranked) -> Elements(ranked)]
      BY <2>2, <3>1 DEF Elements
    <3>3. ranked \in Bijection(1..Len(ranked), Elements(ranked))
      BY <2>2, <3>1, <3>2 DEF Bijection, Injection, Surjection, IsInjective, Distinct, Elements
    <3>4. ExistsBijection(1..Len(ranked), Elements(ranked))
      BY <3>3 DEF ExistsBijection
    <3> QED
      BY <2>3, <3>1, <3>4, FS_CountingElements
  <2> QED
    BY <2>2, <2>3, <2>4, <2>5 DEF Diversified, OfDocument
<1> QED
  BY <1>1, SearchInvariant, PTL

-----------------------------------------------------------------------------
(* Reads while runs commit *)

\* Chunks of a document that are of one version.
Agree(read) == \A c, d \in read : c[1] = d[1] => Generation(c) = Generation(d)

\* What can be seen at a moment is of one version of each document.
LEMMA VisibleAgree ==
  ASSUME OneGeneration, NEW filter, NEW read \in SUBSET Visible(filter)
  PROVE  Agree(read)
<1> SUFFICES ASSUME NEW c \in read, NEW d \in read, c[1] = d[1]
             PROVE  Generation(c) = Generation(d)
  BY DEF Agree
<1>1. /\ c[1] \in Docs /\ Generation(c) \in Generations(c[1])
      /\ Generation(d) \in Generations(c[1])
  BY ChunksHaveFields DEF Visible, Generations, Generation
<1> QED
  BY <1>1 DEF OneGeneration

\* The best of what was found were found.
LEMMA BestAreFound ==
  ASSUME NEW found, NEW score, NEW k, NEW s \in Best(found, score, k)
  PROVE  Elements(s) \subseteq found
  BY DEF Best, Elements

\* A backend's list is read at one moment.
LEMMA DenseAgrees ==
  ASSUME SearchTypeOK, OneGeneration, SearchDense
  PROVE  /\ search'.sparse = search.sparse /\ search'.results = search.results
         /\ search'.dense = search.dense \/ Agree(Elements(search'.dense))
<1> DEFINE r == search.request
           score == Dense[r.query]
           visible == Visible(r.filter)
           read(list) == search' = [search EXCEPT !.dense = list, !.pc = AfterDense]
<1>1. ASSUME NEW found \in SUBSET visible, NEW list \in Best(found, ScoreOf(found, score), DenseLimit),
             read(list)
      PROVE  /\ search'.sparse = search.sparse /\ search'.results = search.results
             /\ Agree(Elements(search'.dense))
  <2>1. /\ search'.dense = list /\ search'.sparse = search.sparse
        /\ search'.results = search.results
    BY <1>1 DEF SearchTypeOK
  <2> HIDE DEF score, visible
  <2>2. Elements(list) \in SUBSET visible
    BY BestAreFound
  <2> QED
    BY <2>1, <2>2, VisibleAgree DEF visible
<1>2. CASE SearchPgVector
  <2> DEFINE found == {c \in Matching(visible, score) : Generation(c) \in embedded}
  <2>1. found \in SUBSET visible
    BY DEF Matching
  <2>2. \E list \in Best(found, ScoreOf(found, score), DenseLimit) : read(list)
    BY <1>2 DEF SearchPgVector
  <2> HIDE DEF found, visible, score, read
  <2> QED
    BY <1>1, <2>1, <2>2
<1>3. CASE SearchLocal
  <2> DEFINE found == Matching(visible, score)
  <2>1. found \in SUBSET visible
    BY DEF Matching
  <2>2. \E list \in Best(found, ScoreOf(found, score), DenseLimit) : read(list)
    BY <1>3 DEF SearchLocal
  <2> HIDE DEF found, visible, score, read
  <2> QED
    BY <1>1, <2>1, <2>2
<1>4. CASE \/ search' = [search EXCEPT !.pc = AfterDense]
           \/ search' = [search EXCEPT !.backends = Tail(@)]
  BY <1>4 DEF SearchTypeOK
<1> QED
  BY <1>2, <1>3, <1>4 DEF SearchDense

\* So is the full-text list.
LEMMA SparseAgrees ==
  ASSUME SearchTypeOK, OneGeneration, SearchSparse
  PROVE  /\ search'.dense = search.dense /\ search'.results = search.results
         /\ Agree(Elements(search'.sparse))
<1> DEFINE r == search.request
           score == Sparse[r.query]
           visible == Visible(r.filter)
           found == Matching(visible, score)
           limit == IF r.strategy = "sparse" THEN TopK ELSE DenseLimit
<1>1. PICK sparse \in Best(found, ScoreOf(found, score), limit) :
        search' = [search EXCEPT !.sparse = sparse, !.pc = "answer"]
  BY DEF SearchSparse
<1>2. /\ search'.sparse = sparse /\ search'.dense = search.dense
      /\ search'.results = search.results
  BY <1>1 DEF SearchTypeOK
<1>3. found \subseteq visible
  BY DEF Matching
<1> HIDE DEF found, limit, score
<1>4. Elements(sparse) \in SUBSET visible
  BY <1>3, BestAreFound
<1> QED
  BY <1>2, <1>4, VisibleAgree

\* And what the siblings are taken from.
LEMMA AnswerAgrees ==
  ASSUME SearchTypeOK, OneGeneration, Answer
  PROVE  /\ search'.dense = search.dense /\ search'.sparse = search.sparse
         /\ Agree(UNION {search'.results[i].siblings : i \in DOMAIN search'.results})
<1> DEFINE unleveled == [search.request.filter EXCEPT !.levels = {}]
           visible == Visible(unleveled)
           ranked == Ranked(search.request, search.dense, search.sparse)
<1>1. PICK read \in SUBSET visible :
        search' = [search EXCEPT !.pc = "done", !.results = Expanded(ranked, read)]
  BY DEF Answer
<1>2. /\ search'.results = Expanded(ranked, read)
      /\ search'.dense = search.dense /\ search'.sparse = search.sparse
  BY <1>1 DEF SearchTypeOK
<1> HIDE DEF unleveled, ranked
<1>3. UNION {search'.results[i].siblings : i \in DOMAIN search'.results} \in SUBSET visible
  <2>1. \A c : Siblings(c, read) \subseteq read
    BY DEF Siblings
  <2>2. \A i \in DOMAIN search'.results : search'.results[i].siblings \subseteq read
    BY <1>2, <2>1 DEF Expanded
  <2> QED
    BY <2>2
<1> QED
  BY <1>2, <1>3, VisibleAgree

\* Under one index version, whatever runs overlap, fail or are killed between the reads
\* of a search (search, _expand_parent_context), none of its reads mixes two versions of
\* a document: each list is one statement, and save_document swaps the generations in
\* one transaction.
THEOREM ReadsAreOfOneVersion ==
  ASSUME NEW v, IndexVersions = {v}
  PROVE  SearchSpec => []ReadsOfOneVersion
<1>1. SearchInit => ReadsOfOneVersion
  BY DEF SearchInit, NoSearch, ReadsOfOneVersion, Elements
<1>2. SearchInv /\ OneGeneration /\ ReadsOfOneVersion /\ [SearchNext]_searchVars
        => ReadsOfOneVersion'
  <2> SUFFICES ASSUME SearchInv, OneGeneration, ReadsOfOneVersion, [SearchNext]_searchVars
               PROVE  ReadsOfOneVersion'
    OBVIOUS
  <2>1. SearchTypeOK
    BY DEF SearchInv
  <2>2. CASE \/ search' = NoSearch
             \/ \E r \in Request : Begin(r)
    <3>1. search' = NoSearch =>
            search'.dense = <<>> /\ search'.sparse = <<>> /\ search'.results = <<>>
      BY DEF NoSearch
    <3>2. ASSUME NEW r \in Request, Begin(r)
          PROVE  search'.dense = <<>> /\ search'.sparse = <<>> /\ search'.results = <<>>
      BY <3>2 DEF Begin, NoSearch
    <3> QED
      BY <2>2, <3>1, <3>2 DEF ReadsOfOneVersion, Elements
  <2>3. CASE SearchDense
    BY <2>1, <2>3, DenseAgrees DEF ReadsOfOneVersion, Agree
  <2>4. CASE SearchSparse
    BY <2>1, <2>4, SparseAgrees DEF ReadsOfOneVersion, Agree
  <2>5. CASE Answer
    BY <2>1, <2>5, AnswerAgrees DEF ReadsOfOneVersion, Agree
  <2>6. CASE UNCHANGED search \/ search' = [search EXCEPT !.seen = @ \cup Current']
    <3>1. /\ search'.dense = search.dense /\ search'.sparse = search.sparse
          /\ search'.results = search.results
      BY <2>1, <2>6 DEF SearchTypeOK
    <3> QED
      BY <3>1 DEF ReadsOfOneVersion
  <2> QED
    BY <2>2, <2>3, <2>4, <2>5, <2>6 DEF SearchNext, RaiseSearch, IndexStep, searchVars
<1>3. SearchSpec => []OneGeneration
  BY SearchesOnlyRead, GenerationsAreWhole, PTL
<1> QED
  BY <1>1, <1>2, <1>3, SearchInvariant, PTL DEF SearchSpec

-----------------------------------------------------------------------------
(* Without a dense backend *)

\* A quotient grows with what is divided.
LEMMA QuotientsGrow ==
  ASSUME NEW a \in Int, NEW b \in Int, NEW k \in Int, k > 0, a <= b
  PROVE  a \div k <= b \div k
  OBVIOUS

\* A quotient falls as the divisor grows.
LEMMA QuotientsFall ==
  ASSUME NEW a \in Nat, NEW k \in Int, NEW m \in Int, k > 0, k <= m
  PROVE  a \div m <= a \div k
  OBVIOUS

\* Weighting keeps the order.
LEMMA ProductsGrow ==
  ASSUME NEW a \in Int, NEW b \in Int, NEW k \in Nat, a <= b
  PROVE  k * a <= k * b
  OBVIOUS

\* Places that are in order already are left where they are.
LEMMA OrderIsKept ==
  ASSUME NEW n \in Nat, NEW before, \A i, j \in 1..n : <<i, j>> \in before <=> i < j
  PROVE  InOrder(1..n, before) = [i \in 1..n |-> i]
<1> DEFINE S == 1..n
           p == InOrder(S, before)
<1>1. IsFiniteSet(S) /\ Cardinality(S) = n
  BY FS_Interval
<1>2. IsOrder(S, before)
  BY DEF IsOrder
<1>3. /\ p \in [S -> S]
      /\ \A m \in S : Cardinality(Before(S, before, p[m])) = m - 1
  <2> HIDE DEF S
  <2>1. /\ p \in [1..Cardinality(S) -> S]
        /\ \A m \in 1..Cardinality(S) : Cardinality(Before(S, before, p[m])) = m - 1
    BY <1>1, <1>2, InOrderLists
  <2> QED
    BY <1>1, <2>1 DEF S
<1> HIDE DEF p
<1>4. ASSUME NEW m \in S PROVE p[m] = m
  <2>1. p[m] \in S
    BY <1>3
  <2>2. Before(S, before, p[m]) = 1..(p[m] - 1)
    BY <2>1 DEF Before
  <2>3. Cardinality(1..(p[m] - 1)) = p[m] - 1
    BY <2>1, FS_Interval
  <2>4. p[m] - 1 = m - 1
    BY <1>3, <2>2, <2>3
  <2> QED
    BY <2>1, <2>4
<1> QED
  BY <1>3, <1>4 DEF p

\* Everything kept is the list.
LEMMA WholeSubsequence ==
  ASSUME NEW T, NEW s \in Seq(T)
  PROVE  Subsequence(s, DOMAIN s) = s
<1> DEFINE D == 1..Len(s)
           before == {e \in D \X D : e[1] < e[2]}
<1>1. DOMAIN s = D /\ Len(s) \in Nat
  OBVIOUS
<1>2. \A i, j \in D : <<i, j>> \in before <=> i < j
  OBVIOUS
<1>3. Subsequence(s, DOMAIN s) = Picked(s, InOrder(D, before))
  BY <1>1 DEF Subsequence
<1> HIDE DEF before
<1>4. InOrder(D, before) = [i \in D |-> i]
  BY <1>1, <1>2, OrderIsKept
<1> QED
  BY <1>1, <1>3, <1>4 DEF Picked

\* A list that is sorted is not changed by sorting.
LEMMA SortedStays ==
  ASSUME NEW T, NEW s \in Seq(T), NEW score, Scored(s, score),
         \A i, j \in DOMAIN s : i < j => score[s[i]] >= score[s[j]]
  PROVE  StableDescending(s, score) = s
<1> DEFINE D == 1..Len(s)
           before == {e \in D \X D : Better(s, score, e[1], e[2])}
<1>1. DOMAIN s = D /\ Len(s) \in Nat
  OBVIOUS
<1>2. \A i, j \in D : <<i, j>> \in before <=> Better(s, score, i, j)
  OBVIOUS
<1>3. StableDescending(s, score) = Picked(s, InOrder(D, before))
  BY <1>1 DEF StableDescending
<1> HIDE DEF before
<1>4. ASSUME NEW i \in D, NEW j \in D PROVE Better(s, score, i, j) <=> i < j
  <2>1. score[s[i]] \in Int /\ score[s[j]] \in Int /\ i \in Int /\ j \in Int
    BY <1>1 DEF Scored
  <2>2. /\ i < j => score[s[i]] >= score[s[j]]
        /\ j < i => score[s[j]] >= score[s[i]]
    BY <1>1
  <2>3. i = j => score[s[i]] = score[s[j]]
    OBVIOUS
  <2> QED
    BY <2>1, <2>2, <2>3 DEF Better
<1>5. InOrder(D, before) = [i \in D |-> i]
  BY <1>1, <1>2, <1>4, OrderIsKept
<1> QED
  BY <1>1, <1>3, <1>5 DEF Picked

\* Fusion with an empty list keeps the order of the full-text list: its scores and its
\* bonus both fall from place to place.
LEMMA FusedScoresFall ==
  ASSUME NEW r \in Request, NEW sparse, Found(r, <<>>, sparse), r.strategy = "hybrid",
         NEW i \in DOMAIN sparse, NEW j \in DOMAIN sparse, i < j
  PROVE  LET score == Scores(r, <<>>, sparse)
         IN  score[sparse[i]] >= score[sparse[j]]
<1> DEFINE S == Sparse[r.query]
           best == BestOf(S, sparse)
           share(n) == (1000 * S[Passage(sparse[n])]) \div best
           value(n) == (SparseWeight * share(n)) \div 100 + 1000 \div (60 + n)
<1>1. /\ sparse \in Seq(Chunks) /\ Distinct(sparse) /\ DOMAIN sparse = 1..Len(sparse)
      /\ S \in [Contents \X Parts -> Int]
  <2>1. sparse \in Seq(Chunks) /\ Distinct(sparse)
    BY DEF Found, Matches
  <2>2. DOMAIN sparse = 1..Len(sparse)
    BY <2>1, LenProperties
  <2>3. S \in [Contents \X Parts -> Int]
    BY QueriesHaveScores
  <2> QED
    BY <2>1, <2>2, <2>3
<1>2. best \in Int /\ best > 0
  <2>1. sparse # <<>>
    OBVIOUS
  <2> QED
    BY <1>1, <2>1, BestIsFirst DEF Found
<1>3. \A n \in DOMAIN sparse : S[Passage(sparse[n])] \in Int
  BY <1>1, ChunksHaveFields
<1>4. ASSUME NEW n \in DOMAIN sparse PROVE Scores(r, <<>>, sparse)[sparse[n]] = value(n)
  <2> DEFINE c == sparse[n]
  <2>1. c \in Elements(sparse) /\ Elements(<<>>) = {}
    BY DEF Elements
  <2>2. (CHOOSE m \in DOMAIN sparse : sparse[m] = c) = n
    BY <1>1 DEF Distinct
  <2>3. Reciprocal(c, <<>>) = 0 /\ Reciprocal(c, sparse) = 1000 \div (60 + n)
    BY <2>1, <2>2 DEF Reciprocal
  <2>4. Scores(r, <<>>, sparse)[c] =
          (DenseWeight * 0 + SparseWeight * share(n)) \div 100
            + Reciprocal(c, <<>>) + Reciprocal(c, sparse)
    BY <2>1 DEF Scores, FusedScore
  <2>5. share(n) \in Int /\ 1000 \div (60 + n) \in Int
    <3>1. 1000 * S[Passage(sparse[n])] \in Int /\ 60 + n \in Int /\ 60 + n > 0
      BY <1>1, <1>3
    <3> HIDE DEF S, best
    <3> QED
      BY <1>2, <3>1, QuotientsAreIntegers
  <2> HIDE DEF share, c
  <2>6. DenseWeight * 0 + SparseWeight * share(n) = SparseWeight * share(n)
    BY <2>5, RetrievalAssumption
  <2>7. (SparseWeight * share(n)) \div 100 \in Int
    BY <2>5, RetrievalAssumption, QuotientsAreIntegers
  <2>8. Scores(r, <<>>, sparse)[c] = (SparseWeight * share(n)) \div 100 + 0 + 1000 \div (60 + n)
    BY <2>3, <2>4, <2>6
  <2> QED
    BY <2>5, <2>7, <2>8 DEF c
<1>5. share(j) <= share(i) /\ share(i) \in Int /\ share(j) \in Int
  <2>1. /\ S[Passage(sparse[i])] \in Int /\ S[Passage(sparse[j])] \in Int
        /\ S[Passage(sparse[j])] <= S[Passage(sparse[i])]
    BY <1>3 DEF Found, Matches
  <2> HIDE DEF S, best
  <2>2. /\ 1000 * S[Passage(sparse[i])] \in Int /\ 1000 * S[Passage(sparse[j])] \in Int
        /\ 1000 * S[Passage(sparse[j])] <= 1000 * S[Passage(sparse[i])]
    BY <2>1
  <2> QED
    BY <1>2, <2>2, QuotientsGrow, QuotientsAreIntegers
<1> HIDE DEF share
<1>6. (SparseWeight * share(j)) \div 100 <= (SparseWeight * share(i)) \div 100
  <2>1. /\ SparseWeight * share(i) \in Int /\ SparseWeight * share(j) \in Int
        /\ SparseWeight * share(j) <= SparseWeight * share(i)
    BY <1>5, ProductsGrow, RetrievalAssumption
  <2> QED
    BY <2>1, QuotientsGrow
<1>7. 1000 \div (60 + j) <= 1000 \div (60 + i)
  <2>1. 60 + i \in Int /\ 60 + j \in Int /\ 60 + i > 0 /\ 60 + i <= 60 + j
    BY <1>1
  <2> QED
    BY <2>1, QuotientsFall
<1>8. /\ (SparseWeight * share(i)) \div 100 \in Int /\ (SparseWeight * share(j)) \div 100 \in Int
      /\ 1000 \div (60 + i) \in Int /\ 1000 \div (60 + j) \in Int
  <2>1. /\ 60 + i \in Int /\ 60 + j \in Int /\ 60 + i > 0 /\ 60 + j > 0
        /\ SparseWeight * share(i) \in Int /\ SparseWeight * share(j) \in Int
    BY <1>1, <1>5, RetrievalAssumption
  <2> QED
    BY <2>1, QuotientsAreIntegers
<1>9. value(j) <= value(i)
  BY <1>6, <1>7, <1>8
<1>10. value(i) \in Int /\ value(j) \in Int
  BY <1>8
<1> HIDE DEF value
<1> QED
  BY <1>4, <1>9, <1>10

\* Then the ranking is the full-text list, without the third passages of a document.
LEMMA RankedIsSparse ==
  ASSUME NEW r \in Request, NEW sparse, Found(r, <<>>, sparse), r.strategy = "hybrid", ~r.rerank
  PROVE  Candidate(r, <<>>, sparse) = sparse
<1> DEFINE score == Scores(r, <<>>, sparse)
<1>1. sparse \in Seq(Chunks)
  BY DEF Found, Matches
<1>2. Pool(<<>>, sparse) = sparse
  <2>1. {i \in DOMAIN sparse : sparse[i] \notin Elements(<<>>)} = DOMAIN sparse
    <3>1. Elements(<<>>) = {}
      BY DEF Elements
    <3> QED
      BY <3>1
  <2>2. Pool(<<>>, sparse) = <<>> \o sparse
    BY <1>1, <2>1, WholeSubsequence DEF Pool
  <2> QED
    BY <1>1, <2>2, ConcatEmptySeq
<1>3. Scored(sparse, score)
  BY CandidatesAreScored DEF Scored, Elements
<1>4. \A i, j \in DOMAIN sparse : i < j => score[sparse[i]] >= score[sparse[j]]
  BY FusedScoresFall
<1> HIDE DEF score
<1>5. StableDescending(sparse, score) = sparse
  BY <1>1, <1>3, <1>4, SortedStays
<1> QED
  BY <1>2, <1>5 DEF Candidate, score

\* Diversification keeps the order, and the first.
LEMMA DiversifyKeepsOrder ==
  ASSUME NEW T, NEW s \in Seq(T)
  PROVE  \E p \in [DOMAIN Diversify(s) -> DOMAIN s] :
           /\ \A n \in DOMAIN Diversify(s) : Diversify(s)[n] = s[p[n]]
           /\ \A m, n \in DOMAIN Diversify(s) : m < n => p[m] < p[n]
           /\ s # <<>> => 1 \in DOMAIN Diversify(s) /\ p[1] = 1
<1> DEFINE keep == {i \in DOMAIN s : Cardinality({j \in 1..(i - 1) : s[j][1] = s[i][1]}) < 2}
<1>1. Diversify(s) = Subsequence(s, keep) /\ keep \in SUBSET (DOMAIN s)
  BY DEF Diversify
<1>2. s # <<>> => 1 \in keep
  <2> SUFFICES ASSUME s # <<>> PROVE 1 \in keep
    OBVIOUS
  <2>1. 1 \in DOMAIN s
    BY EmptySeq
  <2>2. {j \in 1..(1 - 1) : s[j][1] = s[1][1]} = {}
    OBVIOUS
  <2> QED
    BY <2>1, <2>2, FS_EmptySet
<1> HIDE DEF keep
<1>3. PICK p : /\ ListsPlaces(p, keep)
               /\ Diversify(s) = [n \in 1..Cardinality(keep) |-> s[p[n]]]
  BY <1>1, SubsequenceIsPicked
<1>4. /\ DOMAIN Diversify(s) = 1..Cardinality(keep) /\ Cardinality(keep) \in Nat
      /\ p \in [1..Cardinality(keep) -> DOMAIN s]
      /\ \A n \in 1..Cardinality(keep) : p[n] \in keep /\ Diversify(s)[n] = s[p[n]]
  BY <1>1, <1>3 DEF ListsPlaces
<1>5. ASSUME s # <<>> PROVE 1 \in 1..Cardinality(keep) /\ p[1] = 1
  <2>1. PICK n \in 1..Cardinality(keep) : p[n] = 1
    BY <1>2, <1>3, <1>5 DEF ListsPlaces
  <2>2. 1 \in 1..Cardinality(keep)
    BY <1>4, <2>1
  <2>3. p[1] \in 1..Len(s)
    BY <1>4, <2>2
  <2>4. 1 < n => p[1] < p[n]
    BY <1>3, <2>1, <2>2 DEF ListsPlaces
  <2> QED
    BY <1>4, <2>1, <2>2, <2>3, <2>4
<1> QED
  BY <1>3, <1>4, <1>5 DEF ListsPlaces

\* When no dense backend answers (_search_dense), a hybrid search that is not reranked gives
\* what the full-text search found, in its order, and its best match first.
THEOREM SearchDegradesToSparse == SearchSpec => []DegradesToSparse
<1>1. SearchInv => DegradesToSparse
  <2> SUFFICES ASSUME SearchInv, search.pc = "done", search.request.strategy = "hybrid",
                      ~search.request.rerank, search.dense = <<>>
               PROVE  DegradesToSparse
    BY DEF DegradesToSparse
  <2> DEFINE sparse == search.sparse
             ranked == Ranked(search.request, search.dense, sparse)
             all == Diversify(sparse)
             n == IF Len(all) < TopK THEN Len(all) ELSE TopK
             place(i) == CHOOSE m \in DOMAIN sparse : sparse[m] = search.results[i].id
  <2>1. /\ search.request \in Request /\ Found(search.request, <<>>, sparse) /\ AnswerIsRanked
        /\ SearchTypeOK
    BY DEF SearchInv
  <2>2. sparse \in Seq(Chunks) /\ Distinct(sparse)
    BY <2>1 DEF Found, Matches
  <2>3. Candidate(search.request, search.dense, sparse) = sparse
    BY <2>1, RankedIsSparse
  <2>4. all \in Seq(Chunks) /\ ranked = SubSeq(all, 1, n) /\ n \in 0..Len(all)
    BY <2>1, <2>3, RankedIsPrefix
  <2>5. PICK p \in [DOMAIN all -> DOMAIN sparse] :
           /\ \A m \in DOMAIN all : all[m] = sparse[p[m]]
           /\ \A l, m \in DOMAIN all : l < m => p[l] < p[m]
           /\ sparse # <<>> => 1 \in DOMAIN all /\ p[1] = 1
    BY <2>2, DiversifyKeepsOrder
  <2> HIDE DEF all, ranked
  <2>6. DOMAIN ranked = 1..n /\ 1..n \subseteq DOMAIN all /\ \A i \in 1..n : ranked[i] = all[i]
    <3> HIDE DEF n
    <3>1. Len(ranked) = n /\ ranked \in Seq(Chunks) /\ \A i \in 1..n : ranked[i] = all[i]
      BY <2>4, PartsHave
    <3> QED
      BY <2>4, <3>1
  <2>7. /\ DOMAIN search.results = 1..n
        /\ \A i \in 1..n : search.results[i].id = sparse[p[i]] /\ p[i] \in DOMAIN sparse
    <3> HIDE DEF n
    <3> QED
      BY <2>1, <2>5, <2>6 DEF AnswerIsRanked, ranked
  <2>8. ASSUME NEW i \in 1..n PROVE place(i) = p[i]
    <3> HIDE DEF n
    <3>1. \A m \in DOMAIN sparse : sparse[m] = search.results[i].id <=> m = p[i]
      BY <2>2, <2>7 DEF Distinct
    <3> HIDE DEF sparse
    <3> QED
      BY <2>7, <3>1
  <2>9. ASSUME sparse # <<>> PROVE search.results # <<>> /\ place(1) = 1
    <3>1. 1 \in 1..n
      BY <2>4, <2>5, <2>9, RetrievalAssumption
    <3> HIDE DEF n, place
    <3>2. 1 \in DOMAIN search.results
      BY <2>7, <3>1
    <3>3. search.results # <<>>
      BY <3>2
    <3> QED
      BY <2>5, <2>8, <2>9, <3>1, <3>3
  <2>10. \A i, j \in DOMAIN search.results : i < j => place(i) < place(j)
    <3> HIDE DEF n, place
    <3> QED
      BY <2>5, <2>6, <2>7, <2>8
  <2> QED
    BY <2>9, <2>10 DEF DegradesToSparse
<1> QED
  BY <1>1, SearchInvariant, PTL

=============================================================================
