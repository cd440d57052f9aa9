---------------------------- MODULE Provisioning ----------------------------
(***************************************************************************)
(* scripts/provision_local_models.py, scripts/verify_model_manifest.py and *)
(* app/core/model_manifest.py: the model files an offline stack runs on    *)
(* are downloaded once, and a manifest with their digests is written at    *)
(* the end.  `docker compose up` runs the provisioner with --ensure, then  *)
(* the verifier, then the API, which verifies once more; an operator may   *)
(* run the provisioner by hand.  There is no lock: two provisioners at a   *)
(* time are not modelled.                                                  *)
(***************************************************************************)
EXTENDS Integers, Sequences, FiniteSets

CONSTANTS
    Artifact,       \* the artifacts of build_specs
    Specs,          \* their order there
    Directory,      \* those whose path is a directory, the others are one file
    Served,         \* those a service loads on which the API depends
    File,           \* names of files in the repositories
    Snapshot,       \* the files snapshot_files chooses, by artifact and commit
    MaxCommit,      \* bound: commits of a repository, the first is 1
    MaxFailures,    \* bound: provisioners that fail or are killed, bodies cut short
    MaxDamages,     \* bound: files lost or changed on disk
    MaxByHand       \* bound: provisioners run by hand

Commit == 1..MaxCommit
NoCommit == 0

ASSUME SpecsAssumption ==
    /\ Specs \in Seq(Artifact)
    /\ Artifact = {Specs[i] : i \in DOMAIN Specs}
    /\ \A i, j \in DOMAIN Specs : Specs[i] = Specs[j] => i = j
    /\ Directory \subseteq Artifact /\ Served \subseteq Artifact
ASSUME SnapshotAssumption ==
    /\ Snapshot \in [Artifact -> [Commit -> SUBSET File]]
    /\ \A a \in Artifact, c \in Commit :
          /\ Snapshot[a][c] # {}
          /\ a \notin Directory => \E f \in File : Snapshot[a][c] = {f}
ASSUME BoundAssumption ==
    /\ MaxCommit \in Nat \ {0}
    /\ {MaxFailures, MaxDamages, MaxByHand} \subseteq Nat

VARIABLES
    head,       \* the commit the configured revision of a repository names
    disk,       \* what is at the path of each artifact
    manifest,   \* manifest.lock.json
    proc,       \* the provisioner
    stack,      \* how far `docker compose up` has come
    failures, damages, byHand

vars == <<head, disk, manifest, proc, stack, failures, damages, byHand>>
bounds == <<failures, damages, byHand>>

-----------------------------------------------------------------------------
(* Data *)

\* A file is its name, the commit it is from, and whether it is whole.  A temporary file that
\* a download left behind, and a file changed on disk, are from no commit.
Part == "part"
PartFile == <<Part, NoCommit, "cut">>
Content ==
    SUBSET ((File \union {Part}) \X (Commit \union {NoCommit}) \X {"whole", "cut", "changed"})

Found(exists, files) == [exists |-> exists, files |-> files]
Nothing == Found(FALSE, {})
Path == [exists : BOOLEAN, files : Content]

\* The names of the files, with their commits.
Of(files) == {<<file[1], file[2]>> : file \in files}

Complete(a, c) == {<<f, c>> : f \in Snapshot[a][c]}

Cut(a) == \E file \in disk[a].files : file[3] = "cut"

\* The digest of a path depends on the files and on nothing else, so it is the files.
NoManifest == [state |-> "absent", digest |-> <<>>, revision |-> <<>>]
Truncated == [NoManifest EXCEPT !.state = "truncated"]

\* verify_model_manifest: the manifest can be read, and every path in it exists and
\* has the digest it has there.
Verified ==
    /\ manifest.state = "written"
    /\ \A a \in DOMAIN manifest.digest :
          disk[a].exists /\ disk[a].files = manifest.digest[a]

\* validate_manifest also wants every artifact the stack needs.
Validated == Verified /\ Artifact \subseteq DOMAIN manifest.digest

Idle == [pc |-> "idle", mode |-> "plain", at |-> 0, commit |-> NoCommit, left |-> {},
         resolved |-> [a \in Artifact |-> NoCommit]]

ProcType ==
    [pc : {"idle", "removing", "resolving", "downloading"},
     mode : {"plain", "ensure", "force"}, at : Nat,
     commit : Commit \union {NoCommit}, left : SUBSET File,
     resolved : [Artifact -> Commit \union {NoCommit}]]

TypeOK ==
    /\ head \in [Artifact -> Commit]
    /\ disk \in [Artifact -> Path]
    /\ manifest.state \in {"absent", "truncated", "written"}
    /\ manifest.state = "written" =>
          /\ manifest.digest \in [Artifact -> Content]
          /\ manifest.revision \in [Artifact -> Commit]
    /\ proc \in ProcType
    /\ stack \in {"down", "provisioning", "provisioned", "verified", "up"}
    /\ failures \in Nat /\ damages \in Nat /\ byHand \in Nat

Now == Specs[proc.at]

-----------------------------------------------------------------------------
(* The provisioner *)

\* The process ends.  Compose goes on if it was its own and has succeeded.
Exit(success) ==
    /\ proc' = Idle
    /\ stack' = IF stack # "provisioning" THEN stack
                ELSE IF success THEN "provisioned" ELSE "down"

\* Mutant: a valid set of an earlier commit is not good enough.
ReusableIfCurrent(mode) ==
    /\ mode = "ensure" /\ Validated
    /\ \A a \in Artifact : manifest.revision[a] = head[a]

\* main, --ensure: nothing to do.
Reusable(mode) == mode = "ensure" /\ Validated

\* Mutant: without a manifest there is nothing to repair.
RemovesInvalid(mode) == mode = "force" \/ (mode = "ensure" /\ manifest.state # "absent")

Removes(mode) == mode \in {"ensure", "force"}

Start(mode) ==
    IF Reusable(mode) THEN UNCHANGED proc
    ELSE proc' = [Idle EXCEPT !.pc = IF Removes(mode) THEN "removing" ELSE "resolving",
                              !.mode = mode, !.at = 1]

\* Compose depends on the provisioner, so it is ready to go on when that had nothing to do.
ComposeUp ==
    /\ stack = "down" /\ proc.pc = "idle"
    /\ Start("ensure")
    /\ stack' = IF Reusable("ensure") THEN "provisioned" ELSE "provisioning"
    /\ UNCHANGED <<head, disk, manifest, bounds>>

RunByHand ==
    /\ proc.pc = "idle" /\ byHand < MaxByHand
    /\ \E mode \in {"plain", "ensure", "force"} : Start(mode)
    /\ byHand' = byHand + 1
    /\ UNCHANGED <<head, disk, manifest, stack, failures, damages>>

\* remove_known_artifacts: one path after the other, the manifest last.
RemoveArtifact ==
    /\ proc.pc = "removing" /\ proc.at \in DOMAIN Specs
    /\ disk' = [disk EXCEPT ![Now] = Nothing]
    /\ proc' = [proc EXCEPT !.at = @ + 1]
    /\ UNCHANGED <<head, manifest, stack, bounds>>

RemoveManifest ==
    /\ proc.pc = "removing" /\ proc.at \notin DOMAIN Specs
    /\ manifest' = NoManifest
    /\ proc' = [proc EXCEPT !.pc = "resolving", !.at = 1]
    /\ UNCHANGED <<head, disk, stack, bounds>>

\* Mutant: what is there already is kept.
RefuseNothing ==
    /\ proc.pc = "resolving" /\ proc.at \in DOMAIN Specs
    /\ disk[Now].exists
    /\ proc' = [proc EXCEPT !.at = @ + 1, !.resolved[Now] = head[Now]]
    /\ UNCHANGED <<head, disk, manifest, stack, bounds>>

\* provision refuses to overwrite what it finds.
Refuse ==
    /\ proc.pc = "resolving" /\ proc.at \in DOMAIN Specs
    /\ disk[Now].exists
    /\ Exit(FALSE)
    /\ UNCHANGED <<head, disk, manifest, bounds>>

\* The revision becomes a commit, once per artifact.
Resolve ==
    /\ proc.pc = "resolving" /\ proc.at \in DOMAIN Specs
    /\ ~disk[Now].exists
    /\ proc' = [proc EXCEPT !.pc = "downloading",
                            !.commit = head[Now],
                            !.left = Snapshot[Now][head[Now]]]
    /\ UNCHANGED <<head, disk, manifest, stack, bounds>>

\* A file is asked for by the commit, not by the revision.
Downloaded(f, state) == <<f, proc.commit, state>>

\* download_file: into a temporary file, which then takes the file's name.  A body that
\* ends early is no error, and its length is not compared with anything.
Download ==
    /\ proc.pc = "downloading"
    /\ \E f \in proc.left, state \in {"whole", "cut"} :
        /\ failures' = failures + (IF state = "cut" THEN 1 ELSE 0)
        /\ failures' <= MaxFailures
        /\ disk' = [disk EXCEPT ![Now] =
                       Found(TRUE, disk[Now].files \union {Downloaded(f, state)})]
        /\ proc' = IF proc.left # {f}
                   THEN [proc EXCEPT !.left = @ \ {f}]
                   ELSE [proc EXCEPT !.pc = "resolving", !.at = @ + 1, !.left = {},
                                     !.resolved[Now] = proc.commit]
    /\ UNCHANGED <<head, manifest, stack, damages, byHand>>

\* write_manifest: the digests are those of what is on disk now.
WriteManifest ==
    /\ proc.pc = "resolving" /\ proc.at \notin DOMAIN Specs
    /\ manifest' = [state |-> "written",
                    digest |-> [a \in Artifact |-> disk[a].files],
                    revision |-> proc.resolved]
    /\ Exit(TRUE)
    /\ UNCHANGED <<head, disk, bounds>>

\* What a step leaves behind that is not finished: part of a directory that is being
\* removed, a directory made for a download and its temporary file, or a manifest that
\* was opened and not written.
Unfinished ==
    \/ /\ proc.pc = "removing" /\ proc.at \in DOMAIN Specs /\ Now \in Directory
       /\ \E rest \in SUBSET disk[Now].files :
             disk' = [disk EXCEPT ![Now] = Found(disk[Now].exists, rest)]
       /\ UNCHANGED manifest
    \/ /\ proc.pc = "downloading" /\ Now \in Directory
       /\ \E part \in SUBSET {PartFile} :
             disk' = [disk EXCEPT ![Now] = Found(TRUE, disk[Now].files \union part)]
       /\ UNCHANGED manifest
    \/ /\ proc.pc = "resolving" /\ proc.at \notin DOMAIN Specs
       /\ manifest' = Truncated
       /\ UNCHANGED disk
    \/ UNCHANGED <<disk, manifest>>

\* The registry does not answer, or not as expected, the disk is full, or the process
\* is killed.
Fail ==
    /\ proc.pc # "idle" /\ failures < MaxFailures
    /\ Unfinished
    /\ Exit(FALSE)
    /\ failures' = failures + 1
    /\ UNCHANGED <<head, damages, byHand>>

-----------------------------------------------------------------------------
(* The stack and its surroundings *)

\* model-preflight, on which the services depend.
Preflight ==
    /\ stack = "provisioned"
    /\ stack' = IF Validated THEN "verified" ELSE "down"
    /\ UNCHANGED <<head, disk, manifest, proc, bounds>>

\* The services that load models become healthy, which one whose model was cut short may
\* never be, and ServiceContainer.initialize verifies in offline mode.
StartApi ==
    /\ stack = "verified"
    /\ \/ Verified /\ stack' = "up"
       \/ (~Verified \/ \E a \in Served : Cut(a)) /\ stack' = "down"
    /\ UNCHANGED <<head, disk, manifest, proc, bounds>>

ComposeDown ==
    /\ stack = "up"
    /\ stack' = "down"
    /\ UNCHANGED <<head, disk, manifest, proc, bounds>>

\* A repository gets a new commit, also while its files are downloaded.
HeadMoves ==
    /\ \E a \in Artifact : head[a] < MaxCommit /\ head' = [head EXCEPT ![a] = @ + 1]
    /\ UNCHANGED <<disk, manifest, proc, stack, bounds>>

\* Between provisioners, a file is lost or changed.
Damage ==
    /\ proc.pc = "idle" /\ damages < MaxDamages
    /\ \E a \in Artifact : \E file \in disk[a].files :
        LET rest == disk[a].files \ {file}
        IN disk' \in {[disk EXCEPT ![a] = IF a \in Directory THEN Found(TRUE, rest) ELSE Nothing],
                      [disk EXCEPT ![a] = Found(TRUE, rest \union {<<file[1], NoCommit, "changed">>})]}
    /\ damages' = damages + 1
    /\ UNCHANGED <<head, manifest, proc, stack, failures, byHand>>

Init ==
    /\ head = [a \in Artifact |-> 1]
    /\ disk = [a \in Artifact |-> Nothing]
    /\ manifest = NoManifest
    /\ proc = Idle
    /\ stack = "down"
    /\ failures = 0 /\ damages = 0 /\ byHand = 0

Provision ==
    RemoveArtifact \/ RemoveManifest \/ Refuse \/ Resolve \/ Download \/ WriteManifest

Next ==
    \/ ComposeUp \/ RunByHand \/ Provision \/ Fail
    \/ Preflight \/ StartApi \/ ComposeDown
    \/ HeadMoves \/ Damage

Spec == Init /\ [][Next]_vars

\* A request ends, with an answer or a time-out, and what fails is started again.
FairSpec ==
    Spec /\ WF_vars(Provision) /\ WF_vars(ComposeUp) /\ WF_vars(Preflight) /\ WF_vars(StartApi)

-----------------------------------------------------------------------------
(* Properties *)

\* A manifest that verifies stands for one snapshot of every artifact: a file for every
\* name in the commit the manifest names, downloaded from that commit, and nothing else.
\* It does so whatever failed on the way: a manifest from before a removal, a directory
\* that was half removed or half downloaded, and a revision that moved meanwhile are
\* noticed.  Only that a body was cut short is not (VerifiedIsWhole).
VerifiedIsOneSnapshot ==
    Verified => \A a \in Artifact : Of(disk[a].files) = Complete(a, manifest.revision[a])

\* A set that verifies is only given up by --force, by the disk, or by a failure while
\* its manifest is written anew; neither another run nor `docker compose up` harms it.
VerifiedSurvives ==
    [][Verified /\ ~Verified' => \/ proc.mode = "force" /\ proc.pc = "removing"
                                 \/ damages' # damages
                                 \/ manifest' = Truncated]_vars

\* Whatever was left behind by failures, `docker compose up` brings the stack up again,
\* unless a model was cut short and the manifest written for it.
StackComesUp == []<>(stack = "up" \/ (Verified /\ \E a \in Served : Cut(a)))

\* What the code does not have.

\* What verifies was downloaded to its end (provision_local_models.py:46 "A fully downloaded
\* artifact ready to be placed in the runtime manifest").
VerifiedIsWhole == Verified => \A a \in Artifact : ~Cut(a)

\* `docker compose up` brings the stack up again whatever was left behind.
StackAlwaysComesUp == []<>(stack = "up")

=============================================================================
