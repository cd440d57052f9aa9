------------------------- MODULE ProvisioningProofs -------------------------
(***************************************************************************)
(* Theorems about Provisioning: a manifest that verifies stands for one    *)
(* snapshot of every artifact, and a set that verifies is not given up by  *)
(* another run, for any artifacts, repositories and number of failures.    *)
(***************************************************************************)
EXTENDS Provisioning, TLAPS

\* What a manifest says of an artifact is the snapshot of the commit it names.
ManifestComplete ==
    manifest.state = "written" =>
        \A a \in Artifact : Of(manifest.digest[a]) = Complete(a, manifest.revision[a])

\* Where nothing exists there are no files.
AbsentIsEmpty == \A a \in Artifact : ~disk[a].exists => disk[a].files = {}

\* The artifacts the provisioner is done with lack no file.
Done(i) ==
    /\ proc.resolved[Specs[i]] \in Commit
    /\ Of(disk[Specs[i]].files) = Complete(Specs[i], proc.resolved[Specs[i]])

DoneComplete ==
    proc.pc \in {"resolving", "downloading"} =>
        \A i \in DOMAIN Specs : i < proc.at => Done(i)

\* The artifact it is working on has the files that are not left, and no others.
CurrentGrows ==
    proc.pc = "downloading" =>
        /\ proc.at \in DOMAIN Specs
        /\ proc.commit \in Commit
        /\ proc.left \subseteq Snapshot[Now][proc.commit]
        /\ Of(disk[Now].files) =
              {<<f, proc.commit>> : f \in Snapshot[Now][proc.commit] \ proc.left}

Started == proc.pc # "idle" => proc.at >= 1

ProvisioningInv ==
    /\ TypeOK /\ ManifestComplete /\ AbsentIsEmpty
    /\ DoneComplete /\ CurrentGrows /\ Started

-----------------------------------------------------------------------------
(* Facts about the constants *)

\* The specifications name artifacts.
LEMMA SpecsAreArtifacts == \A i \in DOMAIN Specs : Specs[i] \in Artifact
  BY SpecsAssumption

\* The specs are numbered from one, without a gap.
LEMMA SpecsDomain == DOMAIN Specs = 1..Len(Specs) /\ Len(Specs) \in Nat
  BY SpecsAssumption

\* The state between two runs.
LEMMA IdleType == Idle \in ProcType
  BY DEF Idle, ProcType

-----------------------------------------------------------------------------
(* Steps that touch one part *)

\* What an idle process has to satisfy is little.
LEMMA IdleStep ==
  ASSUME ProvisioningInv, proc' = Idle, TypeOK', ManifestComplete', AbsentIsEmpty'
  PROVE  ProvisioningInv'
  BY DEF ProvisioningInv, DoneComplete, CurrentGrows, Started, Idle

\* Nor do steps that leave disk, manifest and process alone matter.
LEMMA OutsideStep ==
  ASSUME ProvisioningInv, TypeOK', UNCHANGED <<disk, manifest, proc>>
  PROVE  ProvisioningInv'
  BY DEF ProvisioningInv, ManifestComplete, AbsentIsEmpty, DoneComplete, Done,
         CurrentGrows, Started, Now

\* A run that is over leaves no process, and the stack in one of its states.
LEMMA ExitTypes ==
  ASSUME TypeOK, NEW success \in BOOLEAN, Exit(success)
  PROVE  /\ proc' = Idle
         /\ stack' \in {"down", "provisioning", "provisioned", "verified", "up"}
  BY DEF Exit, TypeOK

\* A provisioner that starts has done nothing yet.
LEMMA StartStep ==
  ASSUME ProvisioningInv, NEW mode \in {"plain", "ensure", "force"}, Start(mode),
         proc.pc = "idle", UNCHANGED <<head, disk, manifest>>,
         stack' \in {"down", "provisioning", "provisioned", "verified", "up"},
         failures' = failures, damages' = damages, byHand' \in Nat
  PROVE  ProvisioningInv'
<1>1. CASE Reusable(mode)
  BY <1>1, OutsideStep DEF Start, ProvisioningInv, TypeOK
<1>2. CASE ~Reusable(mode)
  <2>1. proc' = [Idle EXCEPT !.pc = IF Removes(mode) THEN "removing" ELSE "resolving",
                             !.mode = mode, !.at = 1]
    BY <1>2 DEF Start
  <2>2. proc'.pc \in {"removing", "resolving"} /\ proc'.at = 1
    BY <2>1 DEF Idle
  <2>3. TypeOK'
    BY <2>1, IdleType DEF TypeOK, ProcType, ProvisioningInv, Idle
  <2> QED
    BY <2>2, <2>3, SpecsDomain DEF ProvisioningInv, ManifestComplete, AbsentIsEmpty,
       DoneComplete, CurrentGrows, Started
<1> QED
  BY <1>1, <1>2

-----------------------------------------------------------------------------
(* The steps of the provisioner *)

\* An artifact is removed before the set is provisioned anew.
LEMMA RemoveArtifactStep ==
  ASSUME ProvisioningInv, RemoveArtifact
  PROVE  ProvisioningInv'
<1>1. Now \in Artifact
  BY SpecsAreArtifacts DEF RemoveArtifact, Now
<1>2. TypeOK'
  BY <1>1 DEF RemoveArtifact, TypeOK, ProcType, ProvisioningInv, bounds, Path, Nothing, Found, Content
<1>3. AbsentIsEmpty'
  BY <1>1 DEF RemoveArtifact, AbsentIsEmpty, ProvisioningInv, TypeOK, Nothing, Found
<1>4. proc'.pc = "removing" /\ proc'.at >= 1
  BY DEF RemoveArtifact, ProvisioningInv, TypeOK, ProcType, Started
<1> QED
  BY <1>2, <1>3, <1>4 DEF RemoveArtifact, ProvisioningInv, ManifestComplete, DoneComplete,
     CurrentGrows, Started

\* The manifest is removed after the artifacts.
LEMMA RemoveManifestStep ==
  ASSUME ProvisioningInv, RemoveManifest
  PROVE  ProvisioningInv'
<1>1. TypeOK'
  BY DEF RemoveManifest, TypeOK, ProcType, ProvisioningInv, bounds, NoManifest
<1>2. proc'.pc = "resolving" /\ proc'.at = 1 /\ manifest'.state = "absent"
  BY DEF RemoveManifest, ProvisioningInv, TypeOK, NoManifest
<1> QED
  BY <1>1, <1>2, SpecsDomain DEF RemoveManifest, ProvisioningInv, ManifestComplete,
     AbsentIsEmpty, DoneComplete, CurrentGrows, Started

\* A run refuses to overwrite what exists.
LEMMA RefuseStep ==
  ASSUME ProvisioningInv, Refuse
  PROVE  ProvisioningInv'
<1>1. Exit(FALSE) /\ UNCHANGED <<head, disk, manifest, bounds>>
  BY DEF Refuse
<1>2. TypeOK'
  BY <1>1, ExitTypes, IdleType DEF TypeOK, ProvisioningInv, bounds
<1>3. ManifestComplete' /\ AbsentIsEmpty'
  BY <1>1 DEF ManifestComplete, AbsentIsEmpty, ProvisioningInv
<1> QED
  BY <1>1, <1>2, <1>3, IdleStep DEF Exit

\* A revision is resolved to its commit.
LEMMA ResolveStep ==
  ASSUME ProvisioningInv, Resolve
  PROVE  ProvisioningInv'
<1> DEFINE a == Now
           c == head[Now]
<1>1. a \in Artifact /\ c \in Commit /\ proc.at \in DOMAIN Specs
  BY SpecsAreArtifacts DEF Resolve, Now, ProvisioningInv, TypeOK
<1>2. Snapshot[a][c] \subseteq File
  BY <1>1, SnapshotAssumption
<1>3. proc' = [proc EXCEPT !.pc = "downloading", !.commit = c, !.left = Snapshot[a][c]]
  BY DEF Resolve
<1>4. TypeOK'
  BY <1>1, <1>2, <1>3 DEF Resolve, TypeOK, ProcType, ProvisioningInv, bounds
<1>5. /\ proc'.pc = "downloading" /\ proc'.at = proc.at /\ proc'.commit = c
      /\ proc'.left = Snapshot[a][c] /\ proc'.resolved = proc.resolved
  BY <1>3 DEF ProvisioningInv, TypeOK
<1>6. disk[a].files = {}
  BY <1>1 DEF Resolve, ProvisioningInv, AbsentIsEmpty
<1>7. CurrentGrows'
  BY <1>1, <1>5, <1>6 DEF Resolve, CurrentGrows, Now, Of
<1>8. DoneComplete'
  BY <1>5 DEF Resolve, DoneComplete, Done, ProvisioningInv
<1> QED
  BY <1>4, <1>5, <1>7, <1>8 DEF Resolve, ProvisioningInv, ManifestComplete, AbsentIsEmpty,
     Started

\* A download adds one file of the commit that was resolved, and with the last one the
\* artifact lacks no file.
LEMMA DownloadStep ==
  ASSUME ProvisioningInv, Download
  PROVE  ProvisioningInv'
<1> DEFINE a == Now
           c == proc.commit
<1>1. /\ proc.pc = "downloading" /\ proc.at \in DOMAIN Specs /\ a \in Artifact
      /\ c \in Commit /\ proc.left \subseteq Snapshot[a][c] /\ proc.at \in Nat
      /\ Of(disk[a].files) = {<<f, c>> : f \in Snapshot[a][c] \ proc.left}
  BY SpecsAreArtifacts DEF Download, ProvisioningInv, CurrentGrows, Now, TypeOK, ProcType
<1>2. PICK f \in proc.left, state \in {"whole", "cut"} :
        /\ failures' = failures + (IF state = "cut" THEN 1 ELSE 0)
        /\ disk' = [disk EXCEPT ![a] = Found(TRUE, disk[a].files \union {<<f, c, state>>})]
        /\ proc' = IF proc.left # {f}
                   THEN [proc EXCEPT !.left = @ \ {f}]
                   ELSE [proc EXCEPT !.pc = "resolving", !.at = @ + 1, !.left = {},
                                     !.resolved[a] = c]
  BY DEF Download, Downloaded
<1>3. f \in Snapshot[a][c] /\ f \in File
  BY <1>1, <1>2, SnapshotAssumption
<1>4. /\ disk'[a].exists
      /\ Of(disk'[a].files) = {<<g, c>> : g \in Snapshot[a][c] \ (proc.left \ {f})}
  <2>1. disk'[a].exists /\ disk'[a].files = disk[a].files \union {<<f, c, state>>}
    BY <1>1, <1>2 DEF Found, ProvisioningInv, TypeOK
  <2>2. Of(disk'[a].files) = Of(disk[a].files) \union {<<f, c>>}
    <3> DEFINE new == <<f, c, state>>
    <3>1. new[1] = f /\ new[2] = c
      OBVIOUS
    <3>2. disk'[a].files = disk[a].files \union {new}
      BY <2>1
    <3> HIDE DEF new
    <3>3. ASSUME NEW r \in Of(disk'[a].files)
          PROVE  r \in Of(disk[a].files) \/ r = <<f, c>>
      <4>1. PICK file \in disk'[a].files : r = <<file[1], file[2]>>
        BY <3>3 DEF Of
      <4> QED
        BY <3>1, <3>2, <4>1 DEF Of
    <3>4. ASSUME NEW r \in Of(disk[a].files)
          PROVE  r \in Of(disk'[a].files)
      <4>1. PICK file \in disk[a].files : r = <<file[1], file[2]>>
        BY <3>4 DEF Of
      <4> QED
        BY <3>2, <4>1 DEF Of
    <3>5. <<f, c>> \in Of(disk'[a].files)
      BY <3>1, <3>2 DEF Of
    <3> QED
      BY <3>3, <3>4, <3>5
  <2> QED
    BY <1>1, <1>2, <1>3, <2>1, <2>2
<1>5. \A b \in Artifact : b # a => disk'[b] = disk[b]
  BY <1>2 DEF ProvisioningInv, TypeOK
<1>6. disk' \in [Artifact -> Path]
  <2>1. <<f, c, state>> \in (File \union {Part}) \X (Commit \union {NoCommit})
                            \X {"whole", "cut", "changed"}
    BY <1>1, <1>2, <1>3
  <2>2. disk[a].files \union {<<f, c, state>>} \in Content
    BY <1>1, <2>1 DEF ProvisioningInv, TypeOK, Path, Content
  <2> QED
    BY <1>1, <1>2, <2>2 DEF Found, ProvisioningInv, TypeOK, Path
<1>7. UNCHANGED <<head, manifest, stack, damages, byHand>> /\ failures' \in Nat
  BY <1>2 DEF Download, ProvisioningInv, TypeOK
<1>8. TypeOK'
  <2>1. [proc EXCEPT !.left = @ \ {f}] \in ProcType
    BY DEF ProvisioningInv, TypeOK, ProcType
  <2>2. [proc EXCEPT !.pc = "resolving", !.at = @ + 1, !.left = {}, !.resolved[a] = c]
          \in ProcType
    <3>1. [proc.resolved EXCEPT ![a] = c] \in [Artifact -> Commit \union {NoCommit}]
      <4>1. proc.resolved \in [Artifact -> Commit \union {NoCommit}]
        BY DEF ProvisioningInv, TypeOK, ProcType
      <4> QED
        BY <4>1, <1>1
    <3>2. [proc EXCEPT !.pc = "resolving", !.at = @ + 1, !.left = {}] \in ProcType
      <4>1. ASSUME NEW p \in ProcType, NEW n \in Nat
            PROVE  [p EXCEPT !.pc = "resolving", !.at = n, !.left = {}] \in ProcType
        BY DEF ProcType
      <4>2. proc \in ProcType /\ proc.at + 1 \in Nat
        BY <1>1 DEF ProvisioningInv, TypeOK
      <4> QED
        BY <4>1, <4>2, Zenon
    <3>3. ASSUME NEW p \in ProcType, NEW r \in [Artifact -> Commit \union {NoCommit}]
          PROVE  [p EXCEPT !.resolved = r] \in ProcType
      BY DEF ProcType
    <3> QED
      BY <3>1, <3>2, <3>3, Zenon
  <2>3. proc' \in ProcType
    BY <1>2, <2>1, <2>2
  <2> QED
    BY <1>6, <1>7, <2>3 DEF ProvisioningInv, TypeOK
<1>9. AbsentIsEmpty' /\ ManifestComplete'
  BY <1>4, <1>5, <1>7 DEF ProvisioningInv, AbsentIsEmpty, ManifestComplete
<1>10. \A i \in DOMAIN Specs : i < proc.at => Specs[i] \in Artifact /\ Specs[i] # a
  BY <1>1, SpecsAreArtifacts, SpecsAssumption, SpecsDomain DEF Now
<1>11. CASE proc.left # {f}
  <2>1. proc' = [proc EXCEPT !.left = @ \ {f}]
    BY <1>2, <1>11
  <2>2. /\ proc'.pc = "downloading" /\ proc'.at = proc.at /\ proc'.commit = c
        /\ proc'.left = proc.left \ {f} /\ proc'.resolved = proc.resolved
    BY <2>1, <1>1 DEF ProvisioningInv, TypeOK
  <2>3. CurrentGrows'
    BY <2>2, <1>1, <1>4 DEF CurrentGrows, Now
  <2>4. DoneComplete'
    BY <2>2, <1>1, <1>5, <1>10 DEF DoneComplete, Done, ProvisioningInv
  <2> QED
    BY <2>2, <2>3, <2>4, <1>8, <1>9, <1>1 DEF ProvisioningInv, Started
<1>12. CASE proc.left = {f}
  <2>1. proc' = [proc EXCEPT !.pc = "resolving", !.at = @ + 1, !.left = {},
                             !.resolved[a] = c]
    BY <1>2, <1>12
  <2>2. /\ proc'.pc = "resolving" /\ proc'.at = proc.at + 1
        /\ proc'.resolved = [proc.resolved EXCEPT ![a] = c]
    BY <2>1, <1>1 DEF ProvisioningInv, TypeOK
  <2>3. proc'.resolved[a] = c /\ \A b \in Artifact : b # a => proc'.resolved[b] = proc.resolved[b]
    BY <2>2, <1>1 DEF ProvisioningInv, TypeOK, ProcType
  <2>4. Of(disk'[a].files) = Complete(a, c)
    BY <1>4, <1>12 DEF Complete
  <2>5. ASSUME NEW i \in DOMAIN Specs, i < proc'.at
        PROVE  Done(i)'
    <3>1. CASE i = proc.at
      BY <3>1, <2>3, <2>4, <1>1 DEF Done, Now
    <3>2. CASE i < proc.at
      <4>1. Done(i)
        BY <3>2, <1>1 DEF ProvisioningInv, DoneComplete
      <4> QED
        BY <4>1, <3>2, <2>3, <1>5, <1>10 DEF Done
    <3> QED
      BY <3>1, <3>2, <2>2, <2>5, <1>1, SpecsDomain
  <2>6. DoneComplete'
    BY <2>5 DEF DoneComplete
  <2> QED
    BY <2>2, <2>6, <1>1, <1>8, <1>9 DEF ProvisioningInv, CurrentGrows, Started
<1> QED
  BY <1>11, <1>12

\* Whatever the manifest is written about has been downloaded.
LEMMA WriteManifestStep ==
  ASSUME ProvisioningInv, WriteManifest
  PROVE  ProvisioningInv'
<1>1. /\ manifest' = [state |-> "written",
                      digest |-> [a \in Artifact |-> disk[a].files],
                      revision |-> proc.resolved]
      /\ Exit(TRUE) /\ UNCHANGED <<head, disk, bounds>>
  BY DEF WriteManifest
<1>2. \A i \in DOMAIN Specs : i < proc.at
  BY SpecsDomain DEF WriteManifest, ProvisioningInv, TypeOK, ProcType, Started
<1>3. \A i \in DOMAIN Specs : Done(i)
  BY <1>2 DEF WriteManifest, ProvisioningInv, DoneComplete
<1>4. \A a \in Artifact :
        proc.resolved[a] \in Commit /\ Of(disk[a].files) = Complete(a, proc.resolved[a])
  BY <1>3, SpecsAssumption DEF Done
<1>5. proc.resolved \in [Artifact -> Commit]
  BY <1>4 DEF ProvisioningInv, TypeOK, ProcType
<1>6. [a \in Artifact |-> disk[a].files] \in [Artifact -> Content]
  BY DEF ProvisioningInv, TypeOK, Path
<1>7. TypeOK'
  BY <1>1, <1>5, <1>6, ExitTypes, IdleType DEF ProvisioningInv, TypeOK, bounds
<1>8. ManifestComplete' /\ AbsentIsEmpty'
  BY <1>1, <1>4 DEF ManifestComplete, AbsentIsEmpty, ProvisioningInv
<1> QED
  BY <1>1, <1>7, <1>8, IdleStep DEF Exit

\* What a failure leaves behind is of the right types.
LEMMA FailStep ==
  ASSUME ProvisioningInv, Fail
  PROVE  ProvisioningInv'
<1>1. /\ Unfinished /\ Exit(FALSE) /\ proc.pc # "idle"
      /\ UNCHANGED <<head, damages, byHand>> /\ failures' = failures + 1
  BY DEF Fail
<1>2. /\ disk' \in [Artifact -> Path] /\ AbsentIsEmpty'
      /\ manifest' \in {manifest, Truncated}
  <2>1. CASE /\ proc.pc = "removing" /\ proc.at \in DOMAIN Specs /\ Now \in Directory
             /\ \E rest \in SUBSET disk[Now].files :
                   disk' = [disk EXCEPT ![Now] = Found(disk[Now].exists, rest)]
             /\ UNCHANGED manifest
    <3>1. Now \in Artifact
      BY <2>1, SpecsAreArtifacts DEF Now
    <3>2. PICK rest \in SUBSET disk[Now].files :
            disk' = [disk EXCEPT ![Now] = Found(disk[Now].exists, rest)]
      BY <2>1
    <3>4. rest \in Content /\ (~disk[Now].exists => rest = {})
      BY <3>1 DEF ProvisioningInv, TypeOK, Path, Content, AbsentIsEmpty
    <3> QED
      BY <2>1, <3>1, <3>2, <3>4 DEF Found, ProvisioningInv, TypeOK, Path, AbsentIsEmpty
  <2>2. CASE /\ proc.pc = "downloading" /\ Now \in Directory
             /\ \E part \in SUBSET {PartFile} :
                   disk' = [disk EXCEPT ![Now] = Found(TRUE, disk[Now].files \union part)]
             /\ UNCHANGED manifest
    <3>1. Now \in Artifact
      BY <2>2, SpecsAreArtifacts DEF Now, ProvisioningInv, CurrentGrows
    <3>2. PICK part \in SUBSET {PartFile} :
            disk' = [disk EXCEPT ![Now] = Found(TRUE, disk[Now].files \union part)]
      BY <2>2
    <3>3. disk[Now].files \union part \in Content
      BY <3>1 DEF ProvisioningInv, TypeOK, Path, Content, PartFile
    <3> QED
      BY <2>2, <3>1, <3>2, <3>3 DEF Found, ProvisioningInv, TypeOK, Path, AbsentIsEmpty
  <2>3. CASE UNCHANGED disk /\ manifest' \in {manifest, Truncated}
    BY <2>3 DEF ProvisioningInv, TypeOK, AbsentIsEmpty
  <2> QED
    BY <1>1, <2>1, <2>2, <2>3 DEF Unfinished
<1>3. manifest' = manifest \/ manifest'.state = "truncated"
  BY <1>2 DEF Truncated, NoManifest
<1>4. TypeOK'
  <2>1. /\ manifest'.state \in {"absent", "truncated", "written"}
        /\ manifest'.state = "written" => manifest' = manifest
    BY <1>3 DEF ProvisioningInv, TypeOK
  <2>2. proc' \in ProcType /\ stack' \in {"down", "provisioning", "provisioned", "verified", "up"}
    BY <1>1, ExitTypes, IdleType DEF ProvisioningInv
  <2> QED
    BY <1>1, <1>2, <2>1, <2>2 DEF ProvisioningInv, TypeOK
<1>5. ManifestComplete'
  BY <1>3 DEF ProvisioningInv, ManifestComplete
<1> QED
  BY <1>1, <1>2, <1>4, <1>5, IdleStep DEF Exit

\* Files on disk are lost or changed, and the manifest stays.
LEMMA DamageStep ==
  ASSUME ProvisioningInv, Damage
  PROVE  ProvisioningInv'
<1>a. PICK a \in Artifact : \E file \in disk[a].files :
        LET rest == disk[a].files \ {file}
        IN disk' \in {[disk EXCEPT ![a] = IF a \in Directory THEN Found(TRUE, rest) ELSE Nothing],
                      [disk EXCEPT ![a] = Found(TRUE, rest \union {<<file[1], NoCommit, "changed">>})]}
  BY DEF Damage
<1>b. PICK file \in disk[a].files : \E new \in
             {IF a \in Directory THEN Found(TRUE, disk[a].files \ {file}) ELSE Nothing,
              Found(TRUE, (disk[a].files \ {file}) \union {<<file[1], NoCommit, "changed">>})} :
        disk' = [disk EXCEPT ![a] = new]
  BY <1>a
<1>1. PICK new \in
             {IF a \in Directory THEN Found(TRUE, disk[a].files \ {file}) ELSE Nothing,
              Found(TRUE, (disk[a].files \ {file}) \union {<<file[1], NoCommit, "changed">>})} :
        disk' = [disk EXCEPT ![a] = new]
  BY <1>b
<1>2. disk[a].files \in Content
  BY DEF ProvisioningInv, TypeOK, Path
<1>3. <<file[1], NoCommit, "changed">> \in (File \union {Part}) \X (Commit \union {NoCommit})
                                          \X {"whole", "cut", "changed"}
  BY <1>2 DEF Content
<1>4. /\ disk[a].files \ {file} \in Content
      /\ (disk[a].files \ {file}) \union {<<file[1], NoCommit, "changed">>} \in Content
  BY <1>2, <1>3 DEF Content
<1>5. new \in Path /\ (~new.exists => new.files = {})
  <2>1. Nothing \in Path /\ Nothing.files = {}
    BY DEF Nothing, Found, Path, Content
  <2>2. ASSUME NEW x \in Content
        PROVE  Found(TRUE, x) \in Path /\ Found(TRUE, x).exists
    BY DEF Found, Path
  <2> QED
    BY <1>1, <1>4, <2>1, <2>2
<1>6. disk' \in [Artifact -> Path] /\ AbsentIsEmpty'
  <2>1. disk' \in [Artifact -> Path]
    BY <1>1, <1>5 DEF ProvisioningInv, TypeOK
  <2>2. disk'[a] = new /\ \A b \in Artifact : b # a => disk'[b] = disk[b]
    BY <1>1 DEF ProvisioningInv, TypeOK
  <2> QED
    BY <2>1, <2>2, <1>5 DEF ProvisioningInv, AbsentIsEmpty
<1>7. TypeOK'
  BY <1>6 DEF Damage, ProvisioningInv, TypeOK
<1> QED
  BY <1>6, <1>7 DEF Damage, ProvisioningInv, ManifestComplete, DoneComplete, CurrentGrows, Started

-----------------------------------------------------------------------------
(* The theorem *)

\* The invariant holds of an empty disk.
LEMMA ProvisioningInit == Init => ProvisioningInv
<1> SUFFICES ASSUME Init PROVE ProvisioningInv
  OBVIOUS
<1>1. TypeOK
  BY IdleType, BoundAssumption DEF Init, TypeOK, Path, Content, Nothing, Found, NoManifest, Commit
<1> QED
  BY <1>1 DEF Init, ProvisioningInv, ManifestComplete, AbsentIsEmpty, DoneComplete, CurrentGrows,
     Started, Idle, Nothing, Found, NoManifest

\* Every step keeps the invariant.
LEMMA ProvisioningNext == ProvisioningInv /\ [Next]_vars => ProvisioningInv'
<1> SUFFICES ASSUME ProvisioningInv, [Next]_vars PROVE ProvisioningInv'
  OBVIOUS
<1>1. CASE ComposeUp
  <2>1. Start("ensure") /\ stack' \in {"provisioned", "provisioning"}
    BY <1>1 DEF ComposeUp
  <2> QED
    BY <1>1, <2>1, StartStep DEF ComposeUp, bounds, ProvisioningInv, TypeOK
<1>2. CASE RunByHand
  <2>1. PICK mode \in {"plain", "ensure", "force"} : Start(mode)
    BY <1>2 DEF RunByHand
  <2> QED
    BY <1>2, <2>1, StartStep DEF RunByHand, ProvisioningInv, TypeOK
<1>3. CASE Provision
  BY <1>3, RemoveArtifactStep, RemoveManifestStep, RefuseStep, ResolveStep, DownloadStep,
     WriteManifestStep DEF Provision
<1>4. CASE Fail
  BY <1>4, FailStep
<1>5. CASE Preflight \/ StartApi \/ ComposeDown
  BY <1>5, OutsideStep DEF Preflight, StartApi, ComposeDown, bounds, ProvisioningInv, TypeOK
<1>6. CASE HeadMoves
  <2>1. PICK a \in Artifact : head[a] < MaxCommit /\ head' = [head EXCEPT ![a] = @ + 1]
    BY <1>6 DEF HeadMoves
  <2>2. head' \in [Artifact -> Commit]
    BY <2>1, BoundAssumption DEF ProvisioningInv, TypeOK, Commit
  <2> QED
    BY <1>6, <2>2, OutsideStep DEF HeadMoves, bounds, ProvisioningInv, TypeOK
<1>7. CASE Damage
  BY <1>7, DamageStep
<1>8. CASE UNCHANGED vars
  BY <1>8, OutsideStep DEF vars, ProvisioningInv, TypeOK
<1> QED
  BY <1>1, <1>2, <1>3, <1>4, <1>5, <1>6, <1>7, <1>8 DEF Next

\* The invariant holds in every behaviour.
THEOREM ProvisioningInvariant == Spec => []ProvisioningInv
BY ProvisioningInit, ProvisioningNext, PTL DEF Spec

\* The manifest of provision_local_models.py, once it verifies, stands for the files of one
\* commit of every artifact and no others, whatever runs failed or were killed before it
\* was written, and whatever bodies were cut short.
THEOREM VerifiedSetsAreSnapshots == Spec => []VerifiedIsOneSnapshot
<1>1. ProvisioningInv => VerifiedIsOneSnapshot
  BY DEF ProvisioningInv, ManifestComplete, VerifiedIsOneSnapshot, Verified, TypeOK
<1> QED
  BY <1>1, ProvisioningInvariant, PTL

-----------------------------------------------------------------------------
(* What verifies survives *)

\* --ensure removes nothing that verifies, and a download has files left.
NotAtWork ==
    /\ proc.pc = "removing" => proc.mode = "force" \/ ~Verified
    /\ proc.pc = "downloading" => proc.left # {}

\* While an artifact is downloaded it lacks a file, so no manifest describes it.
LEMMA HalfIsNotVerified ==
    ASSUME ProvisioningInv, NotAtWork, proc.pc = "downloading"
    PROVE  ~Verified
<1> SUFFICES ASSUME Verified PROVE FALSE
  OBVIOUS
<1> DEFINE a == Now
           c == proc.commit
           r == manifest.revision[a]
<1>1. /\ a \in Artifact /\ c \in Commit /\ proc.left # {}
      /\ proc.left \subseteq Snapshot[a][c]
      /\ Of(disk[a].files) = {<<f, c>> : f \in Snapshot[a][c] \ proc.left}
  BY SpecsAreArtifacts DEF ProvisioningInv, NotAtWork, CurrentGrows, Now
<1>2. /\ manifest.state = "written" /\ r \in Commit /\ Of(disk[a].files) = Complete(a, r)
  BY <1>1 DEF Verified, ProvisioningInv, TypeOK, ManifestComplete
<1>3. Complete(a, r) = {<<f, r>> : f \in Snapshot[a][r]} /\ Snapshot[a][r] # {}
  BY <1>1, <1>2, SnapshotAssumption DEF Complete
<1>4. PICK g \in Snapshot[a][r] : TRUE
  BY <1>3
<1>5. <<g, r>> \in {<<f, c>> : f \in Snapshot[a][c] \ proc.left}
  BY <1>1, <1>2, <1>3, <1>4
<1>6. r = c
  BY <1>5
<1>7. PICK h \in proc.left : TRUE
  BY <1>1
<1>8. <<h, c>> \in {<<f, c>> : f \in Snapshot[a][c] \ proc.left}
  BY <1>1, <1>2, <1>3, <1>6, <1>7
<1> QED
  BY <1>7, <1>8

\* Steps that leave disk, manifest and process alone leave it as it is.
LEMMA OutsideIsAtWork ==
    ASSUME NotAtWork, UNCHANGED <<disk, manifest, proc>>
    PROVE  NotAtWork'
  BY DEF NotAtWork, Verified

\* A run starts to remove what does not verify, or was told to.
LEMMA StartIsAtWork ==
    ASSUME ProvisioningInv, NotAtWork, NEW mode \in {"plain", "ensure", "force"}, Start(mode),
           UNCHANGED <<disk, manifest>>
    PROVE  NotAtWork'
<1>1. CASE Reusable(mode)
  BY <1>1, OutsideIsAtWork DEF Start
<1>2. CASE ~Reusable(mode)
  <2>1. proc' = [Idle EXCEPT !.pc = IF Removes(mode) THEN "removing" ELSE "resolving",
                             !.mode = mode, !.at = 1]
    BY <1>2 DEF Start
  <2>2. /\ proc'.pc = "removing" => mode \in {"ensure", "force"} /\ proc'.mode = mode
        /\ proc'.pc # "downloading"
    BY <2>1 DEF Idle, Removes
  <2>3. mode = "ensure" => ~Verified
    BY <1>2 DEF Reusable, Validated, Verified, ProvisioningInv, TypeOK
  <2> QED
    BY <2>2, <2>3 DEF NotAtWork, Verified
<1> QED
  BY <1>1, <1>2

\* Every step keeps it: what is removed is missing from then on.
LEMMA AtWorkStep ==
    ASSUME ProvisioningInv, NotAtWork, [Next]_vars
    PROVE  NotAtWork'
<1>1. CASE ComposeUp \/ RunByHand
  BY <1>1, StartIsAtWork DEF ComposeUp, RunByHand
<1>2. CASE RemoveArtifact
  <2>1. Now \in Artifact
    BY <1>2, SpecsAreArtifacts DEF RemoveArtifact, Now
  <2>2. ~disk'[Now].exists /\ manifest' = manifest
    BY <1>2, <2>1 DEF RemoveArtifact, Nothing, Found, ProvisioningInv, TypeOK
  <2>3. ~Verified'
    BY <2>1, <2>2 DEF Verified, ProvisioningInv, TypeOK
  <2> QED
    BY <1>2, <2>3 DEF RemoveArtifact, NotAtWork, ProvisioningInv, TypeOK, ProcType
<1>3. CASE RemoveManifest
  BY <1>3 DEF RemoveManifest, NotAtWork, ProvisioningInv, TypeOK, ProcType
<1>4. CASE Refuse \/ WriteManifest \/ Fail
  BY <1>4 DEF Refuse, WriteManifest, Fail, Exit, Idle, NotAtWork
<1>5. CASE Resolve
  <2>1. Now \in Artifact /\ head[Now] \in Commit
    BY <1>5, SpecsAreArtifacts DEF Resolve, Now, ProvisioningInv, TypeOK
  <2>2. Snapshot[Now][head[Now]] # {}
    BY <2>1, SnapshotAssumption
  <2>3. proc'.pc = "downloading" /\ proc'.left = Snapshot[Now][head[Now]]
    BY <1>5 DEF Resolve, ProvisioningInv, TypeOK, ProcType
  <2> QED
    BY <2>2, <2>3 DEF NotAtWork
<1>6. CASE Download
  <2>1. PICK f \in proc.left, state \in {"whole", "cut"} :
          proc' = IF proc.left # {f}
                  THEN [proc EXCEPT !.left = @ \ {f}]
                  ELSE [proc EXCEPT !.pc = "resolving", !.at = @ + 1, !.left = {},
                                    !.resolved[Now] = proc.commit]
    BY <1>6 DEF Download
  <2>2. CASE proc.left # {f}
    BY <1>6, <2>1, <2>2 DEF Download, NotAtWork, ProvisioningInv, TypeOK, ProcType
  <2>3. CASE proc.left = {f}
    BY <1>6, <2>1, <2>3 DEF NotAtWork, ProvisioningInv, TypeOK, ProcType
  <2> QED
    BY <2>2, <2>3
<1>7. CASE Preflight \/ StartApi \/ ComposeDown \/ HeadMoves \/ UNCHANGED vars
  BY <1>7, OutsideIsAtWork DEF Preflight, StartApi, ComposeDown, HeadMoves, vars
<1>8. CASE Damage
  BY <1>8 DEF Damage, NotAtWork
<1> QED
  BY <1>1, <1>2, <1>3, <1>4, <1>5, <1>6, <1>7, <1>8 DEF Next, Provision

\* A set that verifies is only given up by --force, by the disk, or by a failure while
\* its manifest is written anew (main, provision), whoever starts the provisioner when.
THEOREM VerifiedSetsSurvive == Spec => VerifiedSurvives
<1> DEFINE Given == \/ proc.mode = "force" /\ proc.pc = "removing"
                    \/ damages' # damages
                    \/ manifest' = Truncated
           Keeps == Verified /\ ~Verified' => Given
<1>1. Init => NotAtWork
  BY DEF Init, NotAtWork, Idle
<1>2. ProvisioningInv /\ NotAtWork /\ [Next]_vars => NotAtWork'
  BY AtWorkStep
<1>3. ProvisioningInv /\ NotAtWork /\ [Next]_vars => [Keeps]_vars
  <2> SUFFICES ASSUME ProvisioningInv, NotAtWork, Next, Verified, ~Verified' PROVE Given
    OBVIOUS
  <2>1. ~ UNCHANGED <<disk, manifest>>
    BY DEF Verified
  <2>2. proc.pc # "downloading"
    BY HalfIsNotVerified
  <2>3. proc.pc = "removing" => proc.mode = "force"
    BY DEF NotAtWork
  <2>4. CASE Damage
    BY <2>4 DEF Damage, ProvisioningInv, TypeOK
  <2>5. CASE Fail
    BY <2>1, <2>2, <2>3, <2>5 DEF Fail, Unfinished
  <2>6. CASE WriteManifest
    <3>1. \A a \in Artifact : disk[a].exists
      BY DEF Verified, ProvisioningInv, TypeOK
    <3>2. /\ manifest'.state = "written" /\ disk' = disk
          /\ manifest'.digest = [a \in Artifact |-> disk[a].files]
      BY <2>6 DEF WriteManifest
    <3>3. Verified'
      BY <3>1, <3>2 DEF Verified
    <3> QED
      BY <3>3
  <2>7. CASE RemoveArtifact \/ RemoveManifest
    BY <2>3, <2>7 DEF RemoveArtifact, RemoveManifest
  <2>8. CASE Download
    BY <2>2, <2>8 DEF Download
  <2> QED
    BY <2>1, <2>4, <2>5, <2>6, <2>7, <2>8
    DEF Next, Provision, ComposeUp, RunByHand, Refuse, Resolve, Preflight, StartApi,
        ComposeDown, HeadMoves
<1> QED
  BY <1>1, <1>2, <1>3, ProvisioningInvariant, PTL DEF Spec, VerifiedSurvives

=============================================================================
