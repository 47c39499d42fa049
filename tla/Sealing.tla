-------------------------------- MODULE Sealing --------------------------------
(***************************************************************************)
(* How a benchmark is sealed: the registration and its stages              *)
(* (src/src/v03-benchmark-contract.mjs), the authoring context taken from  *)
(* Checkpoint A (src/src/v03-benchmark-authoring.mjs), and the validation  *)
(* of the sealed and measured benchmark                                    *)
(* (src/src/v03-benchmark-validation.mjs).                                 *)
(*                                                                         *)
(* The files are written, committed and tagged by the team; the tools only *)
(* read them, except for the context and the evidence they write.  A file  *)
(* is the set of its contents: empty while it is missing.  The contents of *)
(* the frozen files are versions.  SHA-256 is taken as injective: a digest *)
(* is what it was computed from.                                           *)
(***************************************************************************)
EXTENDS Naturals, Sequences, FiniteSets

CONSTANTS Versions,   \* what a frozen file may hold
          CommitMax,  \* bound: commits of the team
          EditMax     \* bound: edits of a file that was written already

ASSUME BoundsAssumption == CommitMax \in Nat /\ EditMax \in Nat /\ 0 \notin Versions

VARIABLES tree,      \* the working tree
          commits,   \* the commits so far, with their parents
          sealedTag, \* the commit the sealed tag names, 0 for none
          contexts,  \* the authoring contexts written
          fileEdits

sealingVars == <<tree, commits, sealedTag, contexts, fileEdits>>

-----------------------------------------------------------------------------
\* registration.json.  A field is 0, FALSE or empty while it is null.
Unsealed ==
  [status |-> "approved-unsealed", policy |-> "approved",
   rowIds |-> 0, adapters |-> 0, truthRef |-> 0, images |-> {},
   commitA |-> 0, commitB |-> 0, sealedRef |-> FALSE,
   bundleDigest |-> {}, manifestDigest |-> {}, epochId |-> {}]

AuthoringReady(reg) ==
  /\ reg.rowIds # 0 /\ reg.adapters # 0 /\ reg.truthRef # 0
  /\ reg.commitA # 0

MeasurementReady(reg) ==
  /\ AuthoringReady(reg)
  /\ reg.bundleDigest # {} /\ reg.manifestDigest # {}
  /\ reg.images # {}
  /\ reg.commitB # 0 /\ reg.sealedRef
  /\ reg.epochId # {}

ValidateRegistration(reg) ==
  /\ reg.policy = "approved"
  /\ reg.status = "sealed" => MeasurementReady(reg)

ActualReadiness(reg) ==
  /\ ValidateRegistration(reg)
  /\ reg.status = "sealed" /\ MeasurementReady(reg)

\* Plausible bug: the digest of the registration leaves out the frozen adapters.
EpochProjectionWithoutAdapters(reg) == [reg EXCEPT !.epochId = {}, !.adapters = 0]

\* registrationEpochProjection: the registration that the epoch is named after.
EpochProjection(reg) == [reg EXCEPT !.epochId = {}]

-----------------------------------------------------------------------------
\* Git: a commit keeps the files a check reads of it.
Tip == Len(commits)
Ancestors[c \in 0..Tip] == IF c = 0 THEN {} ELSE {c} \cup Ancestors[commits[c].parent]

Snapshot(parent) ==
  [parent |-> parent, inputs |-> tree.inputs, truth |-> tree.truth,
   reg |-> tree.reg, bundle |-> tree.bundle, manifest |-> tree.manifest]

CommitOn(parent) ==
  /\ Tip < CommitMax
  /\ commits' = Append(commits, Snapshot(parent))
  /\ UNCHANGED <<tree, sealedTag, contexts>>

\* There is nothing to commit while the tree is that of the head.
Commit ==
  /\ Tip # 0 => Snapshot(commits[Tip].parent) # commits[Tip]
  /\ CommitOn(Tip)
  /\ UNCHANGED fileEdits

Amend ==
  /\ Tip # 0 /\ fileEdits < EditMax
  /\ CommitOn(commits[Tip].parent)
  /\ fileEdits' = fileEdits + 1

Tag ==
  /\ Tip # 0 /\ sealedTag # Tip
  /\ sealedTag' = Tip
  /\ UNCHANGED <<tree, commits, contexts, fileEdits>>

-----------------------------------------------------------------------------
\* What the team writes into the registration, a step at a time.
Write(newTree) == tree' = newTree /\ UNCHANGED <<commits, sealedTag, contexts, fileEdits>>
Record(reg) == tree.reg # reg /\ Write([tree EXCEPT !.reg = reg])

RecordUniverse ==
  \/ Record([tree.reg EXCEPT !.rowIds = tree.universe, !.adapters = tree.inputs])
  \/ Record([tree.reg EXCEPT !.truthRef = tree.truth])

\* phase4PreparedImageIdentities: what the registration names of the images.
PreparedImageIdentities(p) == {p}

RecordImages ==
  \E p \in tree.preparation :
    Record([tree.reg EXCEPT !.images = PreparedImageIdentities(p)])

RecordCheckpointA ==
  /\ tree.reg.commitA = 0 /\ Tip # 0
  /\ Record([tree.reg EXCEPT !.commitA = Tip])
RecordAuthors ==
  /\ tree.bundle # {} /\ tree.manifest # {}
  /\ Record([tree.reg EXCEPT !.bundleDigest = tree.bundle, !.manifestDigest = tree.manifest])
RecordCheckpointB ==
  /\ tree.bundle # {} /\ Tip # 0
  /\ Record([tree.reg EXCEPT !.commitB = Tip, !.sealedRef = TRUE])

\* An edit of what was frozen: by mistake, or since a result was not liked.
EditTo(newTree) ==
  /\ fileEdits < EditMax /\ newTree # tree
  /\ tree' = newTree
  /\ fileEdits' = fileEdits + 1
  /\ UNCHANGED <<commits, sealedTag, contexts>>

Edit ==
  \/ \E v \in Versions :
       \/ EditTo([tree EXCEPT !.universe = v])
       \/ EditTo([tree EXCEPT !.truth = v])
       \/ EditTo([tree EXCEPT !.inputs = v])
       \/ EditTo([tree EXCEPT !.harness = v])
       \/ tree.reg.adapters # 0 /\ EditTo([tree EXCEPT !.reg.adapters = v])
  \/ EditTo([tree EXCEPT !.reg.policy = "weakened"])
  \/ EditTo([tree EXCEPT !.reg.commitA = 0])
  \/ EditTo([tree EXCEPT !.reg.status = "sealed"])

-----------------------------------------------------------------------------
\* prepare-v03-benchmark: the images hold the frozen files and the code.
Prepared ==
  [universe |-> tree.universe, truth |-> tree.truth, harness |-> tree.harness]

Prepare ==
  /\ ValidateRegistration(tree.reg)
  /\ tree.preparation # {Prepared}
  /\ Write([tree EXCEPT !.preparation = {Prepared}])

-----------------------------------------------------------------------------
\* prepare-v03-authoring: the frozen files of Checkpoint A are compared with the tree.
DeclaredAuthoringReady(reg) ==
  /\ ValidateRegistration(reg)
  /\ AuthoringReady(reg)
  /\ reg.images # {}

\* Plausible bug: only the images of Checkpoint A are compared.
CheckpointImages(reg) == reg.images

CheckpointProjection(reg) ==
  [rowIds |-> reg.rowIds, adapters |-> reg.adapters, truthRef |-> reg.truthRef,
   images |-> reg.images]

AssertAuthoringReady(reg) ==
  /\ DeclaredAuthoringReady(reg)
  /\ LET checkpointA == commits[reg.commitA]
     IN /\ ValidateRegistration(checkpointA.reg)
        /\ checkpointA.reg.commitA = 0
        /\ CheckpointProjection(checkpointA.reg) = CheckpointProjection(reg)
        /\ checkpointA.inputs = tree.inputs
        /\ checkpointA.truth = tree.truth /\ checkpointA.truth = reg.truthRef

\* planAuthoringContext: the catalogs are those of Checkpoint A.
ContextOf(reg) == [checkpointA |-> reg.commitA, inputs |-> commits[reg.commitA].inputs]

MaterializeContext ==
  /\ AssertAuthoringReady(tree.reg)
  /\ ContextOf(tree.reg) \notin contexts
  /\ contexts' = contexts \cup {ContextOf(tree.reg)}
  /\ UNCHANGED <<tree, commits, sealedTag, fileEdits>>

\* The sessions of both arms, the bundle of their seeds and the order of their rows.
Author ==
  \E context \in contexts :
    LET bundle == [checkpointA |-> context.checkpointA, seedsOf |-> context]
        manifest == [checkpointA |-> context.checkpointA, rowIds |-> tree.universe,
                     seedsOf |-> context]
    IN /\ <<tree.bundle, tree.manifest>> # <<{bundle}, {manifest}>>
       /\ Write([tree EXCEPT !.bundle = {bundle}, !.manifest = {manifest}])

-----------------------------------------------------------------------------
\* The epoch receipt, and the measurement under it.
Closure(reg, resolved, harness) ==
  [checkpointA |-> reg.commitA, checkpointB |-> reg.commitB, resolvedOid |-> resolved,
   registration |-> EpochProjection(reg), images |-> reg.images,
   manifest |-> reg.manifestDigest, harness |-> harness]

Seal ==
  LET sealed == [tree.reg EXCEPT !.status = "sealed"]
      closure == Closure(sealed, sealedTag, tree.harness)
  IN /\ tree.epoch # {closure} \/ tree.reg.epochId # {closure}
     /\ MeasurementReady([sealed EXCEPT !.epochId = {closure}])
     /\ Write([tree EXCEPT !.epoch = {closure}, !.reg = [sealed EXCEPT !.epochId = {closure}]])

AssertMeasurementReady(reg, resolved) ==
  /\ ValidateRegistration(reg)
  /\ reg.status = "sealed" /\ MeasurementReady(reg)
  /\ resolved = reg.commitB

Measurement ==
  [epochId |-> tree.reg.epochId, rowIds |-> tree.universe, truth |-> tree.truth,
   manifest |-> tree.manifest, image |-> tree.preparation]

Measure ==
  /\ AssertMeasurementReady(tree.reg, sealedTag)
  /\ tree.measurement = {}
  /\ Write([tree EXCEPT !.measurement = {Measurement}])

-----------------------------------------------------------------------------
\* validate-v03 benchmark.
ValidateAuthorBundle(bundle, reg) ==
  /\ bundle.checkpointA = reg.commitA
  /\ {bundle} = reg.bundleDigest

ValidateExecutionManifest(manifest, reg) ==
  /\ manifest.checkpointA = reg.commitA
  /\ {manifest} = reg.manifestDigest

ValidateEpochClosure(closure, reg) ==
  /\ ActualReadiness(reg)
  /\ closure.checkpointA = reg.commitA /\ closure.checkpointB = reg.commitB
  /\ closure.checkpointA # closure.checkpointB
  /\ closure.resolvedOid = closure.checkpointB
  /\ closure.registration = EpochProjection(reg)
  /\ closure.images = reg.images
  /\ closure.manifest = reg.manifestDigest
  /\ {closure} = reg.epochId

ValidateFrozenInputs(measurement, reg) ==
  /\ tree.universe = reg.rowIds /\ tree.universe = measurement.rowIds
  /\ tree.truth = measurement.truth

\* The code in the repository is that of the images and that of the epoch.
ValidatePreparationSourceClosure(p, closure) ==
  p.harness = tree.harness /\ p.harness = closure.harness

\* Plausible bug: of the bytes the images sealed, those of the universe are not looked at.
ValidatePreparedTruth(p, closure, reg) ==
  /\ ValidatePreparationSourceClosure(p, closure)
  /\ p.truth = tree.truth
  /\ PreparedImageIdentities(p) = reg.images

ValidatePreparation(p, closure, reg) ==
  /\ ValidatePreparationSourceClosure(p, closure)
  /\ p.universe = tree.universe /\ p.truth = tree.truth
  /\ PreparedImageIdentities(p) = reg.images

ValidateGitCheckpointOrder(reg) ==
  /\ ActualReadiness(reg)
  /\ reg.commitA \in Ancestors[reg.commitB]
  /\ sealedTag = reg.commitB

\* Plausible bug: only the author bundle is compared with Checkpoint B.
ValidateGitBundle(reg) == commits[reg.commitB].bundle = tree.bundle

ValidateGitCheckpointContents(reg) ==
  /\ commits[reg.commitB].bundle = tree.bundle
  /\ commits[reg.commitB].manifest = tree.manifest

ValidateEvidence(closure, bundle, manifest, measurement, reg) ==
  /\ ValidateEpochClosure(closure, reg)
  /\ ValidateAuthorBundle(bundle, reg)
  /\ ValidateExecutionManifest(manifest, reg)
  /\ measurement.rowIds = reg.rowIds
  /\ measurement.manifest = {manifest}

PreparedRunBinding(measurement, p) == measurement.image = {p}

Accepted ==
  LET reg == tree.reg
  IN /\ ActualReadiness(reg)
     /\ tree.truth = reg.truthRef
     /\ \E p \in tree.preparation, closure \in tree.epoch, bundle \in tree.bundle,
           manifest \in tree.manifest, measurement \in tree.measurement :
          /\ ValidateFrozenInputs(measurement, reg)
          /\ ValidatePreparation(p, closure, reg)
          /\ ValidateGitCheckpointOrder(reg)
          /\ ValidateGitCheckpointContents(reg)
          /\ ValidateEvidence(closure, bundle, manifest, measurement, reg)
          /\ PreparedRunBinding(measurement, p)

-----------------------------------------------------------------------------
SealingInit ==
  /\ tree = [universe |-> 1, truth |-> 1, inputs |-> 1, harness |-> 1,
             reg |-> Unsealed, preparation |-> {}, bundle |-> {}, manifest |-> {},
             epoch |-> {}, measurement |-> {}]
  /\ commits = <<>> /\ sealedTag = 0
  /\ contexts = {}
  /\ fileEdits = 0

SealingNext ==
  \/ Commit \/ Amend \/ Tag
  \/ RecordUniverse \/ RecordImages \/ RecordCheckpointA \/ RecordAuthors \/ RecordCheckpointB
  \/ Edit
  \/ Prepare \/ MaterializeContext \/ Author
  \/ Seal \/ Measure

SealingSpec == SealingInit /\ [][SealingNext]_sealingVars

-----------------------------------------------------------------------------
\* What an author saw was frozen before: the checkpoint of a context names the rows,
\* the truth as it was committed and the images, and the catalogs are its own.
ContextIsOfCheckpointA ==
  \A context \in contexts :
    LET checkpointA == commits[context.checkpointA]
    IN /\ checkpointA.reg.rowIds # 0 /\ checkpointA.reg.adapters # 0
       /\ checkpointA.reg.truthRef = checkpointA.truth
       /\ checkpointA.reg.images # {}
       /\ context.inputs = checkpointA.inputs

\* An accepted measurement ran the seeds and the rows that the tagged commit holds, in
\* a line of history that starts at the checkpoint its authors were given.
AcceptedIsUnderTheTag ==
  Accepted =>
    /\ commits[sealedTag].bundle = tree.bundle
    /\ \A measurement \in tree.measurement :
         /\ measurement.manifest = commits[sealedTag].manifest
         /\ \A manifest \in measurement.manifest :
              /\ manifest.seedsOf \in contexts
              /\ manifest.checkpointA \in Ancestors[sealedTag] \ {sealedTag}

\* The images that ran an accepted measurement hold the rows and the truth it is scored
\* by, and the code that is in the repository.
ImagesHoldTheUniverse ==
  Accepted =>
    \A measurement \in tree.measurement : \A image \in measurement.image :
      /\ image.universe = measurement.rowIds /\ image.truth = measurement.truth
      /\ image.truth = tree.reg.truthRef
      /\ image.harness = tree.harness

\* An accepted registration does not change without a new epoch.
SealedRegistrationIsFixed ==
  [][Accepted /\ Accepted' /\ tree.reg # tree'.reg => tree.epoch # tree'.epoch]_sealingVars

\* The truth table of registration.json: retentionDenominatorMutation is
\* "forbidden-after-checkpointA".
UniverseIsThatOfCheckpointA ==
  Accepted => LET checkpointA == commits[tree.reg.commitA].reg
              IN checkpointA.rowIds = tree.reg.rowIds /\ checkpointA.truthRef = tree.reg.truthRef
=============================================================================
