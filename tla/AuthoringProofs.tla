--------------------------- MODULE AuthoringProofs ---------------------------
(***************************************************************************)
(* Proofs about what happens before a benchmark is measured.               *)
(*                                                                         *)
(* Sealing: for any number of commits and edits and any contents of the    *)
(* frozen files.  The ancestry of commits stays opaque: the results need   *)
(* that the validator asks for it, not what it is.                         *)
(*                                                                         *)
(* The artifact factory and Preparation: for any plan, that is any number  *)
(* of packages, defects and smoke cases and any budgets.                   *)
(***************************************************************************)
EXTENDS Sealing, Preparation, Histories, TLAPS

-----------------------------------------------------------------------------
(***************************************************************************)
(* Sealing: the invariant.  What a context is bound to is not inductive by *)
(* itself: the recorded Checkpoint A must be a commit, and commits only be *)
(* added.                                                                  *)
(***************************************************************************)

\* A value with exactly the fields of a registration.
IsRegistration(reg) ==
  reg = [status |-> reg.status, policy |-> reg.policy, rowIds |-> reg.rowIds,
         adapters |-> reg.adapters, truthRef |-> reg.truthRef, images |-> reg.images,
         commitA |-> reg.commitA, commitB |-> reg.commitB, sealedRef |-> reg.sealedRef,
         bundleDigest |-> reg.bundleDigest, manifestDigest |-> reg.manifestDigest,
         epochId |-> reg.epochId]

TreeShape ==
  /\ tree = [universe |-> tree.universe, truth |-> tree.truth, inputs |-> tree.inputs,
             harness |-> tree.harness, reg |-> tree.reg, preparation |-> tree.preparation,
             bundle |-> tree.bundle, manifest |-> tree.manifest, epoch |-> tree.epoch,
             measurement |-> tree.measurement]
  /\ IsRegistration(tree.reg)

\* The commits are a history, and the recorded checkpoint is one of them.
CheckpointInv == History(commits) /\ tree.reg.commitA \in 0..Len(commits)

\* What the authors of a context saw was frozen in its checkpoint.
Frozen(context) ==
  /\ context.checkpointA \in 1..Len(commits)
  /\ LET checkpointA == commits[context.checkpointA]
     IN /\ checkpointA.reg.rowIds # 0 /\ checkpointA.reg.adapters # 0
        /\ checkpointA.reg.truthRef = checkpointA.truth
        /\ checkpointA.reg.images # {}
        /\ context.inputs = checkpointA.inputs

ContextInv == \A context \in contexts : Frozen(context)

\* A file is missing or has one content.
Single(file) == \A a, b \in file : a = b
FileInv ==
  /\ Single(tree.manifest) /\ Single(tree.epoch) /\ Single(tree.measurement)
  /\ \A manifest \in tree.manifest : manifest.seedsOf \in contexts

SInv == TreeShape /\ CheckpointInv /\ ContextInv /\ FileInv

\* An entry in the registration leaves it a registration, of the same checkpoint.
LEMMA FieldKeeps ==
  ASSUME NEW reg, IsRegistration(reg), NEW v
  PROVE  /\ IsRegistration([reg EXCEPT !.adapters = v])
         /\ [reg EXCEPT !.adapters = v].commitA = reg.commitA
         /\ IsRegistration([reg EXCEPT !.manifestDigest = v])
         /\ [reg EXCEPT !.manifestDigest = v].commitA = reg.commitA
         /\ IsRegistration([reg EXCEPT !.sealedRef = v])
         /\ [reg EXCEPT !.sealedRef = v].commitA = reg.commitA
<1>1. /\ IsRegistration([reg EXCEPT !.adapters = v])
      /\ [reg EXCEPT !.adapters = v].commitA = reg.commitA
  BY DEF IsRegistration
<1>2. /\ IsRegistration([reg EXCEPT !.manifestDigest = v])
      /\ [reg EXCEPT !.manifestDigest = v].commitA = reg.commitA
  BY DEF IsRegistration
<1>3. /\ IsRegistration([reg EXCEPT !.sealedRef = v])
      /\ [reg EXCEPT !.sealedRef = v].commitA = reg.commitA
  BY DEF IsRegistration
<1>4. QED
  BY <1>1, <1>2, <1>3

LEMMA InitSInv == SealingInit => SInv
<1> SUFFICES ASSUME SealingInit PROVE SInv
  OBVIOUS
<1>1. TreeShape
  BY DEF SealingInit, TreeShape, IsRegistration, Unsealed
<1>2. CheckpointInv
  BY HistoryStarts DEF SealingInit, CheckpointInv, Unsealed
<1>3. ContextInv /\ FileInv
  BY DEF SealingInit, ContextInv, FileInv, Single
<1>4. QED
  BY <1>1, <1>2, <1>3 DEF SInv

\* A commit changes nothing else, and no earlier commit.
LEMMA CommitKeeps ==
  ASSUME SInv, NEW parent, CommitOn(parent)
  PROVE  SInv'
<1>1. /\ History(commits')
      /\ Len(commits) \in Nat /\ Len(commits') = Len(commits) + 1
      /\ \A c \in 1..Len(commits) : commits'[c] = commits[c]
  BY HistoryGrows DEF SInv, CheckpointInv, CommitOn
<1>2. UNCHANGED <<tree, contexts>>
  BY DEF CommitOn
<1>3. TreeShape' /\ FileInv'
  BY <1>2 DEF SInv, TreeShape, FileInv, Single
<1>4. CheckpointInv'
  BY <1>1, <1>2 DEF SInv, CheckpointInv
<1>5. ContextInv'
  BY <1>1, <1>2 DEF SInv, ContextInv, Frozen
<1>6. QED
  BY <1>3, <1>4, <1>5 DEF SInv

\* A step that only changes the registration, and its Checkpoint A to a commit or null.
LEMMA RegistrationKeeps ==
  ASSUME SInv, NEW reg, IsRegistration(reg), reg.commitA \in 0..Len(commits),
         tree' = [tree EXCEPT !.reg = reg], UNCHANGED <<commits, contexts>>
  PROVE  SInv'
<1>1. /\ tree'.reg = reg
      /\ tree'.manifest = tree.manifest /\ tree'.epoch = tree.epoch
      /\ tree'.measurement = tree.measurement
  BY DEF SInv, TreeShape
<1>2. TreeShape'
  BY <1>1 DEF SInv, TreeShape
<1>3. CheckpointInv' /\ ContextInv' /\ FileInv'
  BY <1>1 DEF SInv, CheckpointInv, ContextInv, Frozen, FileInv
<1>4. QED
  BY <1>2, <1>3 DEF SInv

\* A step that leaves the registration, the bundle's context and the evidence alone.
LEMMA FileKeeps ==
  ASSUME SInv, UNCHANGED <<commits, contexts>>, TreeShape', tree'.reg = tree.reg,
         tree'.manifest = tree.manifest, tree'.epoch = tree.epoch,
         Single(tree'.measurement)
  PROVE  SInv'
BY DEF SInv, CheckpointInv, ContextInv, Frozen, FileInv

\* Every entry the team makes in the registration.
LEMMA RecordingKeeps ==
  ASSUME SInv,
         RecordUniverse \/ RecordImages \/ RecordCheckpointA \/ RecordAuthors \/ RecordCheckpointB
  PROVE  SInv'
<1> DEFINE reg == tree.reg
<1>1. Len(commits) \in Nat
  BY HistoryGrows DEF SInv, CheckpointInv
<1>2. CASE Record([reg EXCEPT !.rowIds = tree.universe, !.adapters = tree.inputs])
  <2> DEFINE first == [reg EXCEPT !.rowIds = tree.universe]
             named == [first EXCEPT !.adapters = tree.inputs]
  <2>1. IsRegistration(first) /\ first.commitA = reg.commitA
    BY DEF SInv, TreeShape, IsRegistration
  <2>2. IsRegistration(named) /\ named.commitA = first.commitA
    BY ONLY <2>1, FieldKeeps
  <2>3. QED
    BY <1>2, <2>1, <2>2, RegistrationKeeps DEF Record, Write, SInv, CheckpointInv
<1>3. CASE Record([reg EXCEPT !.truthRef = tree.truth])
  <2>1. IsRegistration([reg EXCEPT !.truthRef = tree.truth])
    BY DEF SInv, TreeShape, IsRegistration
  <2>2. [reg EXCEPT !.truthRef = tree.truth].commitA = reg.commitA
    BY DEF SInv, TreeShape, IsRegistration
  <2>3. QED
    BY <1>3, <2>1, <2>2, RegistrationKeeps DEF Record, Write, SInv, CheckpointInv
<1>4. ASSUME NEW p, Record([reg EXCEPT !.images = PreparedImageIdentities(p)])
      PROVE  SInv'
  <2>1. IsRegistration([reg EXCEPT !.images = PreparedImageIdentities(p)])
    BY DEF SInv, TreeShape, IsRegistration
  <2>2. [reg EXCEPT !.images = PreparedImageIdentities(p)].commitA = reg.commitA
    BY DEF SInv, TreeShape, IsRegistration
  <2>3. QED
    BY <1>4, <2>1, <2>2, RegistrationKeeps DEF Record, Write, SInv, CheckpointInv
<1>5. CASE RecordCheckpointA
  <2>1. IsRegistration([reg EXCEPT !.commitA = Tip])
    BY DEF SInv, TreeShape, IsRegistration
  <2>2. [reg EXCEPT !.commitA = Tip].commitA = Tip
    BY DEF SInv, TreeShape, IsRegistration
  <2>3. Tip \in 0..Len(commits)
    BY <1>1 DEF Tip
  <2>4. QED
    BY <1>5, <2>1, <2>2, <2>3, RegistrationKeeps DEF RecordCheckpointA, Record, Write
<1>6. CASE RecordAuthors
  <2> DEFINE first == [reg EXCEPT !.bundleDigest = tree.bundle]
             named == [first EXCEPT !.manifestDigest = tree.manifest]
  <2>1. IsRegistration(first) /\ first.commitA = reg.commitA
    BY DEF SInv, TreeShape, IsRegistration
  <2>2. IsRegistration(named) /\ named.commitA = first.commitA
    BY ONLY <2>1, FieldKeeps
  <2>3. QED
    BY <1>6, <2>1, <2>2, RegistrationKeeps DEF RecordAuthors, Record, Write, SInv, CheckpointInv
<1>7. CASE RecordCheckpointB
  <2> DEFINE first == [reg EXCEPT !.commitB = Tip]
             named == [first EXCEPT !.sealedRef = TRUE]
  <2>1. IsRegistration(first) /\ first.commitA = reg.commitA
    BY DEF SInv, TreeShape, IsRegistration
  <2>2. IsRegistration(named) /\ named.commitA = first.commitA
    BY ONLY <2>1, FieldKeeps
  <2>3. QED
    BY <1>7, <2>1, <2>2, RegistrationKeeps DEF RecordCheckpointB, Record, Write, SInv, CheckpointInv
<1>8. QED
  BY <1>2, <1>3, <1>4, <1>5, <1>6, <1>7 DEF RecordUniverse, RecordImages

\* Every edit of a file that was written already.
LEMMA EditKeeps ==
  ASSUME SInv, Edit
  PROVE  SInv'
<1> DEFINE reg == tree.reg
<1>0. /\ 0 \in 0..Len(commits)
      /\ UNCHANGED <<commits, contexts>>
  BY HistoryGrows DEF SInv, CheckpointInv, Edit, EditTo
<1>1. ASSUME NEW v \in Versions,
             \/ EditTo([tree EXCEPT !.universe = v])
             \/ EditTo([tree EXCEPT !.truth = v])
             \/ EditTo([tree EXCEPT !.inputs = v])
             \/ EditTo([tree EXCEPT !.harness = v])
      PROVE  SInv'
  <2>1. TreeShape'
    BY <1>1 DEF EditTo, SInv, TreeShape
  <2>2. /\ tree'.reg = reg /\ tree'.manifest = tree.manifest
        /\ tree'.epoch = tree.epoch /\ tree'.measurement = tree.measurement
    BY <1>1 DEF EditTo, SInv, TreeShape
  <2>3. QED
    BY <1>0, <2>1, <2>2, FileKeeps DEF SInv, FileInv
<1>2. ASSUME NEW v \in Versions, EditTo([tree EXCEPT !.reg.adapters = v])
      PROVE  SInv'
  <2> DEFINE edited == [reg EXCEPT !.adapters = v]
  <2>1. IsRegistration(edited) /\ edited.commitA = reg.commitA
    BY DEF SInv, TreeShape, IsRegistration
  <2>2. tree' = [tree EXCEPT !.reg = edited]
    BY <1>2 DEF EditTo
  <2>3. QED
    BY <1>0, <2>1, <2>2, RegistrationKeeps DEF SInv, CheckpointInv
<1>3. CASE EditTo([tree EXCEPT !.reg.policy = "weakened"])
  <2> DEFINE edited == [reg EXCEPT !.policy = "weakened"]
  <2>1. IsRegistration(edited) /\ edited.commitA = reg.commitA
    BY DEF SInv, TreeShape, IsRegistration
  <2>2. tree' = [tree EXCEPT !.reg = edited]
    BY <1>3 DEF EditTo
  <2>3. QED
    BY <1>0, <2>1, <2>2, RegistrationKeeps DEF SInv, CheckpointInv
<1>4. CASE EditTo([tree EXCEPT !.reg.commitA = 0])
  <2> DEFINE edited == [reg EXCEPT !.commitA = 0]
  <2>1. IsRegistration(edited) /\ edited.commitA = 0
    BY DEF SInv, TreeShape, IsRegistration
  <2>2. tree' = [tree EXCEPT !.reg = edited]
    BY <1>4 DEF EditTo
  <2>3. QED
    BY <1>0, <2>1, <2>2, RegistrationKeeps
<1>5. CASE EditTo([tree EXCEPT !.reg.status = "sealed"])
  <2> DEFINE edited == [reg EXCEPT !.status = "sealed"]
  <2>1. IsRegistration(edited) /\ edited.commitA = reg.commitA
    BY DEF SInv, TreeShape, IsRegistration
  <2>2. tree' = [tree EXCEPT !.reg = edited]
    BY <1>5 DEF EditTo
  <2>3. QED
    BY <1>0, <2>1, <2>2, RegistrationKeeps DEF SInv, CheckpointInv
<1>6. QED
  BY <1>1, <1>2, <1>3, <1>4, <1>5 DEF Edit

\* A context is taken from a checkpoint that was compared with the tree.
LEMMA ContextKeeps ==
  ASSUME SInv, MaterializeContext
  PROVE  SInv'
<1> DEFINE reg == tree.reg
           context == ContextOf(reg)
<1>1. UNCHANGED <<tree, commits>> /\ contexts' = contexts \cup {context}
  BY DEF MaterializeContext
<1>2. TreeShape' /\ CheckpointInv'
  BY <1>1 DEF SInv, TreeShape, CheckpointInv
<1>3. FileInv'
  BY <1>1 DEF SInv, FileInv
<1>4. Frozen(context)
  <2>1. /\ context.checkpointA = reg.commitA
        /\ context.inputs = commits[reg.commitA].inputs
    BY DEF ContextOf
  <2>2. reg.commitA \in 1..Len(commits)
    <3>1. reg.commitA \in 0..Len(commits) /\ reg.commitA # 0
      BY DEF SInv, CheckpointInv, MaterializeContext, AssertAuthoringReady,
             DeclaredAuthoringReady, AuthoringReady
    <3>2. Len(commits) \in Nat
      BY HistoryGrows DEF SInv, CheckpointInv
    <3>3. QED
      BY <3>1, <3>2
  <2>3. /\ CheckpointProjection(commits[reg.commitA].reg) = CheckpointProjection(reg)
        /\ commits[reg.commitA].truth = reg.truthRef
        /\ reg.rowIds # 0 /\ reg.adapters # 0 /\ reg.images # {}
    BY DEF MaterializeContext, AssertAuthoringReady, DeclaredAuthoringReady, AuthoringReady
  <2>4. /\ commits[reg.commitA].reg.rowIds = reg.rowIds
        /\ commits[reg.commitA].reg.adapters = reg.adapters
        /\ commits[reg.commitA].reg.truthRef = reg.truthRef
        /\ commits[reg.commitA].reg.images = reg.images
    BY <2>3 DEF CheckpointProjection
  <2>5. QED
    BY <2>1, <2>2, <2>3, <2>4 DEF Frozen
<1>5. ContextInv'
  BY <1>1, <1>4 DEF SInv, ContextInv, Frozen
<1>6. QED
  BY <1>2, <1>3, <1>5 DEF SInv

\* The bundle and the manifest of a run's authors are of one of the contexts.
LEMMA AuthorKeeps ==
  ASSUME SInv, Author
  PROVE  SInv'
<1>1. PICK bundle, manifest :
        /\ manifest.seedsOf \in contexts
        /\ tree' = [tree EXCEPT !.bundle = {bundle}, !.manifest = {manifest}]
        /\ UNCHANGED <<commits, contexts>>
  <2>1. PICK context \in contexts :
          LET bundle == [checkpointA |-> context.checkpointA, seedsOf |-> context]
              manifest == [checkpointA |-> context.checkpointA, rowIds |-> tree.universe,
                           seedsOf |-> context]
          IN Write([tree EXCEPT !.bundle = {bundle}, !.manifest = {manifest}])
    BY DEF Author
  <2> DEFINE bundle == [checkpointA |-> context.checkpointA, seedsOf |-> context]
             manifest == [checkpointA |-> context.checkpointA, rowIds |-> tree.universe,
                          seedsOf |-> context]
  <2>2. manifest.seedsOf \in contexts
    OBVIOUS
  <2>3. /\ tree' = [tree EXCEPT !.bundle = {bundle}, !.manifest = {manifest}]
        /\ UNCHANGED <<commits, contexts>>
    BY <2>1 DEF Write
  <2> HIDE DEF bundle, manifest
  <2>4. QED
    BY <2>2, <2>3
<1> DEFINE bundled == [tree EXCEPT !.bundle = {bundle}]
<1>2. /\ tree' = [bundled EXCEPT !.manifest = {manifest}]
      /\ tree'.manifest = {manifest} /\ tree'.reg = tree.reg
      /\ tree'.epoch = tree.epoch /\ tree'.measurement = tree.measurement
  BY <1>1 DEF SInv, TreeShape
<1>3. TreeShape'
  BY <1>1, <1>2 DEF SInv, TreeShape
<1>4. CheckpointInv' /\ ContextInv'
  BY <1>1, <1>2 DEF SInv, CheckpointInv, ContextInv, Frozen
<1>5. FileInv'
  BY <1>1, <1>2 DEF SInv, FileInv, Single
<1>6. QED
  BY <1>3, <1>4, <1>5 DEF SInv

\* Sealing writes one epoch, and names it in the registration.
LEMMA SealKeeps ==
  ASSUME SInv, Seal
  PROVE  SInv'
<1> DEFINE reg == tree.reg
           sealed == [reg EXCEPT !.status = "sealed"]
           closure == Closure(sealed, sealedTag, tree.harness)
           named == [sealed EXCEPT !.epochId = {closure}]
<1>1. /\ tree' = [tree EXCEPT !.epoch = {closure}, !.reg = named]
      /\ UNCHANGED <<commits, contexts>>
  BY DEF Seal, Write
<1>2. IsRegistration(named) /\ named.commitA = reg.commitA
  <2>1. IsRegistration(reg)
    BY DEF SInv, TreeShape
  <2> HIDE DEF reg, closure
  <2>2. IsRegistration(sealed) /\ sealed.commitA = reg.commitA
    BY <2>1 DEF IsRegistration
  <2> HIDE DEF sealed
  <2>3. IsRegistration([sealed EXCEPT !.epochId = {closure}])
    BY <2>2 DEF IsRegistration
  <2>4. [sealed EXCEPT !.epochId = {closure}].commitA = sealed.commitA
    BY <2>2 DEF IsRegistration
  <2>5. QED
    BY <2>2, <2>3, <2>4
<1> HIDE DEF named, closure
<1>3. /\ tree'.reg = named /\ tree'.epoch = {closure}
      /\ tree'.manifest = tree.manifest /\ tree'.measurement = tree.measurement
  BY <1>1 DEF SInv, TreeShape
<1>4. TreeShape'
  <2>1. tree' = [[tree EXCEPT !.epoch = {closure}] EXCEPT !.reg = named]
    BY <1>1
  <2>2. QED
    BY <1>1, <1>2, <1>3 DEF SInv, TreeShape
<1>5. CheckpointInv' /\ ContextInv'
  BY <1>1, <1>2, <1>3 DEF SInv, CheckpointInv, ContextInv, Frozen
<1>6. FileInv'
  BY <1>1, <1>3 DEF SInv, FileInv, Single
<1>7. QED
  BY <1>4, <1>5, <1>6 DEF SInv

\* Preparing the images and measuring leave the registration and the contexts alone.
LEMMA WorkKeeps ==
  ASSUME SInv, Prepare \/ Measure
  PROVE  SInv'
<1>1. CASE Prepare
  <2>1. /\ tree' = [tree EXCEPT !.preparation = {Prepared}]
        /\ UNCHANGED <<commits, contexts>>
    BY <1>1 DEF Prepare, Write
  <2>2. TreeShape' /\ tree'.reg = tree.reg /\ tree'.manifest = tree.manifest
        /\ tree'.epoch = tree.epoch /\ tree'.measurement = tree.measurement
    BY <2>1 DEF SInv, TreeShape
  <2>3. QED
    BY <2>1, <2>2, FileKeeps DEF SInv, FileInv
<1>2. CASE Measure
  <2>1. /\ tree' = [tree EXCEPT !.measurement = {Measurement}]
        /\ UNCHANGED <<commits, contexts>>
    BY <1>2 DEF Measure, Write
  <2>2. /\ TreeShape' /\ tree'.reg = tree.reg /\ tree'.manifest = tree.manifest
        /\ tree'.epoch = tree.epoch /\ tree'.measurement = {Measurement}
    BY <2>1 DEF SInv, TreeShape
  <2>3. QED
    BY <2>1, <2>2, FileKeeps DEF Single
<1>3. QED
  BY <1>1, <1>2

LEMMA SInvInductive ==
  ASSUME SInv, [SealingNext]_sealingVars
  PROVE  SInv'
<1>1. CASE Commit \/ Amend
  BY <1>1, CommitKeeps DEF Commit, Amend
<1>2. CASE Tag \/ UNCHANGED sealingVars
  <2>1. UNCHANGED <<tree, commits, contexts>>
    BY <1>2 DEF Tag, sealingVars
  <2>2. QED
    BY <2>1 DEF SInv, TreeShape, CheckpointInv, ContextInv, Frozen, FileInv
<1>3. CASE RecordUniverse \/ RecordImages \/ RecordCheckpointA \/ RecordAuthors
           \/ RecordCheckpointB
  BY <1>3, RecordingKeeps
<1>4. CASE Edit
  BY <1>4, EditKeeps
<1>5. CASE Prepare \/ Measure
  BY <1>5, WorkKeeps
<1>6. CASE MaterializeContext
  BY <1>6, ContextKeeps
<1>7. CASE Author
  BY <1>7, AuthorKeeps
<1>8. CASE Seal
  BY <1>8, SealKeeps
<1>9. QED
  BY <1>1, <1>2, <1>3, <1>4, <1>5, <1>6, <1>7, <1>8 DEF SealingNext

-----------------------------------------------------------------------------
(***************************************************************************)
(* Sealing: the theorems.                                                  *)
(***************************************************************************)

\* Two registrations that differ at most in the epoch's name differ in no other field.
LEMMA ProjectionIsInjective ==
  ASSUME NEW a, NEW b, IsRegistration(a), IsRegistration(b),
         EpochProjection(a) = EpochProjection(b), a.epochId = b.epochId
  PROVE  a = b
<1> DEFINE pa == [a EXCEPT !.epochId = {}]
           pb == [b EXCEPT !.epochId = {}]
<1>1. /\ pa.status = a.status /\ pa.policy = a.policy /\ pa.rowIds = a.rowIds
      /\ pa.adapters = a.adapters /\ pa.truthRef = a.truthRef /\ pa.images = a.images
      /\ pa.commitA = a.commitA /\ pa.commitB = a.commitB /\ pa.sealedRef = a.sealedRef
      /\ pa.bundleDigest = a.bundleDigest /\ pa.manifestDigest = a.manifestDigest
  BY DEF IsRegistration
<1>2. /\ pb.status = b.status /\ pb.policy = b.policy /\ pb.rowIds = b.rowIds
      /\ pb.adapters = b.adapters /\ pb.truthRef = b.truthRef /\ pb.images = b.images
      /\ pb.commitA = b.commitA /\ pb.commitB = b.commitB /\ pb.sealedRef = b.sealedRef
      /\ pb.bundleDigest = b.bundleDigest /\ pb.manifestDigest = b.manifestDigest
  BY DEF IsRegistration
<1>3. pa = pb
  BY DEF EpochProjection
<1> HIDE DEF pa, pb
<1>4. QED
  BY <1>1, <1>2, <1>3 DEF IsRegistration

\* The files keep their shape, the recorded Checkpoint A is a commit, contexts are of
\* frozen checkpoints and the manifest is of a context, whatever the team does.
THEOREM SealingInvariant == SealingSpec => []SInv
<1>1. SealingInit => SInv
  BY InitSInv
<1>2. SInv /\ [SealingNext]_sealingVars => SInv'
  BY SInvInductive
<1>3. QED
  BY <1>1, <1>2, PTL DEF SealingSpec

\* Whatever is committed, amended or edited: the checkpoint a context names had frozen
\* the rows, the truth and the images, and the context shows its catalogs
\* (assertAuthoringReady and planAuthoringContext).
THEOREM ContextsAreFrozen == SealingSpec => []ContextIsOfCheckpointA
<1>1. SInv => ContextIsOfCheckpointA
  BY DEF SInv, ContextInv, Frozen, ContextIsOfCheckpointA
<1>2. QED
  BY <1>1, SealingInvariant, PTL

\* A measurement the validator accepts ran what the tagged commit holds, and its authors
\* were given a context of an earlier commit of that line (validateGitCheckpointOrder,
\* validateGitCheckpointContents and validateExecutionManifest together).
THEOREM AcceptedUnderTheTag == SealingSpec => []AcceptedIsUnderTheTag
<1>1. SInv => AcceptedIsUnderTheTag
  <2> SUFFICES ASSUME SInv, Accepted
               PROVE  /\ commits[sealedTag].bundle = tree.bundle
                      /\ \A measurement \in tree.measurement :
                           /\ measurement.manifest = commits[sealedTag].manifest
                           /\ \A manifest \in measurement.manifest :
                                /\ manifest.seedsOf \in contexts
                                /\ manifest.checkpointA \in Ancestors[sealedTag] \ {sealedTag}
    BY DEF AcceptedIsUnderTheTag
  <2> DEFINE reg == tree.reg
  <2>1. PICK closure \in tree.epoch, bundle \in tree.bundle,
             manifest \in tree.manifest, measurement \in tree.measurement :
          /\ ValidateGitCheckpointOrder(reg)
          /\ ValidateGitCheckpointContents(reg)
          /\ ValidateEvidence(closure, bundle, manifest, measurement, reg)
    BY DEF Accepted
  <2>2. commits[sealedTag].bundle = tree.bundle /\ commits[sealedTag].manifest = tree.manifest
    BY <2>1 DEF ValidateGitCheckpointOrder, ValidateGitCheckpointContents
  <2>3. \A other \in tree.measurement : other = measurement
    BY DEF SInv, FileInv, Single
  <2>4. tree.manifest = {manifest} /\ measurement.manifest = {manifest}
    BY <2>1 DEF SInv, FileInv, Single, ValidateEvidence
  <2>5. manifest.seedsOf \in contexts
    BY <2>4 DEF SInv, FileInv
  <2>6. manifest.checkpointA \in Ancestors[sealedTag] \ {sealedTag}
    BY <2>1 DEF ValidateGitCheckpointOrder, ValidateEvidence, ValidateExecutionManifest,
                ValidateEpochClosure
  <2>7. QED
    BY <2>2, <2>3, <2>4, <2>5, <2>6
<1>2. QED
  BY <1>1, SealingInvariant, PTL

\* The image an accepted measurement ran in holds the rows and the truth it is scored by,
\* and the code of the repository (validatePreparation and preparedRunBinding).
THEOREM ImagesHoldWhatIsScored == SealingSpec => []ImagesHoldTheUniverse
<1>1. SInv => ImagesHoldTheUniverse
  <2> SUFFICES ASSUME SInv, Accepted, NEW measurement \in tree.measurement,
                      NEW image \in measurement.image
               PROVE  /\ image.universe = measurement.rowIds
                      /\ image.truth = measurement.truth
                      /\ image.truth = tree.reg.truthRef
                      /\ image.harness = tree.harness
    BY DEF ImagesHoldTheUniverse
  <2> DEFINE reg == tree.reg
  <2>1. PICK p \in tree.preparation, closure \in tree.epoch, other \in tree.measurement :
          /\ tree.truth = reg.truthRef
          /\ ValidateFrozenInputs(other, reg)
          /\ ValidatePreparation(p, closure, reg)
          /\ PreparedRunBinding(other, p)
    BY DEF Accepted
  <2>2. other = measurement
    BY DEF SInv, FileInv, Single
  <2>3. image = p
    BY <2>1, <2>2 DEF PreparedRunBinding
  <2>4. QED
    BY <2>1, <2>2, <2>3 DEF ValidateFrozenInputs, ValidatePreparation,
                            ValidatePreparationSourceClosure
<1>2. QED
  BY <1>1, SealingInvariant, PTL

\* An accepted registration stays what it is until a new epoch is sealed: the receipt
\* holds all of it but its own name (registrationEpochProjection).
THEOREM RegistrationIsFixed == SealingSpec => SealedRegistrationIsFixed
<1>1. SInv /\ SInv' => (Accepted /\ Accepted' /\ tree.reg # tree'.reg
                          => tree.epoch # tree'.epoch)
  <2> SUFFICES ASSUME SInv, SInv', Accepted, Accepted', tree.epoch = tree'.epoch
               PROVE  tree.reg = tree'.reg
    OBVIOUS
  <2>1. PICK closure \in tree.epoch :
          closure.registration = EpochProjection(tree.reg) /\ {closure} = tree.reg.epochId
    BY DEF Accepted, ValidateEvidence, ValidateEpochClosure
  <2>2. PICK closed \in tree'.epoch :
          closed.registration = EpochProjection(tree'.reg) /\ {closed} = tree'.reg.epochId
    BY DEF Accepted, ValidateEvidence, ValidateEpochClosure
  <2>3. closed = closure
    BY DEF SInv, FileInv, Single
  <2>4. /\ EpochProjection(tree.reg) = EpochProjection(tree'.reg)
        /\ tree.reg.epochId = tree'.reg.epochId
    BY <2>1, <2>2, <2>3
  <2>5. IsRegistration(tree.reg) /\ IsRegistration(tree'.reg)
    BY DEF SInv, TreeShape, IsRegistration
  <2>6. QED
    BY ONLY <2>4, <2>5, ProjectionIsInjective
<1>2. QED
  BY <1>1, SealingInvariant, PTL DEF SealedRegistrationIsFixed

-----------------------------------------------------------------------------
(***************************************************************************)
(* The factory.                                                            *)
(***************************************************************************)

\* The set made in the n-th round.
SetOf(n) ==
  IF n = 1 THEN [id |-> "clean", tarballs |-> [p \in Names |-> target]]
  ELSE [id |-> Defects[n - 1],
        tarballs |-> [p \in Names |-> IF p = ModuleOf[Defects[n - 1]]
                                      THEN target \cup {Defects[n - 1]} ELSE target]]

\* Sources with one edit.
EditOf(d) == [p \in Names |-> IF p = ModuleOf[d] THEN {d} ELSE {}]

Contents == SUBSET ({"truncated"} \cup Ids)

SetsInv ==
  /\ History(sets) /\ Len(sets) \in 1..(Len(Defects) + 1)
  /\ \A n \in 1..Len(sets) : sets[n] = SetOf(n)

DistInv ==
  /\ dist \in [Names -> Contents]
  /\ \A p \in Names : (\A d \in Ids : ModuleOf[d] # p) => dist[p] = target

\* Builds of the edited packages leave their output behind, which no build takes in:
\* the packages that others depend on are never edited.
FactoryInv ==
  /\ target \subseteq {"truncated"}
  /\ factory \in {"idle", "clean"} => sets = <<>> /\ source = Untouched /\ dist = Untouched
  /\ factory \in {"edit", "pack", "restore", "check", "done"} => SetsInv /\ DistInv
  /\ factory \in {"edit", "pack"} => Len(sets) <= Len(Defects)
  /\ factory \in {"edit", "check", "done"} => source = Untouched
  /\ factory = "pack" => source = EditOf(Current) /\ dist[Module] = target \cup {Current}
  /\ factory = "restore" => Len(sets) > 1 /\ source = EditOf(Made)
  /\ factory = "done" => Len(sets) = Len(Defects) + 1

\* The defects of the plan.
LEMMA PlanFacts ==
  /\ Len(Defects) \in Nat
  /\ \A n \in 1..Len(Defects) : Defects[n] \in Ids /\ ModuleOf[Defects[n]] \in Names
  /\ Defects # <<>> => Len(Defects) > 0
<1>1. Defects \in Seq(Ids) /\ ModuleOf \in [Ids -> Names]
  BY PlanAssumption DEF ValidDefects
<1>2. Len(Defects) \in Nat /\ (Defects # <<>> => Len(Defects) \in Nat \ {0})
  BY <1>1, LenProperties, EmptySeq
<1>3. QED
  BY <1>1, <1>2, ElementOfSeq

\* A build takes in the dist of packages that are never edited.
LEMMA BuildIsClean ==
  ASSUME FactoryInv, NEW p \in Names, NEW sources,
         factory = "clean" \/ factory = "edit"
  PROVE  Built(p, sources, dist) = target \cup sources[p]
<1>1. \A q \in DependsOn[p] : dist[q] \subseteq target
  <2> SUFFICES ASSUME NEW q \in DependsOn[p] PROVE dist[q] \subseteq target
    OBVIOUS
  <2>1. q \in Names
    BY PlanAssumption
  <2>2. CASE factory = "clean"
    BY <2>1, <2>2 DEF FactoryInv, Untouched
  <2>3. CASE factory = "edit"
    <3>1. \A d \in Ids : ModuleOf[d] # q
      BY SharedAssumption
    <3>2. QED
      BY <2>1, <2>3, <3>1 DEF FactoryInv, DistInv
  <2>4. QED
    BY <2>2, <2>3
<1>2. QED
  BY <1>1 DEF Built

LEMMA OneSet ==
  ASSUME NEW e
  PROVE  History(<<e>>) /\ Len(<<e>>) = 1 /\ <<e>>[1] = e
<1>1. <<e>> \in Seq({<<e>>[k] : k \in 1..1})
  OBVIOUS
<1>2. QED
  BY <1>1 DEF History

LEMMA FactoryKeeps ==
  ASSUME FactoryInv, FactoryNext
  PROVE  FactoryInv'
<1> USE PlanFacts
<1>1. target' = target
  BY DEF FactoryNext, BuildClean, BuildEdited, Pack, Restore, Check, Fails
<1>2. CASE factory' = "failed"
  BY <1>1, <1>2 DEF FactoryInv
<1>0. ASSUME UNCHANGED sets, SetsInv
      PROVE  SetsInv'
  BY <1>0, <1>1 DEF SetsInv, SetOf
<1>3. CASE BuildClean /\ factory' # "failed"
  <2>1. /\ factory = "clean" /\ dist' = [p \in Names |-> Built(p, source, dist)]
        /\ sets' = <<[id |-> "clean", tarballs |-> dist']>> /\ source' = source
        /\ factory' = IF Defects = <<>> THEN "done" ELSE "edit"
    BY <1>3 DEF BuildClean, Fails
  <2>2. source = Untouched
    BY <2>1 DEF FactoryInv
  <2>3. \A p \in Names : Built(p, source, dist) = target
    <3> SUFFICES ASSUME NEW p \in Names PROVE Built(p, source, dist) = target
      OBVIOUS
    <3>1. Built(p, source, dist) = target \cup source[p]
      BY <2>1, BuildIsClean
    <3>2. source[p] = {}
      BY <2>2 DEF Untouched
    <3>3. QED
      BY <3>1, <3>2
  <2>4. dist' = [p \in Names |-> target] /\ dist' \in [Names -> Contents]
    BY <2>1, <2>3 DEF FactoryInv, Contents
  <2>5. History(sets') /\ Len(sets') = 1 /\ sets'[1] = SetOf(1)'
    BY <1>1, <2>1, <2>4, OneSet DEF SetOf
  <2>6. SetsInv' /\ DistInv'
    BY <1>1, <2>4, <2>5 DEF SetsInv, DistInv
  <2>7. Defects = <<>> => Len(Defects) = 0
    BY EmptySeq
  <2>8. target' \subseteq {"truncated"} /\ source' = Untouched'
    BY <1>1, <2>1, <2>2 DEF FactoryInv, Untouched
  <2>9. QED
    BY <2>1, <2>5, <2>6, <2>7, <2>8 DEF FactoryInv
<1>4. CASE BuildEdited /\ factory' # "failed"
  <2>1. /\ factory = "edit" /\ factory' = "pack" /\ sets' = sets
        /\ source' = [source EXCEPT ![Module] = @ \cup {Current}]
        /\ dist' = [dist EXCEPT ![Module] = Built(Module, source', dist)]
    BY <1>4 DEF BuildEdited, Fails
  <2>2. Len(sets) \in 1..Len(Defects) /\ Current \in Ids /\ Module \in Names
    BY <2>1 DEF FactoryInv, SetsInv, Current, Module
  <2>3. source' = EditOf(Current)
    BY <2>1, <2>2 DEF FactoryInv, Untouched, EditOf, Module
  <2>4. Built(Module, source', dist) = target \cup {Current}
    <3>1. Built(Module, source', dist) = target \cup source'[Module]
      BY <2>1, <2>2, BuildIsClean
    <3>2. source'[Module] = {Current}
      BY <2>2, <2>3 DEF EditOf, Module
    <3>3. QED
      BY <3>1, <3>2
  <2>5. /\ dist' \in [Names -> Contents] /\ dist'[Module] = target \cup {Current}
        /\ \A p \in Names : (\A d \in Ids : ModuleOf[d] # p) => dist'[p] = target
    BY <2>1, <2>2, <2>4 DEF FactoryInv, DistInv, Contents, Module
  <2>6. SetsInv' /\ DistInv'
    BY <1>0, <1>1, <2>1, <2>5 DEF FactoryInv, DistInv
  <2>7. Current' = Current /\ Module' = Module
    BY <2>1 DEF Current, Module
  <2>8. source' = EditOf(Current)' /\ dist'[Module'] = target' \cup {Current'}
    BY <1>1, <2>3, <2>5, <2>7 DEF EditOf
  <2>9. QED
    BY <1>1, <2>1, <2>2, <2>6, <2>8 DEF FactoryInv
<1>5. CASE Pack /\ factory' # "failed"
  <2>1. /\ factory = "pack" /\ factory' = "restore" /\ UNCHANGED <<source, dist>>
        /\ sets' = Append(sets, [id |-> Current,
                     tarballs |-> [sets[1].tarballs EXCEPT ![Module] = dist[Module]]])
    BY <1>5 DEF Pack, Fails
  <2>2. Len(sets) \in 1..Len(Defects) /\ History(sets) /\ sets[1] = SetOf(1)
    BY <2>1 DEF FactoryInv, SetsInv
  <2>3. /\ Current \in Ids /\ Module \in Names /\ dist[Module] = target \cup {Current}
        /\ sets[1].tarballs = [p \in Names |-> target]
    BY <2>1, <2>2 DEF FactoryInv, Current, Module, SetOf
  <2>4. [sets[1].tarballs EXCEPT ![Module] = dist[Module]]
          = [p \in Names |-> IF p = Module THEN target \cup {Current} ELSE target]
    BY <2>3
  <2>5. [id |-> Current, tarballs |-> [sets[1].tarballs EXCEPT ![Module] = dist[Module]]]
          = SetOf(Len(sets) + 1)
    <3>1. Len(sets) + 1 # 1 /\ Current = Defects[(Len(sets) + 1) - 1]
      BY <2>2 DEF Current
    <3>2. QED
      BY <2>4, <3>1 DEF SetOf, Module
  <2>6. /\ History(sets') /\ Len(sets') = Len(sets) + 1
        /\ \A n \in 1..Len(sets) : sets'[n] = sets[n]
        /\ sets'[Len(sets) + 1] = SetOf(Len(sets) + 1)
    BY <2>1, <2>2, <2>5, HistoryGrows
  <2>7. ASSUME NEW n \in 1..Len(sets')
        PROVE  sets'[n] = SetOf(n)'
    <3>1. sets'[n] = SetOf(n)
      <4>1. n \in 1..Len(sets) \/ n = Len(sets) + 1
        BY <2>2, <2>6
      <4>2. QED
        BY <2>1, <2>6, <4>1 DEF FactoryInv, SetsInv
    <3>2. QED
      BY <1>1, <3>1 DEF SetOf
  <2>8. SetsInv' /\ DistInv'
    BY <1>1, <2>1, <2>2, <2>6, <2>7 DEF FactoryInv, SetsInv, DistInv
  <2>9. Made' = Current /\ source' = EditOf(Current)
    BY <2>1, <2>5, <2>6 DEF Made, FactoryInv
  <2>10. source' = EditOf(Made)'
    BY <2>9 DEF EditOf
  <2>11. QED
    BY <1>1, <2>1, <2>2, <2>6, <2>8, <2>10 DEF FactoryInv
<1>6. CASE Restore /\ factory' # "failed"
  <2>1. /\ factory = "restore" /\ factory' = "check" /\ UNCHANGED <<dist, sets>>
        /\ source' = [source EXCEPT ![ModuleOf[Made]] = @ \ {Made}]
    BY <1>6 DEF Restore, Fails
  <2>2. Made \in Ids /\ ModuleOf[Made] \in Names
    <3>1. Len(sets) \in 2..(Len(Defects) + 1) /\ sets[Len(sets)] = SetOf(Len(sets))
      BY <2>1 DEF FactoryInv, SetsInv
    <3>2. Made = Defects[Len(sets) - 1] /\ Len(sets) - 1 \in 1..Len(Defects)
      BY <3>1 DEF Made, SetOf
    <3>3. QED
      BY <3>2
  <2>3. source' = Untouched
    <3>1. source = EditOf(Made)
      BY <2>1 DEF FactoryInv
    <3>2. QED
      BY <2>1, <2>2, <3>1 DEF EditOf, Untouched
  <2>4. SetsInv' /\ DistInv' /\ source' = Untouched'
    BY <1>0, <1>1, <2>1, <2>3 DEF FactoryInv, DistInv, Untouched
  <2>5. QED
    BY <1>1, <2>1, <2>4 DEF FactoryInv
<1>7. CASE Check /\ factory' # "failed"
  <2>1. /\ factory = "check" /\ UNCHANGED <<source, dist, sets>>
        /\ factory' = IF Len(sets) = Len(Defects) + 1 THEN "done" ELSE "edit"
    BY <1>7 DEF Check, Fails
  <2>2. SetsInv' /\ DistInv' /\ source' = Untouched'
    BY <1>0, <1>1, <2>1 DEF FactoryInv, DistInv, Untouched
  <2>3. Len(sets) \in 1..(Len(Defects) + 1)
    BY <2>1 DEF FactoryInv, SetsInv
  <2>4. QED
    BY <1>1, <2>1, <2>2, <2>3 DEF FactoryInv
<1>8. QED
  BY <1>2, <1>3, <1>4, <1>5, <1>6, <1>7 DEF FactoryNext

-----------------------------------------------------------------------------
(***************************************************************************)
(* The preparation.                                                        *)
(***************************************************************************)

\* The operations of a preparation nothing has gone wrong in, in their order.
Extraction == {"extract", "factory-remove"}
Imaging == {"image-build", "image-inspect", "image-probe"}
Trying == {"smoke", "finish", "publish", "prepared"}
Ready == {"publish", "prepared"}
Building == {"validate", "archive", "factory-build"}
Normal == Building \cup {"factory-inspect", "factory-create", "receipt"} \cup Extraction
            \cup Imaging \cup Trying
Removing == {"remove", "failed-remove", "rejected-remove"}
Closing == {"catch", "clean-up", "report", "stopped", "exited"}

Reasons ==
  Charged \cup {"artifact-factory-extraction-failed", "preparation-validation-failed"}
Ledgers ==
  [builds: Nat, inspects: Nat, probeContainers: Nat, failures: Nat, cleanups: Nat,
   cleanupFailures: Nat,
   stoppedBy: {Unstopped} \cup {<<reason>> : reason \in Reasons}]

LedgerInv ==
  /\ ledger \in Ledgers
  /\ ledger.failures = 0 => ledger.stoppedBy = Unstopped
  /\ pc \in Ready => ledger.builds = PlannedBuilds
                     /\ ledger.inspects + ledger.probeContainers = PlannedProbes

\* What a removal or a cleanup left behind was counted when it was left, unless the runner
\* of a smoke case threw.
CleanInv ==
  /\ pc \in Normal \cup Removing \cup Closing
  /\ pc \in Normal =>
       /\ container = IF pc \in Extraction THEN "created" ELSE "none"
       /\ ~broken
       /\ cleaning <=> pc \in Ready
       /\ pc \in Ready => temporary = "removed"
  /\ pc \in {"report", "stopped", "exited"} => cleaning
  /\ container = "created" /\ pc \notin Removing \cup Extraction =>
       ledger.cleanupFailures > 0 \/ unstarted \/ RunnerThrew(smokes)
  /\ cleaning /\ temporary = "present" => ledger.cleanupFailures > 0

\* The image of a set.
ImageOf(set) == [id |-> set.id, key |-> ContractKey(set), tarballs |-> set.tarballs]

ImagesInv ==
  /\ History(images) /\ Len(images) \in Nat
  /\ \A n \in 1..Len(images) : images[n] = ImageOf(artifactFactory.sets[n])

\* How far the factory, the images and the smoke cases have come at each operation.
ProgressInv ==
  /\ pc \in Building => factory = "idle" \/ (pc = "factory-build" /\ running)
  /\ pc \in Normal \ Building => factory = "done"
  /\ pc \in Normal \ (Imaging \cup Trying) => images = <<>>
  /\ pc \in Imaging => Len(images) <= Len(Defects)
  /\ pc \in Trying => Len(images) = Len(Defects) + 1
  /\ pc \in Normal => ImagesInv

\* The factory image holds what the factory has made, unless it is another preparation's;
\* its receipt names the planned sets, of which the first is clean.
ReceiptInv ==
  /\ pc \in Normal \ (Building \cup {"factory-inspect"}) =>
       \/ artifactFactory = [owner |-> "own", sets |-> OwnReceipt]
       \/ artifactFactory.owner = "foreign"
  /\ pc \in Imaging \cup Trying =>
       /\ [n \in DOMAIN artifactFactory.sets |-> artifactFactory.sets[n].id] = PlannedSets
       /\ [p \in Names |-> Digest(artifactFactory.sets[1].tarballs[p])] = Phase1

\* The smoke cases were tried on the clean image.
SmokesInv ==
  /\ History(smokes) /\ Len(smokes) \in Nat
  /\ \A n \in 1..Len(smokes) :
       smokes[n] = [case |-> Smokes[n], image |-> "clean", result |-> "pass"]

SmokeInv ==
  /\ pc \in Normal \ Trying => smokes = <<>>
  /\ pc \in Normal => SmokesInv
  /\ pc \in Ready => Len(smokes) = Len(Smokes)

\* Evidence is written once, in the last step.
EvidenceInv ==
  /\ evidence.status \in {"none", "torn", "prepared", "stopped"}
  /\ evidence.status = "prepared" =>
       /\ pc = "prepared" /\ evidence.elapsed <= WallMax
       /\ ledger.failures = 0 /\ ledger.cleanupFailures = 0
  /\ evidence.status = "stopped" => pc = "stopped"
  /\ evidence.status \in {"prepared", "stopped"} =>
       /\ evidence.ledger = ledger /\ evidence.images = images
       /\ evidence.smokes = smokes
       /\ evidence.artifactFactory = artifactFactory

PInv ==
  /\ FactoryInv /\ ReceiptInv /\ LedgerInv /\ CleanInv
  /\ ProgressInv /\ SmokeInv /\ EvidenceInv

LEMMA PrepInit == Init => PInv
<1> SUFFICES ASSUME Init PROVE PInv
  OBVIOUS
<1>1. FactoryInv
  BY DEF Init, FactoryInit, FactoryInv
<1>2. LedgerInv
  BY DEF Init, LedgerInv, Ledgers, NewLedger, Ready
<1>3. CleanInv
  BY DEF Init, CleanInv, Normal, Building, Extraction, Ready, Removing
<1>4. ProgressInv /\ SmokeInv
  BY HistoryStarts DEF Init, FactoryInit, ProgressInv, ImagesInv, SmokeInv, SmokesInv, Normal, Building, Extraction,
                       Imaging, Trying, Ready
<1>5. EvidenceInv
  BY DEF Init, EvidenceInv, NoEvidence
<1>6. ReceiptInv
  BY DEF Init, ReceiptInv, Normal, Building, Imaging, Trying
<1>7. QED
  BY <1>1, <1>2, <1>3, <1>4, <1>5, <1>6 DEF PInv

\* The ledger, field by field.
LEMMA LedgerFields ==
  ASSUME NEW l \in Ledgers
  PROVE  /\ l = [builds |-> l.builds, inspects |-> l.inspects,
                 probeContainers |-> l.probeContainers, failures |-> l.failures,
                 cleanups |-> l.cleanups, cleanupFailures |-> l.cleanupFailures,
                 stoppedBy |-> l.stoppedBy]
         /\ l.builds \in Nat /\ l.inspects \in Nat /\ l.probeContainers \in Nat
         /\ l.failures \in Nat /\ l.cleanups \in Nat /\ l.cleanupFailures \in Nat
         /\ l.stoppedBy \in {Unstopped} \cup {<<reason>> : reason \in Reasons}
BY DEF Ledgers

\* A stopped ledger has a failure.
LEMMA StoppedLedger ==
  ASSUME NEW l \in Ledgers, NEW reason \in Reasons
  PROVE  /\ Stopped(l, reason) \in Ledgers /\ Stopped(l, reason).failures > 0
         /\ Stopped(l, reason).cleanupFailures = l.cleanupFailures
<1> DEFINE failing == [l EXCEPT !.failures = @ + 1]
<1>1. failing = [builds |-> l.builds, inspects |-> l.inspects,
                 probeContainers |-> l.probeContainers, failures |-> l.failures + 1,
                 cleanups |-> l.cleanups, cleanupFailures |-> l.cleanupFailures,
                 stoppedBy |-> l.stoppedBy]
  BY LedgerFields
<1> HIDE DEF failing
<1>2. Stopped(l, reason) = [failing EXCEPT !.stoppedBy = <<reason>>]
  BY DEF Stopped, failing
<1>3. Stopped(l, reason) =
        [builds |-> l.builds, inspects |-> l.inspects,
         probeContainers |-> l.probeContainers, failures |-> l.failures + 1,
         cleanups |-> l.cleanups, cleanupFailures |-> l.cleanupFailures,
         stoppedBy |-> <<reason>>]
  BY ONLY <1>1, <1>2
<1>4. <<reason>> \in {Unstopped} \cup {<<other>> : other \in Reasons}
  OBVIOUS
<1>5. QED
  BY <1>3, <1>4, LedgerFields DEF Ledgers

\* A cleanup is counted, and its failure.
LEMMA CleanedLedger ==
  ASSUME NEW l \in Ledgers, NEW failed \in BOOLEAN
  PROVE  /\ CleanedUp(l, failed) \in Ledgers
         /\ CleanedUp(l, failed).failures = l.failures
         /\ CleanedUp(l, failed).stoppedBy = l.stoppedBy
         /\ CleanedUp(l, failed).builds = l.builds
         /\ CleanedUp(l, failed).inspects = l.inspects
         /\ CleanedUp(l, failed).probeContainers = l.probeContainers
         /\ CleanedUp(l, failed).cleanupFailures >= l.cleanupFailures
         /\ failed => CleanedUp(l, failed).cleanupFailures = l.cleanupFailures + 1
         /\ ~failed => CleanedUp(l, failed).cleanupFailures = l.cleanupFailures
<1> DEFINE cleaned == [l EXCEPT !.cleanups = @ + 1]
           count == IF failed THEN l.cleanupFailures + 1 ELSE l.cleanupFailures
<1>1. cleaned = [builds |-> l.builds, inspects |-> l.inspects,
                 probeContainers |-> l.probeContainers, failures |-> l.failures,
                 cleanups |-> l.cleanups + 1, cleanupFailures |-> l.cleanupFailures,
                 stoppedBy |-> l.stoppedBy]
  BY LedgerFields
<1>2. CleanedUp(l, failed) =
        [cleaned EXCEPT !.cleanupFailures = IF failed THEN @ + 1 ELSE @]
  BY DEF CleanedUp
<1> HIDE DEF cleaned
<1>3. CleanedUp(l, failed) =
        [builds |-> l.builds, inspects |-> l.inspects,
         probeContainers |-> l.probeContainers, failures |-> l.failures,
         cleanups |-> l.cleanups + 1, cleanupFailures |-> count,
         stoppedBy |-> l.stoppedBy]
  BY ONLY <1>1, <1>2
<1>4. /\ count \in Nat /\ count >= l.cleanupFailures
      /\ failed => count = l.cleanupFailures + 1
      /\ ~failed => count = l.cleanupFailures
  BY LedgerFields
<1> HIDE DEF count
<1>5. QED
  BY <1>3, <1>4, LedgerFields DEF Ledgers

\* A charge changes nothing but its count.
LEMMA ChargedLedger ==
  ASSUME NEW l \in Ledgers, NEW kind \in {"builds", "inspects", "probeContainers"},
         NEW charged, charged = [l EXCEPT ![kind] = @ + 1]
  PROVE  /\ charged \in Ledgers /\ charged.failures = l.failures
         /\ charged.stoppedBy = l.stoppedBy
         /\ charged.cleanupFailures = l.cleanupFailures
BY DEF Ledgers

\* The tail of a removal keeps the ledger's relations and never forgets a failure.
LEMMA RemovalLedger ==
  ASSUME LedgerInv, NEW failed \in BOOLEAN, NEW l, l = AfterRemoval(CleanedUp(ledger, failed))
  PROVE  /\ l \in Ledgers /\ (l.failures = 0 => l.stoppedBy = Unstopped)
         /\ l.cleanupFailures = IF failed THEN ledger.cleanupFailures + 1
                                          ELSE ledger.cleanupFailures
<1> DEFINE c == CleanedUp(ledger, failed)
<1>1. /\ c \in Ledgers /\ (c.failures = 0 => c.stoppedBy = Unstopped)
      /\ c.cleanupFailures = IF failed THEN ledger.cleanupFailures + 1
                                       ELSE ledger.cleanupFailures
  BY CleanedLedger DEF LedgerInv
<1>2. "artifact-factory-extraction-failed" \in Reasons
  BY DEF Reasons
<1> HIDE DEF c
<1>3. l = c \/ l = Stopped(c, "artifact-factory-extraction-failed")
  BY DEF AfterRemoval, c
<1>4. CASE l = c
  BY ONLY <1>1, <1>4
<1>5. CASE l = Stopped(c, "artifact-factory-extraction-failed")
  <2>1. /\ l \in Ledgers /\ l.failures > 0 /\ l.cleanupFailures = c.cleanupFailures
    BY <1>1, <1>2, <1>5, StoppedLedger
  <2>2. QED
    BY <1>1, <2>1
<1>6. QED
  BY <1>3, <1>4, <1>5

\* A failed cleanup is counted, wherever the ledger is stopped with it.
LEMMA FailureIsCounted ==
  ASSUME LedgerInv
  PROVE  /\ CleanedUp(ledger, TRUE).cleanupFailures > 0
         /\ AfterRemoval(CleanedUp(ledger, TRUE)).cleanupFailures > 0
         /\ Stopped(CleanedUp(ledger, TRUE), "smoke").cleanupFailures > 0
<1> DEFINE c == CleanedUp(ledger, TRUE)
           r == AfterRemoval(c)
           s == Stopped(c, "smoke")
<1>1. ledger \in Ledgers /\ ledger.cleanupFailures \in Nat
  BY LedgerFields DEF LedgerInv
<1>2. c \in Ledgers /\ c.cleanupFailures = ledger.cleanupFailures + 1
  BY <1>1, CleanedLedger
<1>3. r.cleanupFailures = ledger.cleanupFailures + 1
  BY <1>1, RemovalLedger
<1> HIDE DEF c, r
<1>4. s.cleanupFailures = c.cleanupFailures
  BY <1>2, StoppedLedger DEF Reasons, Charged
<1> HIDE DEF s
<1>5. c.cleanupFailures > 0 /\ r.cleanupFailures > 0 /\ s.cleanupFailures > 0
  BY <1>1, <1>2, <1>3, <1>4
<1>6. QED
  BY <1>5 DEF c, r, s

\* The actions that leave the ledger alone.
Quiet ==
  \/ Validate \/ ArchiveTarget \/ FactoryStep \/ CommandIsNotStarted
  \/ FactoryIsBuilt \/ FactoryIsInspected \/ FactoryIsCreated \/ Extract
  \/ Receipt \/ ImageIsBuilt \/ ImageIsInspected \/ ImageIsProbed
  \/ Publish \/ Report \/ Retag \/ Created \/ Tick \/ UNCHANGED vars

LEMMA LedgerKeeps ==
  ASSUME LedgerInv, [Next]_vars
  PROVE  /\ LedgerInv'
         /\ ledger.cleanupFailures \in Nat /\ ledger'.cleanupFailures \in Nat
         /\ ledger'.cleanupFailures >= ledger.cleanupFailures
<1>1. ledger \in Ledgers /\ ledger.cleanupFailures \in Nat
  BY LedgerFields DEF LedgerInv
<1>c. ASSUME NEW failed \in BOOLEAN, NEW l, l = CleanedUp(ledger, failed)
      PROVE  /\ l \in Ledgers /\ l.failures = ledger.failures
             /\ l.stoppedBy = ledger.stoppedBy /\ l.builds = ledger.builds
             /\ l.inspects = ledger.inspects
             /\ l.probeContainers = ledger.probeContainers
             /\ l.cleanupFailures \in Nat
             /\ l.cleanupFailures >= ledger.cleanupFailures
  BY <1>1, <1>c, CleanedLedger
<1>2. CASE Quiet
  <2>1. ledger' = ledger
    BY <1>2 DEF Quiet, Validate, ArchiveTarget, FactoryStep, CommandIsNotStarted,
       FactoryIsBuilt, FactoryIsInspected, FactoryIsCreated, Extract, Receipt, ImageIsBuilt,
       ImageIsInspected, ImageIsProbed, Publish, Report, Retag, Created, Tick, vars, Goes
  <2>2. pc' \in Ready => pc \in Ready
    BY <1>2 DEF Quiet, Validate, ArchiveTarget, FactoryStep, CommandIsNotStarted,
       FactoryIsBuilt, FactoryIsInspected, FactoryIsCreated, Extract, Receipt, ImageIsBuilt,
       ImageIsInspected, ImageIsProbed, Publish, Report, Retag, Created, Tick, vars, Goes,
       Throws, Ready
  <2>3. QED
    BY <1>1, <2>1, <2>2 DEF LedgerInv
<1>3. CASE Start
  <2>1. pc \in Charged /\ pc' \notin Ready
    BY <1>3 DEF Start, Throws, Ready, Charged
  <2>2. CASE ledger' = ledger
    BY <1>1, <2>1, <2>2 DEF LedgerInv
  <2>3. CASE ledger' = [ledger EXCEPT ![Kind(pc)] = @ + 1]
    <3>1. Kind(pc) \in {"builds", "inspects", "probeContainers"}
      BY <2>1 DEF Kind, Charged
    <3>2. /\ ledger' \in Ledgers /\ ledger'.failures = ledger.failures
          /\ ledger'.stoppedBy = ledger.stoppedBy
          /\ ledger'.cleanupFailures = ledger.cleanupFailures
      BY <1>1, <2>3, <3>1, ChargedLedger
    <3>3. QED
      BY <1>1, <2>1, <3>2 DEF LedgerInv
  <2>4. QED
    BY <1>3, <2>2, <2>3 DEF Start
<1>4. ASSUME NEW l \in {ledger, CleanedUp(ledger, FALSE), CleanedUp(ledger, TRUE)},
             NEW reason \in Reasons, ledger' = Stopped(l, reason), pc' \notin Ready
      PROVE  /\ LedgerInv' /\ ledger'.cleanupFailures \in Nat
             /\ ledger'.cleanupFailures >= ledger.cleanupFailures
  <2>1. /\ l \in Ledgers /\ l.cleanupFailures \in Nat
        /\ l.cleanupFailures >= ledger.cleanupFailures
    <3>1. CASE l = ledger
      BY <1>1, <3>1
    <3>2. CASE l = CleanedUp(ledger, FALSE)
      BY <1>c, <3>2
    <3>3. CASE l = CleanedUp(ledger, TRUE)
      BY <1>c, <3>3
    <3>4. QED
      BY <3>1, <3>2, <3>3
  <2>2. /\ ledger' \in Ledgers /\ ledger'.failures > 0
        /\ ledger'.cleanupFailures = l.cleanupFailures
    BY <1>4, <2>1, StoppedLedger
  <2>3. QED
    BY <1>4, <2>1, <2>2 DEF LedgerInv
<1>5. CASE CommandFails \/ SmokeFails \/ Catch
  <2>1. CASE CommandFails
    BY <1>1, <1>4, <2>1 DEF CommandFails, Reasons, Ready
  <2>2. CASE SmokeFails
    BY <1>1, <1>4, <2>2 DEF SmokeFails, RunnerThrows, CaseFails, Throws, Reasons, Charged, Ready
  <2>3. CASE Catch /\ ledger' = ledger
    BY <1>1, <2>3 DEF Catch, LedgerInv, Ready
  <2>4. CASE Catch /\ ledger' # ledger
    BY <1>1, <1>4, <2>4 DEF Catch, Reasons, Ready
  <2>5. QED
    BY <1>5, <2>1, <2>2, <2>3, <2>4
<1>6. CASE Remove \/ FactoryRemove
  <2>1. /\ pc' \notin Ready
        /\ \/ \E failed \in BOOLEAN : ledger' = AfterRemoval(CleanedUp(ledger, failed))
           \/ ledger' = CleanedUp(ledger, FALSE)
    BY <1>6 DEF Remove, FactoryRemove, Removal, Ready
  <2>2. CASE \E failed \in BOOLEAN : ledger' = AfterRemoval(CleanedUp(ledger, failed))
    <3>1. PICK failed \in BOOLEAN : ledger' = AfterRemoval(CleanedUp(ledger, failed))
      BY <2>2
    <3>2. /\ ledger' \in Ledgers /\ (ledger'.failures = 0 => ledger'.stoppedBy = Unstopped)
          /\ ledger'.cleanupFailures = IF failed THEN ledger.cleanupFailures + 1
                                                  ELSE ledger.cleanupFailures
      BY <3>1, RemovalLedger
    <3>3. QED
      BY <1>1, <2>1, <3>2 DEF LedgerInv
  <2>3. CASE ledger' = CleanedUp(ledger, FALSE)
    BY <1>1, <1>c, <2>1, <2>3 DEF LedgerInv
  <2>4. QED
    BY <2>1, <2>2, <2>3
<1>7. CASE SmokePasses \/ Finish \/ CleanUp
  <2>1. /\ ledger' \in {ledger, CleanedUp(ledger, FALSE), CleanedUp(ledger, TRUE)}
        /\ pc' \in Ready => ledger.builds = PlannedBuilds
                            /\ ledger.inspects + ledger.probeContainers = PlannedProbes
    BY <1>7 DEF SmokePasses, Finish, CleanUp, CleanupTemporary, Ready
  <2>2. /\ ledger' \in Ledgers /\ ledger'.failures = ledger.failures
        /\ ledger'.stoppedBy = ledger.stoppedBy /\ ledger'.builds = ledger.builds
        /\ ledger'.inspects = ledger.inspects
        /\ ledger'.probeContainers = ledger.probeContainers
        /\ ledger'.cleanupFailures >= ledger.cleanupFailures
        /\ ledger'.cleanupFailures \in Nat
    <3>1. CASE ledger' = ledger
      BY <1>1, <3>1
    <3>2. CASE ledger' # ledger
      BY <1>c, <2>1, <3>2
    <3>3. QED
      BY <3>1, <3>2
  <2>3. QED
    BY <1>1, <2>1, <2>2 DEF LedgerInv
<1>8. QED
  BY <1>1, <1>2, <1>3, <1>5, <1>6, <1>7 DEF Next, Step, Quiet

\* Containers and temporary files.
LEMMA CleanKeeps ==
  ASSUME LedgerInv, CleanInv, SmokeInv, [Next]_vars
  PROVE  CleanInv'
<1> USE DEF Normal, Building, Extraction, Imaging, Trying, Ready, Removing, Closing
<1>1. /\ ledger \in Ledgers
      /\ ledger.cleanupFailures \in Nat /\ ledger'.cleanupFailures \in Nat
      /\ ledger'.cleanupFailures >= ledger.cleanupFailures
  BY LedgerKeeps DEF LedgerInv
<1>2. CASE \/ Validate \/ ArchiveTarget \/ FactoryStep \/ FactoryIsBuilt \/ FactoryIsInspected
           \/ FactoryIsCreated \/ Extract \/ Receipt
  BY <1>1, <1>2 DEF CleanInv, Validate, ArchiveTarget, FactoryStep, FactoryIsBuilt,
     FactoryIsInspected, FactoryIsCreated, Extract, Receipt, Goes, Throws
<1>3. CASE ImageIsBuilt \/ ImageIsInspected \/ ImageIsProbed \/ Publish \/ Report \/ Retag
           \/ Created \/ Tick \/ UNCHANGED vars
  BY <1>1, <1>3 DEF CleanInv, ImageIsBuilt, ImageIsInspected, ImageIsProbed, Publish, Report,
     Retag, Created, Tick, vars, Goes, Throws
<1>4. CASE Start \/ CommandFails \/ CommandIsNotStarted \/ Catch
  BY <1>1, <1>4 DEF CleanInv, Start, CommandFails, CommandIsNotStarted, Catch, Throws, Charged,
     NamesContainer
<1>5. CASE Remove \/ FactoryRemove
  <2>1. /\ pc \in Removing \cup {"factory-remove"}
        /\ UNCHANGED <<cleaning, temporary>>
    BY <1>5 DEF Remove, FactoryRemove, Removal
  <2>2. CASE /\ container' = (IF container = "created" THEN "none" ELSE container)
             /\ pc' = (IF pc = "factory-remove" THEN "receipt" ELSE "catch")
             /\ broken' = broken
    BY <1>1, <2>1, <2>2 DEF CleanInv
  <2>3. CASE pc' = "catch" /\ ledger' = AfterRemoval(CleanedUp(ledger, TRUE))
    <3>1. ledger'.cleanupFailures > 0
      BY <2>3, FailureIsCounted
    <3>2. QED
      BY <1>1, <2>1, <2>3, <3>1 DEF CleanInv
  <2>4. CASE pc' = "catch" /\ unstarted' = TRUE
    BY <1>1, <2>1, <2>4 DEF CleanInv
  <2>5. QED
    BY <1>5, <2>2, <2>3, <2>4 DEF Remove, FactoryRemove, Removal
<1>6. CASE CleanUp \/ Finish
  <2>1. ledger' = CleanedUp(ledger, TRUE) => ledger'.cleanupFailures > 0
    BY FailureIsCounted
  <2>2. CASE CleanUp
    <3>1. pc = "clean-up" /\ pc' = "report" /\ UNCHANGED <<container, unstarted, smokes>>
      BY <2>2 DEF CleanUp, CleanupTemporary
    <3>2. \/ cleaning /\ UNCHANGED <<cleaning, ledger, temporary>>
          \/ cleaning' = TRUE /\ temporary' = "removed"
          \/ cleaning' = TRUE /\ ledger' = CleanedUp(ledger, TRUE)
      BY <2>2 DEF CleanUp, CleanupTemporary
    <3>3. cleaning' /\ (temporary' = "present" => ledger'.cleanupFailures > 0)
      BY <2>1, <3>1, <3>2 DEF CleanInv
    <3>4. QED
      BY <1>1, <3>1, <3>3 DEF CleanInv
  <2>3. CASE Finish
    BY <1>1, <2>1, <2>3 DEF CleanInv, Finish, CleanupTemporary
  <2>4. QED
    BY <1>6, <2>2, <2>3
<1>7. CASE SmokePasses
  BY <1>1, <1>7 DEF CleanInv, SmokePasses
<1>8. CASE SmokeFails
  <2>1. CASE RunnerThrows
    <3>1. smokes' = Append(smokes, [case |-> Case, image |-> images[1].id,
                                    result |-> "runner-error"])
      BY <2>1 DEF RunnerThrows
    <3>2. History(smokes) /\ Len(smokes) \in Nat
      BY <1>8 DEF SmokeFails, SmokeInv, SmokesInv
    <3>3. /\ History(smokes') /\ Len(smokes') = Len(smokes) + 1
          /\ smokes'[Len(smokes) + 1].result = "runner-error"
      BY <3>1, <3>2, HistoryGrows
    <3>4. Len(smokes) + 1 \in DOMAIN smokes'
      BY <3>2, <3>3 DEF History
    <3>5. RunnerThrew(smokes)'
      BY <3>3, <3>4 DEF RunnerThrew
    <3>6. QED
      BY <1>1, <1>8, <3>5 DEF CleanInv, SmokeFails, Throws
  <2>2. CASE CaseFails
    <3>1. container' # "created" \/ ledger' = Stopped(CleanedUp(ledger, TRUE), "smoke")
      BY <2>2 DEF CaseFails
    <3>2. ledger' = Stopped(CleanedUp(ledger, TRUE), "smoke") => ledger'.cleanupFailures > 0
      BY FailureIsCounted
    <3>3. QED
      BY <1>1, <1>8, <3>1, <3>2 DEF CleanInv, SmokeFails, Throws
  <2>3. QED
    BY <1>8, <2>1, <2>2 DEF SmokeFails
<1>9. QED
  BY <1>2, <1>3, <1>4, <1>5, <1>6, <1>7, <1>8 DEF Next, Step

\* The actions that neither touch the factory nor the images nor the smoke cases.
Beside ==
  \/ Validate \/ CommandFails \/ CommandIsNotStarted \/ Remove \/ Finish \/ Publish \/ Catch
  \/ CleanUp \/ Report \/ Retag \/ Created \/ Tick \/ UNCHANGED vars

\* Such an action goes on or ends up in the catch block.
LEMMA BesideKeeps ==
  ASSUME Beside
  PROVE  /\ UNCHANGED <<factory, edits, target, source, dist, sets, artifactFactory, images, smokes>>
         /\ \/ pc' = pc /\ running' = running
            \/ pc' \in Closing \cup Removing
            \/ pc = "validate" /\ pc' = "archive" /\ running' = running
            \/ pc = "finish" /\ pc' = "publish" /\ Len(smokes) = Len(Smokes)
            \/ pc = "publish" /\ pc' = "prepared"
<1> USE DEF Closing, Removing, madeVars, factoryVars, vars, Throws
<1>1. CASE Validate \/ CommandFails \/ CommandIsNotStarted \/ Publish \/ Catch \/ Report
  BY <1>1 DEF Validate, CommandFails, CommandIsNotStarted, Publish, Catch, Report
<1>2. CASE Finish \/ CleanUp
  BY <1>2 DEF Finish, CleanUp, CleanupTemporary
<1>3. CASE Retag \/ Created \/ Tick \/ UNCHANGED vars
  BY <1>3 DEF Retag, Created, Tick
<1>4. CASE Remove
  BY <1>4 DEF Remove, Removal
<1>5. QED
  BY <1>1, <1>2, <1>3, <1>4 DEF Beside

\* The rest of the actions, by what they concern.
LEMMA Actions ==
  [Next]_vars <=>
    \/ Beside \/ Start \/ FactoryRemove
    \/ ArchiveTarget \/ FactoryStep
    \/ FactoryIsBuilt \/ FactoryIsInspected \/ FactoryIsCreated \/ Extract \/ Receipt
    \/ ImageIsBuilt \/ ImageIsInspected \/ ImageIsProbed
    \/ SmokePasses \/ SmokeFails
BY DEF Next, Step, Beside

\* The factory works only inside the build of its image, after the target was archived.
LEMMA FactoryStays ==
  ASSUME FactoryInv, ProgressInv, [Next]_vars
  PROVE  FactoryInv'
<1>1. CASE UNCHANGED <<factory, target, source, dist, sets>>
  <2>1. /\ SetsInv' <=> SetsInv
        /\ DistInv' <=> DistInv
    BY <1>1 DEF SetsInv, SetOf, DistInv
  <2>2. Current' = Current /\ Module' = Module /\ Made' = Made
    BY <1>1 DEF Current, Module, Made
  <2>3. EditOf(Current)' = EditOf(Current) /\ EditOf(Made)' = EditOf(Made)
    BY <2>2 DEF EditOf
  <2>4. QED
    BY <1>1, <2>1, <2>2, <2>3 DEF FactoryInv, Untouched
<1>2. CASE /\ factory = "idle" /\ factory' \in {"idle", "clean"}
           /\ target' \subseteq {"truncated"} /\ UNCHANGED <<source, dist, sets>>
  BY <1>2 DEF FactoryInv, Untouched
<1>3. CASE FactoryStep
  BY <1>3, FactoryKeeps DEF FactoryStep
<1>4. CASE ArchiveTarget
  <2>1. pc = "archive" /\ UNCHANGED <<factory, source, dist, sets>>
        /\ (target' = target \/ target' \in {{}, {"truncated"}})
    BY <1>4 DEF ArchiveTarget
  <2>2. factory = "idle" /\ target \subseteq {"truncated"}
    BY <2>1 DEF ProgressInv, Building, FactoryInv
  <2>3. QED
    BY <1>2, <2>1, <2>2
<1>5. CASE Start
  <2>1. /\ ~running /\ UNCHANGED <<target, source, dist, sets>>
        /\ factory' = factory \/ (pc = "factory-build" /\ factory' = "clean")
    BY <1>5 DEF Start
  <2>2. target \subseteq {"truncated"} /\ (pc = "factory-build" => factory = "idle")
    BY <2>1 DEF ProgressInv, Building, FactoryInv
  <2>3. QED
    BY <1>1, <1>2, <2>1, <2>2
<1>6. CASE FactoryRemove
  <2>1. UNCHANGED factoryVars
    BY <1>6 DEF FactoryRemove, madeVars
  <2>2. QED
    BY <1>1, <2>1 DEF madeVars, factoryVars
<1>7. CASE SmokePasses \/ SmokeFails
  <2>1. UNCHANGED factoryVars
    BY <1>7 DEF SmokePasses, SmokeFails, madeVars
  <2>2. QED
    BY <1>1, <2>1 DEF madeVars, factoryVars
<1>8. CASE \/ FactoryIsBuilt \/ FactoryIsInspected \/ FactoryIsCreated \/ Extract \/ Receipt
           \/ ImageIsBuilt \/ ImageIsInspected \/ ImageIsProbed
  BY <1>1, <1>8 DEF FactoryIsBuilt, FactoryIsInspected, FactoryIsCreated, Extract, Receipt,
     ImageIsBuilt, ImageIsInspected, ImageIsProbed, Goes, madeVars, factoryVars
<1>9. CASE Beside
  BY <1>1, <1>9, BesideKeeps
<1>10. QED
  BY <1>3, <1>4, <1>5, <1>6, <1>7, <1>8, <1>9, Actions

\* A receipt that is accepted is that of a target nothing is missing from.
LEMMA ReceiptOfTheTarget ==
  ASSUME FactoryInv, factory = "done",
         [p \in Names |-> Digest(sets[1].tarballs[p])] = Phase1
  PROVE  \A p \in Names : target = {}
<1> SUFFICES ASSUME NEW p \in Names PROVE target = {}
  OBVIOUS
<1>1. target \subseteq {"truncated"} /\ sets[1] = SetOf(1)
  BY PlanFacts DEF FactoryInv, SetsInv
<1>2. sets[1].tarballs[p] = target
  BY <1>1 DEF SetOf
<1>3. Digest(target) = {}
  BY <1>2 DEF Phase1, Untouched
<1>4. "truncated" \notin Ids
  BY PlanAssumption
<1>5. target \subseteq Digest(target)
  BY <1>1, <1>4 DEF Digest
<1>6. QED
  BY <1>3, <1>5

\* Each operation finds what the operations before it made.
LEMMA ProgressKeeps ==
  ASSUME FactoryInv, ProgressInv, [Next]_vars
  PROVE  ProgressInv'
<1> USE DEF Normal, Building, Extraction, Imaging, Trying
<1>e. ASSUME pc' \in Closing \cup Removing
      PROVE  ProgressInv'
  BY <1>e DEF ProgressInv, Closing, Removing
<1>i. ASSUME ImagesInv, UNCHANGED <<images, artifactFactory>>
      PROVE  ImagesInv'
  BY <1>i DEF ImagesInv
<1>1. CASE Beside
  <2>1. UNCHANGED <<factory, artifactFactory, images>>
    BY <1>1, BesideKeeps
  <2>2. CASE pc' = pc /\ running' = running
    BY <1>i, <2>1, <2>2 DEF ProgressInv
  <2>3. CASE pc' \in Closing \cup Removing
    BY <1>e, <2>3
  <2>4. CASE pc = "validate" /\ pc' = "archive" /\ running' = running
    BY <1>i, <2>1, <2>4 DEF ProgressInv
  <2>5. CASE pc = "finish" /\ pc' = "publish"
    BY <1>i, <2>1, <2>5 DEF ProgressInv
  <2>6. CASE pc = "publish" /\ pc' = "prepared"
    BY <1>i, <2>1, <2>6 DEF ProgressInv
  <2>7. QED
    BY <1>1, <2>2, <2>3, <2>4, <2>5, <2>6, BesideKeeps
<1>2. CASE ArchiveTarget
  <2>1. /\ pc = "archive" /\ UNCHANGED <<factory, artifactFactory, images>>
        /\ pc' = "factory-build" \/ pc' = "catch"
    BY <1>2 DEF ArchiveTarget, Throws
  <2>2. QED
    BY <1>e, <1>i, <2>1 DEF ProgressInv, Closing
<1>3. CASE Start
  <2>1. /\ UNCHANGED <<artifactFactory, images>>
        /\ \/ pc' = "catch"
           \/ /\ pc' = pc /\ running' = TRUE
              /\ pc # "factory-build" => factory' = factory
              /\ pc \in Charged
    BY <1>3 DEF Start, Throws
  <2>2. QED
    BY <1>e, <1>i, <2>1 DEF ProgressInv, Closing, Charged
<1>4. CASE FactoryStep
  <2>1. pc = "factory-build" /\ running /\ UNCHANGED <<pc, running, images>>
    BY <1>4 DEF FactoryStep
  <2>2. images' = <<>> /\ History(images') /\ Len(images') = 0
    BY <2>1, HistoryStarts DEF ProgressInv
  <2>3. ImagesInv'
    BY <2>2 DEF ImagesInv
  <2>4. QED
    BY <2>1, <2>2, <2>3 DEF ProgressInv
<1>5. CASE FactoryIsBuilt \/ FactoryIsCreated \/ Extract \/ FactoryRemove
  <2>1. UNCHANGED <<factory, artifactFactory, images>>
    BY <1>5 DEF FactoryIsBuilt, FactoryIsCreated, Extract, FactoryRemove,
       Goes, madeVars, factoryVars
  <2>2. \/ pc' \in Closing \cup Removing
        \/ pc = "factory-build" /\ factory = "done" /\ pc' = "factory-inspect"
        \/ pc = "factory-create" /\ pc' = "extract"
        \/ pc = "extract" /\ pc' = "factory-remove"
        \/ pc = "factory-remove" /\ pc' = "receipt"
    BY <1>5 DEF FactoryIsBuilt, FactoryIsCreated, Extract, FactoryRemove,
       Removal, Goes, Closing, Removing
  <2>3. QED
    BY <1>e, <1>i, <2>1, <2>2 DEF ProgressInv
<1>6. CASE Receipt
  <2>1. pc = "receipt" /\ UNCHANGED <<factory, artifactFactory, images>>
    BY <1>6 DEF Receipt, Goes, madeVars, factoryVars
  <2>2. factory = "done" /\ images = <<>> /\ ImagesInv /\ Len(images) = 0
    BY <2>1, HistoryStarts DEF ProgressInv
  <2>3. CASE pc' = "catch"
    BY <1>e, <2>3 DEF Closing
  <2>4. CASE pc' # "catch"
    <3>1. pc' = "image-build"
      BY <1>6, <2>4 DEF Receipt, Goes
    <3>2. QED
      BY <1>i, <2>1, <2>2, <3>1, PlanFacts DEF ProgressInv
  <2>5. QED
    BY <2>3, <2>4
<1>7. CASE ImageIsBuilt \/ ImageIsInspected
  <2>1. /\ UNCHANGED <<factory, artifactFactory, images>>
        /\ pc \in Imaging /\ pc' \in Imaging \cup Closing
    BY <1>7 DEF ImageIsBuilt, ImageIsInspected, Goes, madeVars, factoryVars, Closing
  <2>2. QED
    BY <1>e, <1>i, <2>1 DEF ProgressInv
<1>8. CASE ImageIsProbed
  <2>1. /\ pc = "image-probe" /\ UNCHANGED <<factory, artifactFactory>>
        /\ pc' = IF Len(images) = Len(Defects) THEN "smoke" ELSE "image-build"
        /\ images' = Append(images, ImageOf(Set))
    BY <1>8 DEF ImageIsProbed, Goes, madeVars, factoryVars, ImageOf
  <2>2. ImagesInv /\ Len(images) \in Nat /\ Len(images) <= Len(Defects)
    BY <2>1 DEF ProgressInv, ImagesInv
  <2>3. /\ History(images') /\ Len(images') = Len(images) + 1
        /\ \A n \in 1..Len(images) : images'[n] = images[n]
        /\ images'[Len(images) + 1] = ImageOf(artifactFactory.sets[Len(images) + 1])
    BY <2>1, <2>2, HistoryGrows DEF ImagesInv, Set
  <2>4. ImagesInv'
    BY <2>1, <2>2, <2>3 DEF ImagesInv
  <2>5. QED
    BY <2>1, <2>2, <2>3, <2>4, PlanFacts DEF ProgressInv
<1>9. CASE SmokePasses
  <2>1. /\ pc = "smoke" /\ pc' \in {"finish", "smoke"}
        /\ UNCHANGED <<factory, artifactFactory, images>>
    BY <1>9 DEF SmokePasses, madeVars, factoryVars
  <2>2. QED
    BY <1>i, <2>1 DEF ProgressInv
<1>10. CASE SmokeFails
  BY <1>e, <1>10 DEF SmokeFails, Throws, Closing
<1>11. CASE FactoryIsInspected
  <2>1. /\ pc = "factory-inspect" /\ UNCHANGED <<factory, images>>
        /\ pc' \in {"factory-create", "catch"}
    BY <1>11 DEF FactoryIsInspected, Goes, factoryVars
  <2>2. images' = <<>> /\ History(images') /\ Len(images') = 0
    BY <2>1, HistoryStarts DEF ProgressInv
  <2>3. ImagesInv'
    BY <2>2 DEF ImagesInv
  <2>4. QED
    BY <1>e, <2>1, <2>2, <2>3 DEF ProgressInv, Closing
<1>12. QED
  BY <1>1, <1>2, <1>3, <1>4, <1>5, <1>6, <1>7, <1>8, <1>9, <1>10, <1>11, Actions

\* What the receipt of the factory image said is not forgotten.
LEMMA ReceiptKeeps ==
  ASSUME ReceiptInv, [Next]_vars
  PROVE  ReceiptInv'
<1> USE DEF Normal, Building, Extraction, Imaging, Trying
<1>e. ASSUME pc' \in Closing \cup Removing \cup Building \cup {"factory-inspect"}
      PROVE  ReceiptInv'
  BY <1>e DEF ReceiptInv, Closing, Removing
<1>s. ASSUME UNCHANGED <<artifactFactory, sets, edits>>,
             pc \in Normal \ (Building \cup {"factory-inspect"}) \/ pc' = pc,
             pc' \in Imaging \cup Trying => pc \in Imaging \cup Trying
      PROVE  ReceiptInv'
  <2>1. OwnReceipt' = OwnReceipt /\ PlannedSets' = PlannedSets /\ Phase1' = Phase1
    BY <1>s DEF OwnReceipt, PlannedSets, Phase1, Untouched
  <2>2. [p \in Names |-> Digest(artifactFactory.sets[1].tarballs[p])]' =
          [p \in Names |-> Digest(artifactFactory.sets[1].tarballs[p])]
    BY <1>s DEF Digest
  <2>3. [n \in DOMAIN artifactFactory.sets |-> artifactFactory.sets[n].id]' =
          [n \in DOMAIN artifactFactory.sets |-> artifactFactory.sets[n].id]
    BY <1>s
  <2>4. QED
    BY <1>s, <2>1, <2>2, <2>3 DEF ReceiptInv
<1>1. CASE Beside
  <2>1. UNCHANGED <<artifactFactory, sets, edits>>
    BY <1>1, BesideKeeps
  <2>2. QED
    BY <1>1, <1>e, <1>s, <2>1, BesideKeeps
<1>2. CASE ArchiveTarget \/ FactoryStep \/ FactoryIsBuilt
  BY <1>2, <1>e DEF ArchiveTarget, FactoryStep, FactoryIsBuilt, Goes, Throws, Closing
<1>3. CASE Start
  <2>1. UNCHANGED <<artifactFactory, sets, edits>> /\ (pc' = pc \/ pc' = "catch")
    BY <1>3 DEF Start, Throws
  <2>2. QED
    BY <1>e, <1>s, <2>1 DEF Closing
<1>4. CASE FactoryIsInspected
  <2>1. UNCHANGED sets
    BY <1>4 DEF FactoryIsInspected, Goes, factoryVars
  <2>2. OwnReceipt' = OwnReceipt
    BY <2>1 DEF OwnReceipt
  <2>3. \/ pc' = "catch"
        \/ /\ pc' = "factory-create"
           /\ \/ artifactFactory' = [owner |-> "own", sets |-> OwnReceipt]
              \/ artifactFactory'.owner = "foreign"
    BY <1>4 DEF FactoryIsInspected, Goes
  <2>4. QED
    BY <1>e, <2>2, <2>3 DEF ReceiptInv, Closing
<1>5. CASE FactoryIsCreated \/ Extract \/ FactoryRemove
  <2>1. UNCHANGED <<artifactFactory, sets, edits>>
    BY <1>5 DEF FactoryIsCreated, Extract, FactoryRemove, Goes, madeVars, factoryVars
  <2>2. \/ pc' \in Closing \cup Removing
        \/ /\ pc \in {"factory-create"} \cup Extraction
           /\ pc' \in {"receipt"} \cup Extraction
    BY <1>5 DEF FactoryIsCreated, Extract, FactoryRemove, Removal, Goes, Closing, Removing
  <2>3. QED
    BY <1>e, <1>s, <2>1, <2>2
<1>6. CASE Receipt
  <2>1. UNCHANGED <<artifactFactory, sets, edits>> /\ pc = "receipt"
    BY <1>6 DEF Receipt, Goes, factoryVars
  <2>2. CASE pc' = "catch"
    BY <1>e, <2>2 DEF Closing
  <2>3. CASE pc' # "catch"
    <3>1. /\ pc' = "image-build"
          /\ [n \in DOMAIN artifactFactory.sets |-> artifactFactory.sets[n].id] = PlannedSets
          /\ [p \in Names |-> Digest(artifactFactory.sets[1].tarballs[p])] = Phase1
      BY <1>6, <2>3 DEF Receipt, Goes
    <3>2. OwnReceipt' = OwnReceipt /\ PlannedSets' = PlannedSets /\ Phase1' = Phase1
      BY <2>1 DEF OwnReceipt, PlannedSets, Phase1, Untouched
    <3>3. [p \in Names |-> Digest(artifactFactory.sets[1].tarballs[p])]' =
            [p \in Names |-> Digest(artifactFactory.sets[1].tarballs[p])]
      BY <2>1 DEF Digest
    <3>4. [n \in DOMAIN artifactFactory.sets |-> artifactFactory.sets[n].id]' =
            [n \in DOMAIN artifactFactory.sets |-> artifactFactory.sets[n].id]
      BY <2>1
    <3>5. QED
      BY <2>1, <3>1, <3>2, <3>3, <3>4 DEF ReceiptInv
  <2>4. QED
    BY <2>2, <2>3
<1>7. CASE ImageIsBuilt \/ ImageIsInspected \/ ImageIsProbed \/ SmokePasses \/ SmokeFails
  <2>1. UNCHANGED <<artifactFactory, sets, edits>>
    BY <1>7 DEF ImageIsBuilt, ImageIsInspected, ImageIsProbed, SmokePasses, SmokeFails, Goes,
       madeVars, factoryVars
  <2>2. /\ pc \in Imaging \cup Trying
        /\ pc' \in Imaging \cup Trying \cup Closing
    BY <1>7 DEF ImageIsBuilt, ImageIsInspected, ImageIsProbed, SmokePasses, SmokeFails, Goes,
       Throws, Closing
  <2>3. QED
    BY <1>e, <1>s, <2>1, <2>2
<1>8. QED
  BY <1>1, <1>2, <1>3, <1>4, <1>5, <1>6, <1>7, Actions

\* The planned sets, one by one.
LEMMA Planned ==
  /\ PlannedSets \in Seq({"clean"} \cup Ids) /\ Len(PlannedSets) = Len(Defects) + 1
  /\ DOMAIN PlannedSets = 1..(Len(Defects) + 1) /\ 1 \in 1..(Len(Defects) + 1)
  /\ PlannedSets[1] = "clean"
  /\ \A n \in 2..(Len(Defects) + 1) : PlannedSets[n] = Defects[n - 1]
<1>1. Defects \in Seq({"clean"} \cup Ids) /\ <<"clean">> \in Seq({"clean"} \cup Ids)
  BY PlanAssumption, SeqMonotonic
<1>2. Len(<<"clean">>) = 1 /\ <<"clean">>[1] = "clean"
  OBVIOUS
<1>3. /\ PlannedSets \in Seq({"clean"} \cup Ids) /\ Len(PlannedSets) = Len(Defects) + 1
      /\ PlannedSets[1] = "clean"
      /\ \A n \in 2..(Len(Defects) + 1) : PlannedSets[n] = Defects[n - 1]
  BY <1>1, <1>2, PlanFacts, ConcatProperties DEF PlannedSets
<1>4. DOMAIN PlannedSets = 1..(Len(Defects) + 1) /\ 1 \in 1..(Len(Defects) + 1)
  BY <1>3, PlanFacts
<1>5. QED
  BY <1>3, <1>4

\* The images are made of sets with the planned names.
LEMMA ReceiptNames ==
  ASSUME ReceiptInv, pc \in Imaging \cup Trying
  PROVE  /\ DOMAIN artifactFactory.sets = 1..(Len(Defects) + 1)
         /\ \A n \in 1..(Len(Defects) + 1) : artifactFactory.sets[n].id = PlannedSets[n]
<1>1. [n \in DOMAIN artifactFactory.sets |-> artifactFactory.sets[n].id] = PlannedSets
  BY DEF ReceiptInv
<1>2. DOMAIN PlannedSets = 1..(Len(Defects) + 1)
  BY Planned
<1>3. QED
  BY <1>1, <1>2

\* The clean image is the first one, and the smoke cases are tried in their order.
LEMMA SmokeKeeps ==
  ASSUME ReceiptInv, ProgressInv, SmokeInv, [Next]_vars
  PROVE  SmokeInv'
<1> USE DEF Normal, Building, Extraction, Imaging, Trying, Ready
<1>e. ASSUME pc' \in Closing \cup Removing
      PROVE  SmokeInv'
  BY <1>e DEF SmokeInv, Closing, Removing
<1>i. ASSUME SmokesInv, UNCHANGED smokes
      PROVE  SmokesInv'
  BY <1>i DEF SmokesInv
<1>1. CASE Beside
  <2>1. UNCHANGED smokes
    BY <1>1, BesideKeeps
  <2>2. CASE pc' = pc
    BY <1>i, <2>1, <2>2 DEF SmokeInv
  <2>3. CASE pc' \in Closing \cup Removing
    BY <1>e, <2>3
  <2>4. CASE pc = "validate" /\ pc' = "archive"
    BY <1>i, <2>1, <2>4 DEF SmokeInv
  <2>5. CASE pc = "finish" /\ pc' = "publish" /\ Len(smokes) = Len(Smokes)
    BY <1>i, <2>1, <2>5 DEF SmokeInv
  <2>6. CASE pc = "publish" /\ pc' = "prepared"
    BY <1>i, <2>1, <2>6 DEF SmokeInv
  <2>7. QED
    BY <1>1, <2>2, <2>3, <2>4, <2>5, <2>6, BesideKeeps
<1>2. CASE ArchiveTarget \/ Start \/ FactoryStep \/ FactoryIsBuilt
  <2>1. /\ UNCHANGED smokes
        /\ \/ pc' \in Closing \cup Removing
           \/ pc' = pc
           \/ pc \in Building /\ pc' \in {"factory-build", "factory-inspect"}
    BY <1>2 DEF ArchiveTarget, Start, FactoryStep, FactoryIsBuilt, Goes, Throws, Closing
  <2>2. QED
    BY <1>e, <1>i, <2>1 DEF SmokeInv
<1>3. CASE FactoryIsInspected \/ FactoryIsCreated \/ Extract \/ FactoryRemove \/ Receipt
  <2>1. /\ UNCHANGED smokes
        /\ \/ pc' \in Closing \cup Removing
           \/ /\ pc \in {"factory-inspect", "factory-create", "receipt"} \cup Extraction
              /\ pc' \in {"factory-create", "receipt", "image-build"} \cup Extraction
    BY <1>3 DEF FactoryIsInspected, FactoryIsCreated, Extract, FactoryRemove, Removal, Receipt,
       Goes, Closing, Removing
  <2>2. QED
    BY <1>e, <1>i, <2>1 DEF SmokeInv
<1>4. CASE ImageIsBuilt \/ ImageIsInspected \/ ImageIsProbed
  <2>1. /\ UNCHANGED smokes
        /\ pc \in Imaging /\ pc' \in Imaging \cup {"smoke"} \cup Closing
    BY <1>4 DEF ImageIsBuilt, ImageIsInspected, ImageIsProbed, Goes, Closing
  <2>2. QED
    BY <1>e, <1>i, <2>1 DEF SmokeInv
<1>5. CASE SmokePasses
  <2>1. /\ pc = "smoke" /\ pc' \in {"finish", "smoke"}
        /\ smokes' = Append(smokes, [case |-> Smokes[Len(smokes) + 1], image |-> images[1].id,
                                     result |-> "pass"])
    BY <1>5 DEF SmokePasses, Case
  <2>2. images[1].id = "clean"
    <3>1. images[1] = ImageOf(artifactFactory.sets[1])
      BY <2>1, PlanFacts DEF ProgressInv, ImagesInv
    <3>2. artifactFactory.sets[1].id = "clean"
      BY <2>1, Planned, ReceiptNames
    <3>3. QED
      BY <3>1, <3>2 DEF ImageOf
  <2>3. SmokesInv
    BY <2>1 DEF SmokeInv
  <2>4. /\ History(smokes') /\ Len(smokes) \in Nat /\ Len(smokes') = Len(smokes) + 1
        /\ \A n \in 1..Len(smokes) : smokes'[n] = smokes[n]
        /\ smokes'[Len(smokes) + 1] =
             [case |-> Smokes[Len(smokes) + 1], image |-> "clean", result |-> "pass"]
    BY <2>1, <2>2, <2>3, HistoryGrows DEF SmokesInv
  <2>5. ASSUME NEW n \in 1..Len(smokes')
        PROVE  smokes'[n] = [case |-> Smokes[n], image |-> "clean", result |-> "pass"]
    <3>1. n \in 1..Len(smokes) \/ n = Len(smokes) + 1
      BY <2>4
    <3>2. CASE n \in 1..Len(smokes)
      BY <2>3, <2>4, <3>2 DEF SmokesInv
    <3>3. CASE n = Len(smokes) + 1
      BY <2>4, <3>3
    <3>4. QED
      BY <3>1, <3>2, <3>3
  <2>6. SmokesInv'
    BY <2>4, <2>5 DEF SmokesInv
  <2>7. QED
    BY <2>1, <2>6 DEF SmokeInv
<1>6. CASE SmokeFails
  BY <1>e, <1>6 DEF SmokeFails, Throws, Closing
<1>7. QED
  BY <1>1, <1>2, <1>3, <1>4, <1>5, <1>6, Actions

\* Nothing is done once the evidence is written.
LEMMA EndedStays ==
  ASSUME [Next]_vars, pc \in {"prepared", "stopped"}
  PROVE  UNCHANGED <<pc, ledger, images, smokes, artifactFactory, evidence>>
<1> USE DEF Charged, madeVars, factoryVars
<1>1. ~Step
  BY DEF Step, Validate, ArchiveTarget, Start, FactoryStep, CommandFails, CommandIsNotStarted,
     Remove, FactoryIsBuilt, FactoryIsInspected, FactoryIsCreated, Extract, FactoryRemove,
     Receipt, ImageIsBuilt, ImageIsInspected, ImageIsProbed, SmokePasses, SmokeFails, Finish,
     Publish, Catch, CleanUp, Report
<1>2. QED
  BY <1>1 DEF Next, Retag, Created, Tick, vars

LEMMA EvidenceKeeps ==
  ASSUME EvidenceInv, [Next]_vars
  PROVE  EvidenceInv'
<1>1. CASE pc \in {"prepared", "stopped"}
  BY <1>1, EndedStays DEF EvidenceInv
<1>2. CASE Publish
  BY <1>2 DEF EvidenceInv, Publish, Throws, Evidence, Torn, madeVars, factoryVars
<1>3. CASE Report
  BY <1>3 DEF EvidenceInv, Report, Evidence, Torn, madeVars, factoryVars
<1>4. CASE pc \notin {"prepared", "stopped"} /\ ~Publish /\ ~Report
  <2>1. UNCHANGED evidence
    BY <1>4 DEF Next, Step, Validate, ArchiveTarget, Start, FactoryStep, CommandFails,
       CommandIsNotStarted, Remove, FactoryIsBuilt, FactoryIsInspected, FactoryIsCreated,
       Extract, FactoryRemove, Receipt, ImageIsBuilt, ImageIsInspected, ImageIsProbed,
       SmokePasses, SmokeFails, Finish, Catch, CleanUp, Retag, Created, Tick, vars, Goes
  <2>2. QED
    BY <1>4, <2>1 DEF EvidenceInv
<1>5. QED
  BY <1>1, <1>2, <1>3, <1>4

LEMMA PrepKeeps == PInv /\ [Next]_vars => PInv'
<1> SUFFICES ASSUME PInv, [Next]_vars PROVE PInv'
  OBVIOUS
<1>1. FactoryInv' /\ ProgressInv' /\ ReceiptInv'
  BY FactoryStays, ProgressKeeps, ReceiptKeeps DEF PInv
<1>2. LedgerInv' /\ CleanInv'
  BY LedgerKeeps, CleanKeeps DEF PInv
<1>3. SmokeInv' /\ EvidenceInv'
  BY SmokeKeeps, EvidenceKeeps DEF PInv
<1>4. QED
  BY <1>1, <1>2, <1>3 DEF PInv

-----------------------------------------------------------------------------
\* The invariant of a preparation: what the factory has made, what the image that was
\* inspected holds of it, what the ledger counts, what is left behind, and how far the images
\* and the smoke cases have come.
THEOREM PreparationInvariant == PreparationSpec => []PInv
<1>1. PInv /\ [Next]_vars => PInv'
  BY PrepKeeps
<1>2. QED
  BY <1>1, PrepInit, PTL DEF PreparationSpec

\* The factory's sets carry one edit each, whatever the earlier builds left behind, for any
\* packages and any defects of which no package is both edited and depended upon.
THEOREM SetsCarryTheirEdits == PreparationSpec => []EachSetCarriesItsEdit
<1>1. PInv => EachSetCarriesItsEdit
  <2> SUFFICES ASSUME FactoryInv, factory = "done"
               PROVE  /\ Len(sets) = Len(Defects) + 1
                      /\ \A n \in DOMAIN sets : sets[n] =
                           IF n = 1 THEN [id |-> "clean", tarballs |-> [p \in Names |-> target]]
                           ELSE [id |-> Defects[n - 1],
                                 tarballs |-> [p \in Names |->
                                   IF p = ModuleOf[Defects[n - 1]]
                                   THEN target \cup {Defects[n - 1]} ELSE target]]
    BY DEF PInv, EachSetCarriesItsEdit
  <2>1. History(sets) /\ \A n \in 1..Len(sets) : sets[n] = SetOf(n)
    BY DEF FactoryInv, SetsInv
  <2>2. DOMAIN sets = 1..Len(sets)
    BY <2>1 DEF History
  <2>3. QED
    BY <2>1, <2>2 DEF FactoryInv, SetOf
<1>2. QED
  BY <1>1, PreparationInvariant, PTL

\* What a preparation leaves behind is counted in its evidence, however it ended, unless the
\* removal could not be started or the runner of a smoke case threw.
THEOREM LeftBehindIsCounted == PreparationSpec => []LeftBehindIsRecorded
<1>1. PInv => LeftBehindIsRecorded
  BY DEF PInv, LeftBehindIsRecorded, EvidenceInv, CleanInv, Closing, Removing, Extraction,
         Ready, Normal, Trying
<1>2. QED
  BY <1>1, PreparationInvariant, PTL

\* A preparation that is reported as finished is what the validator accepts, and its images
\* are those of the plan, for any plan and whatever is retagged meanwhile, but for the edits
\* in them when another preparation's factory image took the shared tag.
THEOREM PreparedIsWhole == PreparationSpec => []PreparedIsComplete
<1> DEFINE edited(n) == [p \in Names |-> IF n > 1 /\ p = ModuleOf[PlannedSets[n]]
                                         THEN {PlannedSets[n]} ELSE {}]
<1>1. ASSUME PInv, evidence.status = "prepared"
      PROVE  /\ ValidatePreparationEvidence(evidence)
             /\ ~broken /\ temporary = "removed" /\ container = "none"
             /\ [n \in DOMAIN evidence.smokes |-> evidence.smokes[n].case] = Smokes
             /\ \A n \in DOMAIN evidence.smokes :
                  evidence.smokes[n].result = "pass" /\ evidence.smokes[n].image = "clean"
             /\ [p \in Names |-> Digest(evidence.images[1].tarballs[p])] = Phase1
             /\ evidence.artifactFactory.owner = "own" =>
                  \A n \in DOMAIN PlannedSets : evidence.images[n].tarballs = edited(n)
  <2> USE PlanFacts
  <2> HIDE DEF edited
  <2>1. /\ pc = "prepared" /\ evidence.elapsed <= WallMax
        /\ ledger.failures = 0 /\ ledger.cleanupFailures = 0
        /\ evidence.ledger = ledger /\ evidence.images = images
        /\ evidence.smokes = smokes /\ evidence.artifactFactory = artifactFactory
    BY <1>1 DEF PInv, EvidenceInv
  <2>2. /\ ledger.stoppedBy = Unstopped /\ ledger.builds = PlannedBuilds
        /\ ledger.inspects + ledger.probeContainers = PlannedProbes
    BY <1>1, <2>1 DEF PInv, LedgerInv, Ready
  <2>3. ~broken /\ temporary = "removed" /\ container = "none"
    BY <1>1, <2>1 DEF PInv, CleanInv, Normal, Trying, Extraction, Ready
  <2>4. ImagesInv /\ Len(images) = Len(Defects) + 1 /\ factory = "done"
    BY <1>1, <2>1 DEF PInv, ProgressInv, Normal, Trying, Building, Imaging
  <2>5. /\ [n \in DOMAIN artifactFactory.sets |-> artifactFactory.sets[n].id] = PlannedSets
        /\ [p \in Names |-> Digest(artifactFactory.sets[1].tarballs[p])] = Phase1
        /\ \/ artifactFactory = [owner |-> "own", sets |-> OwnReceipt]
           \/ artifactFactory.owner = "foreign"
    BY <1>1, <2>1 DEF PInv, ReceiptInv, Normal, Trying, Building, Imaging
  <2>6. DOMAIN images = 1..(Len(Defects) + 1)
    BY <2>4 DEF ImagesInv, History
  <2>7. \A n \in 1..(Len(Defects) + 1) : images[n] = ImageOf(artifactFactory.sets[n])
    BY <2>4 DEF ImagesInv
  <2>8. \A n \in 1..(Len(Defects) + 1) : images[n].tarballs = artifactFactory.sets[n].tarballs
    <3>1. SUFFICES ASSUME NEW n \in 1..(Len(Defects) + 1)
                   PROVE  images[n].tarballs = artifactFactory.sets[n].tarballs
      OBVIOUS
    <3>2. images[n] = ImageOf(artifactFactory.sets[n])
      BY <2>7
    <3>3. QED
      BY ONLY <3>2 DEF ImageOf
  <2>9. \A n \in 1..(Len(Defects) + 1) : artifactFactory.sets[n].id = PlannedSets[n]
    BY <1>1, <2>1, ReceiptNames DEF PInv, Trying
  <2>10. \A n \in DOMAIN images : ImageValid(images[n], artifactFactory.sets[n])
    BY <2>6, <2>7 DEF ImageValid, ImageOf
  <2>11. ValidatePreparationEvidence(evidence)
    <3>1. Len(images) = Len(PlannedSets)
      BY <2>4, Planned
    <3>2. QED
      BY <1>1, <2>1, <2>2, <2>5, <2>10, <3>1, BudgetAssumption DEF ValidatePreparationEvidence
  <2>12. SmokesInv /\ Len(smokes) = Len(Smokes)
    BY <1>1, <2>1 DEF PInv, SmokeInv, Normal, Trying, Ready
  <2>13. /\ [n \in DOMAIN smokes |-> smokes[n].case] = Smokes
         /\ \A n \in DOMAIN smokes : smokes[n].result = "pass" /\ smokes[n].image = "clean"
    <3>1. DOMAIN smokes = 1..Len(Smokes)
      BY <2>12 DEF SmokesInv, History
    <3>2. Smokes = [n \in 1..Len(Smokes) |-> Smokes[n]]
      BY BudgetAssumption
    <3>3. QED
      BY <2>12, <3>1, <3>2 DEF SmokesInv
  <2>14. [p \in Names |-> Digest(images[1].tarballs[p])] = Phase1
    <3>1. images[1].tarballs = artifactFactory.sets[1].tarballs
      BY <2>8
    <3>2. QED
      BY ONLY <2>5, <3>1
  <2>15. ASSUME artifactFactory.owner = "own", NEW n \in 1..(Len(Defects) + 1)
         PROVE  images[n].tarballs = edited(n)
    <3>1. artifactFactory.sets = OwnReceipt
      BY <2>5, <2>15
    <3>2. SetsInv /\ Len(sets) = Len(Defects) + 1
      BY <1>1, <2>4 DEF PInv, FactoryInv
    <3>3. DOMAIN sets = 1..(Len(Defects) + 1)
      BY <3>2 DEF SetsInv, History
    <3>4. \A m \in 1..(Len(Defects) + 1) : artifactFactory.sets[m].tarballs = sets[m].tarballs
      BY <3>1, <3>3 DEF OwnReceipt
    <3>5. \A p \in Names : target = {}
      <4>1. artifactFactory.sets[1].tarballs = sets[1].tarballs
        BY <3>4
      <4>2. [p \in Names |-> Digest(sets[1].tarballs[p])] = Phase1
        BY ONLY <2>5, <4>1
      <4>3. QED
        BY <1>1, <2>4, <4>2, ReceiptOfTheTarget DEF PInv
    <3>6. sets[n].tarballs = edited(n)
      <4>1. sets[n] = SetOf(n)
        BY <3>2 DEF SetsInv
      <4>2. CASE n = 1
        BY <3>5, <4>1, <4>2 DEF SetOf, edited
      <4>3. CASE n # 1
        <5>1. n > 1 /\ PlannedSets[n] = Defects[n - 1]
          BY <4>3, Planned
        <5>2. sets[n].tarballs = [p \in Names |-> IF p = ModuleOf[Defects[n - 1]]
                                                  THEN target \cup {Defects[n - 1]} ELSE target]
          BY <4>1, <4>3 DEF SetOf
        <5>3. edited(n) = [p \in Names |-> IF p = ModuleOf[Defects[n - 1]]
                                           THEN {Defects[n - 1]} ELSE {}]
          BY <5>1 DEF edited
        <5>4. \A p \in Names : target \cup {Defects[n - 1]} = {Defects[n - 1]} /\ target = {}
          BY <3>5
        <5>5. QED
          BY ONLY <5>2, <5>3, <5>4
      <4>4. QED
        BY <4>2, <4>3
    <3>7. QED
      BY <2>8, <3>4, <3>6
  <2>16. DOMAIN PlannedSets = 1..(Len(Defects) + 1)
    BY Planned
  <2>17. QED
    BY <2>1, <2>3, <2>11, <2>13, <2>14, <2>15, <2>16
<1>2. PInv => PreparedIsComplete
  BY <1>1 DEF PreparedIsComplete
<1>3. QED
  BY <1>2, PreparationInvariant, PTL
=============================================================================
