------------------------------ MODULE Preparation ------------------------------
(***************************************************************************)
(* The preparation of the benchmark images                                 *)
(* (src/scripts/prepare-v03-benchmark.mjs with the ledger of               *)
(* src/src/v03-benchmark-preparation.mjs): the factory image is built and  *)
(* its artifact sets are copied out of it, an image is built of each set   *)
(* and probed, the clean image is tried, and the evidence is written.      *)
(*                                                                         *)
(* An operation that is charged runs while "running" is TRUE, so that the  *)
(* clock and other processes move meanwhile.  The factory of               *)
(* ArtifactFactory runs inside the build of the factory image.             *)
(***************************************************************************)
EXTENDS ArtifactFactory

CONSTANTS Smokes,       \* the smoke cases, in order
          OtherModules, \* bound: for the defects of the manifest of another preparation of
                        \* the same target, the package each edits
          WallMax,      \* monotonicWallClockSecondsMaximum
          BuildMax,     \* dockerBuildMaximum
          ProbeMax      \* dockerInspectOrProbeMaximum

PlannedBuilds == Len(Defects) + 2
PlannedProbes == 2 + 2 * (Len(Defects) + 1) + Len(Smokes)

\* assertTwentyOneArtifactPlan: the plan leaves some of the budget.
ASSUME BudgetAssumption ==
  /\ WallMax \in Nat /\ BuildMax \in Nat /\ ProbeMax \in Nat
  /\ Smokes \in Seq({Smokes[n] : n \in DOMAIN Smokes})
  /\ PlannedBuilds <= BuildMax /\ PlannedProbes <= ProbeMax

\* The other manifest names the same defects; "foreign" stands for an edit of it.
ASSUME OtherAssumption ==
  /\ OtherModules \subseteq [Ids -> Names]
  /\ "foreign" \notin Ids /\ "null" \notin Names

VARIABLES pc,         \* the operation under way or next
          running,    \* its command was started
          elapsed,    \* seconds since the start
          ledger,
          cleaning,   \* cleanupStarted
          temporary,  \* "present", "removed"
          container,  \* of the operation: "none", "created", "coming", "late"
          tag,        \* what the tag of the image under way names: "own", "foreign"
          artifactFactory, \* the factory image as it was inspected, named by its id from then on
          images,     \* the images probed so far
          smokes,     \* the results of the smoke cases so far
          broken,     \* a check or an operation has failed
          unstarted,  \* a removal could not be started
          evidence    \* what phase4-preparation.json holds of this preparation

madeVars == <<artifactFactory, factoryVars>>
vars == <<pc, running, elapsed, ledger, cleaning, temporary, container, tag, images, smokes,
          broken, unstarted, evidence, madeVars>>

Unstopped == <<>>
NewLedger == [builds |-> 0, inspects |-> 0, probeContainers |-> 0, failures |-> 0,
              cleanups |-> 0, cleanupFailures |-> 0, stoppedBy |-> Unstopped]
NoFactory == [owner |-> "none", sets |-> <<>>]
NoEvidence == [status |-> "none"]
Torn == [status |-> "torn"]  \* a file that was not written to its end

Init ==
  /\ pc = "validate" /\ running = FALSE
  /\ elapsed = 0
  /\ ledger = NewLedger
  /\ cleaning = FALSE /\ temporary = "present" /\ container = "none"
  /\ tag = "own" /\ artifactFactory = NoFactory /\ images = <<>> /\ smokes = <<>>
  /\ broken = FALSE /\ unstarted = FALSE
  /\ evidence = NoEvidence
  /\ FactoryInit

-----------------------------------------------------------------------------
\* The set whose image is under way, and the operations that are charged.
Set == artifactFactory.sets[Len(images) + 1]
Kind(op) ==
  CASE op \in {"factory-build", "image-build"} -> "builds"
    [] op \in {"factory-inspect", "image-inspect"} -> "inspects"
    [] op \in {"factory-create", "image-probe", "smoke"} -> "probeContainers"
Charged == {"factory-build", "factory-inspect", "factory-create",
            "image-build", "image-inspect", "image-probe", "smoke"}
NamesContainer == {"factory-create", "image-probe"}

\* chargePreparation; a cleanup is charged whatever happened.
Chargeable(kind) ==
  /\ ledger.stoppedBy = Unstopped
  /\ elapsed <= WallMax
  /\ kind = "builds" => ledger.builds < BuildMax
  /\ kind # "builds" => ledger.inspects + ledger.probeContainers < ProbeMax

Stopped(l, reason) == [l EXCEPT !.failures = @ + 1, !.stoppedBy = <<reason>>]
\* Plausible bug: a cleanup that fails is not counted.
CleanedUpSilently(l, failed) == [l EXCEPT !.cleanups = @ + 1]

CleanedUp(l, failed) ==
  [l EXCEPT !.cleanups = @ + 1, !.cleanupFailures = IF failed THEN @ + 1 ELSE @]

\* Whatever throws ends in the catch block of main.
Throws == pc' = "catch" /\ broken' = TRUE /\ running' = FALSE

\* The inputs are validated, and the revision of the target is compared.
Validate ==
  /\ pc = "validate"
  /\ \/ Throws
     \/ pc' = "archive" /\ UNCHANGED <<running, broken>>
  /\ UNCHANGED <<elapsed, ledger, cleaning, temporary, container, tag, images, smokes,
                 unstarted, evidence, madeVars>>

\* The target is archived: tar may end well on what git archive wrote before it failed.
ArchiveTarget ==
  /\ pc = "archive"
  /\ \/ Throws /\ UNCHANGED target
     \/ /\ target' \in {{}, {"truncated"}}
        /\ pc' = "factory-build"
        /\ UNCHANGED <<running, broken>>
  /\ UNCHANGED <<elapsed, ledger, cleaning, temporary, container, tag, images, smokes,
                 unstarted, evidence, artifactFactory, factory, edits, source, dist, sets>>

\* chargedRun, up to the command: the charge comes before the attempt.
Start ==
  /\ pc \in Charged /\ ~running
  /\ IF Chargeable(Kind(pc))
     THEN /\ ledger' = [ledger EXCEPT ![Kind(pc)] = @ + 1]
          /\ running' = TRUE
          /\ factory' = IF pc = "factory-build" THEN "clean" ELSE factory
          /\ UNCHANGED <<pc, broken>>
     ELSE Throws /\ UNCHANGED <<ledger, factory>>
  /\ UNCHANGED <<elapsed, cleaning, temporary, container, tag, images, smokes, unstarted,
                 evidence, artifactFactory, edits, target, source, dist, sets>>

\* The factory works while its image is built.
FactoryStep ==
  /\ pc = "factory-build" /\ running
  /\ FactoryNext
  /\ UNCHANGED <<pc, running, elapsed, ledger, cleaning, temporary, container, tag, images,
                 smokes, broken, unstarted, evidence, artifactFactory>>

\* The command ends with another code than 0, or was stopped for its time or its output.
\* A container it names may be there, or may be created by the daemon later on.
CommandFails ==
  /\ pc \in Charged \ {"smoke"} /\ running
  /\ ledger' = Stopped(ledger, pc)
  /\ broken' = TRUE /\ running' = FALSE
  /\ IF pc \in NamesContainer
     THEN pc' = "remove" /\ container' \in {"none", "created", "coming"}
     ELSE pc' = "catch" /\ UNCHANGED container
  /\ UNCHANGED <<elapsed, cleaning, temporary, tag, images, smokes, unstarted, evidence,
                 madeVars>>

\* The command cannot be started, and chargedRun rejects without stopping the ledger.
CommandIsNotStarted ==
  /\ pc \in Charged \ {"smoke"} /\ running
  /\ Throws
  /\ UNCHANGED <<elapsed, ledger, cleaning, temporary, container, tag, images, smokes,
                 unstarted, evidence, madeVars>>

\* The finally block after the extraction stops the ledger when docker cp or the removal
\* failed.
AfterRemoval(l) ==
  IF pc = "failed-remove" \/ (pc = "factory-remove" /\ l.cleanupFailures > 0)
  THEN Stopped(l, "artifact-factory-extraction-failed") ELSE l

\* docker rm --force: it removes a container that is there, or fails, or cannot be started.
\* "No such container" counts as removed.
Removal(next) ==
  \/ /\ container' = IF container = "created" THEN "none" ELSE container
     /\ ledger' = AfterRemoval(CleanedUp(ledger, FALSE))
     /\ pc' = next /\ UNCHANGED <<broken, unstarted>>
  \/ /\ ledger' = AfterRemoval(CleanedUp(ledger, TRUE))
     /\ pc' = "catch" /\ broken' = TRUE /\ UNCHANGED <<container, unstarted>>
  \/ /\ ledger' = CleanedUp(ledger, FALSE)
     /\ pc' = "catch" /\ broken' = TRUE /\ unstarted' = TRUE /\ UNCHANGED container

\* The rest of chargedRun: the container of a failed command is removed.
Remove ==
  /\ pc = "remove"
  /\ Removal("catch")
  /\ UNCHANGED <<running, elapsed, cleaning, temporary, tag, images, smokes, evidence,
                 madeVars>>

-----------------------------------------------------------------------------
Goes(next) ==
  /\ pc' = next /\ running' = FALSE
  /\ UNCHANGED <<elapsed, ledger, cleaning, temporary, smokes, unstarted, evidence, factoryVars>>

\* The build of the factory image succeeds when its factory has.
FactoryIsBuilt ==
  /\ pc = "factory-build" /\ running /\ factory = "done"
  /\ Goes("factory-inspect")
  /\ tag' = "own"
  /\ UNCHANGED <<container, artifactFactory, images, broken>>

\* Another process tags an image of its own like the one under way.  The tag of the factory
\* image holds nothing but the revision of the target.
Retag ==
  /\ pc \in {"factory-inspect", "image-inspect", "image-probe"}
  /\ tag' = "foreign"
  /\ UNCHANGED <<pc, running, elapsed, ledger, cleaning, temporary, container, images, smokes,
                 broken, unstarted, evidence, madeVars>>

\* receipt.json of a factory image: for each set its id, the package its edit belongs to
\* and what its tarballs hold.
OwnReceipt ==
  [n \in DOMAIN sets |->
     [id |-> sets[n].id, module |-> IF n = 1 THEN "null" ELSE ModuleOf[sets[n].id],
      tarballs |-> sets[n].tarballs]]

\* Another preparation of the same target has made the same clean set and an edit of its
\* own of each defect's name, or sets of other names, which <<>> stands for.
PlannedSets == <<"clean">> \o Defects
ForeignReceipt(module) ==
  [n \in DOMAIN PlannedSets |->
     LET edited == IF n = 1 THEN "null" ELSE module[PlannedSets[n]]
     IN [id |-> PlannedSets[n], module |-> edited,
         tarballs |-> [p \in Names |-> IF p = edited THEN {"foreign"} ELSE {}]]]
ForeignReceipts == {<<>>} \cup {ForeignReceipt(module) : module \in OtherModules}

\* The labels of the image the tag names now, the revision and that it is a factory, do not
\* tell two preparations of one target apart.  The sets of the image are those its
\* container will be asked for; owner, whose image it is, only the model knows.
FactoryIsInspected ==
  /\ pc = "factory-inspect" /\ running
  /\ \/ /\ Goes("factory-create") /\ UNCHANGED broken
        /\ \/ tag = "own" /\ artifactFactory' = [owner |-> "own", sets |-> OwnReceipt]
           \/ /\ tag = "foreign"
              /\ \E receipt \in ForeignReceipts :
                   artifactFactory' = [owner |-> "foreign", sets |-> receipt]
     \/ Goes("catch") /\ broken' = TRUE /\ UNCHANGED artifactFactory  \* its labels are others
  /\ UNCHANGED <<container, tag, images>>

FactoryIsCreated ==
  /\ pc = "factory-create" /\ running
  /\ Goes("extract")
  /\ container' = "created"
  /\ UNCHANGED <<tag, artifactFactory, images, broken>>

\* docker cp: it succeeds, it fails, or it cannot be started.
Extract ==
  /\ pc = "extract"
  /\ \/ Goes("factory-remove") /\ UNCHANGED broken
     \/ Goes("failed-remove") /\ broken' = TRUE
     \/ Goes("rejected-remove") /\ broken' = TRUE
  /\ UNCHANGED <<container, tag, artifactFactory, images>>

\* The finally block after the extraction, and what is thrown of both.  A removal that
\* cannot be started replaces every other error.
FactoryRemove ==
  /\ pc \in {"factory-remove", "failed-remove", "rejected-remove"}
  /\ Removal(IF pc = "factory-remove" THEN "receipt" ELSE "catch")
  /\ UNCHANGED <<running, elapsed, cleaning, temporary, tag, images, smokes, evidence,
                 madeVars>>

\* The digests the sealed Phase 1 evidence has of the clean packages.
Phase1 == Untouched

\* The receipt names the planned sets, and the clean one is that of Phase 1.  What the other
\* sets hold, and of which package they are, is not compared with the manifest.
Receipt ==
  /\ pc = "receipt"
  /\ IF /\ [n \in DOMAIN artifactFactory.sets |-> artifactFactory.sets[n].id] = PlannedSets
        /\ [p \in Names |-> Digest(artifactFactory.sets[1].tarballs[p])] = Phase1
     THEN Goes("image-build") /\ UNCHANGED broken
     ELSE Goes("catch") /\ broken' = TRUE
  /\ UNCHANGED <<container, tag, artifactFactory, images>>

\* freezeTargetTarballIntegrity: in the registered lock only the line of the edited package
\* is changed.
Lock(set) == [p \in Names |-> IF p = set.module THEN set.tarballs[p] ELSE {}]

\* benchmarkImageContractKey: SHA-256 of the inputs is taken as injective.
ContractKey(set) == <<set.id, set.tarballs, Lock(set)>>

\* The frozen install inside the image compares the lock with the tarballs.
ImageIsBuilt ==
  /\ pc = "image-build" /\ running
  /\ Lock(Set) = Set.tarballs
  /\ Goes("image-inspect")
  /\ tag' = "own"
  /\ UNCHANGED <<container, artifactFactory, images, broken>>

\* The label of the image the tag names now must be the contract key, which another
\* preparation shares when it has made the same image; the image is named by its id from
\* here on.
ImageIsInspected ==
  /\ pc = "image-inspect" /\ running
  /\ IF tag = "own" THEN Goes("image-probe") /\ UNCHANGED broken
     ELSE Goes("catch") /\ broken' = TRUE
  /\ UNCHANGED <<container, tag, artifactFactory, images>>

\* Plausible bug: the image is probed and recorded by its tag.
ImageIsProbedByTag ==
  /\ pc = "image-probe" /\ running
  /\ Goes(IF Len(images) = Len(Defects) THEN "smoke" ELSE "image-build")
  /\ images' = Append(images, [id |-> Set.id, key |-> ContractKey(Set),
                               tarballs |-> IF tag = "own" THEN Set.tarballs ELSE Untouched])
  /\ UNCHANGED <<container, tag, artifactFactory, broken>>

\* The probe container verifies the files of the image and answers its identity; --rm
\* removes it.
ImageIsProbed ==
  /\ pc = "image-probe" /\ running
  /\ Goes(IF Len(images) = Len(Defects) THEN "smoke" ELSE "image-build")
  /\ images' = Append(images, [id |-> Set.id, key |-> ContractKey(Set),
                               tarballs |-> Set.tarballs])
  /\ UNCHANGED <<container, tag, artifactFactory, broken>>

-----------------------------------------------------------------------------
\* A smoke case by the case runner, on the clean image: it passes, its process, its result
\* or its expectation fails, its container may not have been removed, or the runner throws.
Case == Smokes[Len(smokes) + 1]
SmokePasses ==
  /\ pc = "smoke" /\ running
  /\ ledger' = CleanedUp(ledger, FALSE)
  /\ smokes' = Append(smokes, [case |-> Case, image |-> images[1].id, result |-> "pass"])
  /\ pc' = IF Len(smokes') = Len(Smokes) THEN "finish" ELSE "smoke"
  /\ running' = FALSE
  /\ UNCHANGED <<elapsed, cleaning, temporary, container, tag, images, broken, unstarted,
                 evidence, madeVars>>

\* Whether the runner throws before the case, in it, or after it, when the result channel
\* cannot be read, its cleanup is not counted, nor that it failed.
RunnerThrows ==
  /\ ledger' = Stopped(ledger, "smoke")
  /\ container' \in {"none", "created", "coming"}
  /\ smokes' = Append(smokes, [case |-> Case, image |-> images[1].id, result |-> "runner-error"])

CaseFails ==
  /\ \/ /\ ledger' = Stopped(CleanedUp(ledger, FALSE), "smoke")
        /\ container' \in {"none", "coming"}
     \/ /\ ledger' = Stopped(CleanedUp(ledger, TRUE), "smoke")     \* cleanupError
        /\ container' \in {"none", "created"}
  /\ smokes' = Append(smokes, [case |-> Case, image |-> images[1].id, result |-> "failed"])

SmokeFails ==
  /\ pc = "smoke" /\ running
  /\ RunnerThrows \/ CaseFails
  /\ Throws
  /\ UNCHANGED <<elapsed, cleaning, temporary, tag, images, unstarted, evidence, madeVars>>

\* cleanupTemporary: once, whatever becomes of it.
CleanupTemporary(next) ==
  IF cleaning THEN pc' = next /\ UNCHANGED <<cleaning, ledger, temporary, broken>>
  ELSE /\ cleaning' = TRUE
       /\ \/ /\ temporary' = "removed" /\ ledger' = CleanedUp(ledger, FALSE)
             /\ pc' = next /\ UNCHANGED broken
          \/ /\ ledger' = CleanedUp(ledger, TRUE)
             /\ pc' = (IF pc = "finish" THEN "catch" ELSE next)
             /\ broken' = TRUE /\ UNCHANGED temporary

Finish ==
  /\ pc = "finish"
  /\ IF /\ Len(smokes) = Len(Smokes)
        /\ ledger.builds = PlannedBuilds
        /\ ledger.inspects + ledger.probeContainers = PlannedProbes
     THEN CleanupTemporary("publish")
     ELSE pc' = "catch" /\ broken' = TRUE /\ UNCHANGED <<cleaning, ledger, temporary>>
  /\ UNCHANGED <<running, elapsed, container, tag, images, smokes, unstarted, evidence,
                 madeVars>>

Evidence(status) ==
  [status |-> status, ledger |-> ledger, elapsed |-> elapsed, images |-> images,
   smokes |-> smokes, artifactFactory |-> artifactFactory]

\* The evidence is written unless the cleanup took too long; writing may fail halfway.
Publish ==
  /\ pc = "publish"
  /\ \/ /\ elapsed <= WallMax /\ ledger.failures = 0 /\ ledger.cleanupFailures = 0
        /\ evidence' = Evidence("prepared") /\ pc' = "prepared"
        /\ UNCHANGED <<broken, running>>
     \/ Throws /\ evidence' \in {evidence} \cup (IF elapsed <= WallMax THEN {Torn} ELSE {})
  /\ UNCHANGED <<elapsed, ledger, cleaning, temporary, container, tag, images, smokes,
                 unstarted, madeVars>>

\* Plausible bug: the ledger is stopped again, which it refuses.
CatchAndStop ==
  /\ pc = "catch"
  /\ ledger.stoppedBy = Unstopped
  /\ ledger' = Stopped(ledger, "preparation-validation-failed")
  /\ pc' = "clean-up"
  /\ UNCHANGED <<running, elapsed, cleaning, temporary, container, tag, images, smokes, broken,
                 unstarted, evidence, madeVars>>

\* The catch block: the ledger is stopped unless it was, what can be cleaned up is, and the
\* evidence tells of it.
Catch ==
  /\ pc = "catch"
  /\ ledger' = IF ledger.stoppedBy = Unstopped
               THEN Stopped(ledger, "preparation-validation-failed") ELSE ledger
  /\ pc' = "clean-up"
  /\ UNCHANGED <<running, elapsed, cleaning, temporary, container, tag, images, smokes, broken,
                 unstarted, evidence, madeVars>>

CleanUp ==
  /\ pc = "clean-up"
  /\ CleanupTemporary("report")
  /\ UNCHANGED <<running, elapsed, container, tag, images, smokes, unstarted, evidence,
                 madeVars>>

Report ==
  /\ pc = "report"
  /\ \/ pc' = "stopped" /\ evidence' = Evidence("stopped")
     \/ pc' = "exited" /\ evidence' \in {evidence, Torn}
  /\ UNCHANGED <<running, elapsed, ledger, cleaning, temporary, container, tag, images, smokes,
                 broken, unstarted, madeVars>>

\* The daemon creates the container of a client that was stopped; it is late when its
\* removal was answered before.
Created ==
  /\ container = "coming"
  /\ container' = IF pc = "remove" THEN "created" ELSE "late"
  /\ UNCHANGED <<pc, running, elapsed, ledger, cleaning, temporary, tag, images, smokes, broken,
                 unstarted, evidence, madeVars>>

Tick ==
  /\ elapsed <= WallMax
  /\ elapsed' = elapsed + 1
  /\ UNCHANGED <<pc, running, ledger, cleaning, temporary, container, tag, images, smokes,
                 broken, unstarted, evidence, madeVars>>

Step ==
  \/ Validate \/ ArchiveTarget \/ Start \/ FactoryStep \/ CommandFails \/ CommandIsNotStarted \/ Remove
  \/ FactoryIsBuilt \/ FactoryIsInspected \/ FactoryIsCreated \/ Extract \/ FactoryRemove
  \/ Receipt \/ ImageIsBuilt \/ ImageIsInspected \/ ImageIsProbed
  \/ SmokePasses \/ SmokeFails \/ Finish \/ Publish \/ Catch \/ CleanUp \/ Report

Next == Step \/ Retag \/ Created \/ Tick

\* docker ends every command, if only because it is killed.
PreparationSpec == Init /\ [][Next]_vars /\ WF_vars(Step)

-----------------------------------------------------------------------------
\* validatePhase4PreparationEvidence, as far as the registration is not concerned.
ImageValid(image, set) ==
  /\ image.id = set.id
  /\ image.tarballs = set.tarballs
  /\ image.key = ContractKey(set)

ValidatePreparationEvidence(e) ==
  /\ e.status = "prepared"
  /\ [n \in DOMAIN e.artifactFactory.sets |-> e.artifactFactory.sets[n].id] = PlannedSets
  /\ Len(e.images) = Len(PlannedSets)
  /\ \A n \in DOMAIN e.images : ImageValid(e.images[n], e.artifactFactory.sets[n])
  /\ e.ledger.failures = 0 /\ e.ledger.cleanupFailures = 0
  /\ e.ledger.stoppedBy = Unstopped
  /\ e.ledger.builds <= BuildMax
  /\ e.ledger.inspects + e.ledger.probeContainers <= ProbeMax
  /\ e.elapsed <= WallMax

\* A preparation that is reported as finished is accepted by the validator, left nothing
\* behind, and tried every smoke case on the clean image, which is of the target as Phase 1
\* sealed it.  When the factory image was its own, the images are, in the order of the plan,
\* of that target with no edit and with each defect's own edit, whatever image tag was moved
\* meanwhile.  Of a factory image of another preparation that took the shared tag they carry
\* the other's edits, which its receipt names and no check compares with the manifest's.
PreparedIsComplete ==
  evidence.status = "prepared" =>
    /\ ValidatePreparationEvidence(evidence)
    /\ ~broken /\ temporary = "removed" /\ container = "none"
    /\ [n \in DOMAIN evidence.smokes |-> evidence.smokes[n].case] = Smokes
    /\ \A n \in DOMAIN evidence.smokes :
         evidence.smokes[n].result = "pass" /\ evidence.smokes[n].image = "clean"
    /\ [p \in Names |-> Digest(evidence.images[1].tarballs[p])] = Phase1
    /\ evidence.artifactFactory.owner = "own" =>
         \A n \in DOMAIN PlannedSets : evidence.images[n].tarballs =
           [p \in Names |-> IF n > 1 /\ p = ModuleOf[PlannedSets[n]]
                            THEN {PlannedSets[n]} ELSE {}]

\* A smoke case in which the runner threw.
RunnerThrew(results) == \E n \in DOMAIN results : results[n].result = "runner-error"

\* What is left behind, the temporary files or a container that was there when its removal
\* was asked for, is counted in the evidence, unless the removal could not be started, or
\* the runner threw in a smoke case, whose own removal of its container is then not heard of.
LeftBehindIsRecorded ==
  evidence.status \in {"prepared", "stopped"} =>
    /\ temporary = "present" => evidence.ledger.cleanupFailures > 0
    /\ container = "created" =>
         \/ evidence.ledger.cleanupFailures > 0
         \/ unstarted
         \/ RunnerThrew(evidence.smokes)

\* Every preparation ends: with evidence, or because the evidence cannot be written.
PreparationEnds == <>(pc \in {"prepared", "stopped", "exited"})
=============================================================================
