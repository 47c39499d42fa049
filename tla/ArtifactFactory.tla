---------------------------- MODULE ArtifactFactory ----------------------------
(***************************************************************************)
(* How the artifact factory makes the clean set of packages and one set    *)
(* for each registered defect                                              *)
(* (src/harness-v0.3/benchmark-build/materialize-artifacts.mjs).           *)
(*                                                                         *)
(* It edits the sources of the target in place and restores them.  What a  *)
(* package, a dist directory or a tarball holds is the set of the edits    *)
(* that went into it; "truncated" stands for a file that is missing from   *)
(* the target.  An error ends the build of the image the factory runs in,  *)
(* with everything it made.                                                *)
(***************************************************************************)
EXTENDS Sequences, Naturals, FiniteSets

CONSTANTS Packages,     \* the packages, built in this order
          Defects,      \* the defects, in the order of the manifest
          ModuleOf,     \* for each defect, the package its edit belongs to
          DependsOn     \* for each package, the packages whose dist its build may take in

Ids == {Defects[n] : n \in DOMAIN Defects}
Names == {Packages[n] : n \in DOMAIN Packages}

\* validateBenchmarkDefects: the defects are distinct, and each edits one target module.
ValidDefects == Cardinality(Ids) = Len(Defects) /\ ModuleOf \in [Ids -> Names]

\* And validateRegistration: a target module depends on nothing but the shared package.
ASSUME PlanAssumption ==
  /\ ValidDefects /\ DependsOn \in [Names -> SUBSET Names]
  /\ Defects \in Seq(Ids) /\ "truncated" \notin Ids

ASSUME SharedAssumption ==
  \A p \in Names, d \in Ids : ModuleOf[d] \notin DependsOn[p]

VARIABLES factory,  \* "idle", "clean", "edit", "pack", "restore", "check", "done", "failed"
          edits,    \* for each defect whether its edit matches once, changes the build, ...
          target,   \* what is missing from the archived target
          source,   \* for each package, the edits in its sources
          dist,     \* for each package, the edits in what it was last built from
          sets      \* the sets made so far: for each, what its tarballs hold

factoryVars == <<factory, edits, target, source, dist, sets>>

Untouched == [p \in Names |-> {}]
Current == Defects[Len(sets)]  \* the sets made so far include the clean one
Module == ModuleOf[Current]

\* A digest tells contents apart that the build tells apart.
Digest(content) == {d \in content : d \in Ids => edits[d] # "inert"}

FactoryInit ==
  /\ factory = "idle"
  /\ edits \in [Ids -> {"once", "inert", "ambiguous"}]
  /\ target = {}
  /\ source = Untouched /\ dist = Untouched
  /\ sets = <<>>

\* A command or a file operation of the factory may fail at any time.
Fails ==
  /\ factory' = "failed"
  /\ UNCHANGED <<edits, target, source, dist, sets>>

\* exactEdit: the text to be replaced is found once.
MatchesOnce(d) == edits[d] # "ambiguous"

Built(p, sources, dists) == target \cup sources[p] \cup UNION {dists[q] : q \in DependsOn[p]}

\* The packages are built and packed once without an edit.
BuildClean ==
  /\ factory = "clean"
  /\ \/ Fails
     \/ /\ dist' = [p \in Names |-> Built(p, source, dist)]
        /\ sets' = <<[id |-> "clean", tarballs |-> dist']>>
        /\ factory' = IF Defects = <<>> THEN "done" ELSE "edit"
        /\ UNCHANGED <<edits, target, source>>

\* The clean set is copied, the source edited and its package built.
BuildEdited ==
  /\ factory = "edit"
  /\ \/ Fails
     \/ /\ MatchesOnce(Current)
        /\ source' = [source EXCEPT ![Module] = @ \cup {Current}]
        /\ dist' = [dist EXCEPT ![Module] = Built(Module, source', dist)]
        /\ factory' = "pack"
        /\ UNCHANGED <<edits, target, sets>>

\* Only the tarball of the edited package is replaced in the copy.
Pack ==
  /\ factory = "pack"
  /\ \/ Fails
     \/ /\ sets' = Append(sets, [id |-> Current,
                                 tarballs |-> [sets[1].tarballs EXCEPT ![Module] = dist[Module]]])
        /\ factory' = "restore"
        /\ UNCHANGED <<edits, target, source, dist>>

Made == sets[Len(sets)].id

\* Plausible bug: the source is not restored after its package was packed.
RestoreNothing ==
  /\ factory = "restore"
  /\ \/ Fails
     \/ factory' = "check" /\ UNCHANGED <<edits, target, source, dist, sets>>

\* The finally block: the source is restored, the dist directory is not.
Restore ==
  /\ factory = "restore"
  /\ \/ Fails
     \/ /\ source' = [source EXCEPT ![ModuleOf[Made]] = @ \ {Made}]
        /\ factory' = "check"
        /\ UNCHANGED <<edits, target, dist, sets>>

\* The edited package must differ from the clean one, and no other may.
Check ==
  /\ factory = "check"
  /\ \/ Fails
     \/ /\ \A p \in Names : (p = ModuleOf[Made]) =
             (Digest(sets[Len(sets)].tarballs[p]) # Digest(sets[1].tarballs[p]))
        /\ factory' = IF Len(sets) = Len(Defects) + 1 THEN "done" ELSE "edit"
        /\ UNCHANGED <<edits, target, source, dist, sets>>

FactoryNext == BuildClean \/ BuildEdited \/ Pack \/ Restore \/ Check

-----------------------------------------------------------------------------
\* A factory that ends has made a clean set and, for each defect, the clean set with that
\* one edit in that one package, although every build reuses the directories the builds
\* of other defects left behind.
EachSetCarriesItsEdit ==
  factory = "done" =>
    /\ Len(sets) = Len(Defects) + 1
    /\ \A n \in DOMAIN sets : sets[n] =
         IF n = 1 THEN [id |-> "clean", tarballs |-> [p \in Names |-> target]]
         ELSE [id |-> Defects[n - 1],
               tarballs |-> [p \in Names |-> IF p = ModuleOf[Defects[n - 1]]
                                             THEN target \cup {Defects[n - 1]} ELSE target]]
=============================================================================
