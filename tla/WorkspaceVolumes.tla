--------------------------- MODULE WorkspaceVolumes ---------------------------
(***************************************************************************)
(* The Docker volume of one managed workspace under the requests that      *)
(* reach it: imports and restores, which replace its content through a     *)
(* staging and a backup volume, and exports, deletions and tool calls.     *)
(* Every docker command is awaited and may fail; one that is aborted, or   *)
(* whose Manager dies, may leave its container at work (a stray).  A step  *)
(* of a request is the code between two awaits.                            *)
(*                                                                         *)
(* A content gives each file the version that wrote it.  An export goes to *)
(* a file of the administrator's, which is replaced by a rename.           *)
(***************************************************************************)
EXTENDS Naturals, FiniteSets

CONSTANTS
  Imports,    \* requests that replace the volume, each made once
  Visitors,   \* requests that export, delete or run a tool, time and again
  Files,      \* files of the workspace
  NoContent,     \* no such file
  MaxStrays,  \* bound on rollbacks beside a container
  MaxVisits,  \* bound on what visitors ask
  MaxCrashes  \* bound on Manager crashes

ASSUME VolumesAssumption ==
  /\ IsFiniteSet(Imports) /\ IsFiniteSet(Visitors) /\ Imports \intersect Visitors = {}
  /\ IsFiniteSet(Files) /\ Files # {}
  /\ NoContent \notin Imports \union {"first", "tool", "part"}
  /\ MaxStrays \in Nat /\ MaxVisits \in Nat /\ MaxCrashes \in Nat

VolumeRequests == Imports \union Visitors
VolumeContents == [Files -> Imports \union {"first", "tool", NoContent}]
Whole(version) == [f \in Files |-> version]
NoJob == [from |-> NoContent, left |-> {}, phase |-> "none"]

VARIABLES
  target,       \* the workspace's volume: labels, owner of its root, content
  legacy,       \* a volume of the name older versions used exists
  ready,        \* target is in #readyVolumes
  stagingOf,    \* staging volume of each import
  backupOf,     \* its backup volume
  awaits,       \* what each request awaits
  purpose,       \* what each visitor asked for last
  job,          \* #replaceVolumeContents container of an import
  stray,        \* one that outlived its command
  imported,      \* what an import was answered
  kept,         \* preserveBackup
  archiveFile,  \* what the path of an export holds
  temporary,    \* the .tmp- file of each export
  visits,
  crashes,
  prior,        \* content an import found (history)
  meddled,      \* another one changed the volume since (history)
  strayed       \* imports that rolled back beside a container (history)

volumes == <<target, legacy, stagingOf, backupOf>>
exportFiles == <<archiveFile, temporary>>
judgement == <<prior, meddled, strayed>>
volumesVars == <<volumes, ready, awaits, purpose, job, stray, imported, kept, exportFiles, visits, crashes, judgement>>

Volume == [labels : {"own", "other", "none", "absent"}, owner : {"root", "user"}, content : VolumeContents]
Fresh(labels) == [labels |-> labels, owner |-> "root", content |-> Whole(NoContent)]
NoVolume == Fresh("absent")
IsThere(v) == v # NoVolume

VolumesInit ==
  /\ legacy \in BOOLEAN
  /\ target \in {NoVolume, [labels |-> "own", owner |-> "user", content |-> Whole("first")],
                 [labels |-> "other", owner |-> "root", content |-> Whole("first")]}
  /\ ready = FALSE
  /\ stagingOf = [i \in Imports |-> NoVolume] /\ backupOf = [i \in Imports |-> NoVolume]
  /\ awaits = [q \in VolumeRequests |-> "idle"] /\ purpose = [v \in Visitors |-> "none"]
  /\ job = [i \in Imports |-> NoJob] /\ stray = [i \in Imports |-> NoJob] /\ imported = [i \in Imports |-> "none"]
  /\ kept = [i \in Imports |-> FALSE]
  /\ archiveFile = NoContent /\ temporary = [v \in Visitors |-> NoContent] /\ visits = 0 /\ crashes = 0
  /\ prior = [i \in Imports |-> Whole(NoContent)] /\ meddled = [i \in Imports |-> TRUE]
  /\ strayed = {}

Goto(q, to) == awaits' = [awaits EXCEPT ![q] = to]
AtStep(q, from, to) == awaits[q] = from /\ Goto(q, to)

\* where a request goes whose docker command failed
Abandoned(q) == IF q \in Imports THEN "answered" ELSE "idle"
FailedAnswer(q) == IF q \in Imports THEN [imported EXCEPT ![q] = "failed"] ELSE imported
GiveUp(q) == Goto(q, Abandoned(q)) /\ imported' = FailedAnswer(q)

\* the imports to which a change by somebody else matters
DisturbedBut(q) ==
  [i \in Imports |-> meddled[i] \/ (i # q /\ awaits[i] # "idle")]

-----------------------------------------------------------------------------
(* The administrator's routes and the tool runtime *)

\* a tool call means a run in the workspace: its row is IN_USE
InUse == \E v \in Visitors : purpose[v] = "tool" /\ awaits[v] # "idle"

AskImport(i, how) ==
  /\ AtStep(i, "idle", "ensure")
  /\ how = "restore" => ~InUse
  /\ UNCHANGED <<volumes, ready, purpose, job, stray, imported, kept, exportFiles, visits, crashes, judgement>>

Visit(v, what) ==
  /\ visits < MaxVisits /\ visits' = visits + 1
  /\ AtStep(v, "idle", IF what = "delete" THEN "remove" ELSE "ensure")
  /\ what = "delete" => ~InUse
  /\ purpose' = [purpose EXCEPT ![v] = what]
  /\ UNCHANGED <<volumes, ready, job, stray, imported, kept, exportFiles, crashes, judgement>>

-----------------------------------------------------------------------------
(* ensureVolume *)

\* volume create makes the volume only when its name is free
EnsureCreate(q) ==
  /\ IF ready THEN AtStep(q, "ensure", "labelsReady") /\ UNCHANGED target
     ELSE /\ AtStep(q, "ensure", "labels")
          /\ target' = IF IsThere(target) THEN target ELSE Fresh("own")
  /\ UNCHANGED <<legacy, stagingOf, backupOf, ready, purpose, job, stray, imported, kept, exportFiles, visits, crashes, judgement>>

\* Mutant: the labels of a volume that is there are not compared.
AssertAny(q) ==
  /\ \/ awaits[q] = "labels" /\ IsThere(target) /\ Goto(q, "legacy")
     \/ awaits[q] = "labelsReady" /\ IsThere(target) /\ Goto(q, "legacyReady")
  /\ UNCHANGED <<volumes, ready, purpose, job, stray, imported, kept, exportFiles, visits, crashes, judgement>>

AssertLabels(q) ==
  /\ target.labels = "own"
  /\ \/ AtStep(q, "labels", "legacy")
     \/ AtStep(q, "labelsReady", "legacyReady")
  /\ UNCHANGED <<volumes, ready, purpose, job, stray, imported, kept, exportFiles, visits, crashes, judgement>>

AssertNoLegacy(q) ==
  /\ ~legacy
  /\ \/ AtStep(q, "legacy", "initialize")
     \/ AtStep(q, "legacyReady", "mounted")
  /\ UNCHANGED <<volumes, ready, purpose, job, stray, imported, kept, exportFiles, visits, crashes, judgement>>

\* docker run creates a volume that is gone, without labels
Mounted == IF IsThere(target) THEN target ELSE Fresh("none")

\* the owner of the root is changed last
Initialize(q) ==
  /\ AtStep(q, "initialize", "mounted")
  /\ target' = [Mounted EXCEPT !.owner = "user"] /\ ready' = TRUE
  /\ UNCHANGED <<legacy, stagingOf, backupOf, purpose, job, stray, imported, kept, exportFiles, visits, crashes, judgement>>

EnsureFails(q) ==
  /\ awaits[q] \in {"ensure", "labels", "labelsReady", "legacy", "legacyReady", "initialize"}
  /\ awaits[q] = "ensure" => ~ready
  /\ GiveUp(q)
  /\ UNCHANGED <<volumes, ready, purpose, job, stray, kept, exportFiles, visits, crashes, judgement>>

Ensure(q) ==
  \/ EnsureCreate(q) \/ AssertLabels(q) \/ AssertNoLegacy(q) \/ Initialize(q) \/ EnsureFails(q)

-----------------------------------------------------------------------------
(* importWorkspace *)

CreateVolumes(i) ==
  /\ i \in Imports
  /\ \/ /\ AtStep(i, "mounted", "createBackup")
        /\ stagingOf' = [stagingOf EXCEPT ![i] = Fresh("own")]
        /\ prior' = [prior EXCEPT ![i] = target.content]
        /\ meddled' = [meddled EXCEPT ![i] = FALSE]
        /\ UNCHANGED backupOf
     \/ /\ AtStep(i, "createBackup", "extract")
        /\ backupOf' = [backupOf EXCEPT ![i] = Fresh("own")]
        /\ UNCHANGED <<stagingOf, prior, meddled>>
  /\ UNCHANGED <<target, legacy, ready, purpose, job, stray, imported, kept, exportFiles, visits, crashes, strayed>>

Extract(i) ==
  /\ AtStep(i, "extract", "copy")
  /\ stagingOf' = [stagingOf EXCEPT ![i].content = Whole(i)]
  /\ UNCHANGED <<target, legacy, backupOf, ready, purpose, job, stray, imported, kept, exportFiles, visits, crashes, judgement>>

Replace(from) == [from |-> from, left |-> Files, phase |-> "clear"]

\* Mutant: the volume is replaced without a copy of its content.
ReplaceWithoutCopy(i) ==
  /\ AtStep(i, "copy", "replace")
  /\ job' = [job EXCEPT ![i] = Replace("staging")]
  /\ UNCHANGED <<volumes, ready, purpose, stray, imported, kept, exportFiles, visits, crashes, judgement>>

CopyToBackup(i) ==
  /\ AtStep(i, "copy", "replace")
  /\ target' = Mounted
  /\ backupOf' = [backupOf EXCEPT ![i].content = target.content]
  /\ job' = [job EXCEPT ![i] = Replace("staging")]
  /\ UNCHANGED <<legacy, stagingOf, ready, purpose, stray, imported, kept, exportFiles, visits, crashes, judgement>>

\* the commands of a replacement container: rm, cp of a file, chown.  cp -a
\* gives the root the owner of its source's root
Clears(j, k) ==
  /\ j.phase = "clear" /\ k = [j EXCEPT !.phase = "copy"]
  /\ target' = [Mounted EXCEPT !.content = Whole(NoContent)]

CopiesFile(j, k, f, content) ==
  /\ j.phase = "copy"
  /\ k = [j EXCEPT !.left = @ \ {f}, !.phase = IF j.left = {f} THEN "own" ELSE @]
  /\ target' = [Mounted EXCEPT !.content[f] = content[f], !.owner = IF j.from = "staging" THEN "root" ELSE @]

GivesToUser(j, k) ==
  /\ j.phase = "own" /\ k = [j EXCEPT !.phase = "exited"]
  /\ target' = [Mounted EXCEPT !.owner = "user"]

Works(i, j, k) ==
  \/ Clears(j, k)
  \/ \E f \in j.left :
       CopiesFile(j, k, f, IF j.from = "staging" THEN stagingOf[i].content ELSE backupOf[i].content)
  \/ GivesToUser(j, k)

Running(j) == j.phase \in {"clear", "copy", "own"}
JobSteps(j) == [from : {j.from}, left : SUBSET j.left, phase : {"copy", "own", "exited"}]

RunContainer(i) ==
  /\ \/ \E k \in JobSteps(job[i]) : Works(i, job[i], k) /\ job' = [job EXCEPT ![i] = k] /\ UNCHANGED stray
     \/ \E k \in JobSteps(stray[i]) : Works(i, stray[i], k) /\ stray' = [stray EXCEPT ![i] = k] /\ UNCHANGED job
  /\ meddled' = DisturbedBut(i)
  /\ UNCHANGED <<legacy, stagingOf, backupOf, ready, awaits, purpose, imported, kept, exportFiles, visits, crashes, prior, strayed>>

Ended(i, told) ==
  /\ Goto(i, "removeStaging")
  /\ imported' = [imported EXCEPT ![i] = told]
  /\ UNCHANGED <<volumes, ready, purpose, exportFiles, visits, crashes, prior, meddled>>

ReplaceEnds(i) ==
  /\ awaits[i] = "replace" /\ job[i].phase = "exited"
  /\ job' = [job EXCEPT ![i] = NoJob]
  /\ Ended(i, "ok")
  /\ UNCHANGED <<kept, stray, strayed>>

\* the container of a command that failed or was aborted stops, or works on
StopsOrStrays(i) ==
  \/ UNCHANGED <<stray, strayed>>
  \/ /\ Running(job[i]) /\ Cardinality(strayed) < MaxStrays
     /\ stray' = [stray EXCEPT ![i] = job[i]]
     /\ strayed' = strayed \union {i}

ReplaceFails(i) ==
  /\ AtStep(i, "replace", "rollback")
  /\ StopsOrStrays(i)
  /\ job' = [job EXCEPT ![i] = Replace("backup")]
  /\ UNCHANGED <<volumes, ready, purpose, imported, kept, exportFiles, visits, crashes, prior, meddled>>

RolledBack(i) ==
  /\ AtStep(i, "rollback", "verify") /\ job[i].phase = "exited"
  /\ job' = [job EXCEPT ![i] = NoJob]
  /\ UNCHANGED <<volumes, ready, purpose, imported, kept, exportFiles, visits, crashes, stray, judgement>>

Verify(i) ==
  /\ awaits[i] = "verify" /\ target.content = backupOf[i].content
  /\ Ended(i, "failed")
  /\ UNCHANGED <<job, kept, stray, strayed>>

\* Mutant: a failed rollback is like any other failure.
RollbackFailsPlainly(i) ==
  /\ awaits[i] \in {"rollback", "verify"}
  /\ job' = [job EXCEPT ![i] = NoJob]
  /\ Ended(i, "failed")
  /\ UNCHANGED <<kept, stray, strayed>>

RollbackFails(i) ==
  /\ awaits[i] \in {"rollback", "verify"}
  /\ kept' = [kept EXCEPT ![i] = TRUE]
  /\ job' = [job EXCEPT ![i] = NoJob]
  /\ Ended(i, "failed")
  /\ UNCHANGED <<stray, strayed>>

ImportFails(i) ==
  /\ awaits[i] \in {"mounted", "createBackup", "extract", "copy"}
  /\ Ended(i, "failed")
  /\ UNCHANGED <<job, kept, stray, strayed>>

\* finally: a removal that fails is let pass, as of a volume in use
RemoveStaging(i) ==
  /\ AtStep(i, "removeStaging", IF kept[i] THEN "answered" ELSE "removeBackup")
  /\ stagingOf' \in {stagingOf} \union (IF Running(stray[i]) THEN {} ELSE {[stagingOf EXCEPT ![i] = NoVolume]})
  /\ UNCHANGED <<target, legacy, backupOf, ready, purpose, job, imported, kept, exportFiles, visits, crashes, stray, judgement>>

RemoveBackup(i) ==
  /\ AtStep(i, "removeBackup", "answered")
  /\ backupOf' \in {backupOf, [backupOf EXCEPT ![i] = NoVolume]}
  /\ UNCHANGED <<target, legacy, stagingOf, ready, purpose, job, imported, kept, exportFiles, visits, crashes, stray, judgement>>

Import(i) ==
  \/ \E how \in {"import", "restore"} : AskImport(i, how)
  \/ CreateVolumes(i) \/ Extract(i) \/ CopyToBackup(i) \/ RunContainer(i) \/ ReplaceEnds(i)
  \/ ReplaceFails(i) \/ RolledBack(i) \/ Verify(i) \/ RollbackFails(i) \/ ImportFails(i)
  \/ RemoveStaging(i) \/ RemoveBackup(i)

-----------------------------------------------------------------------------
(* Visitors *)

\* a tool of the user writes only what the user owns
Tool(v) ==
  /\ v \in Visitors /\ purpose[v] = "tool" /\ AtStep(v, "mounted", "idle")
  /\ \E f \in Files : target' = [Mounted EXCEPT !.content[f] = IF Mounted.owner = "user" THEN "tool" ELSE @]
  /\ meddled' = DisturbedBut(v)
  /\ UNCHANGED <<legacy, stagingOf, backupOf, ready, purpose, job, imported, kept, exportFiles, visits, crashes, stray, prior, strayed>>

\* volume rm refuses a volume in use; the name is forgotten either way
Delete(v) ==
  /\ AtStep(v, "remove", "idle")
  /\ ready' = FALSE
  /\ \/ UNCHANGED <<target, meddled>>
     \/ /\ \A i \in Imports : ~Running(job[i]) /\ ~Running(stray[i])
        /\ target' = NoVolume /\ meddled' = DisturbedBut(v)
  /\ UNCHANGED <<legacy, stagingOf, backupOf, purpose, job, imported, kept, exportFiles, visits, crashes, stray, prior, strayed>>

\* Mutant: the archive is written to the path itself.
WriteInPlace(v) ==
  /\ v \in Visitors /\ purpose[v] = "export" /\ AtStep(v, "mounted", "rename")
  /\ archiveFile' = "part" /\ temporary' = [temporary EXCEPT ![v] = "archive"]
  /\ UNCHANGED <<volumes, ready, purpose, job, imported, kept, visits, crashes, stray, judgement>>

WriteArchive(v) ==
  /\ v \in Visitors /\ purpose[v] = "export"
  /\ \/ AtStep(v, "mounted", "write") /\ temporary' = [temporary EXCEPT ![v] = "part"]
     \/ AtStep(v, "write", "rename") /\ temporary' = [temporary EXCEPT ![v] = "archive"]
  /\ UNCHANGED <<volumes, ready, purpose, job, imported, kept, archiveFile, visits, crashes, stray, judgement>>

\* where a rename cannot replace a file, the old one is removed first
RenameArchive(v) ==
  /\ awaits[v] = "rename"
  /\ \/ Goto(v, "idle") /\ archiveFile' = temporary[v] /\ temporary' = [temporary EXCEPT ![v] = NoContent]
     \/ archiveFile # NoContent /\ archiveFile' = NoContent /\ UNCHANGED <<awaits, temporary>>
  /\ UNCHANGED <<volumes, ready, purpose, job, imported, kept, visits, crashes, stray, judgement>>

ExportFails(v) ==
  /\ v \in Visitors /\ purpose[v] = "export"
  /\ awaits[v] \in {"mounted", "write", "rename"} /\ Goto(v, "idle")
  /\ temporary' = [temporary EXCEPT ![v] = NoContent]
  /\ UNCHANGED <<volumes, ready, purpose, job, imported, kept, archiveFile, visits, crashes, stray, judgement>>

Visiting(v) ==
  \/ \E what \in {"export", "delete", "tool"} : Visit(v, what)
  \/ Tool(v) \/ Delete(v) \/ WriteArchive(v) \/ RenameArchive(v) \/ ExportFails(v)

-----------------------------------------------------------------------------
\* The Manager dies: its requests are cut off, containers stop or work on.
ManagerCrash ==
  /\ crashes < MaxCrashes /\ crashes' = crashes + 1
  /\ ready' = FALSE
  /\ awaits' = [q \in VolumeRequests |-> IF q \in Visitors \/ awaits[q] = "idle" THEN "idle"
                              ELSE IF awaits[q] = "answered" THEN "answered" ELSE "cut"]
  /\ job' = [i \in Imports |-> NoJob]
  /\ stray' \in {stray, [i \in Imports |-> IF Running(job[i]) /\ ~Running(stray[i]) THEN job[i] ELSE stray[i]]}
  /\ UNCHANGED <<volumes, purpose, imported, kept, exportFiles, visits, judgement>>

VolumesNext ==
  \/ \E q \in VolumeRequests : Ensure(q)
  \/ \E i \in Imports : Import(i)
  \/ \E v \in Visitors : Visiting(v)
  \/ ManagerCrash

VolumesSpec == VolumesInit /\ [][VolumesNext]_volumesVars

-----------------------------------------------------------------------------
Jobs == [from : {"staging", "backup", NoContent}, left : SUBSET Files,
         phase : {"none", "clear", "copy", "own", "exited"}]

VolumesTypeOK ==
  /\ target \in Volume /\ legacy \in BOOLEAN /\ ready \in BOOLEAN
  /\ stagingOf \in [Imports -> Volume] /\ backupOf \in [Imports -> Volume]
  /\ job \in [Imports -> Jobs] /\ stray \in [Imports -> Jobs]
  /\ imported \in [Imports -> {"none", "ok", "failed"}] /\ kept \in [Imports -> BOOLEAN]
  /\ prior \in [Imports -> VolumeContents] /\ meddled \in [Imports -> BOOLEAN]
  /\ strayed \subseteq Imports /\ visits \in 0 .. MaxVisits /\ crashes \in 0 .. MaxCrashes

Undisturbed(i) == ~meddled[i] /\ i \notin strayed

\* Wherever an import fails or the Manager dies, what the workspace held
\* before is in its volume or in a backup volume, until the volume holds the
\* whole archive (importWorkspace, runtime-docker/src/index.ts:312-364).
PriorSurvives ==
  \A i \in Imports : Undisturbed(i) =>
    target.content \in {prior[i], Whole(i)} \/ backupOf[i].content = prior[i]

\* An import that succeeded left exactly the archive, one that failed what
\* was there before, unless it kept the backup.
ReplacedOrRestored ==
  \A i \in Imports : Undisturbed(i) /\ awaits[i] = "answered" /\ ~kept[i] =>
    /\ target.content = IF imported[i] = "ok" THEN Whole(i) ELSE prior[i]
    /\ imported[i] = "ok" => target.owner = "user"

\* A volume of another installation is never written, and a volume is not
\* filled while one of the old name holds the workspace.
OnlyOwnVolumesAreFilled ==
  legacy \/ target.labels = "other" => \A f \in Files : target.content[f] \in {NoContent, "first"}

\* The file of an export is complete whenever it is there.
ArchiveFileIsWhole == archiveFile # "part"

VolumesAreSound ==
  PriorSurvives /\ ReplacedOrRestored /\ OnlyOwnVolumesAreFilled /\ ArchiveFileIsWhole
=============================================================================
