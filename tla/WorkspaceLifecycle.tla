-------------------------- MODULE WorkspaceLifecycle --------------------------
(***************************************************************************)
(* ManagedWorkspaceLifecycle for one managed workspace: the state of its   *)
(* row, its Docker volume and its snapshots, under the prepare and         *)
(* checkpoint of one run after the other (the lease of WorkspaceLease), an *)
(* operator who deletes the workspace, and a Manager that dies.  A step is *)
(* the code between two awaits.                                            *)
(*                                                                         *)
(* Contents are numbered as agents write them, 0 is the volume Docker      *)
(* creates.  The snapshots are the register of SnapshotRegister.           *)
(***************************************************************************)
EXTENDS Naturals

CONSTANTS
  Missing,      \* no volume
  Partial,      \* a volume in the middle of a replacement
  NoSnapshot,   \* no candidates
  MaxVersions,  \* bound on what agents write
  Disturbances  \* subset of PossibleDisturbances that happens

PossibleDisturbances == {"abort", "failure", "crash", "loss", "delete"}

ASSUME LifecycleAssumption ==
  /\ MaxVersions \in Nat
  /\ Disturbances \subseteq PossibleDisturbances
  /\ Missing \notin Nat /\ Partial \notin Nat /\ NoSnapshot \notin Nat
  /\ Missing # Partial /\ Partial # NoSnapshot /\ Missing # NoSnapshot

VARIABLES
  state,     \* workspaces.state
  volume,    \* content of the Docker volume
  snapshot,  \* archive snapshots.restore returns
  pc,        \* what the run that holds the lease awaits
  fallback,  \* restoreFallbackState
  archive,   \* recovered.archive, or the exported one
  backup,    \* backup volume of importWorkspace
  aborted,   \* signal.aborted when its operation failed
  deleting,  \* deleteWorkspace passed its check and removes the volume
  written,   \* contents written so far
  base,      \* what the next run is entitled to find (history)
  untouched  \* the run has written nothing yet (history)

vars == <<state, volume, snapshot, pc, fallback, archive, backup, aborted,
          deleting, written, base, untouched>>
restoring == <<fallback, archive, backup, aborted>>
history == <<written, base, untouched>>

States == {"WARM", "COLD", "IN_USE", "SNAPSHOTTING", "RESTORING", "ERROR", "CORRUPT"}
Volumes == Nat \union {Missing, Partial}
hasCandidates == snapshot # NoSnapshot

Init ==
  /\ state = "WARM" /\ volume = Missing /\ snapshot = NoSnapshot
  /\ pc = "idle" /\ fallback = "WARM" /\ archive = 0 /\ backup = 0
  /\ aborted = FALSE /\ deleting = FALSE
  /\ written = 0 /\ base = 0 /\ untouched = TRUE

At(from, to) == pc = from /\ pc' = to
Transition(from, to) == state = from /\ state' = to

\* what is left when the volume goes
Surviving == IF hasCandidates THEN snapshot ELSE 0

-----------------------------------------------------------------------------
(* prepare *)

\* up to the first await: workspaceExists, or snapshots.restore
PrepareError ==
  /\ At("idle", "checkError") /\ state = "ERROR"
  /\ UNCHANGED <<state, volume, snapshot, restoring, deleting, history>>

\* Mutant: an interrupted restore counts as warm, like an interrupted run.
PrepareAnyInterrupted ==
  /\ At("idle", "checkWarm")
  /\ state \in {"WARM", "IN_USE", "SNAPSHOTTING", "RESTORING"}
  /\ state' = "WARM"
  /\ UNCHANGED <<volume, snapshot, restoring, deleting, history>>

\* Mutant: the row of an interrupted run is left as it is.
PrepareInterrupted ==
  /\ At("idle", "checkWarm") /\ state \in {"WARM", "IN_USE", "SNAPSHOTTING"}
  /\ UNCHANGED <<state, volume, snapshot, restoring, deleting, history>>

PrepareWarm ==
  /\ At("idle", "checkWarm") /\ state \in {"WARM", "IN_USE", "SNAPSHOTTING"}
  /\ state' = "WARM"
  /\ UNCHANGED <<volume, snapshot, restoring, deleting, history>>

BeginRestore(keep) ==
  /\ state' = "RESTORING" /\ fallback' = keep /\ pc' = "restore"
  /\ UNCHANGED <<archive, backup, aborted, volume, snapshot, deleting, history>>

PrepareCold ==
  /\ pc = "idle" /\ state \in {"COLD", "RESTORING"}
  /\ BeginRestore(IF state = "COLD" THEN "COLD" ELSE "WARM")

\* ERROR: the warm volume if there is one, else a snapshot, else the operator
CheckError ==
  /\ pc = "checkError"
  /\ \/ /\ volume # Missing
        /\ At("checkError", "checkWarm") /\ Transition("ERROR", "WARM")
        /\ UNCHANGED <<volume, snapshot, restoring, deleting, history>>
     \/ volume = Missing /\ hasCandidates /\ BeginRestore("WARM")
     \/ /\ volume = Missing /\ ~hasCandidates
        /\ pc' = "idle"
        /\ UNCHANGED <<state, volume, snapshot, restoring, deleting, history>>

EnterRun ==
  /\ pc' = "running" /\ state' = "IN_USE" /\ untouched' = TRUE

CheckWarm ==
  /\ pc = "checkWarm"
  /\ \/ volume = Missing /\ hasCandidates /\ BeginRestore("WARM")
     \/ /\ volume # Missing \/ ~hasCandidates
        /\ EnterRun
        /\ UNCHANGED <<volume, snapshot, restoring, deleting, written, base>>

\* workspaceExists throws: nothing to undo
CheckThrows ==
  /\ pc \in {"checkError", "checkWarm"}
  /\ Disturbances \intersect {"abort", "failure"} # {}
  /\ pc' = "idle"
  /\ UNCHANGED <<state, volume, snapshot, restoring, deleting, history>>

ReadSnapshot ==
  /\ At("restore", "ensure") /\ archive' = snapshot
  /\ UNCHANGED <<state, volume, snapshot, fallback, backup, aborted, deleting, history>>

\* importWorkspace creates a volume that is not there, stages the archive and
\* copies the volume to its backup; only then it replaces the content.
EnsureVolume ==
  /\ At("ensure", "stage")
  /\ volume' = IF volume = Missing THEN 0 ELSE volume
  /\ UNCHANGED <<state, snapshot, restoring, deleting, history>>

BeginReplace ==
  /\ At("stage", "replace")
  /\ backup' = volume /\ volume' = Partial
  /\ UNCHANGED <<state, snapshot, fallback, archive, aborted, deleting, history>>

Replaced ==
  /\ pc = "replace" /\ EnterRun
  /\ volume' = archive
  /\ UNCHANGED <<snapshot, restoring, deleting, written, base>>

\* Mutant: the workspace counts as warm again after any failure.
CaughtIntoWarm(isAbort) ==
  pc' = "idle" /\ Transition("RESTORING", "WARM")

\* the catch block of prepare
Caught(isAbort) ==
  /\ pc' = "idle"
  /\ Transition("RESTORING", IF isAbort THEN fallback
                             ELSE IF hasCandidates THEN "CORRUPT" ELSE "ERROR")

Thrown(isAbort) == IF isAbort THEN "abort" \in Disturbances
                   ELSE "failure" \in Disturbances

RestoreThrows ==
  /\ pc \in {"restore", "ensure", "stage"}
  /\ \E isAbort \in BOOLEAN : Thrown(isAbort) /\ Caught(isAbort)
  /\ UNCHANGED <<volume, snapshot, restoring, deleting, history>>

\* #replaceVolumeContents throws; the rollback does not follow the signal.
ReplaceThrows ==
  /\ At("replace", "rollback")
  /\ \E isAbort \in BOOLEAN : Thrown(isAbort) /\ aborted' = isAbort
  /\ UNCHANGED <<state, volume, snapshot, fallback, archive, backup, deleting, history>>

\* A rollback that fails is reported in the same way; the signal may come late.
Rollback ==
  /\ pc = "rollback"
  /\ \E isAbort \in {aborted, "abort" \in Disturbances} : Caught(isAbort)
  /\ \/ volume' = backup
     \/ "failure" \in Disturbances /\ volume' = Partial
  /\ UNCHANGED <<snapshot, restoring, deleting, history>>

-----------------------------------------------------------------------------
(* The run and its checkpoint *)

Work ==
  /\ pc = "running" /\ written < MaxVersions
  /\ written' = written + 1 /\ volume' = written + 1 /\ base' = written + 1
  /\ untouched' = FALSE
  /\ UNCHANGED <<state, snapshot, pc, restoring, deleting>>

\* The lease was lost or the checkpoint is not due: the row stays IN_USE.
EndWithoutCheckpoint ==
  /\ At("running", "idle")
  /\ UNCHANGED <<state, volume, snapshot, restoring, deleting, history>>

BeginCheckpoint ==
  /\ At("running", "export") /\ Transition("IN_USE", "SNAPSHOTTING")
  /\ UNCHANGED <<volume, snapshot, restoring, deleting, history>>

\* exportWorkspace, a job of the compactor; it mounts a volume, new if missing
Export ==
  /\ At("export", "publish")
  /\ volume' = IF volume = Missing THEN 0 ELSE volume
  /\ archive' = volume'
  /\ UNCHANGED <<state, snapshot, fallback, backup, aborted, deleting, history>>

\* snapshots.create
Promoted ==
  /\ snapshot' = archive
  /\ base' = IF volume = Missing THEN archive ELSE base

\* Mutant: makeCold does not wait for the snapshot.
PublishLater ==
  /\ pc = "publish"
  /\ \/ pc' = "remove" /\ UNCHANGED <<snapshot, state>>
     \/ pc' = "idle" /\ snapshot' = archive /\ Transition("SNAPSHOTTING", "WARM")
  /\ UNCHANGED <<volume, restoring, deleting, history>>

Publish ==
  /\ pc = "publish"
  /\ Promoted
  /\ \/ pc' = "remove" /\ UNCHANGED state
     \/ pc' = "idle" /\ Transition("SNAPSHOTTING", "WARM")
  /\ UNCHANGED <<volume, restoring, deleting, written, untouched>>

\* makeCold: the result of removeWorkspace is ignored
RemoveVolume ==
  /\ At("remove", "idle") /\ Transition("SNAPSHOTTING", "COLD")
  /\ \/ volume' = Missing
     \/ "failure" \in Disturbances /\ UNCHANGED volume
  /\ UNCHANGED <<snapshot, restoring, deleting, history>>

\* The export is aborted or fails, the compactor defers, or create throws: also
\* after its promotion.  create does not follow the signal.
CheckpointThrows ==
  /\ \/ pc \in {"export", "publish"} /\ "failure" \in Disturbances
     \/ pc = "export" /\ "abort" \in Disturbances
  /\ pc' = "idle" /\ Transition("SNAPSHOTTING", "ERROR")
  /\ \/ UNCHANGED <<snapshot, base>>
     \/ pc = "publish" /\ Promoted
  /\ UNCHANGED <<volume, restoring, deleting, written, untouched>>

-----------------------------------------------------------------------------
(* Around it *)

\* The volume is lost between runs.
LoseVolume ==
  /\ "loss" \in Disturbances /\ pc = "idle" /\ volume # Missing
  /\ volume' = Missing /\ base' = Surviving
  /\ UNCHANGED <<state, snapshot, pc, restoring, deleting, written, untouched>>

\* deleteWorkspace of the administrator: the check, then docker volume rm
BeginDelete ==
  /\ "delete" \in Disturbances /\ ~deleting
  /\ state \notin {"IN_USE", "SNAPSHOTTING"}
  /\ deleting' = TRUE
  /\ UNCHANGED <<state, volume, snapshot, pc, restoring, history>>

FinishDelete ==
  /\ deleting /\ deleting' = FALSE
  /\ volume' = Missing /\ base' = Surviving
  /\ UNCHANGED <<state, snapshot, pc, restoring, written, untouched>>

Crash ==
  /\ "crash" \in Disturbances /\ pc # "idle"
  /\ pc' = "idle" /\ deleting' = FALSE
  /\ UNCHANGED <<state, volume, snapshot, restoring, history>>

Prepare ==
  \/ PrepareError \/ PrepareWarm \/ PrepareCold \/ CheckError \/ CheckWarm
  \/ CheckThrows \/ ReadSnapshot \/ EnsureVolume \/ BeginReplace \/ Replaced
  \/ RestoreThrows \/ ReplaceThrows \/ Rollback

Checkpoint ==
  BeginCheckpoint \/ Export \/ Publish \/ RemoveVolume \/ CheckpointThrows

Next ==
  \/ Prepare \/ Work \/ EndWithoutCheckpoint \/ Checkpoint
  \/ LoseVolume \/ BeginDelete \/ FinishDelete \/ Crash

Spec == Init /\ [][Next]_vars

-----------------------------------------------------------------------------
(* Properties *)

PCs == {"idle", "checkError", "checkWarm", "restore", "ensure", "stage",
        "replace", "rollback", "running", "export", "publish", "remove"}

\* Rows, volumes and snapshots keep their types.
LifecycleTypeOK ==
  /\ state \in States /\ volume \in Volumes
  /\ snapshot \in Nat \union {Partial, NoSnapshot}
  /\ pc \in PCs /\ fallback \in {"WARM", "COLD"}
  /\ archive \in Nat \union {Partial, NoSnapshot}
  /\ backup \in Volumes
  /\ aborted \in BOOLEAN /\ deleting \in BOOLEAN /\ untouched \in BOOLEAN
  /\ written \in Nat /\ base \in Nat \union {Partial}

\* The row follows the run that holds the lease: no transition of prepare or
\* checkpoint is refused, and deleteWorkspace reads what is going on.
RowFollowsRun ==
  /\ pc = "checkError" => state = "ERROR"
  /\ pc = "checkWarm" => state = "WARM"
  /\ pc \in {"restore", "ensure", "stage", "replace", "rollback"} =>
       state = "RESTORING" /\ hasCandidates
  /\ pc = "running" => state = "IN_USE"
  /\ pc \in {"export", "publish", "remove"} => state = "SNAPSHOTTING"

\* A restore is cancelled, or an administrator deletes the workspace.
Disturbed ==
  \/ aborted' \/ deleting'
  \/ state = "RESTORING" /\ pc' = "idle" /\ state' \in {"WARM", "COLD"}

\* A run starts in what was written last or, when the volume was lost since, in
\* the last snapshot: never in a new volume or a half restored one.
StartsFromBase ==
  pc = "running" /\ untouched =>
    volume = base \/ (volume = Missing /\ base = 0)

\* The warm volume is removed only when a snapshot holds what is in it.
ColdHoldsTheVolume ==
  [][pc = "remove" /\ state' = "COLD" =>
       volume \in {snapshot, Missing}]_vars
=============================================================================
