--------------------------- MODULE WorkspaceProofs ---------------------------
(* What a workspace is promised: the fenced lease, the checkpoints and        *)
(* restores of its lifecycle, the containers of its tools, its volume and the *)
(* artifacts published from it, for any number of contenders, versions,       *)
(* calls, containers, imports and artifacts.                                  *)
EXTENDS WorkspaceLease, WorkspaceLifecycle, ToolContainers, ArtifactStore,
        WorkspaceVolumes, TLAPS

-----------------------------------------------------------------------------
(* The inductive invariant.  Uniqueness of the held tokens alone is not      *)
(* inductive: a renewed grant to the same owner reissues the current token,  *)
(* so one must know who else could hold it.                                  *)

\* No copy and no accepted mutation is ahead of the row.
NothingAhead ==
    /\ \A r \in Runs : held[r] <= lease[WorkspaceOf[r]].token
    /\ \A w \in Workspaces : fence[w] <= lease[w].token

\* A copy of the current epoch belongs to the owner, unless it was released.
CurrentIsOwners ==
    \A r \in Runs :
        held[r] # 0 /\ held[r] = lease[WorkspaceOf[r]].token
        => lease[WorkspaceOf[r]].owner \in {r, NoRun}

\* The inductive invariant of the lease.
LeaseInv == LeaseTypeOK /\ NothingAhead /\ CurrentIsOwners /\ EpochsAreUnique

-----------------------------------------------------------------------------
\* A step keeps every row and every copy well formed: the four transactions
\* write whole rows (acquireWorkspaceLease, releaseWorkspaceLease).
LEMMA LeaseTypeStep == LeaseTypeOK /\ [LeaseNext]_leaseVars => LeaseTypeOK'
<1> SUFFICES ASSUME LeaseTypeOK, [LeaseNext]_leaseVars
             PROVE  LeaseTypeOK'
    OBVIOUS
<1> USE LeaseAssumption
<1>1. ASSUME NEW r \in Runs, Acquire(r) PROVE LeaseTypeOK'
    BY <1>1 DEF LeaseTypeOK, Acquire, Granted, Row
<1>2. ASSUME NEW r \in Runs, Release(r) PROVE LeaseTypeOK'
    BY <1>2 DEF LeaseTypeOK, Release, Released, Row
<1>3. ASSUME NEW r \in Runs, Mutate(r) PROVE LeaseTypeOK'
    BY <1>3 DEF LeaseTypeOK, Mutate, Row
<1>4. ASSUME NEW gone \in SUBSET Runs, Forget(gone) PROVE LeaseTypeOK'
    BY <1>4 DEF LeaseTypeOK, Forget, Row
<1>5. ASSUME NEW w \in Workspaces, Expire(w) PROVE LeaseTypeOK'
    BY <1>5 DEF LeaseTypeOK, Expire, Row
<1>6. CASE UNCHANGED leaseVars
    BY <1>6 DEF LeaseTypeOK, leaseVars
<1>. QED  BY <1>1, <1>2, <1>3, <1>4, <1>5, <1>6 DEF LeaseNext

\* Tokens are numbers, which is what the arithmetic below needs of the types.
LEMMA TokensAreNumbers ==
    ASSUME LeaseTypeOK
    PROVE  /\ \A w \in Workspaces : lease[w].token \in Nat /\ fence[w] \in Nat
           /\ \A r \in Runs : held[r] \in Nat /\ WorkspaceOf[r] \in Workspaces
    BY LeaseAssumption DEF LeaseTypeOK, Row

\* A grant never brings a copy of a newer epoch than the row's, and leaves the
\* owner as the only holder of the current one (acquireWorkspaceLease).
LEMMA AcquireKeepsInv ==
    ASSUME LeaseInv, LeaseTypeOK', NEW r \in Runs, Acquire(r)
    PROVE  (NothingAhead /\ CurrentIsOwners /\ EpochsAreUnique)'
<1> DEFINE w == WorkspaceOf[r]
           t == Granted(lease[w], r).token
<1> USE LeaseAssumption DEF LeaseInv, LeaseTypeOK, Row
<1>1. /\ w \in Workspaces
      /\ lease[w].token \in Nat /\ t \in Nat
      /\ lease' = [lease EXCEPT ![w] = Granted(@, r)]
      /\ held' = [held EXCEPT ![r] = t]
      /\ fence' = fence
    BY TokensAreNumbers DEF Acquire, Granted
<1>2. /\ lease'[w].token = t /\ lease'[w].owner = r
      /\ \A v \in Workspaces \ {w} : lease'[v] = lease[v]
    BY <1>1 DEF Granted
<1>3. \/ lease[w].owner = r /\ t = lease[w].token
      \/ t = lease[w].token + 1
    BY <1>1 DEF Granted
<1>4. NothingAhead'
  <2>1. \A s \in Runs : held'[s] <= lease'[WorkspaceOf[s]].token
      BY <1>1, <1>2, <1>3, TokensAreNumbers DEF NothingAhead
  <2>2. \A v \in Workspaces : fence'[v] <= lease'[v].token
      BY <1>1, <1>2, <1>3, TokensAreNumbers DEF NothingAhead
  <2>. QED  BY <2>1, <2>2 DEF NothingAhead
<1>5. \A s \in Runs : WorkspaceOf[s] = w /\ held[s] # 0 /\ held[s] = t => s = r
    BY <1>1, <1>3, TokensAreNumbers DEF NothingAhead, CurrentIsOwners
<1>6. CurrentIsOwners'
    BY <1>1, <1>2, <1>5 DEF CurrentIsOwners
<1>7. EpochsAreUnique'
    BY <1>1, <1>5 DEF EpochsAreUnique
<1>. QED  BY <1>4, <1>6, <1>7

\* The invariant is inductive.
LEMMA LeaseInvStep == LeaseInv /\ [LeaseNext]_leaseVars => LeaseInv'
<1> SUFFICES ASSUME LeaseInv, [LeaseNext]_leaseVars
             PROVE  LeaseInv'
    OBVIOUS
<1> USE LeaseAssumption
<1>0. LeaseTypeOK'
    BY LeaseTypeStep DEF LeaseInv
<1>1. ASSUME NEW r \in Runs, Acquire(r) PROVE LeaseInv'
    BY <1>0, <1>1, AcquireKeepsInv DEF LeaseInv
<1>2. ASSUME NEW r \in Runs, Release(r) PROVE LeaseInv'
    BY <1>0, <1>2 DEF LeaseInv, Release, Released, LeaseTypeOK, Row, NothingAhead,
                      CurrentIsOwners, EpochsAreUnique
<1>3. ASSUME NEW r \in Runs, Mutate(r) PROVE LeaseInv'
    BY <1>0, <1>3 DEF LeaseInv, Mutate, LeaseTypeOK, Row, NothingAhead,
                      CurrentIsOwners, EpochsAreUnique
<1>4. ASSUME NEW gone \in SUBSET Runs, Forget(gone) PROVE LeaseInv'
  <2>1. \A r \in Runs : held'[r] = 0 \/ held'[r] = held[r]
      BY <1>4 DEF Forget
  <2>2. lease' = lease /\ fence' = fence
      BY <1>4 DEF Forget
  <2>3. NothingAhead'
      BY <2>1, <2>2, TokensAreNumbers DEF LeaseInv, NothingAhead
  <2>4. CurrentIsOwners' /\ EpochsAreUnique'
      BY <2>1, <2>2 DEF LeaseInv, CurrentIsOwners, EpochsAreUnique
  <2>. QED  BY <1>0, <2>3, <2>4 DEF LeaseInv
<1>5. ASSUME NEW w \in Workspaces, Expire(w) PROVE LeaseInv'
    BY <1>0, <1>5 DEF LeaseInv, Expire, LeaseTypeOK, Row, NothingAhead,
                      CurrentIsOwners, EpochsAreUnique
<1>6. CASE UNCHANGED leaseVars
    BY <1>6 DEF LeaseInv, leaseVars, LeaseTypeOK, NothingAhead, CurrentIsOwners,
                EpochsAreUnique
<1>. QED  BY <1>1, <1>2, <1>3, <1>4, <1>5, <1>6 DEF LeaseNext

\* No lease was granted yet.
LEMMA LeaseInvInit == LeaseInit => LeaseInv
    BY LeaseAssumption DEF LeaseInit, LeaseInv, LeaseTypeOK, Row, NothingAhead,
                           CurrentIsOwners, EpochsAreUnique

\* So it holds in every behaviour.
LEMMA LeaseInvariant == LeaseSpec => []LeaseInv
    BY LeaseInvInit, LeaseInvStep, PTL DEF LeaseSpec

-----------------------------------------------------------------------------
\* Rows, copies and fences keep their types (the lease transactions).
THEOREM LeaseTypeCorrect == LeaseSpec => []LeaseTypeOK
<1>1. LeaseInv => LeaseTypeOK
    BY DEF LeaseInv
<1>. QED  BY <1>1, LeaseInvariant, PTL

\* No two contenders ever hold one token of one workspace, whatever expires and
\* whoever takes over (acquireWorkspaceLease).
THEOREM EpochsUnique == LeaseSpec => []EpochsAreUnique
<1>1. LeaseInv => EpochsAreUnique
    BY DEF LeaseInv
<1>. QED  BY <1>1, LeaseInvariant, PTL

\* The tokens of accepted mutations never decrease (validateWorkspaceLease): an
\* accepted token is the current one, and no fence is ahead of it.
THEOREM FencingMonotone == LeaseSpec => FencingIsMonotone
<1>1. LeaseInv /\ [LeaseNext]_leaseVars
      => [FenceRises]_leaseVars
  <2> SUFFICES ASSUME LeaseInv, LeaseNext
               PROVE  \A w \in Workspaces : fence'[w] >= fence[w]
      BY DEF FenceRises
  <2>1. \A w \in Workspaces : fence[w] \in Nat
      BY LeaseAssumption DEF LeaseInv, LeaseTypeOK
  <2>2. ASSUME NEW r \in Runs, Mutate(r)
        PROVE  \A w \in Workspaces : fence'[w] >= fence[w]
      BY <2>1, <2>2, LeaseAssumption
      DEF LeaseInv, LeaseTypeOK, NothingAhead, Mutate, Valid
  <2>3. CASE fence' = fence
      BY <2>1, <2>3
  <2>. QED  BY <2>2, <2>3 DEF LeaseNext, Acquire, Release, Forget, Expire
<1>. QED  BY <1>1, LeaseInvariant, PTL DEF LeaseSpec, FencingIsMonotone

\* A new owner starts a new epoch (acquireWorkspaceLease).
THEOREM NewOwnerStartsEpoch == LeaseSpec => NewOwnerNewEpoch
<1>1. LeaseTypeOK /\ [LeaseNext]_leaseVars
      => [OwnersDiffer]_leaseVars
  <2> SUFFICES ASSUME LeaseTypeOK, LeaseNext, NEW w \in Workspaces,
                      lease'[w].owner # lease[w].owner,
                      lease'[w].owner # NoRun
               PROVE  lease'[w].token > lease[w].token
      BY DEF OwnersDiffer
  <2>1. PICK r \in Runs : Acquire(r)
    <3>1. ASSUME NEW r \in Runs, Release(r) PROVE FALSE
        BY <3>1, LeaseAssumption DEF Release, Released, LeaseTypeOK, Row
    <3>2. ASSUME NEW v \in Workspaces, Expire(v) PROVE FALSE
        BY <3>2 DEF Expire, LeaseTypeOK, Row
    <3>3. lease' # lease
        OBVIOUS
    <3>. QED  BY <3>1, <3>2, <3>3 DEF LeaseNext, Mutate, Forget
  <2>2. w = WorkspaceOf[r] /\ lease'[w] = Granted(lease[w], r)
      BY <2>1, LeaseAssumption DEF Acquire, LeaseTypeOK
  <2>3. lease[w].token \in Nat
      BY LeaseAssumption DEF LeaseTypeOK, Row
  <2>. QED  BY <2>2, <2>3 DEF Granted
<1>. QED  BY <1>1, LeaseTypeCorrect, PTL DEF LeaseSpec, NewOwnerNewEpoch

\* An epoch names one grant, and what a newer owner has written is never written
\* over by an older one (acquireWorkspaceLease, validateWorkspaceLease).
THEOREM GrantsFenced == LeaseSpec => GrantsAreFenced
  BY EpochsUnique, FencingMonotone, NewOwnerStartsEpoch, PTL
  DEF GrantsAreFenced, FencingIsMonotone, NewOwnerNewEpoch

-----------------------------------------------------------------------------
(* The workspace lifecycle: the row and the checkpoint under all             *)
(* disturbances, the content a run starts from when no prepare is aborted    *)
(* and nobody deletes the workspace.                                         *)

\* What a checkpoint has exported is what is in the volume, and so is what it
\* has published.
CheckpointHoldsVolume ==
  /\ pc = "publish" => volume \in {archive, Missing}
  /\ pc = "remove" => volume \in {snapshot, Missing}

\* There is something to restore wherever a restore may begin or goes on.
RestorePossible ==
  /\ state \in {"COLD", "RESTORING"} \/ pc = "remove" => hasCandidates
  /\ pc \in {"ensure", "stage", "replace", "rollback", "publish"} =>
       archive # NoSnapshot

\* The inductive invariant under all disturbances.
LifecycleInv ==
  LifecycleTypeOK /\ RowFollowsRun /\ CheckpointHoldsVolume /\ RestorePossible

-----------------------------------------------------------------------------
\* A new workspace satisfies it.
LEMMA InitLifecycleInv == ASSUME LifecycleAssumption, Init PROVE LifecycleInv
<1>1. LifecycleTypeOK
  BY DEF Init, LifecycleTypeOK, States, Volumes, PCs
<1>2. RowFollowsRun /\ CheckpointHoldsVolume /\ RestorePossible
  BY DEF Init, RowFollowsRun, CheckpointHoldsVolume, RestorePossible
<1> QED BY <1>1, <1>2 DEF LifecycleInv

\* prepare up to its decision to restore keeps it.
LEMMA CheckingKeepsInv ==
  ASSUME LifecycleAssumption, LifecycleInv,
         PrepareError \/ PrepareWarm \/ PrepareCold \/ CheckError \/ CheckWarm
           \/ CheckThrows
  PROVE  LifecycleInv'
<1> USE DEF LifecycleInv, LifecycleTypeOK, RowFollowsRun, CheckpointHoldsVolume,
            RestorePossible, hasCandidates, States, PCs, Volumes, restoring,
            history, At, Transition, BeginRestore, EnterRun
<1>1. CASE PrepareError
  BY <1>1 DEF PrepareError
<1>2. CASE PrepareWarm
  BY <1>2 DEF PrepareWarm
<1>3. CASE PrepareCold
  BY <1>3 DEF PrepareCold
<1>4. CASE CheckError
  BY <1>4 DEF CheckError
<1>5. CASE CheckWarm
  BY <1>5 DEF CheckWarm
<1>6. CASE CheckThrows
  BY <1>6 DEF CheckThrows
<1> QED BY <1>1, <1>2, <1>3, <1>4, <1>5, <1>6

\* A restore, its rollback and its failures keep it.
LEMMA RestoringKeepsInv ==
  ASSUME LifecycleAssumption, LifecycleInv,
         ReadSnapshot \/ EnsureVolume \/ BeginReplace \/ Replaced
           \/ RestoreThrows \/ ReplaceThrows \/ Rollback
  PROVE  LifecycleInv'
<1> USE DEF LifecycleInv, LifecycleTypeOK, RowFollowsRun, CheckpointHoldsVolume,
            RestorePossible, hasCandidates, States, PCs, Volumes, restoring,
            history, At, Transition, EnterRun, Caught, LifecycleAssumption
<1>1. CASE ReadSnapshot
  BY <1>1 DEF ReadSnapshot
<1>2. CASE EnsureVolume
  BY <1>2 DEF EnsureVolume
<1>3. CASE BeginReplace
  BY <1>3 DEF BeginReplace
<1>4. CASE Replaced
  BY <1>4 DEF Replaced
<1>5. CASE RestoreThrows
  BY <1>5 DEF RestoreThrows
<1>6. CASE ReplaceThrows
  BY <1>6 DEF ReplaceThrows
<1>7. CASE Rollback
  BY <1>7 DEF Rollback
<1> QED BY <1>1, <1>2, <1>3, <1>4, <1>5, <1>6, <1>7

\* A run and the checkpoint after it keep it.
LEMMA RunningKeepsInv ==
  ASSUME LifecycleAssumption, LifecycleInv,
         Work \/ EndWithoutCheckpoint \/ Checkpoint
  PROVE  LifecycleInv'
<1> USE DEF LifecycleInv, LifecycleTypeOK, RowFollowsRun, CheckpointHoldsVolume,
            RestorePossible, hasCandidates, States, PCs, Volumes, restoring,
            history, At, Transition, Promoted, LifecycleAssumption
<1>1. CASE Work
  <2>1. untouched' \in BOOLEAN
    BY <1>1, Zenon DEF Work
  <2> QED BY <1>1, <2>1 DEF Work
<1>2. CASE EndWithoutCheckpoint
  BY <1>2 DEF EndWithoutCheckpoint
<1>3. CASE BeginCheckpoint
  BY <1>3 DEF BeginCheckpoint
<1>4. CASE Export
  BY <1>4 DEF Export
<1>5. CASE Publish
  BY <1>5 DEF Publish
<1>6. CASE RemoveVolume
  BY <1>6 DEF RemoveVolume
<1>7. CASE CheckpointThrows
  BY <1>7 DEF CheckpointThrows
<1> QED BY <1>1, <1>2, <1>3, <1>4, <1>5, <1>6, <1>7 DEF Checkpoint

\* Crashes, losses and deletions keep it.
LEMMA AroundKeepsInv ==
  ASSUME LifecycleAssumption, LifecycleInv,
         LoseVolume \/ BeginDelete \/ FinishDelete \/ Crash
  PROVE  LifecycleInv'
<1> USE DEF LifecycleInv, LifecycleTypeOK, RowFollowsRun, CheckpointHoldsVolume,
            RestorePossible, hasCandidates, States, PCs, Volumes, restoring,
            history, Surviving, LifecycleAssumption
<1>1. CASE LoseVolume
  BY <1>1 DEF LoseVolume
<1>2. CASE BeginDelete
  BY <1>2 DEF BeginDelete
<1>3. CASE FinishDelete
  <2>1. deleting' \in BOOLEAN
    BY <1>3, Zenon DEF FinishDelete
  <2> QED BY <1>3, <2>1 DEF FinishDelete
<1>4. CASE Crash
  <2>1. deleting' \in BOOLEAN
    BY <1>4, Zenon DEF Crash
  <2> QED BY <1>4, <2>1 DEF Crash
<1> QED BY <1>1, <1>2, <1>3, <1>4

\* Every step keeps it.
LEMMA LifecycleInvStep ==
  ASSUME LifecycleAssumption, LifecycleInv, [Next]_vars
  PROVE  LifecycleInv'
<1>1. CASE UNCHANGED vars
  BY <1>1 DEF vars, LifecycleInv, LifecycleTypeOK, RowFollowsRun,
     CheckpointHoldsVolume, RestorePossible, hasCandidates
<1> QED
  BY <1>1, CheckingKeepsInv, RestoringKeepsInv, RunningKeepsInv,
     AroundKeepsInv DEF Next, Prepare

\* So it holds in every behaviour.
LEMMA LifecycleInvHolds == ASSUME LifecycleAssumption PROVE Spec => []LifecycleInv
  BY InitLifecycleInv, LifecycleInvStep, PTL DEF Spec

\* The state of a workspace row, its volume and its snapshots keep their types.
THEOREM LifecycleTypeCorrect ==
  ASSUME LifecycleAssumption PROVE Spec => []LifecycleTypeOK
<1>1. LifecycleInv => LifecycleTypeOK
  BY DEF LifecycleInv
<1> QED BY <1>1, LifecycleInvHolds, PTL

\* Every #transition of prepare and checkpoint finds the state it expects, with
\* crashes, aborts, failures and administrators in between.
THEOREM RowAlwaysFollowsRun ==
  ASSUME LifecycleAssumption PROVE Spec => []RowFollowsRun
<1>1. LifecycleInv => RowFollowsRun
  BY DEF LifecycleInv
<1> QED BY <1>1, LifecycleInvHolds, PTL

\* checkpoint removes a warm volume only when a snapshot holds its content.
THEOREM ColdAlwaysHoldsTheVolume ==
  ASSUME LifecycleAssumption PROVE Spec => ColdHoldsTheVolume
<1>1. LifecycleInv => [pc = "remove" /\ state' = "COLD" =>
                         volume \in {snapshot, Missing}]_vars
  BY DEF LifecycleInv, CheckpointHoldsVolume
<1> QED BY <1>1, LifecycleInvHolds, PTL DEF Spec, ColdHoldsTheVolume

-----------------------------------------------------------------------------
(* What a run starts from. *)

\* Outside a restore the volume holds the base, or is gone; then the base is what
\* the snapshots hold.
BaseKept ==
  /\ ~deleting /\ ~aborted
  /\ base \in Nat /\ snapshot # Partial
  /\ state \notin {"RESTORING", "CORRUPT"} =>
       volume = base \/ (volume = Missing /\ base = Surviving)
  /\ state \in {"COLD", "RESTORING"} => base = snapshot
  /\ pc \in {"ensure", "stage", "replace", "rollback"} => archive = base
  /\ pc \in {"running", "export"} /\ volume = Missing => ~hasCandidates
  /\ pc \in {"publish", "remove"} => volume = base
  /\ pc = "publish" => archive = base
  /\ pc = "remove" => snapshot = base

\* The inductive invariant of the content.
ContentInv == LifecycleInv /\ BaseKept

\* A new workspace holds its base.
LEMMA InitBaseKept == ASSUME LifecycleAssumption, Init PROVE BaseKept
  BY DEF Init, BaseKept, hasCandidates, Surviving, LifecycleAssumption

\* prepare restores the base, or finds it in the volume.
LEMMA PrepareKeepsBase ==
  ASSUME LifecycleAssumption, ContentInv, Prepare, ~Disturbed
  PROVE  BaseKept'
<1> USE DEF LifecycleAssumption, ContentInv, LifecycleInv, LifecycleTypeOK,
            RowFollowsRun, RestorePossible, BaseKept, hasCandidates, Surviving,
            restoring, history, At, Transition, BeginRestore, EnterRun
<1>1. CASE PrepareError
  BY <1>1 DEF PrepareError
<1>2. CASE PrepareWarm
  BY <1>2 DEF PrepareWarm
<1>3. CASE PrepareCold
  BY <1>3 DEF PrepareCold
<1>4. CASE CheckError
  BY <1>4 DEF CheckError
<1>5. CASE CheckWarm
  BY <1>5 DEF CheckWarm
<1>6. CASE CheckThrows
  BY <1>6 DEF CheckThrows
<1>7. CASE ReadSnapshot
  BY <1>7 DEF ReadSnapshot
<1>8. CASE EnsureVolume
  BY <1>8 DEF EnsureVolume
<1>9. CASE BeginReplace
  BY <1>9 DEF BeginReplace
<1>10. CASE Replaced
  BY <1>10 DEF Replaced
<1>11. CASE RestoreThrows
  BY <1>11 DEF RestoreThrows, Caught, Disturbed
<1>12. CASE ReplaceThrows
  BY <1>12 DEF ReplaceThrows, Disturbed
<1>13. CASE Rollback
  BY <1>13 DEF Rollback, Caught, Disturbed
<1> QED BY <1>1, <1>2, <1>3, <1>4, <1>5, <1>6, <1>7, <1>8, <1>9, <1>10, <1>11,
           <1>12, <1>13 DEF Prepare

\* A run moves the base on, and a checkpoint keeps it where a restore will look.
LEMMA RunKeepsBase ==
  ASSUME LifecycleAssumption, ContentInv, ~Disturbed,
         \/ Work \/ EndWithoutCheckpoint \/ Checkpoint
         \/ LoseVolume \/ BeginDelete \/ FinishDelete \/ Crash
  PROVE  BaseKept'
<1> USE DEF LifecycleAssumption, ContentInv, LifecycleInv, LifecycleTypeOK,
            RowFollowsRun, RestorePossible, BaseKept, hasCandidates, Surviving,
            restoring, history, At, Transition, Promoted
<1>1. CASE Work
  BY <1>1 DEF Work
<1>2. CASE EndWithoutCheckpoint
  BY <1>2 DEF EndWithoutCheckpoint
<1>3. CASE BeginCheckpoint
  BY <1>3 DEF BeginCheckpoint
<1>4. CASE Export
  BY <1>4 DEF Export
<1>5. CASE Publish
  BY <1>5 DEF Publish
<1>6. CASE RemoveVolume
  BY <1>6 DEF RemoveVolume
<1>7. CASE CheckpointThrows
  BY <1>7 DEF CheckpointThrows
<1>8. CASE LoseVolume
  BY <1>8 DEF LoseVolume
<1>9. CASE Crash
  BY <1>9 DEF Crash
<1>10. ~BeginDelete /\ ~FinishDelete
  BY DEF BeginDelete, FinishDelete, Disturbed
<1> QED BY <1>1, <1>2, <1>3, <1>4, <1>5, <1>6, <1>7, <1>8, <1>9, <1>10
        DEF Checkpoint

\* A step keeps the content, unless it cancels a prepare or deletes the workspace.
LEMMA ContentStep ==
  ASSUME LifecycleAssumption, ContentInv, [Next]_vars, ~Disturbed
  PROVE  BaseKept'
<1>1. CASE UNCHANGED vars
  BY <1>1 DEF ContentInv, vars, BaseKept, hasCandidates, Surviving
<1> QED
  BY <1>1, PrepareKeepsBase, RunKeepsBase DEF Next

\* What is kept is what a run starts from.
LEMMA ContentIsWhatRunsFind == ContentInv => StartsFromBase
  BY DEF ContentInv, LifecycleInv, LifecycleTypeOK, RowFollowsRun, BaseKept, StartsFromBase,
         Surviving

\* A run starts in what was written last, or in the last snapshot when the volume
\* is gone: prepare restores whenever it has to, whatever crashed or failed, as long as
\* no prepare is cancelled and nobody deletes the workspace.
THEOREM RunsStartFromBase ==
  ASSUME LifecycleAssumption PROVE Init /\ [][Next /\ ~Disturbed]_vars => []StartsFromBase
<1>1. ASSUME Init PROVE ContentInv
  BY <1>1, InitBaseKept, InitLifecycleInv DEF ContentInv
<1>2. ASSUME ContentInv, [Next /\ ~Disturbed]_vars
      PROVE  ContentInv'
  <2>1. CASE UNCHANGED vars
    BY <1>2, <2>1 DEF vars, ContentInv, LifecycleInv, LifecycleTypeOK, RowFollowsRun,
       CheckpointHoldsVolume, RestorePossible, BaseKept, hasCandidates, Surviving
  <2>2. CASE Next /\ ~Disturbed
    BY <1>2, <2>2, LifecycleInvStep, ContentStep DEF ContentInv
  <2> QED  BY <1>2, <2>1, <2>2
<1> QED BY <1>1, <1>2, ContentIsWhatRunsFind, PTL

-----------------------------------------------------------------------------
(* Tool containers                                                            *)

\* Past docker create.
Engaged == {"creating", "undo", "record", "attached", "stopped", "failed"}

\* Containers are used in order, a call that is past docker create has one, and a
\* startup that has not failed has every living one on its list.
ContainersAreListed ==
  /\ toolPc \in Engaged => last > 0
  /\ \A n \in Ids : n > last => docker[n] = "unused" /\ record[n] = "none" /\ n \notin todo
  /\ toolPc = "reconciling" /\ ~bad =>
       \A n \in Ids : docker[n] \in Alive => n \in todo

\* An answer is that of a call that is over.
AnswerIsFinal == answer # "none" => toolPc = "idle"

\* The inductive invariant: work is accounted for because containers are used in order and a
\* startup has every living one on its list.
ContainersInv ==
  ContainersTypeOK /\ ContainersAreListed /\ AnswerIsFinal /\ ToolWorkIsAccounted

\* A plan ends after its mutation, and that of a mutation with the quota.
LEMMA PlansMeasure ==
  ASSUME NEW t \in Tools
  PROVE  /\ Len(Plan[t]) \in Nat /\ 1 \in 1 .. Len(Plan[t])
         /\ \A s \in 1 .. Len(Plan[t]) :
              /\ Plan[t][s] \in {"read", "quota", "mutate", "check"}
              /\ Plan[t][s] = "mutate" => s < Len(Plan[t])
              /\ t \in Mutations => Plan[t][s] # "read"
              /\ t \in Mutations /\ s = Len(Plan[t]) => Plan[t][s] = "quota"
  <1> DEFINE P == Plan[t]
  <1>1. CASE t \in {"read_file", "artifact_publish"}
    <2>1. P = <<"read">>
      BY <1>1 DEF Plan
    <2>2. Len(P) = 1 /\ P[1] = "read"
      BY <2>1
    <2>. QED  BY <1>1, <2>2 DEF Mutations
  <1>2. CASE t = "write_file"
    <2>1. P = <<"quota", "mutate", "quota">>
      BY <1>2 DEF Plan
    <2>2. Len(P) = 3 /\ P[1] = "quota" /\ P[2] = "mutate" /\ P[3] = "quota"
      BY <2>1
    <2>. QED  BY <1>2, <2>2
  <1>3. CASE t = "shell_exec"
    <2>1. P = <<"mutate", "quota">>
      BY <1>3 DEF Plan
    <2>2. Len(P) = 2 /\ P[1] = "mutate" /\ P[2] = "quota"
      BY <2>1
    <2>. QED  BY <1>3, <2>2
  <1>4. CASE t = "patch_apply"
    <2>1. P = <<"check", "mutate", "quota">>
      BY <1>4 DEF Plan
    <2>2. Len(P) = 3 /\ P[1] = "check" /\ P[2] = "mutate" /\ P[3] = "quota"
      BY <2>1
    <2>. QED  BY <1>4, <2>2
  <1>. QED  BY <1>1, <1>2, <1>3, <1>4 DEF Tools, Plan

\* How a container ended leaves the call in its plan, or answered; a mutation is
\* answered as done by its last measure only.
LEMMA ConcludeTypes ==
  ASSUME tool \in Tools, step \in 1 .. Len(Plan[tool]), outcome \in Verdict, answer \in Verdict,
         NEW verdict \in {"ok", "error", "aborted"}, Conclude(verdict)
  PROVE  /\ step' \in 1 .. Len(Plan[tool]) /\ outcome' \in Verdict /\ answer' \in Verdict
         /\ toolPc' \in {"next", "idle"}
         /\ toolPc' = "next" => answer' = answer
         /\ toolPc' = "idle" /\ answer' = "ok" /\ tool \in Mutations =>
              verdict = "ok" /\ Operation = "quota"
  <1>1. /\ Operation \in {"read", "quota", "mutate", "check"}
        /\ Operation = "mutate" => step < Len(Plan[tool])
        /\ tool \in Mutations /\ step = Len(Plan[tool]) => Operation = "quota"
        /\ tool \in Mutations => Operation # "read"
        /\ 1 \in 1 .. Len(Plan[tool]) /\ Len(Plan[tool]) \in Nat
    BY PlansMeasure DEF Operation
  <1>2. ToolAnswer(verdict) \in Verdict
        /\ (ToolAnswer(verdict) = "ok" => verdict = "ok")
    BY DEF ToolAnswer, Verdict
  <1>. HIDE DEF Operation, ToolAnswer
  <1>. QED  BY <1>1, <1>2 DEF Conclude, Verdict

\* Before the first call there is no container.
LEMMA ContainersInitInv == ContainersInit => ContainersInv
  <1> SUFFICES ASSUME ContainersInit PROVE ContainersInv
    OBVIOUS
  <1> USE ContainerAssumption DEF ContainersInit
  <1>1. step \in 1 .. Len(Plan[tool]) /\ tool \in Tools
    <2>1. "read_file" \in Tools
      BY DEF Tools, Plan
    <2>2. Plan["read_file"] = <<"read">>
      BY DEF Plan
    <2>. QED  BY <2>1, <2>2
  <1>2. /\ docker \in [Ids -> Visible \union {"unused", "requested", "removed"}]
        /\ record \in [Ids -> {"none", "CREATED", "RUNNING", "STOPPING"}]
        /\ last \in 0 .. MaxContainers /\ toolPc \in ToolPCs
        /\ outcome \in Verdict /\ answer \in Verdict
    BY DEF ToolPCs, Verdict
  <1>3. toolFence \in BOOLEAN
    OBVIOUS
  <1>4. over \in BOOLEAN
    OBVIOUS
  <1>5. bad \in BOOLEAN
    OBVIOUS
  <1>6. writers \subseteq Ids /\ todo \subseteq Ids /\ unreaped \subseteq Ids
    OBVIOUS
  <1>7. ContainersAreListed /\ AnswerIsFinal
    BY DEF ContainersAreListed, AnswerIsFinal, Engaged, Ids
  <1>8. RunningIsAccounted /\ NothingAcceptedOverQuota
    BY DEF RunningIsAccounted, NothingAcceptedOverQuota, Alive
  <1>. QED  BY <1>1, <1>2, <1>3, <1>4, <1>5, <1>6, <1>7, <1>8
            DEF ContainersInv, ContainersTypeOK, ToolWorkIsAccounted

\* A tool call up to the creation of its container starts nothing.
LEMMA PreparingKeepsInv ==
  ASSUME ContainersInv,
         \/ \E t \in Tools : BeginTool(t)
         \/ RequestCreate \/ CreateReturns \/ CreateFails \/ UndoCreate
  PROVE  ContainersInv'
  <1> USE ContainerAssumption
      DEF ContainersInv, ContainersTypeOK, ContainersAreListed, AnswerIsFinal,
          ToolWorkIsAccounted,
          RunningIsAccounted, NothingAcceptedOverQuota, Engaged, Alive, Visible, ToolPCs, Ids,
          Stopped,
          daemon, execution, startup, Await, Container
  <1>1. ASSUME NEW t \in Tools, BeginTool(t) PROVE ContainersInv'
    <2>1. 1 \in 1 .. Len(Plan[t])
      BY PlansMeasure
    <2>2. /\ toolPc = "idle" /\ toolPc' = "next"
          /\ tool' = t /\ step' = 1 /\ outcome' = "none" /\ answer' = "none"
          /\ UNCHANGED <<daemon, toolFence, over, startup>>
      BY <1>1 DEF BeginTool
    <2>3. ContainersTypeOK'
      BY <2>1, <2>2 DEF Verdict
    <2>4. ContainersAreListed' /\ AnswerIsFinal' /\ NothingAcceptedOverQuota'
      BY <2>2
    <2>5. RunningIsAccounted'
      BY <2>2
    <2>. QED  BY <2>3, <2>4, <2>5
  <1>2. CASE RequestCreate
    <2>1. /\ toolPc = "next" /\ toolPc' = "creating"
          /\ last' = last + 1 /\ last < MaxContainers
          /\ docker' = [docker EXCEPT ![last'] = "requested"]
          /\ UNCHANGED <<record, execution, toolFence, over, startup>>
      BY <1>2 DEF RequestCreate
    <2>2. writers' \subseteq Ids
      BY <1>2, <2>1 DEF RequestCreate
    <2>3. ContainersTypeOK' /\ ContainersAreListed'
      BY <2>1, <2>2
    <2>4. AnswerIsFinal' /\ NothingAcceptedOverQuota'
      BY <2>1
    <2>5. RunningIsAccounted'
      BY <2>1
    <2>. QED  BY <2>3, <2>4, <2>5
  <1>3. CASE CreateReturns
    BY <1>3 DEF CreateReturns
  <1>4. CASE CreateFails
    BY <1>4 DEF CreateFails
  <1>5. CASE UndoCreate
    BY <1>5 DEF UndoCreate
  <1>. QED  BY <1>1, <1>2, <1>3, <1>4, <1>5

\* A call that is not attached to a container concludes: nothing runs but what was not reaped.
LEMMA GivingUpKeepsContainers ==
  ASSUME ContainersInv,
         FenceLostBetween \/ \E verdict \in {"error", "aborted"} : UndoEnds(verdict)
  PROVE  ContainersInv'
  <1> USE DEF ContainersInv, ContainersTypeOK
  <1>1. PICK verdict \in {"error", "aborted"} :
          /\ toolPc \in {"next", "undo"} /\ Conclude(verdict)
          /\ UNCHANGED <<daemon, tool, toolFence, over, startup>>
    BY DEF FenceLostBetween, UndoEnds
  <1>2. /\ step' \in 1 .. Len(Plan[tool]) /\ outcome' \in Verdict /\ answer' \in Verdict
        /\ toolPc' \in {"next", "idle"}
        /\ toolPc' = "next" => answer' = answer
        /\ toolPc' = "idle" /\ answer' = "ok" => tool \notin Mutations
    BY <1>1, ConcludeTypes
  <1>3. UNCHANGED <<docker, record, last, writers, tool, toolFence, over, todo, unreaped, bad>>
    BY <1>1 DEF daemon, startup
  <1>4. ContainersAreListed' /\ AnswerIsFinal'
    BY <1>1, <1>2, <1>3 DEF ContainersAreListed, AnswerIsFinal, Engaged
  <1>5. RunningIsAccounted'
    BY <1>1, <1>2, <1>3 DEF ToolWorkIsAccounted, RunningIsAccounted, Stopped
  <1>6. NothingAcceptedOverQuota'
    BY <1>1, <1>2, <1>3 DEF AnswerIsFinal, NothingAcceptedOverQuota, Verdict
  <1>7. toolPc' \in ToolPCs
    BY <1>2 DEF ToolPCs
  <1>. QED  BY <1>2, <1>3, <1>4, <1>5, <1>6, <1>7 DEF ToolWorkIsAccounted

\* A container is started with its row written, and left for the reap.
LEMMA StartingKeepsInv ==
  ASSUME ContainersInv, Start \/ StartFails \/ Detach
  PROVE  ContainersInv'
  <1> USE ContainerAssumption
      DEF ContainersInv, ContainersTypeOK, ContainersAreListed, AnswerIsFinal,
          ToolWorkIsAccounted,
          RunningIsAccounted, NothingAcceptedOverQuota, Engaged, Alive, Visible, ToolPCs, Ids,
          Stopped,
          daemon, execution, startup, Await, Container, RecordIs
  <1>1. CASE Start
    <2>1. /\ toolPc = "record" /\ toolPc' = "attached"
          /\ record' = [record EXCEPT ![last] = "RUNNING"]
          /\ docker' = [docker EXCEPT ![last] = "launching"]
          /\ UNCHANGED <<last, writers, execution, toolFence, over, startup>>
      BY <1>1 DEF Start
    <2>2. ContainersTypeOK'
      BY <2>1
    <2>3. ContainersAreListed' /\ AnswerIsFinal' /\ NothingAcceptedOverQuota'
      BY <2>1
    <2>4. RunningIsAccounted'
      BY <2>1
    <2>. QED  BY <2>2, <2>3, <2>4
  <1>2. CASE StartFails
    <2>1. /\ toolPc = "record" /\ toolPc' = "failed"
          /\ UNCHANGED <<docker, last, writers, execution, toolFence, over, startup>>
          /\ \/ record' = record
             \/ \E now \in {"CREATED", "RUNNING"} : record' = [record EXCEPT ![last] = now]
      BY <1>2 DEF StartFails
    <2>2. ContainersTypeOK' /\ ContainersAreListed'
      BY <2>1, SMTT(30)
    <2>3. AnswerIsFinal' /\ NothingAcceptedOverQuota'
      BY <2>1
    <2>4. RunningIsAccounted'
      BY <2>1
    <2>. QED  BY <2>2, <2>3, <2>4
  <1>3. CASE Detach
    BY <1>3 DEF Detach
  <1>. QED  BY <1>1, <1>2, <1>3


\* A reap leaves the container removed, or on the list of those that were not.
LEMMA ReapingKeepsInv ==
  ASSUME ContainersInv, Reap \/ ReapFails
  PROVE  ContainersInv'
  <1> USE DEF ContainersInv, ContainersTypeOK
  <1>1. PICK verdict \in {"ok", "error", "aborted"} :
          /\ toolPc \in {"stopped", "failed"} /\ Conclude(verdict)
          /\ verdict = "ok" /\ Operation = "quota" => ~over
    <2>1. CASE Reap
      BY <2>1 DEF Reap, Verdicts, Failures
    <2>2. CASE ReapFails
      BY <2>2 DEF ReapFails, Failures
    <2>. QED  BY <2>1, <2>2
  <1>2. /\ step' \in 1 .. Len(Plan[tool]) /\ outcome' \in Verdict /\ answer' \in Verdict
        /\ toolPc' \in {"next", "idle"}
        /\ toolPc' = "next" => answer' = answer
        /\ toolPc' = "idle" /\ answer' = "ok" /\ tool \in Mutations =>
             verdict = "ok" /\ Operation = "quota"
    BY <1>1, ConcludeTypes
  <1>3. UNCHANGED <<last, writers, tool, toolFence, over, todo, bad>>
    BY DEF Reap, ReapFails, startup
  <1>4. last \in Ids
    BY <1>1, ContainerAssumption DEF ContainersAreListed, Engaged, Ids
  <1>5. PICK now \in Visible \union {"unused", "requested", "removed"},
             left \in {"none", "CREATED", "RUNNING", "STOPPING"} :
          /\ docker' = [docker EXCEPT ![last] = now]
          /\ record' = [record EXCEPT ![last] = left]
          /\ unreaped' = unreaped \/ unreaped' = unreaped \union {last}
          /\ now \in Alive => docker[last] \in Alive
          /\ record[last] # "none" /\ now \in Alive => left # "none"
          /\ last \in unreaped' \/ now = "removed"
    <2>1. CASE Reap
      BY <1>4, <2>1 DEF Reap, Container, MarkStopping, RecordIs, startup, Visible, Alive
    <2>2. CASE ReapFails
      <3>1. /\ \/ docker' = [docker EXCEPT ![last] = docker[last]]
               \/ docker' = [docker EXCEPT ![last] = "exited"]
            /\ \/ record' = [record EXCEPT ![last] = record[last]]
               \/ record[last] # "none" /\ record' = [record EXCEPT ![last] = "STOPPING"]
            /\ unreaped' = unreaped \union {last}
        BY <1>4, <2>2 DEF ReapFails, Container, MarkStopping, RecordIs
      <3>. QED  BY <1>4, <3>1 DEF Visible, Alive
    <2>. QED  BY <2>1, <2>2
  <1>6. ContainersTypeOK'
    BY <1>2, <1>3, <1>4, <1>5 DEF ToolPCs
  <1>7. ContainersAreListed' /\ AnswerIsFinal'
    BY <1>1, <1>2, <1>3, <1>4, <1>5 DEF ContainersAreListed, AnswerIsFinal, Engaged, Ids
  <1>8. RunningIsAccounted'
    <2>1. ASSUME NEW n \in Ids, docker'[n] \in Alive PROVE record'[n] # "none" /\ n \in unreaped'
      <3>1. docker[n] \in Alive
        BY <1>4, <1>5, <2>1
      <3>2. record[n] # "none" /\ (n = last \/ n \in unreaped)
        BY <1>1, <3>1 DEF ToolWorkIsAccounted, RunningIsAccounted, Stopped
      <3>3. CASE n = last
        BY <1>4, <1>5, <2>1, <3>2, <3>3 DEF Alive
      <3>4. CASE n # last
        BY <1>4, <1>5, <3>2, <3>4
      <3>. QED  BY <3>3, <3>4
    <2>. QED  BY <2>1 DEF RunningIsAccounted
  <1>9. NothingAcceptedOverQuota'
    BY <1>1, <1>2, <1>3 DEF AnswerIsFinal, NothingAcceptedOverQuota, Verdict
  <1>. QED  BY <1>6, <1>7, <1>8, <1>9 DEF ToolWorkIsAccounted

\* The daemon and what runs in its containers do as they were asked; while nothing
\* runs nobody fills the volume.
LEMMA DaemonKeepsInv ==
  ASSUME ContainersInv, NEW n \in Ids, DaemonCreates(n) \/ DaemonStarts(n) \/ ContainerWorks(n)
  PROVE  ContainersInv'
  <1> USE DEF ContainersInv, ContainersTypeOK
  <1>1. /\ UNCHANGED <<record, last, writers, toolPc, execution, toolFence, startup>>
        /\ over' \in BOOLEAN
    BY DEF DaemonCreates, DaemonStarts, ContainerWorks
  <1>2. PICK now \in Visible : docker' = docker \/ docker' = [docker EXCEPT ![n] = now]
    BY DEF DaemonCreates, DaemonStarts, ContainerWorks, Visible
  <1>3. \A m \in Ids : /\ docker'[m] \in Alive => docker[m] \in Alive
                       /\ docker[m] = "unused" => docker'[m] = "unused"
    BY DEF DaemonCreates, DaemonStarts, ContainerWorks, Alive
  <1>4. over' = over \/ docker[n] \in Alive
    BY DEF DaemonCreates, DaemonStarts, ContainerWorks, Alive
  <1>5. ContainersTypeOK'
    BY <1>1, <1>2 DEF execution, startup
  <1>6. ContainersAreListed' /\ AnswerIsFinal'
    BY <1>1, <1>3 DEF ContainersAreListed, AnswerIsFinal, execution, startup
  <1>7. RunningIsAccounted'
    BY <1>1, <1>3 DEF ToolWorkIsAccounted, RunningIsAccounted, startup
  <1>8. NothingAcceptedOverQuota'
    BY <1>1, <1>4
    DEF AnswerIsFinal, ToolWorkIsAccounted, RunningIsAccounted, NothingAcceptedOverQuota,
        execution, startup, Stopped
  <1>. QED  BY <1>5, <1>6, <1>7, <1>8 DEF ToolWorkIsAccounted

\* The Manager loses the fence, goes on to the next run, or dies.
LEMMA ManagerKeepsContainers ==
  ASSUME ContainersInv, LoseFence \/ NextRun \/ ManagerDies
  PROVE  ContainersInv'
  <1> USE DEF ContainersInv, ContainersTypeOK
  <1>1. /\ UNCHANGED <<docker, record, last, writers, over>>
        /\ toolFence' \in BOOLEAN
        /\ toolPc' = toolPc \/ toolPc' = "down"
    BY DEF LoseFence, NextRun, ManagerDies, daemon
  <1>2. \/ UNCHANGED execution
        \/ NoCall
    BY DEF LoseFence, NextRun, ManagerDies
  <1>3. \/ UNCHANGED startup /\ toolPc' = toolPc
        \/ todo' = {} /\ unreaped' = {} /\ bad' = FALSE /\ toolPc' = "down" /\ NoCall
    BY DEF LoseFence, NextRun, ManagerDies
  <1>4. tool' \in Tools /\ step' \in 1 .. Len(Plan[tool'])
    <2>1. "read_file" \in Tools
      BY DEF Tools, Plan
    <2>. QED  BY <1>2, <2>1, PlansMeasure DEF NoCall, execution
  <1>5. ContainersTypeOK'
    <2>1. bad' \in BOOLEAN
      BY <1>3 DEF startup
    <2>2. outcome' \in Verdict /\ answer' \in Verdict /\ toolPc' \in ToolPCs
      BY <1>1, <1>2 DEF execution, NoCall, Verdict, ToolPCs
    <2>3. todo' \subseteq Ids /\ unreaped' \subseteq Ids
      BY <1>3 DEF startup
    <2>. QED  BY <1>1, <1>4, <2>1, <2>2, <2>3
  <1>6. ContainersAreListed' /\ AnswerIsFinal'
    BY <1>1, <1>2, <1>3 DEF ContainersAreListed, AnswerIsFinal, Engaged, execution, startup,
                            NoCall
  <1>7. RunningIsAccounted'
    BY <1>1, <1>3 DEF ToolWorkIsAccounted, RunningIsAccounted, Stopped, startup
  <1>8. NothingAcceptedOverQuota'
    BY <1>1, <1>2, <1>3
    DEF ToolWorkIsAccounted, NothingAcceptedOverQuota, execution, startup, NoCall
  <1>. QED  BY <1>5, <1>6, <1>7, <1>8 DEF ToolWorkIsAccounted

\* A startup lists what may run, and serves only when it reaped it all.
LEMMA StartupKeepsInv ==
  ASSUME ContainersInv, ListContainers \/ ServeTools \/ \E n \in Ids : ReapOld(n)
  PROVE  ContainersInv'
  <1> USE DEF ContainersInv, ContainersTypeOK
  <1>1. /\ UNCHANGED <<last, writers, execution, toolFence, over, unreaped>>
        /\ toolPc \in Stopped /\ toolPc' \in {"reconciling", "down", "idle"}
    BY DEF ListContainers, ServeTools, ReapOld, Await, Stopped, daemon
  <1>2. ContainersTypeOK'
    <2>1. bad' \in BOOLEAN
      BY DEF ListContainers, ServeTools, ReapOld
    <2>2. docker' \in [Ids -> Visible \union {"unused", "requested", "removed"}]
          /\ record' \in [Ids -> {"none", "CREATED", "RUNNING", "STOPPING"}]
          /\ todo' \subseteq Ids
      BY DEF ListContainers, ServeTools, ReapOld, daemon
    <2>. QED  BY <1>1, <2>1, <2>2 DEF execution, ToolPCs
  <1>3. \A n \in Ids : docker'[n] \in Alive =>
          docker[n] \in Alive /\ record'[n] = record[n]
    BY DEF ListContainers, ServeTools, ReapOld, daemon, Alive
  <1>4. ContainersAreListed'
    <2>1. CASE ListContainers
      BY <1>1, <2>1 DEF ListContainers, ContainersAreListed, Await, Engaged, daemon, Alive,
                        Visible
    <2>2. CASE ServeTools
      BY <1>1, <2>2 DEF ServeTools, ContainersAreListed, Engaged, daemon
    <2>3. ASSUME NEW n \in Ids, ReapOld(n) PROVE ContainersAreListed'
      <3>1. n <= last
        BY <2>3, ContainerAssumption DEF ReapOld, ContainersAreListed, Ids
      <3>2. /\ toolPc' = "reconciling" /\ todo' = todo \ {n}
            /\ docker'[n] = "removed" \/ bad' = TRUE
            /\ \A m \in Ids \ {n} : docker'[m] = docker[m] /\ record'[m] = record[m]
            /\ bad' = bad \/ bad' = TRUE
        BY <2>3 DEF ReapOld
      <3>3. \A m \in Ids : m > last =>
               docker'[m] = "unused" /\ record'[m] = "none" /\ m \notin todo'
        BY <3>1, <3>2, ContainerAssumption DEF ContainersAreListed, Ids
      <3>4. ASSUME ~bad', NEW m \in Ids, docker'[m] \in Alive PROVE m \in todo'
        BY <1>3, <2>3, <3>2, <3>4 DEF ContainersAreListed, Alive, ReapOld
      <3>. QED  BY <1>1, <3>2, <3>3, <3>4 DEF ContainersAreListed, Engaged
    <2>. QED  BY <2>1, <2>2, <2>3
  <1>5. RunningIsAccounted'
    <2>1. CASE ServeTools /\ ~bad
      BY <2>1 DEF ServeTools, ContainersAreListed, ToolWorkIsAccounted, RunningIsAccounted,
                  daemon
    <2>2. CASE toolPc' \in Stopped
      BY <1>3, <2>2 DEF ToolWorkIsAccounted, RunningIsAccounted
    <2>. QED  BY <2>1, <2>2 DEF ListContainers, ServeTools, ReapOld, Await, Stopped
  <1>6. AnswerIsFinal' /\ NothingAcceptedOverQuota'
    BY <1>1 DEF AnswerIsFinal, ToolWorkIsAccounted, NothingAcceptedOverQuota, execution, Stopped
  <1>. QED  BY <1>2, <1>4, <1>5, <1>6 DEF ToolWorkIsAccounted

\* Every step of the call, the daemon, the Manager and its startup accounts for the work.
LEMMA ContainersStep == ContainersInv /\ [ContainersNext]_toolVars => ContainersInv'
  <1> SUFFICES ASSUME ContainersInv, [ContainersNext]_toolVars PROVE ContainersInv'
    OBVIOUS
  <1>1. CASE UNCHANGED toolVars
    BY <1>1
    DEF toolVars, daemon, execution, startup, ContainersInv, ContainersTypeOK,
        ContainersAreListed,
        AnswerIsFinal, ToolWorkIsAccounted, RunningIsAccounted, NothingAcceptedOverQuota
  <1>2. CASE ToolStep
    BY <1>2, PreparingKeepsInv, GivingUpKeepsContainers, StartingKeepsInv, ReapingKeepsInv
    DEF ToolStep
  <1>. QED  BY <1>1, <1>2, DaemonKeepsInv, ManagerKeepsContainers, StartupKeepsInv
            DEF ContainersNext

\* What was started has a durable row, what runs while the Manager serves is the
\* container of its one call or one whose reap failed, and a mutation is answered as
\* done only within the quota: for any number of containers, deaths and failures
\* (DockerToolRuntime#runTool, #runWorkspaceMutation, reconcileContainers).
THEOREM ToolWorkStaysAccounted == ContainersSpec => []ToolWorkIsAccounted
  <1>1. ContainersInv => ToolWorkIsAccounted
    BY DEF ContainersInv
  <1>. QED  BY <1>1, ContainersInitInv, ContainersStep, PTL DEF ContainersSpec


-----------------------------------------------------------------------------
(* Artifacts                                                                  *)

\* A publication reads what is there, and claims what it has read.
ReadInv ==
  /\ ~moved => others = {}
  /\ \A n \in others : n <= source
  /\ \A a \in Artifacts : half[a] <= source /\ claim[a][1] <= source /\ claim[a][2] <= source
  /\ \A a \in fenced : publish[a] \in Synchronous \/ listed[a] # Gone =>
       claim[a][1] \notin others /\ claim[a][2] \notin others
  /\ \A a \in fenced : publish[a] \notin {"none", "hashing", "streaming"}
  /\ \A a \in Artifacts : publish[a] = "reading" => a \in fenced

\* Where the bytes of an artifact are while it becomes a row.
BlobInv ==
  \A a \in Artifacts :
    /\ publish[a] \in {"none", "hashing", "streaming", "reading", "staged", "inserted"} => blob[a] = Gone
    /\ publish[a] \in {"staged", "inserted"} => draft[a] = claim[a]
    /\ publish[a] = "promoted" => blob[a] \in {claim[a], Spoilt}
    /\ publish[a] # "over" => listed[a] = Gone
    /\ listed[a] # Gone => listed[a] = claim[a] /\ blob[a] \in {claim[a], Spoilt}
    /\ ~crashed /\ publish[a] = "over" /\ listed[a] = Gone => blob[a] = Gone

\* A file that is being written is of an artifact that has a row.
CopyInv ==
  \A a \in Artifacts :
    /\ copy[a] # Gone => \/ listed[a] # Gone /\ copy[a] = listed[a]
                         \/ copy[a] = Part /\ (a \in copying \/ crashed)
    /\ a \in copying => listed[a] # Gone

ArtifactInv == ArtifactTypeOK /\ ReadInv /\ BlobInv /\ CopyInv

LEMMA ArtifactInitial == ArtifactInit => ArtifactInv
  <1> SUFFICES ASSUME ArtifactInit PROVE ArtifactInv
    OBVIOUS
  <1>1. ArtifactTypeOK
    <2>1. 0 \in 0 .. MaxRewrites /\ <<0, 0>> \in Pairs
      BY ArtifactAssumption DEF Pairs
    <2>. QED  BY <2>1 DEF ArtifactInit, ArtifactTypeOK
  <1>2. ReadInv
    BY DEF ArtifactInit, ReadInv
  <1>3. BlobInv
    BY DEF ArtifactInit, BlobInv
  <1>4. CopyInv
    BY DEF ArtifactInit, CopyInv
  <1>. QED  BY <1>1, <1>2, <1>3, <1>4 DEF ArtifactInv

LEMMA ArtifactSuffices == ArtifactInv => ArtifactsAreSound
  <1> SUFFICES ASSUME ArtifactInv PROVE ArtifactsAreSound
    OBVIOUS
  <1>1. RowsHaveTheirBlobs
    BY DEF ArtifactInv, BlobInv, RowsHaveTheirBlobs
  <1>2. FailuresLeaveNoBlob
    BY DEF ArtifactInv, BlobInv, FailuresLeaveNoBlob
  <1>3. CopiesAreWhole
    BY DEF ArtifactInv, CopyInv, CopiesAreWhole
  <1>4. PublishedUnderFence
    BY DEF ArtifactInv, ArtifactTypeOK, ReadInv, BlobInv, PublishedUnderFence
  <1>. QED  BY <1>1, <1>2, <1>3, <1>4 DEF ArtifactsAreSound


LEMMA ArtifactTypeStep ==
  ASSUME ArtifactInv, ArtifactNext
  PROVE  ArtifactTypeOK'
  <1> USE ArtifactAssumption DEF ArtifactInv, ArtifactTypeOK, Reaches, Quiet, Synchronous, placeVars, worldVars, readVars
  <1>1. ASSUME NEW a \in Artifacts, BeginDigest(a)
        PROVE  ArtifactTypeOK'
    BY <1>1 DEF BeginDigest
  <1>2. ASSUME NEW a \in Artifacts, EndDigest(a)
        PROVE  ArtifactTypeOK'
    <2>1. <<half[a], source>> \in Pairs
      BY DEF Pairs
    <2>. QED  BY <1>2, <2>1 DEF EndDigest
  <1>3. ASSUME NEW a \in Artifacts, EndStream(a)
        PROVE  ArtifactTypeOK'
    BY <1>3 DEF EndStream, Verified
  <1>4. ASSUME NEW a \in Artifacts, BeginRead(a)
        PROVE  ArtifactTypeOK'
    BY <1>4 DEF BeginRead
  <1>5. ASSUME NEW a \in Artifacts, EndRead(a)
        PROVE  ArtifactTypeOK'
    <2>1. <<half[a], source>> \in Pairs
      BY DEF Pairs
    <2>. QED  BY <1>5, <2>1 DEF EndRead, FenceHolds
  <1>6. ASSUME NEW a \in Artifacts, InsertRow(a)
        PROVE  ArtifactTypeOK'
    BY <1>6 DEF InsertRow
  <1>7. ASSUME NEW a \in Artifacts, Promote(a)
        PROVE  ArtifactTypeOK'
    <2>1. draft[a] = claim[a] /\ claim[a] \in Pairs
      BY <1>7 DEF Promote, BlobInv
    <2>. QED  BY <1>7, <2>1 DEF Promote
  <1>8. ASSUME NEW a \in Artifacts, Commit(a)
        PROVE  ArtifactTypeOK'
    BY <1>8 DEF Commit, Committable
  <1>9. ASSUME NEW a \in Artifacts, PublishFails(a)
        PROVE  ArtifactTypeOK'
    BY <1>9 DEF PublishFails, Withdrawn
  <1>10. ASSUME NEW a \in Artifacts, BeginMaterialize(a)
        PROVE  ArtifactTypeOK'
    BY <1>10 DEF BeginMaterialize
  <1>11. ASSUME NEW a \in Artifacts, EndMaterialize(a)
        PROVE  ArtifactTypeOK'
    BY <1>11 DEF EndMaterialize, Checked
  <1>12. ASSUME NEW a \in Artifacts, Get(a)
        PROVE  ArtifactTypeOK'
    BY <1>12 DEF Get, Checked
  <1>13. ASSUME NEW a \in Artifacts, BlobSpoils(a)
        PROVE  ArtifactTypeOK'
    BY <1>13 DEF BlobSpoils
  <1>14. CASE Rewrite
    BY <1>14 DEF Rewrite
  <1>15. CASE LoseLease
    BY <1>15 DEF LoseLease
  <1>16. CASE StoreCrashes
    BY <1>16 DEF StoreCrashes
  <1>17. CASE StoreRestarts
    BY <1>17 DEF StoreRestarts
  <1> HIDE DEF ArtifactInv, ArtifactTypeOK
  <1>. QED  BY <1>1, <1>2, <1>3, <1>4, <1>5, <1>6, <1>7, <1>8, <1>9, <1>10, <1>11, <1>12, <1>13, <1>14, <1>15, <1>16, <1>17 DEF ArtifactNext

LEMMA ReadInvStep ==
  ASSUME ArtifactInv, ArtifactNext
  PROVE  ReadInv'
  <1> USE ArtifactAssumption DEF ArtifactInv, ReadInv, ArtifactTypeOK, BlobInv, Reaches, Quiet, Synchronous, placeVars, worldVars, readVars
  <1>1. ASSUME NEW a \in Artifacts, BeginDigest(a)
        PROVE  ReadInv'
    BY <1>1 DEF BeginDigest
  <1>2. ASSUME NEW a \in Artifacts, EndDigest(a)
        PROVE  ReadInv'
    BY <1>2 DEF EndDigest
  <1>3. ASSUME NEW a \in Artifacts, EndStream(a)
        PROVE  ReadInv'
    BY <1>3 DEF EndStream, Verified
  <1>4. ASSUME NEW a \in Artifacts, BeginRead(a)
        PROVE  ReadInv'
    BY <1>4 DEF BeginRead
  <1>5. ASSUME NEW a \in Artifacts, EndRead(a)
        PROVE  ReadInv'
    BY <1>5 DEF EndRead, FenceHolds
  <1>6. ASSUME NEW a \in Artifacts, InsertRow(a)
        PROVE  ReadInv'
    BY <1>6 DEF InsertRow
  <1>7. ASSUME NEW a \in Artifacts, Promote(a)
        PROVE  ReadInv'
    BY <1>7 DEF Promote
  <1>8. ASSUME NEW a \in Artifacts, Commit(a)
        PROVE  ReadInv'
    BY <1>8 DEF Commit, Committable
  <1>9. ASSUME NEW a \in Artifacts, PublishFails(a)
        PROVE  ReadInv'
    BY <1>9 DEF PublishFails, Withdrawn
  <1>10. ASSUME NEW a \in Artifacts, BeginMaterialize(a)
        PROVE  ReadInv'
    BY <1>10 DEF BeginMaterialize
  <1>11. ASSUME NEW a \in Artifacts, EndMaterialize(a)
        PROVE  ReadInv'
    BY <1>11 DEF EndMaterialize, Checked
  <1>12. ASSUME NEW a \in Artifacts, Get(a)
        PROVE  ReadInv'
    BY <1>12 DEF Get, Checked
  <1>13. ASSUME NEW a \in Artifacts, BlobSpoils(a)
        PROVE  ReadInv'
    BY <1>13 DEF BlobSpoils
  <1>14. CASE Rewrite
    <2>1. source' = source + 1 /\ source \in Nat /\ others' \subseteq others \union {source'}
          /\ (~moved => others' = others)
      BY <1>14 DEF Rewrite
    <2>2. \A a \in Artifacts : claim[a][1] \in Nat /\ claim[a][2] \in Nat /\ half[a] \in Nat
      BY DEF Pairs
    <2>3. \A n \in others : n \in Nat
      OBVIOUS
    <2>4. \A a \in Artifacts : claim[a][1] # source' /\ claim[a][2] # source'
      BY <2>1, <2>2
    <2>5. UNCHANGED <<publish, fenced, half, claim, listed, moved>>
      BY <1>14 DEF Rewrite
    <2>. QED  BY <2>1, <2>2, <2>3, <2>4, <2>5
  <1>15. CASE LoseLease
    BY <1>15 DEF LoseLease
  <1>16. CASE StoreCrashes
    BY <1>16 DEF StoreCrashes
  <1>17. CASE StoreRestarts
    BY <1>17 DEF StoreRestarts
  <1> HIDE DEF ArtifactInv, ReadInv
  <1>. QED  BY <1>1, <1>2, <1>3, <1>4, <1>5, <1>6, <1>7, <1>8, <1>9, <1>10, <1>11, <1>12, <1>13, <1>14, <1>15, <1>16, <1>17 DEF ArtifactNext

LEMMA BlobInvStep ==
  ASSUME ArtifactInv, ArtifactNext
  PROVE  BlobInv'
  <1> USE ArtifactAssumption DEF ArtifactInv, BlobInv, ArtifactTypeOK, Reaches, Quiet, Synchronous, placeVars, worldVars, readVars
  <1>1. ASSUME NEW a \in Artifacts, BeginDigest(a)
        PROVE  BlobInv'
    BY <1>1 DEF BeginDigest
  <1>2. ASSUME NEW a \in Artifacts, EndDigest(a)
        PROVE  BlobInv'
    BY <1>2 DEF EndDigest
  <1>3. ASSUME NEW a \in Artifacts, EndStream(a)
        PROVE  BlobInv'
    BY <1>3 DEF EndStream, Verified
  <1>4. ASSUME NEW a \in Artifacts, BeginRead(a)
        PROVE  BlobInv'
    BY <1>4 DEF BeginRead
  <1>5. ASSUME NEW a \in Artifacts, EndRead(a)
        PROVE  BlobInv'
    BY <1>5 DEF EndRead, FenceHolds
  <1>6. ASSUME NEW a \in Artifacts, InsertRow(a)
        PROVE  BlobInv'
    BY <1>6 DEF InsertRow
  <1>7. ASSUME NEW a \in Artifacts, Promote(a)
        PROVE  BlobInv'
    BY <1>7 DEF Promote
  <1>8. ASSUME NEW a \in Artifacts, Commit(a)
        PROVE  BlobInv'
    BY <1>8 DEF Commit, Committable
  <1>9. ASSUME NEW a \in Artifacts, PublishFails(a)
        PROVE  BlobInv'
    BY <1>9 DEF PublishFails, Withdrawn
  <1>10. ASSUME NEW a \in Artifacts, BeginMaterialize(a)
        PROVE  BlobInv'
    BY <1>10 DEF BeginMaterialize
  <1>11. ASSUME NEW a \in Artifacts, EndMaterialize(a)
        PROVE  BlobInv'
    BY <1>11 DEF EndMaterialize, Checked
  <1>12. ASSUME NEW a \in Artifacts, Get(a)
        PROVE  BlobInv'
    BY <1>12 DEF Get, Checked
  <1>13. ASSUME NEW a \in Artifacts, BlobSpoils(a)
        PROVE  BlobInv'
    BY <1>13 DEF BlobSpoils
  <1>14. CASE Rewrite
    BY <1>14 DEF Rewrite
  <1>15. CASE LoseLease
    BY <1>15 DEF LoseLease
  <1>16. CASE StoreCrashes
    BY <1>16 DEF StoreCrashes
  <1>17. CASE StoreRestarts
    BY <1>17 DEF StoreRestarts
  <1> HIDE DEF ArtifactInv, BlobInv
  <1>. QED  BY <1>1, <1>2, <1>3, <1>4, <1>5, <1>6, <1>7, <1>8, <1>9, <1>10, <1>11, <1>12, <1>13, <1>14, <1>15, <1>16, <1>17 DEF ArtifactNext

LEMMA CopyInvStep ==
  ASSUME ArtifactInv, ArtifactNext
  PROVE  CopyInv'
  <1> USE ArtifactAssumption DEF ArtifactInv, CopyInv, ArtifactTypeOK, BlobInv, Reaches, Quiet, Synchronous, placeVars, worldVars, readVars
  <1>1. ASSUME NEW a \in Artifacts, BeginDigest(a)
        PROVE  CopyInv'
    BY <1>1 DEF BeginDigest
  <1>2. ASSUME NEW a \in Artifacts, EndDigest(a)
        PROVE  CopyInv'
    BY <1>2 DEF EndDigest
  <1>3. ASSUME NEW a \in Artifacts, EndStream(a)
        PROVE  CopyInv'
    BY <1>3 DEF EndStream, Verified
  <1>4. ASSUME NEW a \in Artifacts, BeginRead(a)
        PROVE  CopyInv'
    BY <1>4 DEF BeginRead
  <1>5. ASSUME NEW a \in Artifacts, EndRead(a)
        PROVE  CopyInv'
    BY <1>5 DEF EndRead, FenceHolds
  <1>6. ASSUME NEW a \in Artifacts, InsertRow(a)
        PROVE  CopyInv'
    BY <1>6 DEF InsertRow
  <1>7. ASSUME NEW a \in Artifacts, Promote(a)
        PROVE  CopyInv'
    BY <1>7 DEF Promote
  <1>8. ASSUME NEW a \in Artifacts, Commit(a)
        PROVE  CopyInv'
    BY <1>8 DEF Commit, Committable
  <1>9. ASSUME NEW a \in Artifacts, PublishFails(a)
        PROVE  CopyInv'
    BY <1>9 DEF PublishFails, Withdrawn
  <1>10. ASSUME NEW a \in Artifacts, BeginMaterialize(a)
        PROVE  CopyInv'
    BY <1>10 DEF BeginMaterialize
  <1>11. ASSUME NEW a \in Artifacts, EndMaterialize(a)
        PROVE  CopyInv'
    BY <1>11 DEF EndMaterialize, Checked
  <1>12. ASSUME NEW a \in Artifacts, Get(a)
        PROVE  CopyInv'
    BY <1>12 DEF Get, Checked
  <1>13. ASSUME NEW a \in Artifacts, BlobSpoils(a)
        PROVE  CopyInv'
    BY <1>13 DEF BlobSpoils
  <1>14. CASE Rewrite
    BY <1>14 DEF Rewrite
  <1>15. CASE LoseLease
    BY <1>15 DEF LoseLease
  <1>16. CASE StoreCrashes
    BY <1>16 DEF StoreCrashes
  <1>17. CASE StoreRestarts
    BY <1>17 DEF StoreRestarts
  <1> HIDE DEF ArtifactInv, CopyInv
  <1>. QED  BY <1>1, <1>2, <1>3, <1>4, <1>5, <1>6, <1>7, <1>8, <1>9, <1>10, <1>11, <1>12, <1>13, <1>14, <1>15, <1>16, <1>17 DEF ArtifactNext

LEMMA ArtifactStep ==
  ASSUME ArtifactInv, [ArtifactNext]_artifactVars
  PROVE  ArtifactInv'
  <1>1. CASE ArtifactNext
    BY <1>1, ArtifactTypeStep, ReadInvStep, BlobInvStep, CopyInvStep DEF ArtifactInv
  <1>2. CASE UNCHANGED artifactVars
    BY <1>2 DEF artifactVars, ArtifactInv, ArtifactTypeOK, ReadInv, BlobInv, CopyInv
  <1>. QED  BY <1>1, <1>2

-----------------------------------------------------------------------------
(* The volume.  What protects the content of a workspace is the order of the  *)
(* docker commands of an import: at each of its awaits one knows where the    *)
(* content that it found is, unless somebody else has changed the volume, or  *)
(* a container that outlived its command still does.                          *)

\* What an import or a visitor awaits before it may touch the volume.
Unmounted == {"idle", "ensure", "labels", "labelsReady", "legacy", "legacyReady", "initialize", "mounted"}

VolumeAwaits ==
  Unmounted \union {"createBackup", "extract", "copy", "replace", "rollback", "verify", "removeStaging",
                    "removeBackup", "answered", "cut", "remove", "write", "rename"}

VolumesShape ==
  /\ VolumesTypeOK
  /\ awaits \in [VolumeRequests -> VolumeAwaits]
  /\ DOMAIN purpose = Visitors /\ DOMAIN temporary = Visitors

\* An export renames what it has written to the end.
ExportsInv ==
  /\ archiveFile # "part"
  /\ \A v \in Visitors : awaits[v] = "rename" => temporary[v] = "archive"

\* Beside a foreign or a legacy volume no request gets past its checks.
GuardedInv ==
  legacy \/ target.labels = "other" =>
    /\ \A f \in Files : target.content[f] \in {NoContent, "first"}
    /\ \A i \in Imports : job[i] = NoJob /\ stray[i] = NoJob
    /\ \A q \in VolumeRequests :
         /\ awaits[q] \in (Unmounted \ {"initialize", "mounted"}) \union {"remove", "answered", "cut"}
         /\ ~legacy => awaits[q] \notin {"legacy", "legacyReady"}

\* An import has a container while it replaces or rolls back, and a stray one only when
\* it was told of a failure beside it, or with the Manager that died.
JobsInv ==
  \A i \in Imports :
    /\ job[i] # NoJob => awaits[i] \in {"replace", "rollback"}
    /\ stray[i] # NoJob => i \in strayed \/ awaits[i] = "cut"
    /\ kept[i] => awaits[i] \in {"removeStaging", "answered", "cut"}
    /\ awaits[i] \notin {"remove", "write", "rename"}
    /\ awaits[i] \in Unmounted => meddled[i]

\* A container that has copied all but what is left.
Copied(i, content, left) ==
  \A f \in Files : target.content[f] = IF f \in left THEN NoContent ELSE content[f]

\* A replacement goes from the content found to the archive, a rollback from anything back.
ReplacesFrom(i) ==
  /\ job[i].from = "staging" /\ stagingOf[i].content = Whole(i)
  /\ job[i].phase \in {"clear", "copy", "own", "exited"}
  /\ job[i].phase = "clear" => target.content = prior[i] /\ job[i].left = Files
  /\ job[i].phase = "copy" => Copied(i, Whole(i), job[i].left)
  /\ job[i].phase \in {"own", "exited"} => target.content = Whole(i)
  /\ job[i].phase = "exited" => target.owner = "user"

RollsBackFrom(i) ==
  /\ job[i].from = "backup"
  /\ job[i].phase \in {"clear", "copy", "own", "exited"}
  /\ job[i].phase = "clear" => job[i].left = Files
  /\ job[i].phase = "copy" => Copied(i, prior[i], job[i].left)
  /\ job[i].phase \in {"own", "exited"} => target.content = prior[i]

\* Where the content that an undisturbed import found is, at each of its awaits.
ImportAt(i) ==
  Undisturbed(i) =>
    /\ awaits[i] \in {"createBackup", "extract", "copy"} => target.content = prior[i]
    /\ awaits[i] = "copy" => stagingOf[i].content = Whole(i)
    /\ awaits[i] \in {"replace", "rollback", "verify"} => backupOf[i].content = prior[i]
    /\ awaits[i] = "replace" => ReplacesFrom(i)
    /\ awaits[i] = "rollback" => RollsBackFrom(i)
    /\ awaits[i] \in {"removeStaging", "removeBackup", "answered"} =>
         IF kept[i] THEN backupOf[i].content = prior[i]
         ELSE /\ target.content = IF imported[i] = "ok" THEN Whole(i) ELSE prior[i]
              /\ imported[i] = "ok" => target.owner = "user"
    /\ awaits[i] = "cut" =>
         /\ target.content \in {prior[i], Whole(i)} \/ backupOf[i].content = prior[i]
         /\ stray[i] # NoJob => backupOf[i].content = prior[i]

ImportInv == \A i \in Imports : ImportAt(i)

VolumesInv == VolumesShape /\ ExportsInv /\ GuardedInv /\ JobsInv /\ ImportInv

LEMMA VolumesInitial == VolumesInit => VolumesInv
  <1> SUFFICES ASSUME VolumesInit PROVE VolumesInv
    OBVIOUS
  <1>1. VolumesShape
    <2>1. Whole(NoContent) \in VolumeContents /\ Whole("first") \in VolumeContents
      BY DEF Whole, VolumeContents
    <2>2. NoVolume \in Volume /\ NoJob \in Jobs /\ 0 \in 0 .. MaxVisits /\ 0 \in 0 .. MaxCrashes
      BY <2>1, VolumesAssumption DEF Volume, NoVolume, Fresh, NoJob, Jobs
    <2>3. target \in Volume
      BY <2>1, <2>2 DEF VolumesInit, Volume
    <2>. QED  BY <2>1, <2>2, <2>3 DEF VolumesInit, VolumesShape, VolumesTypeOK, VolumeAwaits, Unmounted
  <1>2. ExportsInv
    BY VolumesAssumption DEF VolumesInit, ExportsInv, VolumeRequests
  <1>3. GuardedInv
    BY DEF VolumesInit, GuardedInv, NoVolume, Fresh, Whole, Unmounted
  <1>4. JobsInv
    BY DEF VolumesInit, JobsInv, VolumeRequests
  <1>5. ImportInv
    BY DEF VolumesInit, ImportInv, ImportAt, Undisturbed
  <1>. QED  BY <1>1, <1>2, <1>3, <1>4, <1>5 DEF VolumesInv

LEMMA VolumesSuffices == VolumesInv => VolumesAreSound
  <1> SUFFICES ASSUME VolumesInv PROVE VolumesAreSound
    OBVIOUS
  <1>1. PriorSurvives
    <2> SUFFICES ASSUME NEW i \in Imports, Undisturbed(i)
                 PROVE  target.content \in {prior[i], Whole(i)} \/ backupOf[i].content = prior[i]
      BY DEF PriorSurvives
    <2>1. /\ awaits[i] \in VolumeAwaits /\ ~(awaits[i] \in Unmounted)
          /\ ~meddled[i] /\ ImportAt(i)
      BY DEF VolumesInv, VolumesShape, VolumeRequests, JobsInv, ImportInv, Undisturbed
    <2>2. awaits[i] \notin {"remove", "write", "rename"}
      BY DEF VolumesInv, JobsInv
    <2>. QED  BY <2>1, <2>2 DEF VolumeAwaits, ImportAt
  <1>2. ReplacedOrRestored
    BY DEF VolumesInv, ImportInv, ImportAt, ReplacedOrRestored
  <1>3. OnlyOwnVolumesAreFilled
    BY DEF VolumesInv, GuardedInv, OnlyOwnVolumesAreFilled
  <1>4. ArchiveFileIsWhole
    BY DEF VolumesInv, ExportsInv, ArchiveFileIsWhole
  <1>. QED  BY <1>1, <1>2, <1>3, <1>4 DEF VolumesAreSound

\* What a container mounts: docker makes an empty volume of one that is gone.
LEMMA MountedHasTheContent ==
  ASSUME target \in Volume
  PROVE  /\ Mounted \in Volume /\ Mounted.content = target.content /\ Mounted.owner = target.owner
         /\ Mounted.labels = target.labels \/ (target.labels = "absent" /\ Mounted.labels = "none")
  BY DEF Volume, Mounted, IsThere, NoVolume, Fresh, Whole, VolumeContents

\* One command of a replacement container (#replaceVolumeContents).
LEMMA CommandWorks ==
  ASSUME VolumesShape, NEW i \in Imports, NEW j \in Jobs, NEW k \in JobSteps(j), Works(i, j, k)
  PROVE  /\ k \in Jobs /\ k.from = j.from /\ Running(j)
         /\ target' \in Volume /\ target'.labels = Mounted.labels
         /\ \/ /\ j.phase = "clear" /\ k.phase = "copy" /\ k.left = j.left
               /\ \A f \in Files : target'.content[f] = NoContent
            \/ \E f \in j.left :
                 /\ j.phase = "copy" /\ k.left = j.left \ {f}
                 /\ k.phase = IF j.left = {f} THEN "own" ELSE "copy"
                 /\ \A g \in Files :
                      target'.content[g] =
                        IF g # f THEN target.content[g]
                        ELSE IF j.from = "staging" THEN stagingOf[i].content[g] ELSE backupOf[i].content[g]
            \/ /\ j.phase = "own" /\ k.phase = "exited"
               /\ target'.content = target.content /\ target'.owner = "user"
  <1> USE DEF VolumesShape, VolumesTypeOK
  <1>1. k \in Jobs /\ k.from = j.from
    BY DEF JobSteps, Jobs
  <1>2. /\ Mounted \in Volume /\ Mounted.content = target.content
        /\ Mounted = [labels |-> Mounted.labels, owner |-> Mounted.owner, content |-> target.content]
    BY MountedHasTheContent DEF Volume
  <1>3. ASSUME Clears(j, k)
        PROVE  /\ j.phase = "clear" /\ k.phase = "copy" /\ k.left = j.left
               /\ target' \in Volume /\ target'.labels = Mounted.labels
               /\ \A f \in Files : target'.content[f] = NoContent
    BY <1>2, <1>3 DEF Clears, Jobs, Volume, VolumeContents, Whole
  <1> DEFINE from == IF j.from = "staging" THEN stagingOf[i].content ELSE backupOf[i].content
  <1>4. ASSUME NEW f \in j.left, CopiesFile(j, k, f, from)
        PROVE  /\ j.phase = "copy" /\ k.left = j.left \ {f} /\ k.phase = IF j.left = {f} THEN "own" ELSE "copy"
               /\ target' \in Volume /\ target'.labels = Mounted.labels
               /\ \A g \in Files : target'.content[g] = IF g # f THEN target.content[g] ELSE from[g]
    <2>1. f \in Files
      BY DEF Jobs
    <2>2. PICK x \in Imports \union {"first", "tool", NoContent} : x = from[f]
      BY <2>1 DEF Volume, VolumeContents
    <2> HIDE DEF from
    <2>3. PICK c \in VolumeContents : c = [Mounted.content EXCEPT ![f] = x]
      BY <1>2, <2>1, <2>2 DEF Volume, VolumeContents
    <2>4. /\ target'.content = c /\ target'.labels = Mounted.labels
          /\ target' \in Volume
      BY <1>2, <1>4, <2>2, <2>3 DEF CopiesFile, Volume
    <2>5. j.phase = "copy" /\ k.left = j.left \ {f} /\ k.phase = IF j.left = {f} THEN "own" ELSE "copy"
      BY <1>4 DEF CopiesFile, Jobs
    <2>. QED  BY <1>2, <2>1, <2>2, <2>3, <2>4, <2>5 DEF Volume, VolumeContents
  <1>5. ASSUME GivesToUser(j, k)
        PROVE  /\ j.phase = "own" /\ k.phase = "exited" /\ target' \in Volume /\ target'.labels = Mounted.labels
               /\ target'.content = target.content /\ target'.owner = "user"
    BY <1>2, <1>5 DEF GivesToUser, Jobs, Volume
  <1>6. Clears(j, k) \/ (\E f \in j.left : CopiesFile(j, k, f, from)) \/ GivesToUser(j, k)
    BY DEF Works
  <1>7. CASE Clears(j, k)
    BY <1>1, <1>3, <1>7 DEF Running
  <1>8. CASE \E f \in j.left : CopiesFile(j, k, f, from)
    <2>1. PICK f \in j.left : CopiesFile(j, k, f, from)
      BY <1>8
    <2>2. f \in Files
      BY DEF Jobs
    <2>. QED  BY <1>1, <1>4, <2>1, <2>2 DEF Running
  <1>9. CASE GivesToUser(j, k)
    BY <1>1, <1>5, <1>9 DEF Running
  <1>. QED  BY <1>6, <1>7, <1>8, <1>9

\* It works for an import that has started it, and no other container moves.
LEMMA ContainerRuns ==
  ASSUME VolumesShape, NEW i \in Imports, RunContainer(i)
  PROVE  \E j \in Jobs : \E k \in JobSteps(j) :
           /\ Works(i, j, k)
           /\ \/ j = job[i] /\ job' = [job EXCEPT ![i] = k] /\ UNCHANGED stray
              \/ j = stray[i] /\ stray' = [stray EXCEPT ![i] = k] /\ UNCHANGED job
  BY DEF RunContainer, VolumesShape, VolumesTypeOK

\* An export is renamed only when it was written to the end (writeWorkspaceArchive).
LEMMA ExportsStep ==
  ASSUME VolumesInv, VolumesNext
  PROVE  ExportsInv'
  <1> USE VolumesAssumption, MountedHasTheContent DEF VolumesInv, VolumesShape, VolumesTypeOK,
                                                      VolumeRequests, VolumeAwaits, Unmounted,
                                                      Goto, AtStep, volumes, exportFiles,
                                                      judgement, ExportsInv
  <1>1. ASSUME NEW q \in VolumeRequests, EnsureCreate(q)
        PROVE  ExportsInv'
    BY <1>1 DEF EnsureCreate, Fresh, IsThere, NoVolume
  <1>2. ASSUME NEW q \in VolumeRequests, AssertLabels(q)
        PROVE  ExportsInv'
    BY <1>2 DEF AssertLabels
  <1>3. ASSUME NEW q \in VolumeRequests, AssertNoLegacy(q)
        PROVE  ExportsInv'
    BY <1>3 DEF AssertNoLegacy
  <1>4. ASSUME NEW q \in VolumeRequests, Initialize(q)
        PROVE  ExportsInv'
    BY <1>4 DEF Initialize
  <1>5. ASSUME NEW q \in VolumeRequests, EnsureFails(q)
        PROVE  ExportsInv'
    BY <1>5 DEF EnsureFails, GiveUp, Abandoned, FailedAnswer
  <1>6. ASSUME NEW i \in Imports, NEW how \in {"import", "restore"}, AskImport(i, how)
        PROVE  ExportsInv'
    BY <1>6 DEF AskImport
  <1>7. ASSUME NEW i \in Imports, CreateVolumes(i)
        PROVE  ExportsInv'
    BY <1>7 DEF CreateVolumes, Fresh
  <1>8. ASSUME NEW i \in Imports, Extract(i)
        PROVE  ExportsInv'
    BY <1>8 DEF Extract
  <1>9. ASSUME NEW i \in Imports, CopyToBackup(i)
        PROVE  ExportsInv'
    BY <1>9 DEF CopyToBackup, Replace
  <1>10. ASSUME NEW i \in Imports, RunContainer(i)
        PROVE  ExportsInv'
    BY <1>10 DEF RunContainer
  <1>11. ASSUME NEW i \in Imports, ReplaceEnds(i)
        PROVE  ExportsInv'
    BY <1>11 DEF ReplaceEnds, Ended
  <1>12. ASSUME NEW i \in Imports, ReplaceFails(i)
        PROVE  ExportsInv'
    BY <1>12 DEF ReplaceFails, StopsOrStrays, Replace
  <1>13. ASSUME NEW i \in Imports, RolledBack(i)
        PROVE  ExportsInv'
    BY <1>13 DEF RolledBack
  <1>14. ASSUME NEW i \in Imports, Verify(i)
        PROVE  ExportsInv'
    BY <1>14 DEF Verify, Ended
  <1>15. ASSUME NEW i \in Imports, RollbackFails(i)
        PROVE  ExportsInv'
    BY <1>15 DEF RollbackFails, Ended
  <1>16. ASSUME NEW i \in Imports, ImportFails(i)
        PROVE  ExportsInv'
    BY <1>16 DEF ImportFails, Ended
  <1>17. ASSUME NEW i \in Imports, RemoveStaging(i)
        PROVE  ExportsInv'
    BY <1>17 DEF RemoveStaging, NoVolume, Fresh
  <1>18. ASSUME NEW i \in Imports, RemoveBackup(i)
        PROVE  ExportsInv'
    BY <1>18 DEF RemoveBackup, NoVolume, Fresh
  <1>19. ASSUME NEW v \in Visitors, NEW what \in {"export", "delete", "tool"}, Visit(v, what)
        PROVE  ExportsInv'
    BY <1>19 DEF Visit
  <1>20. ASSUME NEW v \in Visitors, Tool(v)
        PROVE  ExportsInv'
    BY <1>20 DEF Tool, DisturbedBut
  <1>21. ASSUME NEW v \in Visitors, Delete(v)
        PROVE  ExportsInv'
    BY <1>21 DEF Delete, DisturbedBut, NoVolume, Fresh
  <1>22. ASSUME NEW v \in Visitors, WriteArchive(v)
        PROVE  ExportsInv'
    BY <1>22 DEF WriteArchive
  <1>23. ASSUME NEW v \in Visitors, RenameArchive(v)
        PROVE  ExportsInv'
    BY <1>23 DEF RenameArchive
  <1>24. ASSUME NEW v \in Visitors, ExportFails(v)
        PROVE  ExportsInv'
    BY <1>24 DEF ExportFails
  <1>25. CASE ManagerCrash
    BY <1>25 DEF ManagerCrash
  <1> HIDE DEF VolumesInv, VolumesShape, VolumesTypeOK, ExportsInv
  <1>. QED  BY <1>1, <1>2, <1>3, <1>4, <1>5, <1>6, <1>7, <1>8, <1>9, <1>10, <1>11, <1>12, <1>13,
               <1>14, <1>15, <1>16, <1>17, <1>18, <1>19, <1>20, <1>21, <1>22, <1>23, <1>24, <1>25 DEF VolumesNext, Ensure, Import, Visiting

\* A foreign volume stays as it is (#assertManagedVolume, #assertNoLegacyVolume).
LEMMA GuardedStep ==
  ASSUME VolumesInv, VolumesNext
  PROVE  GuardedInv'
  <1> USE VolumesAssumption, MountedHasTheContent DEF VolumesInv, VolumesShape, VolumesTypeOK,
                                                      VolumeRequests, VolumeAwaits, Unmounted,
                                                      Goto, AtStep, volumes, exportFiles,
                                                      judgement, GuardedInv
  <1>1. ASSUME NEW q \in VolumeRequests, EnsureCreate(q)
        PROVE  GuardedInv'
    BY <1>1 DEF EnsureCreate, Fresh, IsThere, NoVolume
  <1>2. ASSUME NEW q \in VolumeRequests, AssertLabels(q)
        PROVE  GuardedInv'
    BY <1>2 DEF AssertLabels
  <1>3. ASSUME NEW q \in VolumeRequests, AssertNoLegacy(q)
        PROVE  GuardedInv'
    BY <1>3 DEF AssertNoLegacy
  <1>4. ASSUME NEW q \in VolumeRequests, Initialize(q)
        PROVE  GuardedInv'
    BY <1>4 DEF Initialize
  <1>5. ASSUME NEW q \in VolumeRequests, EnsureFails(q)
        PROVE  GuardedInv'
    BY <1>5 DEF EnsureFails, GiveUp, Abandoned, FailedAnswer
  <1>6. ASSUME NEW i \in Imports, NEW how \in {"import", "restore"}, AskImport(i, how)
        PROVE  GuardedInv'
    BY <1>6 DEF AskImport
  <1>7. ASSUME NEW i \in Imports, CreateVolumes(i)
        PROVE  GuardedInv'
    BY <1>7 DEF CreateVolumes, Fresh
  <1>8. ASSUME NEW i \in Imports, Extract(i)
        PROVE  GuardedInv'
    BY <1>8 DEF Extract
  <1>9. ASSUME NEW i \in Imports, CopyToBackup(i)
        PROVE  GuardedInv'
    BY <1>9 DEF CopyToBackup, Replace
  <1>10. ASSUME NEW i \in Imports, RunContainer(i)
        PROVE  GuardedInv'
    <2>1. PICK j \in Jobs : \E k \in JobSteps(j) :
             /\ Works(i, j, k) /\ (j = job[i] \/ j = stray[i])
      BY <1>10, ContainerRuns
    <2>2. Running(j) /\ target'.labels = Mounted.labels
      BY <2>1, CommandWorks
    <2>3. j # NoJob
      BY <2>2 DEF Running, NoJob
    <2>. QED  BY <1>10, <2>1, <2>2, <2>3 DEF RunContainer
  <1>11. ASSUME NEW i \in Imports, ReplaceEnds(i)
        PROVE  GuardedInv'
    BY <1>11 DEF ReplaceEnds, Ended
  <1>12. ASSUME NEW i \in Imports, ReplaceFails(i)
        PROVE  GuardedInv'
    BY <1>12 DEF ReplaceFails, StopsOrStrays, Replace
  <1>13. ASSUME NEW i \in Imports, RolledBack(i)
        PROVE  GuardedInv'
    BY <1>13 DEF RolledBack
  <1>14. ASSUME NEW i \in Imports, Verify(i)
        PROVE  GuardedInv'
    BY <1>14 DEF Verify, Ended
  <1>15. ASSUME NEW i \in Imports, RollbackFails(i)
        PROVE  GuardedInv'
    BY <1>15 DEF RollbackFails, Ended
  <1>16. ASSUME NEW i \in Imports, ImportFails(i)
        PROVE  GuardedInv'
    BY <1>16 DEF ImportFails, Ended
  <1>17. ASSUME NEW i \in Imports, RemoveStaging(i)
        PROVE  GuardedInv'
    BY <1>17 DEF RemoveStaging, NoVolume, Fresh
  <1>18. ASSUME NEW i \in Imports, RemoveBackup(i)
        PROVE  GuardedInv'
    BY <1>18 DEF RemoveBackup, NoVolume, Fresh
  <1>19. ASSUME NEW v \in Visitors, NEW what \in {"export", "delete", "tool"}, Visit(v, what)
        PROVE  GuardedInv'
    BY <1>19 DEF Visit
  <1>20. ASSUME NEW v \in Visitors, Tool(v)
        PROVE  GuardedInv'
    BY <1>20 DEF Tool, DisturbedBut
  <1>21. ASSUME NEW v \in Visitors, Delete(v)
        PROVE  GuardedInv'
    <2>1. CASE UNCHANGED target
      BY <1>21, <2>1 DEF Delete
    <2>2. CASE target' = NoVolume
      BY <1>21, <2>2 DEF Delete, NoVolume, Fresh, Whole
    <2>. QED  BY <1>21, <2>1, <2>2 DEF Delete
  <1>22. ASSUME NEW v \in Visitors, WriteArchive(v)
        PROVE  GuardedInv'
    BY <1>22 DEF WriteArchive
  <1>23. ASSUME NEW v \in Visitors, RenameArchive(v)
        PROVE  GuardedInv'
    BY <1>23 DEF RenameArchive
  <1>24. ASSUME NEW v \in Visitors, ExportFails(v)
        PROVE  GuardedInv'
    BY <1>24 DEF ExportFails
  <1>25. CASE ManagerCrash
    BY <1>25 DEF ManagerCrash
  <1> HIDE DEF VolumesInv, VolumesShape, VolumesTypeOK, GuardedInv
  <1>. QED  BY <1>1, <1>2, <1>3, <1>4, <1>5, <1>6, <1>7, <1>8, <1>9, <1>10, <1>11, <1>12, <1>13,
               <1>14, <1>15, <1>16, <1>17, <1>18, <1>19, <1>20, <1>21, <1>22, <1>23, <1>24, <1>25 DEF VolumesNext, Ensure, Import, Visiting

\* Containers go with the awaits of their import (#replaceVolumeContents).
LEMMA JobsStep ==
  ASSUME VolumesInv, VolumesNext
  PROVE  JobsInv'
  <1> USE VolumesAssumption, MountedHasTheContent DEF VolumesInv, VolumesShape, VolumesTypeOK,
                                                      VolumeRequests, VolumeAwaits, Unmounted,
                                                      Goto, AtStep, volumes, exportFiles,
                                                      judgement, JobsInv
  <1>1. ASSUME NEW q \in VolumeRequests, EnsureCreate(q)
        PROVE  JobsInv'
    BY <1>1 DEF EnsureCreate, Fresh, IsThere, NoVolume
  <1>2. ASSUME NEW q \in VolumeRequests, AssertLabels(q)
        PROVE  JobsInv'
    BY <1>2 DEF AssertLabels
  <1>3. ASSUME NEW q \in VolumeRequests, AssertNoLegacy(q)
        PROVE  JobsInv'
    BY <1>3 DEF AssertNoLegacy
  <1>4. ASSUME NEW q \in VolumeRequests, Initialize(q)
        PROVE  JobsInv'
    BY <1>4 DEF Initialize
  <1>5. ASSUME NEW q \in VolumeRequests, EnsureFails(q)
        PROVE  JobsInv'
    BY <1>5 DEF EnsureFails, GiveUp, Abandoned, FailedAnswer
  <1>6. ASSUME NEW i \in Imports, NEW how \in {"import", "restore"}, AskImport(i, how)
        PROVE  JobsInv'
    BY <1>6 DEF AskImport
  <1>7. ASSUME NEW i \in Imports, CreateVolumes(i)
        PROVE  JobsInv'
    BY <1>7 DEF CreateVolumes, Fresh
  <1>8. ASSUME NEW i \in Imports, Extract(i)
        PROVE  JobsInv'
    BY <1>8 DEF Extract
  <1>9. ASSUME NEW i \in Imports, CopyToBackup(i)
        PROVE  JobsInv'
    BY <1>9 DEF CopyToBackup, Replace
  <1>10. ASSUME NEW i \in Imports, RunContainer(i)
        PROVE  JobsInv'
    <2>1. PICK j \in Jobs : \E k \in JobSteps(j) :
             /\ Works(i, j, k)
             /\ \/ j = job[i] /\ job' = [job EXCEPT ![i] = k] /\ UNCHANGED stray
                \/ j = stray[i] /\ stray' = [stray EXCEPT ![i] = k] /\ UNCHANGED job
      BY <1>10, ContainerRuns
    <2>2. Running(j)
      BY <2>1, CommandWorks
    <2>3. j # NoJob
      BY <2>2 DEF Running, NoJob
    <2>. QED  BY <1>10, <2>1, <2>3 DEF RunContainer, DisturbedBut
  <1>11. ASSUME NEW i \in Imports, ReplaceEnds(i)
        PROVE  JobsInv'
    BY <1>11 DEF ReplaceEnds, Ended
  <1>12. ASSUME NEW i \in Imports, ReplaceFails(i)
        PROVE  JobsInv'
    BY <1>12 DEF ReplaceFails, StopsOrStrays, Replace
  <1>13. ASSUME NEW i \in Imports, RolledBack(i)
        PROVE  JobsInv'
    BY <1>13 DEF RolledBack
  <1>14. ASSUME NEW i \in Imports, Verify(i)
        PROVE  JobsInv'
    BY <1>14 DEF Verify, Ended
  <1>15. ASSUME NEW i \in Imports, RollbackFails(i)
        PROVE  JobsInv'
    BY <1>15 DEF RollbackFails, Ended
  <1>16. ASSUME NEW i \in Imports, ImportFails(i)
        PROVE  JobsInv'
    BY <1>16 DEF ImportFails, Ended
  <1>17. ASSUME NEW i \in Imports, RemoveStaging(i)
        PROVE  JobsInv'
    BY <1>17 DEF RemoveStaging, NoVolume, Fresh
  <1>18. ASSUME NEW i \in Imports, RemoveBackup(i)
        PROVE  JobsInv'
    BY <1>18 DEF RemoveBackup, NoVolume, Fresh
  <1>19. ASSUME NEW v \in Visitors, NEW what \in {"export", "delete", "tool"}, Visit(v, what)
        PROVE  JobsInv'
    BY <1>19 DEF Visit
  <1>20. ASSUME NEW v \in Visitors, Tool(v)
        PROVE  JobsInv'
    BY <1>20 DEF Tool, DisturbedBut
  <1>21. ASSUME NEW v \in Visitors, Delete(v)
        PROVE  JobsInv'
    BY <1>21 DEF Delete, DisturbedBut, NoVolume, Fresh
  <1>22. ASSUME NEW v \in Visitors, WriteArchive(v)
        PROVE  JobsInv'
    BY <1>22 DEF WriteArchive
  <1>23. ASSUME NEW v \in Visitors, RenameArchive(v)
        PROVE  JobsInv'
    BY <1>23 DEF RenameArchive
  <1>24. ASSUME NEW v \in Visitors, ExportFails(v)
        PROVE  JobsInv'
    BY <1>24 DEF ExportFails
  <1>25. CASE ManagerCrash
    BY <1>25 DEF ManagerCrash
  <1> HIDE DEF VolumesInv, VolumesShape, VolumesTypeOK, JobsInv
  <1>. QED  BY <1>1, <1>2, <1>3, <1>4, <1>5, <1>6, <1>7, <1>8, <1>9, <1>10, <1>11, <1>12, <1>13,
               <1>14, <1>15, <1>16, <1>17, <1>18, <1>19, <1>20, <1>21, <1>22, <1>23, <1>24, <1>25 DEF VolumesNext, Ensure, Import, Visiting

\* The values that the variables of the volumes take.
LEMMA VolumeValues ==
  /\ NoVolume \in Volume /\ Fresh("own") \in Volume /\ Fresh("none") \in Volume
  /\ NoJob \in Jobs /\ Replace("staging") \in Jobs /\ Replace("backup") \in Jobs
  /\ \A v \in Volume : v.content \in VolumeContents /\ [v EXCEPT !.owner = "user"] \in Volume
  /\ \A v \in Volume, c \in VolumeContents : [v EXCEPT !.content = c] \in Volume
  /\ \A i \in Imports : Whole(i) \in VolumeContents
  <1>1. Whole(NoContent) \in VolumeContents /\ \A i \in Imports : Whole(i) \in VolumeContents
    BY DEF Whole, VolumeContents
  <1>2. NoVolume \in Volume /\ Fresh("own") \in Volume /\ Fresh("none") \in Volume
    BY <1>1 DEF NoVolume, Fresh, Volume
  <1>3. NoJob \in Jobs /\ Replace("staging") \in Jobs /\ Replace("backup") \in Jobs
    BY DEF NoJob, Replace, Jobs
  <1>4. \A v \in Volume : v.content \in VolumeContents /\ [v EXCEPT !.owner = "user"] \in Volume
    BY DEF Volume
  <1>5. \A v \in Volume, c \in VolumeContents : [v EXCEPT !.content = c] \in Volume
    BY DEF Volume
  <1>. QED  BY <1>1, <1>2, <1>3, <1>4, <1>5

\* Whether another one disturbed an import is a Boolean, and what was disturbed stays so.
LEMMA DisturbedIsTyped ==
  ASSUME VolumesShape, NEW q \in VolumeRequests
  PROVE  /\ DisturbedBut(q) \in [Imports -> BOOLEAN]
         /\ \A i \in Imports : meddled[i] => DisturbedBut(q)[i]
         /\ \A i \in Imports : i # q /\ awaits[i] # "idle" => DisturbedBut(q)[i]
         /\ q \in Imports => DisturbedBut(q)[q] = meddled[q]
  BY DEF VolumesShape, VolumesTypeOK, DisturbedBut

\* What every variable holds.
LEMMA ShapeStep ==
  ASSUME VolumesInv, VolumesNext
  PROVE  VolumesShape'
  <1> USE VolumesAssumption, MountedHasTheContent, VolumeValues DEF VolumesInv, VolumesShape,
                                                                    VolumesTypeOK,
                                                                    VolumeRequests,
                                                                    VolumeAwaits, Unmounted,
                                                                    Goto, AtStep, volumes,
                                                                    exportFiles, judgement
  <1>1. ASSUME NEW q \in VolumeRequests, EnsureCreate(q)
        PROVE  VolumesShape'
    BY <1>1 DEF EnsureCreate, IsThere
  <1>2. ASSUME NEW q \in VolumeRequests, AssertLabels(q)
        PROVE  VolumesShape'
    BY <1>2 DEF AssertLabels
  <1>3. ASSUME NEW q \in VolumeRequests, AssertNoLegacy(q)
        PROVE  VolumesShape'
    BY <1>3 DEF AssertNoLegacy
  <1>4. ASSUME NEW q \in VolumeRequests, Initialize(q)
        PROVE  VolumesShape'
    BY <1>4 DEF Initialize
  <1>5. ASSUME NEW q \in VolumeRequests, EnsureFails(q)
        PROVE  VolumesShape'
    BY <1>5 DEF EnsureFails, GiveUp, Abandoned, FailedAnswer
  <1>6. ASSUME NEW i \in Imports, NEW how \in {"import", "restore"}, AskImport(i, how)
        PROVE  VolumesShape'
    BY <1>6 DEF AskImport
  <1>7. ASSUME NEW i \in Imports, CreateVolumes(i)
        PROVE  VolumesShape'
    <2>1. prior' \in [Imports -> VolumeContents]
      BY <1>7 DEF CreateVolumes
    <2>2. stagingOf' \in [Imports -> Volume]
      BY <1>7 DEF CreateVolumes
    <2>3. backupOf' \in [Imports -> Volume]
      BY <1>7 DEF CreateVolumes
    <2>4. awaits' \in [VolumeRequests -> VolumeAwaits]
      BY <1>7 DEF CreateVolumes
    <2>5. meddled' = [meddled EXCEPT ![i] = FALSE] \/ meddled' = meddled
      BY <1>7 DEF CreateVolumes
    <2>6. meddled' \in [Imports -> BOOLEAN]
      BY <2>5
    <2>. QED  BY <1>7, <2>1, <2>2, <2>3, <2>4, <2>6 DEF CreateVolumes
  <1>8. ASSUME NEW i \in Imports, Extract(i)
        PROVE  VolumesShape'
    <2>1. PICK s \in Volume : s = [stagingOf[i] EXCEPT !.content = Whole(i)]
      OBVIOUS
    <2>2. stagingOf' = [stagingOf EXCEPT ![i] = s]
      BY <1>8, <2>1 DEF Extract
    <2>. QED  BY <1>8, <2>2 DEF Extract
  <1>9. ASSUME NEW i \in Imports, CopyToBackup(i)
        PROVE  VolumesShape'
    <2>1. PICK s \in Volume : s = [backupOf[i] EXCEPT !.content = target.content]
      OBVIOUS
    <2>2. backupOf' = [backupOf EXCEPT ![i] = s] /\ job' \in [Imports -> Jobs]
      BY <1>9, <2>1 DEF CopyToBackup
    <2>3. backupOf' \in [Imports -> Volume] /\ target' \in Volume
      BY <1>9, <2>1, <2>2 DEF CopyToBackup
    <2>4. awaits' \in [VolumeRequests -> VolumeAwaits]
      BY <1>9 DEF CopyToBackup
    <2>. QED  BY <1>9, <2>2, <2>3, <2>4 DEF CopyToBackup
  <1>10. ASSUME NEW i \in Imports, RunContainer(i)
        PROVE  VolumesShape'
    <2>1. PICK j \in Jobs : \E k \in JobSteps(j) :
             /\ Works(i, j, k)
             /\ \/ j = job[i] /\ job' = [job EXCEPT ![i] = k] /\ UNCHANGED stray
                \/ j = stray[i] /\ stray' = [stray EXCEPT ![i] = k] /\ UNCHANGED job
      BY <1>10, ContainerRuns
    <2>2. PICK k \in JobSteps(j) :
             /\ Works(i, j, k)
             /\ \/ j = job[i] /\ job' = [job EXCEPT ![i] = k] /\ UNCHANGED stray
                \/ j = stray[i] /\ stray' = [stray EXCEPT ![i] = k] /\ UNCHANGED job
      BY <2>1
    <2>3. target' \in Volume /\ k \in Jobs
      BY <2>2, CommandWorks
    <2>4. job' \in [Imports -> Jobs] /\ stray' \in [Imports -> Jobs]
      <3>1. [job EXCEPT ![i] = k] \in [Imports -> Jobs] /\ [stray EXCEPT ![i] = k] \in [Imports -> Jobs]
        BY <2>3
      <3>. QED  BY <2>2, <3>1
    <2>5. meddled' \in [Imports -> BOOLEAN]
      BY <1>10, DisturbedIsTyped DEF RunContainer
    <2>. QED  BY <1>10, <2>3, <2>4, <2>5 DEF RunContainer
  <1>11. ASSUME NEW i \in Imports, ReplaceEnds(i)
        PROVE  VolumesShape'
    BY <1>11 DEF ReplaceEnds, Ended
  <1>12. ASSUME NEW i \in Imports, ReplaceFails(i)
        PROVE  VolumesShape'
    BY <1>12 DEF ReplaceFails, StopsOrStrays
  <1>13. ASSUME NEW i \in Imports, RolledBack(i)
        PROVE  VolumesShape'
    BY <1>13 DEF RolledBack
  <1>14. ASSUME NEW i \in Imports, Verify(i)
        PROVE  VolumesShape'
    BY <1>14 DEF Verify, Ended
  <1>15. ASSUME NEW i \in Imports, RollbackFails(i)
        PROVE  VolumesShape'
    BY <1>15 DEF RollbackFails, Ended
  <1>16. ASSUME NEW i \in Imports, ImportFails(i)
        PROVE  VolumesShape'
    BY <1>16 DEF ImportFails, Ended
  <1>17. ASSUME NEW i \in Imports, RemoveStaging(i)
        PROVE  VolumesShape'
    BY <1>17 DEF RemoveStaging
  <1>18. ASSUME NEW i \in Imports, RemoveBackup(i)
        PROVE  VolumesShape'
    BY <1>18, SMTT(30) DEF RemoveBackup
  <1>19. ASSUME NEW v \in Visitors, NEW what \in {"export", "delete", "tool"}, Visit(v, what)
        PROVE  VolumesShape'
    BY <1>19 DEF Visit
  <1>20. ASSUME NEW v \in Visitors, Tool(v)
        PROVE  VolumesShape'
    <2>1. PICK f \in Files : target' = [Mounted EXCEPT !.content[f] = IF Mounted.owner = "user" THEN "tool" ELSE @]
      BY <1>20 DEF Tool
    <2>2. PICK x \in Imports \union {"first", "tool", NoContent} :
            x = IF Mounted.owner = "user" THEN "tool" ELSE Mounted.content[f]
      <3>1. Mounted.content[f] \in Imports \union {"first", "tool", NoContent}
        BY DEF VolumeContents, Volume
      <3>. QED  BY <3>1
    <2>3. PICK c \in VolumeContents : c = [Mounted.content EXCEPT ![f] = x]
      BY DEF VolumeContents
    <2>4. target' \in Volume
      BY <2>1, <2>2, <2>3 DEF Volume
    <2>5. meddled' \in [Imports -> BOOLEAN]
      BY <1>20, DisturbedIsTyped DEF Tool
    <2>. QED  BY <1>20, <2>4, <2>5 DEF Tool
  <1>21. ASSUME NEW v \in Visitors, Delete(v)
        PROVE  VolumesShape'
    <2>1. meddled' \in [Imports -> BOOLEAN]
      BY <1>21, DisturbedIsTyped DEF Delete
    <2>. QED  BY <1>21, <2>1 DEF Delete
  <1>22. ASSUME NEW v \in Visitors, WriteArchive(v)
        PROVE  VolumesShape'
    BY <1>22 DEF WriteArchive
  <1>23. ASSUME NEW v \in Visitors, RenameArchive(v)
        PROVE  VolumesShape'
    BY <1>23 DEF RenameArchive
  <1>24. ASSUME NEW v \in Visitors, ExportFails(v)
        PROVE  VolumesShape'
    BY <1>24 DEF ExportFails
  <1>25. CASE ManagerCrash
    <2>1. job' \in [Imports -> Jobs]
      BY <1>25 DEF ManagerCrash
    <2>2. stray' \in [Imports -> Jobs]
      BY <1>25 DEF ManagerCrash
    <2>3. awaits' \in [VolumeRequests -> VolumeAwaits]
      BY <1>25 DEF ManagerCrash
    <2>4. crashes' \in 0 .. MaxCrashes
      BY <1>25 DEF ManagerCrash
    <2>. QED  BY <1>25, <2>1, <2>2, <2>3, <2>4 DEF ManagerCrash
  <1> HIDE DEF VolumesInv, VolumesShape, VolumesTypeOK
  <1>. QED  BY <1>1, <1>2, <1>3, <1>4, <1>5, <1>6, <1>7, <1>8, <1>9, <1>10, <1>11, <1>12, <1>13,
               <1>14, <1>15, <1>16, <1>17, <1>18, <1>19, <1>20, <1>21, <1>22, <1>23, <1>24, <1>25 DEF VolumesNext, Ensure, Import, Visiting

\* An import that a step does not concern keeps what it knows, unless the volume changed
\* under it, which is noted.
LEMMA Bystander ==
  ASSUME NEW i \in Imports, ImportAt(i),
         UNCHANGED <<awaits[i], job[i], stray[i], stagingOf[i], backupOf[i], prior[i], imported[i], kept[i]>>,
         meddled[i] => meddled'[i], i \in strayed => i \in strayed',
         ~meddled'[i] => /\ target'.content = target.content
                         /\ target.owner = "user" => target'.owner = "user"
  PROVE  ImportAt(i)'
  BY DEF ImportAt, Undisturbed, ReplacesFrom, RollsBackFrom, Copied

\* A request on its way to the volume does not touch what an import knows.
LEMMA EnsureKeeps ==
  ASSUME VolumesInv, NEW q \in VolumeRequests, Ensure(q)
  PROVE  ImportInv'
  <1> USE DEF VolumesInv, VolumesShape, VolumesTypeOK
  <1>1. /\ awaits[q] \in Unmounted
        /\ \A n \in VolumeRequests : n # q => awaits'[n] = awaits[n]
        /\ \A n \in Imports : n # q => imported'[n] = imported[n]
        /\ UNCHANGED <<job, stray, stagingOf, backupOf, prior, kept, meddled, strayed>>
    BY DEF Ensure, EnsureCreate, AssertLabels, AssertNoLegacy, Initialize, EnsureFails, GiveUp, Abandoned,
           FailedAnswer, Goto, AtStep, volumes, judgement, Unmounted
  <1>2. target'.content = target.content /\ (target.owner = "user" => target'.owner = "user")
    <2>1. CASE EnsureCreate(q)
      BY <2>1 DEF EnsureCreate, IsThere, NoVolume, Fresh
    <2>2. CASE Initialize(q)
      BY <2>2, MountedHasTheContent DEF Initialize, Volume
    <2>. QED  BY <2>1, <2>2 DEF Ensure, AssertLabels, AssertNoLegacy, EnsureFails, volumes
  <1>3. ASSUME NEW n \in Imports
        PROVE  ImportAt(n)'
    <2>1. CASE n = q
      <3>1. meddled'[n]
        BY <1>1, <2>1 DEF JobsInv
      <3>. QED  BY <3>1 DEF ImportAt, Undisturbed
    <2>2. CASE n # q
      BY <1>1, <1>2, <2>2, Bystander DEF ImportInv, VolumeRequests
    <2>. QED  BY <2>1, <2>2
  <1>. QED  BY <1>3 DEF ImportInv

\* Nor does a visitor, unless it writes or deletes the volume under the import.
LEMMA VisitKeeps ==
  ASSUME VolumesInv, NEW v \in Visitors, Visiting(v)
  PROVE  ImportInv'
  <1> USE DEF VolumesInv, VolumesShape, VolumesTypeOK
  <1>1. /\ \A n \in VolumeRequests : n # v => awaits'[n] = awaits[n]
        /\ UNCHANGED <<job, stray, stagingOf, backupOf, prior, kept, imported, strayed>>
    BY DEF Visiting, Visit, Tool, Delete, WriteArchive, RenameArchive, ExportFails, Goto, AtStep, volumes, judgement
  <1>2. UNCHANGED <<target, meddled>> \/ meddled' = DisturbedBut(v)
    BY DEF Visiting, Visit, Tool, Delete, WriteArchive, RenameArchive, ExportFails, volumes, judgement
  <1>3. ASSUME NEW n \in Imports
        PROVE  ImportAt(n)'
    <2>1. n # v /\ n \in VolumeRequests /\ v \in VolumeRequests
      BY VolumesAssumption DEF VolumeRequests
    <2>2. meddled'[n] \/ UNCHANGED <<target, meddled>>
      BY <1>2, <2>1, DisturbedIsTyped DEF JobsInv, Unmounted
    <2>. QED  BY <1>1, <2>1, <2>2, Bystander DEF ImportInv
  <1>. QED  BY <1>3 DEF ImportInv

\* What an import knows about the others.
LEMMA OthersImports ==
  ASSUME VolumesInv, NEW i \in Imports, Import(i), NEW n \in Imports, n # i
  PROVE  ImportAt(n)'
  <1> USE DEF VolumesInv, VolumesShape, VolumesTypeOK
  <1>0. i \in VolumeRequests /\ n \in VolumeRequests
    BY DEF VolumeRequests
  <1>1. CASE RunContainer(i)
    <2>1. UNCHANGED <<awaits[n], stagingOf[n], backupOf[n], prior[n], imported[n], kept[n], strayed>>
      BY <1>1 DEF RunContainer
    <2>2. UNCHANGED <<job[n], stray[n]>>
      BY <1>1 DEF RunContainer
    <2>3. meddled' = DisturbedBut(i)
      BY <1>1 DEF RunContainer
    <2>4. meddled'[n]
      BY <1>0, <2>3, DisturbedIsTyped DEF JobsInv, Unmounted
    <2>. QED  BY <2>1, <2>2, <2>4, Bystander DEF ImportInv
  <1>2. CASE ~RunContainer(i)
    <2>1. /\ UNCHANGED <<awaits[n], job[n], stray[n], stagingOf[n], backupOf[n], prior[n], imported[n], kept[n]>>
          /\ meddled'[n] = meddled[n] /\ (n \in strayed => n \in strayed')
      <3>1. UNCHANGED <<awaits[n], job[n], prior[n], imported[n], kept[n]>>
        BY <1>0, <1>2
        DEF Import, AskImport, CreateVolumes, Extract, CopyToBackup, ReplaceEnds, ReplaceFails, RolledBack,
            Verify, RollbackFails, ImportFails, RemoveStaging, RemoveBackup, Ended, Goto, AtStep, judgement
      <3>2. UNCHANGED <<stray[n], stagingOf[n], backupOf[n]>>
        BY <1>0, <1>2
        DEF Import, AskImport, CreateVolumes, Extract, CopyToBackup, ReplaceEnds, ReplaceFails, RolledBack,
            Verify, RollbackFails, ImportFails, RemoveStaging, RemoveBackup, Ended, StopsOrStrays, volumes
      <3>3. meddled'[n] = meddled[n] /\ (n \in strayed => n \in strayed')
        BY <1>0, <1>2
        DEF Import, AskImport, CreateVolumes, Extract, CopyToBackup, ReplaceEnds, ReplaceFails, RolledBack,
            Verify, RollbackFails, ImportFails, RemoveStaging, RemoveBackup, Ended, StopsOrStrays, judgement
      <3>. QED  BY <3>1, <3>2, <3>3
    <2>2. target' = target \/ target' = Mounted
      BY <1>2
      DEF Import, AskImport, CreateVolumes, Extract, CopyToBackup, ReplaceEnds, ReplaceFails, RolledBack,
          Verify, RollbackFails, ImportFails, RemoveStaging, RemoveBackup, Ended, volumes
    <2>3. target'.content = target.content /\ (target.owner = "user" => target'.owner = "user")
      BY <2>2, MountedHasTheContent
    <2>. QED  BY <2>1, <2>3, Bystander DEF ImportInv
  <1>. QED  BY <1>1, <1>2

\* A command of its own container brings an import further on its way.
LEMMA ContainerKeeps ==
  ASSUME VolumesInv, NEW i \in Imports, RunContainer(i)
  PROVE  ImportAt(i)'
  <1>0. /\ UNCHANGED <<awaits, stagingOf, backupOf, prior, imported, kept, strayed>>
        /\ meddled'[i] = meddled[i]
    BY DisturbedIsTyped DEF RunContainer, VolumeRequests, VolumesInv
  <1>1. PICK j \in Jobs : \E k \in JobSteps(j) :
           /\ Works(i, j, k)
           /\ \/ j = job[i] /\ job' = [job EXCEPT ![i] = k] /\ UNCHANGED stray
              \/ j = stray[i] /\ stray' = [stray EXCEPT ![i] = k] /\ UNCHANGED job
    BY ContainerRuns DEF VolumesInv
  <1>2. PICK k \in JobSteps(j) :
           /\ Works(i, j, k)
           /\ \/ j = job[i] /\ job' = [job EXCEPT ![i] = k] /\ UNCHANGED stray
              \/ j = stray[i] /\ stray' = [stray EXCEPT ![i] = k] /\ UNCHANGED job
    BY <1>1
  <1>3. /\ k \in Jobs /\ k.from = j.from /\ Running(j)
        /\ \/ /\ j.phase = "clear" /\ k.phase = "copy" /\ k.left = j.left
              /\ \A f \in Files : target'.content[f] = NoContent
           \/ \E f \in j.left :
                /\ j.phase = "copy" /\ k.left = j.left \ {f}
                /\ k.phase = IF j.left = {f} THEN "own" ELSE "copy"
                /\ \A g \in Files :
                     target'.content[g] =
                       IF g # f THEN target.content[g]
                       ELSE IF j.from = "staging" THEN stagingOf[i].content[g] ELSE backupOf[i].content[g]
           \/ /\ j.phase = "own" /\ k.phase = "exited"
              /\ target'.content = target.content /\ target'.owner = "user"
    BY <1>2, CommandWorks DEF VolumesInv
  <1>4. j # NoJob
    BY <1>3 DEF Running, NoJob
  <1>5. target'.content \in VolumeContents
    BY <1>2, CommandWorks DEF VolumesInv, Volume
  <1> USE DEF VolumesInv, VolumesShape, VolumesTypeOK
  <1> SUFFICES ASSUME Undisturbed(i), i \notin strayed, ~meddled[i]
               PROVE  ImportAt(i)'
    BY <1>0 DEF ImportAt, Undisturbed
  <1>6. CASE j = stray[i] /\ stray' = [stray EXCEPT ![i] = k] /\ UNCHANGED job
    <2>1. awaits[i] = "cut" /\ backupOf[i].content = prior[i]
      BY <1>4, <1>6 DEF JobsInv, ImportInv, ImportAt
    <2>. QED  BY <1>0, <2>1 DEF ImportAt
  <1>7. CASE j = job[i] /\ job' = [job EXCEPT ![i] = k] /\ UNCHANGED stray
    <2>1. awaits[i] \in {"replace", "rollback"} /\ backupOf[i].content = prior[i] /\ job'[i] = k
      BY <1>4, <1>7 DEF JobsInv, ImportInv, ImportAt
    <2>2. CASE awaits[i] = "replace"
      <3>1. ReplacesFrom(i)
        BY <2>2 DEF ImportInv, ImportAt
      <3>2. j.from = "staging" /\ stagingOf[i].content = Whole(i) /\ j.left \subseteq Files
        BY <1>7, <3>1 DEF ReplacesFrom, Jobs
      <3>3. k.phase = "copy" => Copied(i, Whole(i), k.left)'
        BY <1>3, <1>7, <3>1, <3>2 DEF ReplacesFrom, Copied, Whole
      <3>4. k.phase \in {"own", "exited"} => target'.content = Whole(i)
        <4>1. CASE j.phase = "copy" /\ k.phase = "own"
          <5>1. \A g \in Files : target'.content[g] = i
            BY <1>3, <1>7, <3>1, <3>2, <4>1 DEF ReplacesFrom, Copied, Whole
          <5>. QED  BY <1>5, <5>1 DEF VolumeContents, Whole
        <4>2. CASE j.phase = "own"
          BY <1>3, <1>7, <3>1, <4>2 DEF ReplacesFrom
        <4>. QED  BY <1>3, <4>1, <4>2
      <3>5. k.phase \in {"copy", "own", "exited"} /\ (k.phase = "exited" => target'.owner = "user")
        BY <1>3
      <3>6. ReplacesFrom(i)'
        BY <1>0, <1>3, <2>1, <3>2, <3>3, <3>4, <3>5 DEF ReplacesFrom
      <3>. QED  BY <1>0, <2>1, <2>2, <3>6 DEF ImportAt
    <2>3. CASE awaits[i] = "rollback"
      <3>1. RollsBackFrom(i)
        BY <2>3 DEF ImportInv, ImportAt
      <3>2. j.from = "backup" /\ j.left \subseteq Files /\ prior[i] \in VolumeContents
        BY <1>7, <3>1 DEF RollsBackFrom, Jobs
      <3>3. k.phase = "copy" => Copied(i, prior[i], k.left)'
        BY <1>0, <1>3, <1>7, <2>1, <3>1, <3>2 DEF RollsBackFrom, Copied
      <3>4. k.phase \in {"own", "exited"} => target'.content = prior[i]
        <4>1. CASE j.phase = "copy" /\ k.phase = "own"
          <5>1. \A g \in Files : target'.content[g] = prior[i][g]
            BY <1>3, <1>7, <2>1, <3>1, <3>2, <4>1 DEF RollsBackFrom, Copied
          <5>. QED  BY <1>5, <3>2, <5>1 DEF VolumeContents
        <4>2. CASE j.phase = "own"
          BY <1>3, <1>7, <3>1, <4>2 DEF RollsBackFrom
        <4>. QED  BY <1>3, <4>1, <4>2
      <3>5. k.phase \in {"copy", "own", "exited"}
        BY <1>3
      <3>6. RollsBackFrom(i)'
        BY <1>0, <1>3, <2>1, <3>2, <3>3, <3>4, <3>5 DEF RollsBackFrom
      <3>. QED  BY <1>0, <2>1, <2>3, <3>6 DEF ImportAt
    <2>. QED  BY <2>1, <2>2, <2>3
  <1>. QED  BY <1>2, <1>6, <1>7

\* Each await of an undisturbed import that is over.
LEMMA OwnImport ==
  ASSUME VolumesInv, NEW i \in Imports, Import(i)
  PROVE  ImportAt(i)'
  <1> USE DEF VolumesInv, VolumesShape, VolumesTypeOK
  <1>0. i \in VolumeRequests /\ ImportAt(i)
    BY DEF VolumeRequests, ImportInv
  <1>1. CASE \E how \in {"import", "restore"} : AskImport(i, how)
    <2>1. meddled'[i]
      BY <1>1 DEF AskImport, AtStep, judgement, JobsInv, Unmounted
    <2>. QED  BY <2>1 DEF ImportAt, Undisturbed
  <1>2. CASE CreateVolumes(i)
    <2>1. CASE awaits[i] = "mounted"
      <3>1. awaits'[i] = "createBackup" /\ prior'[i] = target.content /\ target' = target
        BY <1>0, <1>2, <2>1 DEF CreateVolumes, AtStep, Goto
      <3>. QED  BY <3>1 DEF ImportAt
    <2>2. CASE awaits[i] # "mounted"
      <3>1. /\ awaits[i] = "createBackup" /\ awaits'[i] = "extract"
            /\ UNCHANGED <<target, prior, meddled, strayed>>
        BY <1>0, <1>2, <2>2 DEF CreateVolumes, AtStep, Goto
      <3>. QED  BY <1>0, <3>1 DEF ImportAt, Undisturbed
    <2>. QED  BY <2>1, <2>2
  <1>3. CASE Extract(i)
    <2>1. /\ awaits[i] = "extract" /\ awaits'[i] = "copy"
          /\ UNCHANGED <<target, prior, meddled, strayed>>
      BY <1>0, <1>3 DEF Extract, AtStep, Goto, judgement
    <2>2. stagingOf'[i].content = Whole(i)
      BY <1>3 DEF Extract, Volume
    <2>. QED  BY <1>0, <2>1, <2>2 DEF ImportAt, Undisturbed
  <1>4. CASE CopyToBackup(i)
    <2>1. /\ awaits[i] = "copy" /\ awaits'[i] = "replace"
          /\ UNCHANGED <<stagingOf, prior, meddled, strayed>>
          /\ target'.content = target.content
      BY <1>0, <1>4, MountedHasTheContent DEF CopyToBackup, AtStep, Goto, judgement
    <2>2. backupOf'[i].content = target.content
      BY <1>4 DEF CopyToBackup, Volume
    <2>3. job'[i].from = "staging" /\ job'[i].phase = "clear" /\ job'[i].left = Files
      BY <1>4 DEF CopyToBackup, Replace
    <2>. QED  BY <1>0, <2>1, <2>2, <2>3 DEF ImportAt, Undisturbed, ReplacesFrom
  <1>5. CASE RunContainer(i)
    BY <1>5, ContainerKeeps
  <1>6. CASE ReplaceEnds(i)
    <2>1. /\ awaits[i] = "replace" /\ awaits'[i] = "removeStaging" /\ imported'[i] = "ok"
          /\ job[i].phase = "exited"
          /\ UNCHANGED <<target, prior, meddled, strayed, kept, backupOf>>
      BY <1>0, <1>6 DEF ReplaceEnds, Ended, Goto, volumes
    <2>2. ~kept[i]
      BY <2>1 DEF JobsInv
    <2>. QED  BY <1>0, <2>1, <2>2 DEF ImportAt, Undisturbed, ReplacesFrom
  <1>7. CASE ReplaceFails(i)
    <2>1. /\ awaits[i] = "replace" /\ awaits'[i] = "rollback"
          /\ job'[i].from = "backup" /\ job'[i].phase = "clear" /\ job'[i].left = Files
          /\ UNCHANGED <<target, prior, meddled, backupOf>>
      BY <1>0, <1>7 DEF ReplaceFails, AtStep, Goto, volumes, Replace
    <2>2. i \in strayed => i \in strayed'
      BY <1>7 DEF ReplaceFails, StopsOrStrays
    <2>. QED  BY <1>0, <2>1, <2>2 DEF ImportAt, Undisturbed, RollsBackFrom
  <1>8. CASE RolledBack(i)
    <2>1. /\ awaits[i] = "rollback" /\ awaits'[i] = "verify"
          /\ UNCHANGED <<target, prior, meddled, strayed, backupOf>>
      BY <1>0, <1>8 DEF RolledBack, AtStep, Goto, volumes, judgement
    <2>. QED  BY <1>0, <2>1 DEF ImportAt, Undisturbed
  <1>9. CASE Verify(i)
    <2>1. /\ awaits[i] = "verify" /\ awaits'[i] = "removeStaging" /\ imported'[i] = "failed"
          /\ target.content = backupOf[i].content
          /\ UNCHANGED <<target, prior, meddled, strayed, kept, backupOf>>
      BY <1>0, <1>9 DEF Verify, Ended, Goto, volumes
    <2>. QED  BY <1>0, <2>1 DEF ImportAt, Undisturbed
  <1>10. CASE RollbackFails(i)
    <2>1. /\ awaits[i] \in {"rollback", "verify"} /\ awaits'[i] = "removeStaging" /\ kept'[i]
          /\ UNCHANGED <<target, prior, meddled, strayed, backupOf>>
      BY <1>0, <1>10 DEF RollbackFails, Ended, Goto, volumes
    <2>. QED  BY <1>0, <2>1 DEF ImportAt, Undisturbed
  <1>11. CASE ImportFails(i)
    <2>1. /\ awaits[i] \in {"mounted", "createBackup", "extract", "copy"}
          /\ awaits'[i] = "removeStaging" /\ imported'[i] = "failed"
          /\ UNCHANGED <<target, prior, meddled, strayed, kept, backupOf>>
      BY <1>0, <1>11 DEF ImportFails, Ended, Goto, volumes
    <2>2. ~kept[i] /\ (awaits[i] = "mounted" => meddled[i])
      BY <2>1 DEF JobsInv, Unmounted
    <2>. QED  BY <1>0, <2>1, <2>2 DEF ImportAt, Undisturbed
  <1>12. CASE RemoveStaging(i)
    <2>1. /\ awaits[i] = "removeStaging" /\ awaits'[i] \in {"removeBackup", "answered"}
          /\ UNCHANGED <<target, prior, meddled, strayed, kept, backupOf, imported>>
      BY <1>0, <1>12 DEF RemoveStaging, AtStep, Goto, judgement
    <2>. QED  BY <1>0, <2>1 DEF ImportAt, Undisturbed
  <1>13. CASE RemoveBackup(i)
    <2>1. /\ awaits[i] = "removeBackup" /\ awaits'[i] = "answered"
          /\ UNCHANGED <<target, prior, meddled, strayed, kept, imported>>
      BY <1>0, <1>13 DEF RemoveBackup, AtStep, Goto, judgement
    <2>2. ~kept[i]
      BY <2>1 DEF JobsInv
    <2>. QED  BY <1>0, <2>1, <2>2 DEF ImportAt, Undisturbed
  <1>. QED  BY <1>1, <1>2, <1>3, <1>4, <1>5, <1>6, <1>7, <1>8, <1>9, <1>10, <1>11, <1>12, <1>13 DEF Import

\* A Manager that dies leaves the content in the volume or in the backup.
LEMMA CrashKeeps ==
  ASSUME VolumesInv, ManagerCrash
  PROVE  ImportInv'
  <1> USE DEF VolumesInv, VolumesShape, VolumesTypeOK
  <1>1. UNCHANGED <<target, stagingOf, backupOf, prior, imported, kept, meddled, strayed>>
    BY DEF ManagerCrash, volumes, judgement
  <1>2. ASSUME NEW i \in Imports, Undisturbed(i)
        PROVE  ImportAt(i)'
    <2>1. /\ i \in VolumeRequests /\ i \notin Visitors
          /\ ImportAt(i) /\ awaits[i] \in VolumeAwaits /\ ~meddled[i] /\ i \notin strayed
      BY <1>2, VolumesAssumption DEF VolumeRequests, ImportInv, Undisturbed
    <2>2. awaits[i] \notin Unmounted
      BY <2>1 DEF JobsInv
    <2>3. awaits'[i] = IF awaits[i] = "answered" THEN "answered" ELSE "cut"
      BY <2>1, <2>2 DEF ManagerCrash, Unmounted
    <2>4. stray'[i] = stray[i] \/ (stray'[i] = job[i] /\ Running(job[i]))
      BY DEF ManagerCrash
    <2>5. CASE awaits[i] = "answered"
      BY <1>1, <1>2, <2>1, <2>3, <2>5 DEF ImportAt
    <2>6. CASE awaits[i] \in {"cut", "replace", "rollback"}
      <3>1. CASE awaits[i] = "cut"
        <4>1. job[i] = NoJob /\ ~Running(NoJob)
          BY <3>1 DEF JobsInv, Running, NoJob
        <4>. QED  BY <1>1, <1>2, <2>1, <2>3, <2>4, <3>1, <4>1 DEF ImportAt
      <3>2. CASE awaits[i] \in {"replace", "rollback"}
        BY <1>1, <1>2, <2>1, <2>3, <3>2 DEF ImportAt
      <3>. QED  BY <2>6, <3>1, <3>2
    <2>7. CASE awaits[i] \notin {"answered", "cut", "replace", "rollback"}
      <3>1. stray[i] = NoJob /\ job[i] = NoJob /\ stray'[i] = NoJob
        BY <2>1, <2>4, <2>7 DEF JobsInv
      <3>2. target.content \in {prior[i], Whole(i)} \/ backupOf[i].content = prior[i]
        BY <1>2, <2>1, <2>2, <2>7 DEF ImportAt, JobsInv, VolumeAwaits
      <3>. QED  BY <1>1, <2>3, <2>7, <3>1, <3>2 DEF ImportAt
    <2>. QED  BY <2>5, <2>6, <2>7
  <1>. QED  BY <1>1, <1>2 DEF ImportInv, ImportAt, Undisturbed

LEMMA VolumesStep ==
  ASSUME VolumesInv, [VolumesNext]_volumesVars
  PROVE  VolumesInv'
  <1>1. CASE VolumesNext
    <2>1. ImportInv'
      <3>1. ASSUME NEW i \in Imports, Import(i)
            PROVE  ImportInv'
        BY <3>1, OwnImport, OthersImports DEF ImportInv
      <3>. QED  BY <1>1, <3>1, EnsureKeeps, VisitKeeps, CrashKeeps DEF VolumesNext
    <2>. QED  BY <1>1, <2>1, ShapeStep, ExportsStep, GuardedStep, JobsStep DEF VolumesInv
  <1>2. CASE UNCHANGED volumesVars
    BY <1>2 DEF volumesVars, volumes, exportFiles, judgement, VolumesInv, VolumesShape, VolumesTypeOK, ExportsInv,
                GuardedInv, JobsInv, ImportInv, ImportAt, Undisturbed, ReplacesFrom, RollsBackFrom, Copied
  <1>. QED  BY <1>1, <1>2

=============================================================================
