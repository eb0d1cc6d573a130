---------------------------- MODULE SnapshotStore ----------------------------
(***************************************************************************)
(* LocalWorkspaceSnapshotStore for one workspace: the generations on disk, *)
(* and calls of create that stage an archive, verify it, rotate the        *)
(* generations and promote it.  A step is one awaited operation on a file: *)
(* calls interleave there, and the process may die there.                  *)
(*                                                                         *)
(* Checkpoints of runs go through SnapshotCompactorQueue, at most one per  *)
(* workspace; the snapshot operation of workspaceAdmin calls create        *)
(* directly.  Callers with one member are the former alone.                *)
(*                                                                         *)
(* A file holds the number of its archive, in order of export.             *)
(***************************************************************************)
EXTENDS Naturals, Sequences

CONSTANTS
  Callers,      \* who may be inside create
  Damaged,      \* content that does not verify
  MaxArchives,  \* bound on exported archives
  MaxFaults,    \* bound on failing operations and crashes
  MaxDamage,    \* bound on generations damaged on disk
  FlakyReads    \* whether reading a good file may fail

ASSUME SnapshotAssumption ==
  /\ Damaged \notin Nat
  /\ MaxArchives \in Nat /\ MaxFaults \in Nat /\ MaxDamage \in Nat
  /\ FlakyReads \in BOOLEAN

VARIABLES
  current, previous, backup,  \* the generations
  staged,     \* staging file of each call
  archive,    \* argument of each call
  header,     \* generation whose header #read has seen
  moved,      \* previousMoved
  pc,         \* operation each call awaits
  exported,   \* archives exported so far
  published,  \* archives in order of promotion (history)
  faults, damage

files == <<current, previous, backup>>
locals == <<archive, header, moved>>
history == <<exported, published, faults, damage>>
vars == <<files, staged, locals, pc, history>>

None == 0
Generations == {current, previous, backup}
Contents == Nat \union {Damaged}
Good(content) == content \in Nat \ {None}

\* restore: the first generation that verifies
Restorable ==
  IF Good(current) THEN current
  ELSE IF Good(previous) THEN previous
  ELSE IF Good(backup) THEN backup
  ELSE None

InCreate == {c \in Callers : pc[c] # "idle"}

Init ==
  /\ current = None /\ previous = None /\ backup = None
  /\ staged = [c \in Callers |-> None]
  /\ archive = [c \in Callers |-> None]
  /\ header = [c \in Callers |-> None]
  /\ moved = [c \in Callers |-> FALSE]
  /\ pc = [c \in Callers |-> "idle"]
  /\ exported = 0 /\ published = <<>>
  /\ faults = 0 /\ damage = 0

Proceed(c, from, to) == pc[c] = from /\ pc' = [pc EXCEPT ![c] = to]

\* The job of the compactor, or snapshotWorkspace, has exported the volume.
Export(c) ==
  /\ exported < MaxArchives
  /\ Proceed(c, "idle", "write")
  /\ exported' = exported + 1
  /\ archive' = [archive EXCEPT ![c] = exported + 1]
  /\ UNCHANGED <<files, staged, header, moved, published, faults, damage>>

\* createStreamingSnapshotPipeline; what reaches the disk may not verify
Stage(c) ==
  /\ Proceed(c, "write", "verify")
  /\ \E content \in {archive[c], Damaged} :
       staged' = [staged EXCEPT ![c] = content]
  /\ UNCHANGED <<files, locals, history>>

\* Mutant: what was written is trusted.
VerifyNothing(c) ==
  /\ Proceed(c, "verify", "header")
  /\ UNCHANGED <<files, staged, locals, history>>

Verify(c) ==
  /\ staged[c] = archive[c]
  /\ Proceed(c, "verify", "header")
  /\ UNCHANGED <<files, staged, locals, history>>

\* #read of the current generation opens the file twice: readSnapshotDescriptor
\* and createReadStream.  ENOENT skips the rotation.
ReadHeader(c) ==
  /\ Proceed(c, "header", IF current = None THEN "promote"
                          ELSE IF Good(current) THEN "body"
                          ELSE "discard")
  /\ header' = [header EXCEPT ![c] = current]
  /\ UNCHANGED <<files, staged, archive, moved, history>>

\* Mutant: a generation that verifies is overwritten instead of rotated.
ReadBodyAndOverwrite(c) ==
  /\ Proceed(c, "body", "promote")
  /\ UNCHANGED <<files, staged, locals, history>>

ReadBody(c) ==
  /\ Proceed(c, "body", IF current = None THEN "promote"
                        ELSE IF current = header[c] THEN "dropBackup"
                        ELSE "discard")
  /\ UNCHANGED <<files, staged, locals, history>>

\* every other error of #read counts as corruption
ReadFails(c) ==
  /\ FlakyReads /\ faults < MaxFaults
  /\ Proceed(c, "header", "discard") \/ Proceed(c, "body", "discard")
  /\ faults' = faults + 1
  /\ UNCHANGED <<files, staged, locals, exported, published, damage>>

DiscardCurrent(c) ==
  /\ Proceed(c, "discard", "promote")
  /\ current' = None
  /\ UNCHANGED <<previous, backup, staged, locals, history>>

DropBackup(c) ==
  /\ Proceed(c, "dropBackup", "keepPrevious")
  /\ backup' = None
  /\ UNCHANGED <<current, previous, staged, locals, history>>

\* Mutant: the previous generation is deleted instead of renamed.
DropPrevious(c) ==
  /\ Proceed(c, "keepPrevious", "demote")
  /\ moved' = [moved EXCEPT ![c] = FALSE]
  /\ previous' = None
  /\ UNCHANGED <<current, backup, staged, archive, header, history>>

\* rename of previous to its backup; ENOENT is no error
KeepPrevious(c) ==
  /\ Proceed(c, "keepPrevious", "demote")
  /\ moved' = [moved EXCEPT ![c] = previous # None]
  /\ previous' = None
  /\ backup' = IF previous = None THEN backup ELSE previous
  /\ UNCHANGED <<current, staged, archive, header, history>>

\* Mutant: the current generation is deleted instead of renamed.
DemoteByRemoving(c) ==
  /\ Proceed(c, "demote", "promote")
  /\ current' = None
  /\ UNCHANGED <<previous, backup, staged, locals, history>>

Demote(c) ==
  /\ current # None
  /\ Proceed(c, "demote", "promote")
  /\ previous' = current /\ current' = None
  /\ UNCHANGED <<backup, staged, locals, history>>

Leave(c) ==
  /\ pc' = [pc EXCEPT ![c] = "idle"]
  /\ staged' = [staged EXCEPT ![c] = None]

\* a failing rename of current is followed by the attempt to put previous back
DemoteError(c) ==
  /\ pc[c] = "demote"
  /\ IF moved[c] THEN pc' = [pc EXCEPT ![c] = "undo"] /\ UNCHANGED staged
     ELSE Leave(c)
  /\ UNCHANGED <<files, locals>>

\* another call has moved current away
DemoteMissing(c) ==
  /\ current = None
  /\ DemoteError(c)
  /\ UNCHANGED history

\* Undo, its own failure ignored
Undo(c) ==
  /\ pc[c] = "undo"
  /\ Leave(c)
  /\ previous' = IF backup = None THEN previous ELSE backup
  /\ backup' = None
  /\ UNCHANGED <<current, locals, history>>

Promote(c) ==
  /\ Proceed(c, "promote", "tidy")
  /\ current' = staged[c]
  /\ staged' = [staged EXCEPT ![c] = None]
  /\ published' = Append(published, staged[c])
  /\ UNCHANGED <<previous, backup, locals, exported, faults, damage>>

Tidy(c) ==
  /\ pc[c] = "tidy"
  /\ Leave(c)
  /\ backup' = None
  /\ UNCHANGED <<current, previous, locals, history>>

\* the staged file does not verify
Reject(c) ==
  /\ pc[c] = "verify" /\ staged[c] # archive[c]
  /\ Leave(c)
  /\ UNCHANGED <<files, locals, history>>

\* any other awaited operation fails: create throws through its finally block
Fail(c) ==
  /\ faults < MaxFaults
  /\ faults' = faults + 1
  /\ \/ /\ pc[c] \in {"write", "verify", "discard", "dropBackup",
                      "keepPrevious", "undo", "promote", "tidy"}
        /\ Leave(c)
        /\ UNCHANGED <<files, locals>>
     \/ DemoteError(c)
  /\ UNCHANGED <<exported, published, damage>>

\* The Manager dies.  What it had staged has a random name nobody reads again.
Crash ==
  /\ faults < MaxFaults /\ InCreate # {}
  /\ faults' = faults + 1
  /\ pc' = [c \in Callers |-> "idle"]
  /\ staged' = [c \in Callers |-> None]
  /\ UNCHANGED <<files, locals, exported, published, damage>>

\* a generation on disk stops verifying
Decay ==
  /\ damage < MaxDamage
  /\ damage' = damage + 1
  /\ \/ Good(current) /\ current' = Damaged /\ UNCHANGED <<previous, backup>>
     \/ Good(previous) /\ previous' = Damaged /\ UNCHANGED <<current, backup>>
     \/ Good(backup) /\ backup' = Damaged /\ UNCHANGED <<current, previous>>
  /\ UNCHANGED <<staged, locals, pc, exported, published, faults>>

Step(c) ==
  \/ Export(c) \/ Stage(c) \/ Verify(c) \/ Reject(c)
  \/ ReadHeader(c) \/ ReadBody(c) \/ ReadFails(c) \/ DiscardCurrent(c)
  \/ DropBackup(c) \/ KeepPrevious(c) \/ Demote(c) \/ DemoteMissing(c)
  \/ Undo(c) \/ Promote(c) \/ Tidy(c) \/ Fail(c)

Next == (\E c \in Callers : Step(c)) \/ Crash \/ Decay

Spec == Init /\ [][Next]_vars

-----------------------------------------------------------------------------
(* Properties *)

PCs == {"idle", "write", "verify", "header", "body", "discard", "dropBackup",
        "keepPrevious", "demote", "undo", "promote", "tidy"}

\* Every generation holds one whole archive or something that does not verify,
\* and what is published was exported.
SnapshotTypeOK ==
  /\ Generations \subseteq Contents
  /\ staged \in [Callers -> Contents]
  /\ archive \in [Callers -> Nat] /\ header \in [Callers -> Contents]
  /\ moved \in [Callers -> BOOLEAN] /\ pc \in [Callers -> PCs]
  /\ exported \in Nat /\ faults \in Nat /\ damage \in Nat
  /\ published \in Seq(1 .. exported)

\* A restore returns the archive promoted last, whatever step a create or the
\* Manager failed at.
LatestIsRestorable ==
  published # <<>> => Restorable = published[Len(published)]

\* A promotion leaves the generation promoted before it on disk: #rotateVerified-
\* Snapshots may have been interrupted any number of times.
PromotionKeepsPrior ==
  [][\A c \in Callers :
       pc[c] = "promote" /\ pc'[c] = "tidy" /\ published # <<>>
         => previous' = published[Len(published)]]_vars

\* When nothing is interrupted, one damaged generation at any moment does not
\* cost the workspace: restore finds another one.
OneDamageIsSurvived == Len(published) >= 2 => Restorable # None

\* What fails to verify reaches no generation: neither a staging file that was
\* written badly nor, when reads fail and calls overlap, a half-moved one.
OnlyVerifiedGenerations ==
  damage = 0 => Damaged \notin Generations

\* Of what was promoted something verifies.
PublishedStaysRestorable == published # <<>> => Restorable # None

\* The files implement the register: a create publishes its archive in one
\* step or not at all, and nothing older comes back.
Register == INSTANCE SnapshotRegister
              WITH value <- Restorable, offered <- {archive[c] : c \in InCreate}
ImplementsRegister == Register!RegisterSpec
=============================================================================
