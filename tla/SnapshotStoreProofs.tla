------------------------- MODULE SnapshotStoreProofs -------------------------
(***************************************************************************)
(* Proofs about SnapshotStore for every number of calls and every number   *)
(* of faults.  The types and OnlyVerifiedGenerations hold for calls that   *)
(* overlap, files that decay and reads that fail; the rest is about calls  *)
(* of create that come one after the other.                                *)
(***************************************************************************)
EXTENDS SnapshotStore, TLAPS

\* Calls of create do not overlap.
OneCaller == \A c, d \in Callers : c = d
\* No file decays, and a good file is always read as one.
Reliable == MaxDamage = 0 /\ FlakyReads = FALSE

\* What holds between any two operations of create.
Staging == {"write", "verify", "header", "body", "dropBackup", "keepPrevious",
            "demote", "undo", "promote"}

\* The archive of a call that has not promoted it is newer than every
\* generation, and what is rotated for has been verified.
ArchiveIsNew ==
  /\ \A g \in Generations : g \in 0 .. exported
  /\ \A c \in Callers : pc[c] \in Staging =>
       archive[c] = exported /\ \A g \in Generations : g < exported
  /\ \A c \in Callers :
       pc[c] \in {"header", "body", "dropBackup", "keepPrevious", "demote",
                  "promote"} => staged[c] = archive[c]

\* The rotation starts from a good current generation, and ends without one.
RotationHasCurrent ==
  \A c \in Callers :
    /\ pc[c] \in {"body", "dropBackup", "keepPrevious", "demote", "undo", "tidy"}
         => current # None
    /\ pc[c] = "body" => header[c] = current
    /\ pc[c] = "promote" => current = None
    /\ pc[c] # "discard"

\* The latest archive is current, or previous while a rotation is incomplete;
\* it is never only the backup.
LatestOnDisk ==
  published # <<>> =>
    published[Len(published)] = IF current # None THEN current
                                ELSE previous

\* The inductive invariant of calls that do not overlap.
StoreInv == SnapshotTypeOK /\ ArchiveIsNew /\ RotationHasCurrent /\ LatestOnDisk

-----------------------------------------------------------------------------
\* An empty store satisfies it.
LEMMA InitStoreInv == ASSUME SnapshotAssumption PROVE Init => StoreInv
  BY DEF Init, StoreInv, SnapshotTypeOK, ArchiveIsNew, RotationHasCurrent,
         LatestOnDisk, Generations, Contents, PCs, None, Staging, SnapshotAssumption

\* The export of the next archive keeps it.
LEMMA ExportKeepsInv ==
  ASSUME SnapshotAssumption, OneCaller, StoreInv, NEW c \in Callers, Export(c)
  PROVE  StoreInv'
<1> USE DEF OneCaller, StoreInv, SnapshotTypeOK, Export, Proceed, files, Generations
<1>1. published' \in Seq(1 .. exported')
  <2>1. 1 .. exported \subseteq 1 .. exported'
    OBVIOUS
  <2> QED BY <2>1
<1>2. SnapshotTypeOK'
  BY <1>1 DEF PCs, Contents
<1>3. ArchiveIsNew'
  BY DEF ArchiveIsNew, Staging
<1>4. RotationHasCurrent' /\ LatestOnDisk'
  BY DEF RotationHasCurrent, LatestOnDisk
<1> QED BY <1>2, <1>3, <1>4

\* Steps that only move pc, staged or header.
LEMMA ReadingKeepsInv ==
  ASSUME SnapshotAssumption, OneCaller, StoreInv, NEW c \in Callers,
         Stage(c) \/ Verify(c) \/ Reject(c) \/ ReadHeader(c) \/ ReadBody(c)
  PROVE  StoreInv'
<1> USE DEF SnapshotAssumption, OneCaller, StoreInv, SnapshotTypeOK, files, locals,
            history, Proceed, Leave, Generations, Contents, PCs
<1>1. CASE Stage(c)
  BY <1>1 DEF Stage, ArchiveIsNew, RotationHasCurrent, LatestOnDisk, Staging, PCs,
              Contents
<1>2. CASE Verify(c)
  BY <1>2 DEF Verify, ArchiveIsNew, RotationHasCurrent, LatestOnDisk, Staging, PCs
<1>3. CASE Reject(c)
  BY <1>3 DEF Reject, ArchiveIsNew, RotationHasCurrent, LatestOnDisk, Staging, PCs,
              Contents, None
<1>4. CASE ReadHeader(c)
  BY <1>4 DEF ReadHeader, ArchiveIsNew, RotationHasCurrent, LatestOnDisk, Staging,
              PCs, Contents, None, Good, Generations
<1>5. CASE ReadBody(c)
  BY <1>5 DEF ReadBody, ArchiveIsNew, RotationHasCurrent, LatestOnDisk, Staging,
              PCs, Contents, None, Generations
<1> QED BY <1>1, <1>2, <1>3, <1>4, <1>5

\* Steps of the rotation.
LEMMA RotationKeepsInv ==
  ASSUME SnapshotAssumption, OneCaller, StoreInv, NEW c \in Callers,
         DropBackup(c) \/ KeepPrevious(c) \/ Demote(c) \/ Undo(c) \/ Tidy(c)
  PROVE  StoreInv'
<1> USE DEF SnapshotAssumption, OneCaller, StoreInv, SnapshotTypeOK, files, locals,
            history, Proceed, Leave, Generations, Contents, None, PCs
<1>1. CASE DropBackup(c)
  BY <1>1 DEF DropBackup, ArchiveIsNew, RotationHasCurrent, LatestOnDisk, Staging
<1>2. CASE KeepPrevious(c)
  BY <1>2 DEF KeepPrevious, ArchiveIsNew, RotationHasCurrent, LatestOnDisk, Staging
<1>3. CASE Demote(c)
  BY <1>3 DEF Demote, ArchiveIsNew, RotationHasCurrent, LatestOnDisk, Staging
<1>4. CASE Undo(c)
  BY <1>4 DEF Undo, ArchiveIsNew, RotationHasCurrent, LatestOnDisk, Staging
<1>5. CASE Tidy(c)
  BY <1>5 DEF Tidy, ArchiveIsNew, RotationHasCurrent, LatestOnDisk, Staging
<1> QED BY <1>1, <1>2, <1>3, <1>4, <1>5

\* The promotion of a verified archive keeps it.
LEMMA PromoteKeepsInv ==
  ASSUME SnapshotAssumption, OneCaller, StoreInv, NEW c \in Callers, Promote(c)
  PROVE  StoreInv'
<1>1. /\ staged[c] = exported /\ exported \in Nat \ {0}
      /\ \A g \in Generations : g < exported
      /\ pc[c] = "promote"
  BY DEF StoreInv, SnapshotTypeOK, ArchiveIsNew, Promote, Proceed, Staging,
         Generations
<1>2. SnapshotTypeOK'
  BY <1>1 DEF StoreInv, SnapshotTypeOK, Promote, Proceed, PCs, Contents, None,
              Generations, locals
<1>3. ArchiveIsNew'
  BY <1>1 DEF OneCaller, StoreInv, SnapshotTypeOK, ArchiveIsNew, Promote, Proceed,
              Staging, Generations, locals
<1>4. RotationHasCurrent'
  BY <1>1 DEF OneCaller, StoreInv, SnapshotTypeOK, RotationHasCurrent, Promote,
              Proceed, Generations, locals, None
<1>5. LatestOnDisk'
  BY <1>1 DEF StoreInv, SnapshotTypeOK, LatestOnDisk, Promote, Generations, None
<1> QED BY <1>2, <1>3, <1>4, <1>5 DEF StoreInv

\* What fails, and what cannot happen.
LEMMA FaultKeepsInv ==
  ASSUME SnapshotAssumption, OneCaller, Reliable, StoreInv,
         \/ Crash
         \/ \E c \in Callers : \/ ReadFails(c) \/ DiscardCurrent(c)
                               \/ DemoteMissing(c) \/ Fail(c)
         \/ Decay
  PROVE  StoreInv'
<1> USE DEF SnapshotAssumption, OneCaller, StoreInv, SnapshotTypeOK, files, locals,
            PCs, Leave, Contents, None, Generations
<1>1. CASE Crash
  <2> USE <1>1 DEF Crash
  <2>1. SnapshotTypeOK'
    OBVIOUS
  <2>2. ArchiveIsNew'
    BY DEF ArchiveIsNew, Staging
  <2>3. RotationHasCurrent'
    BY DEF RotationHasCurrent
  <2>4. LatestOnDisk'
    BY DEF LatestOnDisk
  <2> QED BY <2>1, <2>2, <2>3, <2>4
<1>2. ASSUME NEW c \in Callers, ReadFails(c) \/ DiscardCurrent(c) \/ DemoteMissing(c)
      PROVE  FALSE
  BY <1>2 DEF Reliable, ReadFails, DiscardCurrent, DemoteMissing, DemoteError,
              RotationHasCurrent, Proceed
<1>3. ASSUME NEW c \in Callers, Fail(c)
      PROVE  StoreInv'
  <2> USE <1>3 DEF Fail, DemoteError
  <2>1. SnapshotTypeOK'
    OBVIOUS
  <2>2. ArchiveIsNew'
    BY DEF ArchiveIsNew, Staging
  <2>3. RotationHasCurrent'
    BY DEF RotationHasCurrent
  <2>4. LatestOnDisk'
    BY DEF LatestOnDisk
  <2> QED BY <2>1, <2>2, <2>3, <2>4
<1>4. ASSUME Decay PROVE FALSE
  BY <1>4 DEF Reliable, Decay
<1> QED BY <1>1, <1>2, <1>3, <1>4

\* Every step keeps it.
LEMMA StoreInvIsInductive ==
  ASSUME SnapshotAssumption, OneCaller, Reliable, StoreInv, [Next]_vars
  PROVE  StoreInv'
<1>1. ASSUME NEW c \in Callers, Step(c) PROVE StoreInv'
  BY <1>1, ExportKeepsInv, ReadingKeepsInv, RotationKeepsInv, PromoteKeepsInv,
     FaultKeepsInv DEF Step
<1>2. CASE UNCHANGED vars
  BY <1>2 DEF vars, files, locals, history, Generations, StoreInv,
              SnapshotTypeOK, ArchiveIsNew, RotationHasCurrent,
              LatestOnDisk
<1> QED BY <1>1, <1>2, FaultKeepsInv DEF Next

\* So it holds in every behaviour.
LEMMA StoreInvHolds ==
  ASSUME SnapshotAssumption, OneCaller, Reliable PROVE Spec => []StoreInv
  BY InitStoreInv, StoreInvIsInductive, PTL DEF Spec

-----------------------------------------------------------------------------
\* The archive published last is one of the generations, and a good one.
LEMMA LatestIsGood ==
  ASSUME StoreInv, published # <<>>
  PROVE  /\ published[Len(published)] \in Nat \ {None}
         /\ Restorable = published[Len(published)]
<1>1. published[Len(published)] \in 1 .. exported
  BY DEF StoreInv, SnapshotTypeOK
<1>2. current \in Nat /\ previous \in Nat
  BY DEF StoreInv, SnapshotTypeOK, ArchiveIsNew, Generations
<1> QED
  BY <1>1, <1>2 DEF StoreInv, SnapshotTypeOK, LatestOnDisk, Restorable, Good, None

\* #rotateVerifiedSnapshots and the renames around it never lose the archive
\* promoted last: a restore finds it after any number of crashes and failures.
THEOREM LatestStaysRestorable ==
  ASSUME SnapshotAssumption, OneCaller, Reliable
  PROVE  Spec => []LatestIsRestorable
<1>1. StoreInv => LatestIsRestorable
  BY LatestIsGood DEF LatestIsRestorable
<1> QED BY <1>1, StoreInvHolds, PTL

\* When create promotes an archive, the one promoted before it is the previous
\* generation, even after interrupted rotations.
THEOREM PromotionLeavesPrior ==
  ASSUME SnapshotAssumption, OneCaller, Reliable
  PROVE  Spec => PromotionKeepsPrior
<1>1. ASSUME StoreInv, [Next]_vars
      PROVE  [\A c \in Callers :
                pc[c] = "promote" /\ pc'[c] = "tidy" /\ published # <<>>
                  => previous' = published[Len(published)]]_vars
  <2> SUFFICES ASSUME NEW c \in Callers, pc[c] = "promote", pc'[c] = "tidy",
                      published # <<>>, Next
               PROVE  previous' = published[Len(published)]
    BY <1>1 DEF vars
  <2>1. current = None /\ previous = published[Len(published)]
    BY <1>1 DEF StoreInv, RotationHasCurrent, LatestOnDisk
  <2>2. ~Crash
    BY DEF Crash
  <2>3. ~Decay
    BY <1>1 DEF Decay, StoreInv, SnapshotTypeOK
  <2>4. PICK d \in Callers : Step(d)
    BY <2>2, <2>3 DEF Next
  <2>5. Promote(d) \/ UNCHANGED previous
    BY <1>1, <2>4 DEF Step, Export, Stage, Verify, Reject, ReadHeader, ReadBody,
       ReadFails, DiscardCurrent, DropBackup, KeepPrevious, Demote, DemoteMissing,
       DemoteError, Undo, Tidy, Fail, Proceed, Leave, files, StoreInv,
       SnapshotTypeOK
  <2> QED BY <2>1, <2>5 DEF Promote
<1> QED BY <1>1, StoreInvHolds, PTL DEF Spec, PromotionKeepsPrior

-----------------------------------------------------------------------------
(* The refinement *)

\* The archives on their way are those the abstract register is offered.
Offered == {archive[c] : c \in InCreate}

\* Steps between the export and the promotion are not visible.
LEMMA QuietStep ==
  ASSUME OneCaller, StoreInv, NEW c \in Callers, pc[c] # "idle",
         Restorable' = Restorable, UNCHANGED <<exported, archive>>,
         NEW pc_c, pc' = [pc EXCEPT ![c] = pc_c]
  PROVE  [Register!RegisterNext]_Register!rvars
<1>1. InCreate = {c} /\ InCreate' \subseteq {c}
  BY DEF OneCaller, InCreate
<1>2. Offered' = Offered \/ Offered' = {}
  BY <1>1 DEF Offered, InCreate
<1> QED
  BY <1>2 DEF Offered, Register!RegisterNext, Register!Conclude, Register!rvars

\* No step of the rotation but the promotion changes what can be restored.
LEMMA RotationIsQuiet ==
  ASSUME SnapshotAssumption, StoreInv, NEW c \in Callers,
         DropBackup(c) \/ KeepPrevious(c) \/ Demote(c) \/ Undo(c) \/ Tidy(c)
  PROVE  Restorable' = Restorable
<1>1. /\ current \in Nat \ {None}
      /\ current' \in {current, None} /\ (current' = None => previous' = current)
  BY DEF StoreInv, SnapshotTypeOK, ArchiveIsNew, Generations, RotationHasCurrent,
         DropBackup, KeepPrevious, Demote, Undo, Tidy, Proceed
<1> QED BY <1>1 DEF Restorable, Good

\* An export is the offer of the register.
LEMMA ExportOffers ==
  ASSUME OneCaller, StoreInv, NEW c \in Callers, Export(c)
  PROVE  Register!Offer
<1>1. InCreate = {} /\ InCreate' = {c}
  BY DEF OneCaller, InCreate, Export, Proceed, StoreInv, SnapshotTypeOK
<1>2. archive'[c] = exported + 1
  BY DEF Export, StoreInv, SnapshotTypeOK
<1>3. Restorable' = Restorable
  BY DEF Export, files, Restorable
<1> QED BY <1>1, <1>2, <1>3 DEF Register!Offer, Export

\* A promotion is its publication.
LEMMA PromotePublishes ==
  ASSUME SnapshotAssumption, OneCaller, StoreInv, NEW c \in Callers, Promote(c)
  PROVE  Register!Publish(archive[c])
<1>1. /\ staged[c] = archive[c] /\ archive[c] = exported
      /\ \A g \in Generations : g \in Nat /\ g < exported
      /\ exported \in Nat
  BY DEF StoreInv, SnapshotTypeOK, ArchiveIsNew, Promote, Proceed, Staging,
         Generations
<1>2. Restorable' = archive[c]
  BY <1>1 DEF Promote, Restorable, Good, Generations, None
<1>3. archive[c] > Restorable
  BY <1>1 DEF Restorable, Good, Generations, None
<1>4. c \in InCreate /\ InCreate' = InCreate
  BY DEF Promote, Proceed, InCreate, StoreInv, SnapshotTypeOK
<1> QED BY <1>2, <1>3, <1>4 DEF Register!Publish, Promote, locals

\* Every step is one of the register or leaves it unchanged.
LEMMA StepRefines ==
  ASSUME SnapshotAssumption, OneCaller, Reliable, StoreInv, [Next]_vars
  PROVE  [Register!RegisterNext]_Register!rvars
<1>1. CASE UNCHANGED vars
  BY <1>1 DEF vars, files, locals, history, Restorable, InCreate, Register!rvars
<1>2. CASE Crash
  <2>1. Restorable' = Restorable /\ exported' = exported /\ InCreate' = {}
    BY <1>2 DEF Crash, files, Restorable, InCreate
  <2> QED BY <2>1 DEF Register!RegisterNext, Register!Conclude
<1>3. ~Decay
  BY DEF Decay, Reliable, StoreInv, SnapshotTypeOK
<1>4. ASSUME NEW c \in Callers, Step(c)
      PROVE  [Register!RegisterNext]_Register!rvars
  <2>1. CASE Export(c)
    BY <2>1, ExportOffers DEF Register!RegisterNext
  <2>2. CASE Promote(c)
    <3>1. archive[c] \in {archive[d] : d \in InCreate}
      BY <2>2 DEF Promote, Proceed, InCreate
    <3> QED BY <2>2, <3>1, PromotePublishes DEF Register!RegisterNext
  <2>3. CASE DropBackup(c) \/ KeepPrevious(c) \/ Demote(c) \/ Undo(c) \/ Tidy(c)
    <3>1. Restorable' = Restorable
      BY <2>3, RotationIsQuiet
    <3>2. \E p : pc' = [pc EXCEPT ![c] = p]
      BY <2>3 DEF DropBackup, KeepPrevious, Demote, Undo, Tidy, Proceed, Leave
    <3>3. pc[c] # "idle" /\ UNCHANGED <<exported, archive>>
      BY <2>3 DEF DropBackup, KeepPrevious, Demote, Undo, Tidy, Proceed, locals,
                  history
    <3> QED BY <3>1, <3>2, <3>3, QuietStep
  <2>4. CASE Stage(c) \/ Verify(c) \/ Reject(c) \/ ReadHeader(c) \/ ReadBody(c)
             \/ Fail(c)
    <3>1. Restorable' = Restorable
      BY <2>4 DEF Stage, Verify, Reject, ReadHeader, ReadBody, Fail, DemoteError,
                  files, Restorable
    <3>2. pc[c] # "idle" /\ \E p : pc' = [pc EXCEPT ![c] = p]
      BY <2>4 DEF Stage, Verify, Reject, ReadHeader, ReadBody, Fail, DemoteError,
                  Proceed, Leave
    <3>3. UNCHANGED <<exported, archive>>
      BY <2>4 DEF Stage, Verify, Reject, ReadHeader, ReadBody, Fail, DemoteError,
                  locals, history
    <3> QED BY <3>1, <3>2, <3>3, QuietStep
  <2>5. ~ReadFails(c) /\ ~DiscardCurrent(c) /\ ~DemoteMissing(c)
    BY DEF Reliable, ReadFails, DiscardCurrent, DemoteMissing, DemoteError,
           Proceed, StoreInv, RotationHasCurrent
  <2> QED BY <1>4, <2>1, <2>2, <2>3, <2>4, <2>5 DEF Step
<1> QED BY <1>1, <1>2, <1>3, <1>4 DEF Next

\* create publishes its archive in one step or not at all: whatever it or the
\* Manager is interrupted at, a restore sees the archives in order of export.
THEOREM StoreImplementsRegister ==
  ASSUME SnapshotAssumption, OneCaller, Reliable
  PROVE  Spec => ImplementsRegister
<1>1. Init => Register!RegisterInit
  BY DEF Init, Register!RegisterInit, Restorable, Good, None, InCreate
<1> QED
  BY <1>1, StoreInvHolds, StepRefines, PTL
     DEF Spec, ImplementsRegister, Register!RegisterSpec

-----------------------------------------------------------------------------
(* Calls that overlap, reads that fail and files that decay                   *)

\* The steps of a call that has verified its archive.
Ready == {"header", "body", "discard", "dropBackup", "keepPrevious", "demote", "undo",
          "promote"}

\* What a call is about to promote is the archive it verified, and a generation that
\* does not verify has decayed.
VerifiedInv ==
  /\ pc = [c \in Callers |-> pc[c]] /\ staged \in [Callers -> Contents]
  /\ archive \in [Callers -> Nat] /\ exported \in Nat /\ damage \in Nat
  /\ \A c \in Callers : pc[c] \in Ready => staged[c] = archive[c]
  /\ damage = 0 => Generations \subseteq Nat

\* Every step of calls that may overlap keeps it, whatever fails or decays.
LEMMA VerifiedStep ==
  ASSUME SnapshotAssumption, VerifiedInv, [Next]_vars
  PROVE  VerifiedInv'
<1> USE DEF VerifiedInv, Generations
<1>1. ASSUME NEW c \in Callers, Step(c) PROVE VerifiedInv'
  <2> USE DEF Proceed, Leave, files, locals, history, Ready, PCs, Contents, None
  <2>1. CASE Export(c)
    BY <2>1 DEF Export
  <2>2. CASE Stage(c)
    BY <2>2 DEF Stage
  <2>3. CASE Verify(c) \/ Reject(c)
    BY <2>3 DEF Verify, Reject
  <2>4. CASE ReadHeader(c) \/ ReadBody(c) \/ ReadFails(c)
    BY <2>4 DEF ReadHeader, ReadBody, ReadFails
  <2>5. CASE DiscardCurrent(c) \/ DropBackup(c)
    BY <2>5 DEF DiscardCurrent, DropBackup
  <2>6. CASE KeepPrevious(c) \/ Demote(c)
    BY <2>6 DEF KeepPrevious, Demote
  <2>7. CASE DemoteMissing(c)
    BY <2>7 DEF DemoteMissing, DemoteError
  <2>8. CASE Undo(c) \/ Tidy(c)
    BY <2>8 DEF Undo, Tidy
  <2>9. CASE Promote(c)
    BY <2>9, SMTT(60) DEF Promote
  <2>10. CASE Fail(c)
    BY <2>10 DEF Fail, DemoteError
  <2> QED BY <1>1, <2>1, <2>2, <2>3, <2>4, <2>5, <2>6, <2>7, <2>8, <2>9, <2>10 DEF Step
<1>2. CASE Crash
  BY <1>2 DEF Crash, files, locals, Ready, PCs, Contents, None
<1>3. CASE Decay
  BY <1>3 DEF Decay, locals
<1>4. CASE UNCHANGED vars
  BY <1>4 DEF vars, files, locals, history
<1> QED BY <1>1, <1>2, <1>3, <1>4 DEF Next

\* Nothing becomes a generation without having been verified, for any number of calls
\* that overlap, and whatever fails or is read wrongly
\* (createStreamingSnapshotPipeline, #verifySnapshotBeforeRotation).
THEOREM GenerationsAreVerified ==
  ASSUME SnapshotAssumption
  PROVE  Spec => []OnlyVerifiedGenerations
<1>1. Init => VerifiedInv
  BY DEF Init, VerifiedInv, PCs, Contents, Generations, None, Ready
<1>2. VerifiedInv => OnlyVerifiedGenerations
  BY DEF VerifiedInv, OnlyVerifiedGenerations, SnapshotAssumption
<1> QED BY <1>1, <1>2, VerifiedStep, PTL DEF Spec

-----------------------------------------------------------------------------
(* Types, for calls that overlap too                                          *)

\* Every call works on an archive that was exported, and promotes no other.
CallTypes ==
  /\ SnapshotTypeOK
  /\ \A c \in Callers : pc[c] # "idle" => archive[c] \in 1 .. exported
  /\ \A c \in Callers : pc[c] \in Ready => staged[c] = archive[c]

\* A step of a call that leaves the history of promotions as it is.
LEMMA CallKeepsTypes ==
  ASSUME SnapshotAssumption, CallTypes, NEW c \in Callers, Step(c), ~Export(c), ~Promote(c)
  PROVE  CallTypes'
<1> USE DEF CallTypes, SnapshotTypeOK, Generations, Proceed, Leave, files, locals, history,
            Ready, PCs, Contents, None
<1>1. CASE Stage(c)
  BY <1>1 DEF Stage
<1>2. CASE Verify(c)
  BY <1>2 DEF Verify
<1>3. CASE Reject(c)
  BY <1>3 DEF Reject
<1>4. CASE ReadHeader(c)
  BY <1>4 DEF ReadHeader
<1>5. CASE ReadBody(c)
  BY <1>5 DEF ReadBody
<1>6. CASE ReadFails(c)
  BY <1>6, SMTT(30) DEF ReadFails
<1>7. CASE DiscardCurrent(c)
  BY <1>7 DEF DiscardCurrent
<1>8. CASE DropBackup(c)
  BY <1>8 DEF DropBackup
<1>9. CASE KeepPrevious(c)
  BY <1>9 DEF KeepPrevious
<1>10. CASE Demote(c)
  BY <1>10 DEF Demote
<1>11. CASE DemoteMissing(c)
  BY <1>11 DEF DemoteMissing, DemoteError
<1>12. CASE Undo(c)
  BY <1>12 DEF Undo
<1>13. CASE Tidy(c)
  BY <1>13 DEF Tidy
<1>14. CASE Fail(c)
  <2>1. /\ UNCHANGED <<current, previous, backup, archive, header, moved, exported, published,
                       damage>>
        /\ faults' = faults + 1
        /\ \/ pc' = [pc EXCEPT ![c] = "idle"] /\ staged' = [staged EXCEPT ![c] = None]
           \/ pc[c] = "demote" /\ pc' = [pc EXCEPT ![c] = "undo"] /\ UNCHANGED staged
    BY <1>14 DEF Fail, DemoteError
  <2>2. SnapshotTypeOK'
    <3>1. staged' \in [Callers -> Contents]
      <4>1. staged \in [Callers -> Contents] /\ 0 \in Contents
        OBVIOUS
      <4>2. staged' = [staged EXCEPT ![c] = 0] \/ staged' = staged
        BY <2>1
      <4> HIDE DEF CallTypes, Contents
      <4> QED BY <4>1, <4>2
    <3>2. pc' \in [Callers -> PCs]
      BY <2>1
    <3>3. faults' \in Nat
      BY <2>1
    <3> HIDE DEF Contents, PCs, Ready
    <3> QED BY <2>1, <3>1, <3>2, <3>3
  <2>3. \A d \in Callers : pc'[d] # "idle" => archive'[d] \in 1 .. exported'
    BY <2>1
  <2>4. \A d \in Callers : pc'[d] \in Ready => staged'[d] = archive'[d]
    BY <2>1
  <2> QED BY <2>2, <2>3, <2>4
<1> QED BY <1>1, <1>2, <1>3, <1>4, <1>5, <1>6, <1>7, <1>8, <1>9, <1>10, <1>11, <1>12, <1>13, <1>14
        DEF Step

\* A new archive and a promotion lengthen the history.
LEMMA HistoryKeepsTypes ==
  ASSUME SnapshotAssumption, CallTypes, NEW c \in Callers, Export(c) \/ Promote(c)
  PROVE  CallTypes'
<1> USE DEF CallTypes, SnapshotTypeOK, Generations, Proceed, files, locals, history,
            Ready, PCs, Contents, None
<1>1. CASE Export(c)
  <2>1. published' \in Seq(1 .. exported')
    <3> USE <1>1 DEF Export
    <3>1. 1 .. exported \subseteq 1 .. exported'
      OBVIOUS
    <3> QED BY <3>1
  <2>2. \A d \in Callers : pc'[d] # "idle" => archive'[d] \in 1 .. exported'
    BY <1>1 DEF Export
  <2> QED BY <1>1, <2>1, <2>2 DEF Export
<1>2. CASE Promote(c)
  <2>1. staged[c] \in 1 .. exported
    BY <1>2 DEF Promote
  <2>2. published' \in Seq(1 .. exported')
    BY <1>2, <2>1 DEF Promote
  <2> QED BY <1>2, <2>2 DEF Promote
<1> QED BY <1>1, <1>2

\* Generations and calls keep their types, whatever create was interrupted at, whatever
\* is damaged or read wrongly, and for any number of calls that overlap.
THEOREM SnapshotTypeCorrect ==
  ASSUME SnapshotAssumption PROVE Spec => []SnapshotTypeOK
<1>1. Init => CallTypes
  BY DEF Init, CallTypes, SnapshotTypeOK, PCs, Contents, Generations, None, Ready
<1>2. CallTypes /\ [Next]_vars => CallTypes'
  <2> SUFFICES ASSUME CallTypes, [Next]_vars PROVE CallTypes'
    OBVIOUS
  <2>1. ASSUME NEW c \in Callers, Step(c) PROVE CallTypes'
    BY <2>1, CallKeepsTypes, HistoryKeepsTypes
  <2>2. CASE Crash
    BY <2>2 DEF Crash, CallTypes, SnapshotTypeOK, Generations, files, locals, Ready, PCs,
                Contents, None
  <2>3. CASE Decay
    BY <2>3 DEF Decay, CallTypes, SnapshotTypeOK, Generations, locals, Contents
  <2>4. CASE UNCHANGED vars
    BY <2>4 DEF vars, CallTypes, SnapshotTypeOK, Generations, files, locals, history
  <2> QED BY <2>1, <2>2, <2>3, <2>4 DEF Next
<1>3. CallTypes => SnapshotTypeOK
  BY DEF CallTypes
<1> QED BY <1>1, <1>2, <1>3, PTL DEF Spec

-----------------------------------------------------------------------------
(* One file that decays, at any moment of a rotation that nothing interrupts  *)

\* Those who may call create: a caller that is anywhere else never does.
AtWork == {c \in Callers : pc[c] \in PCs}

\* A caller stays where it is or is at work.
LEMMA CallersStayAtWork ==
  ASSUME NEW d \in Callers, pc = [c \in Callers |-> pc[c]], [Next]_vars
  PROVE  pc'[d] = pc[d] \/ d \in AtWork'
<1>1. ASSUME NEW c \in Callers, Step(c) PROVE pc'[d] = pc[d] \/ d \in AtWork'
  BY <1>1 DEF AtWork, PCs, Proceed, Leave, Step, Export, Stage, Verify, Reject, ReadHeader,
              ReadBody, ReadFails, DiscardCurrent, DropBackup, KeepPrevious, Demote,
              DemoteMissing, DemoteError, Undo, Promote, Tidy, Fail
<1>2. CASE Crash
  BY <1>2 DEF AtWork, PCs, Crash
<1>3. CASE Decay \/ UNCHANGED vars
  BY <1>3 DEF Decay, vars
<1> QED BY <1>1, <1>2, <1>3 DEF Next

\* One caller is at work, no operation can fail any more, and at most one file decays.
Calm ==
  /\ \A c, d \in AtWork : c = d
  /\ faults = MaxFaults /\ MaxDamage \in {0, 1}

\* The one file that decayed is no generation any more.
Spent == damage = 1 /\ Damaged \notin Generations

\* At most one generation is damaged.
OneIsDamaged ==
  /\ current \in Contents /\ previous \in Contents /\ backup \in Contents
  /\ current = Damaged => previous # Damaged /\ backup # Damaged
  /\ previous = Damaged => backup # Damaged
  /\ Damaged \in Generations => damage = 1
  /\ damage \in {0, 1}

\* What a call is about to promote is an archive it verified, and it found the
\* current generation good or discards it.
CallIsGood ==
  /\ pc = [c \in Callers |-> pc[c]] /\ staged \in [Callers -> Contents]
  /\ archive \in [Callers -> Nat] /\ header \in [Callers -> Contents] /\ exported \in Nat
  /\ \A c \in AtWork :
       /\ pc[c] # "undo" /\ (pc[c] # "idle" => archive[c] # None)
       /\ pc[c] \in Ready => staged[c] = archive[c]
       /\ pc[c] = "body" => Good(header[c]) /\ current \in {header[c], Damaged}
       /\ pc[c] = "discard" => current = Damaged

\* Two generations exist, unless the damaged one was discarded.
TwoAreKept ==
  /\ published \in Seq(Contents)
  /\ \A c \in AtWork :
       /\ pc[c] \in {"body", "discard", "dropBackup", "keepPrevious", "demote", "tidy"} =>
            current # None
       /\ pc[c] \notin {"demote", "promote"} =>
            /\ Len(published) >= 1 => current # None
            /\ Len(published) >= 2 => previous # None \/ Spent
       /\ pc[c] = "demote" => (Len(published) >= 2 => backup # None \/ Spent)
       /\ pc[c] = "promote" =>
            /\ Len(published) >= 1 => previous # None \/ Spent
            /\ Len(published) >= 2 => previous # None /\ (backup # None \/ Spent)

\* The inductive invariant of calls that do not overlap while one file decays.
SerialInv ==
  Calm /\ OneIsDamaged /\ CallIsGood /\ TwoAreKept /\ (AtWork = {} => published = <<>>)

\* Every step of a rotation that nothing interrupts, and one decay, keep another one good.
LEMMA SerialStep ==
  ASSUME SnapshotAssumption, SerialInv, [Next]_vars
  PROVE  SerialInv'
<1> USE DEF SerialInv, Generations, Spent, Good, SnapshotAssumption
<1>1. ASSUME NEW c \in Callers, Step(c) PROVE SerialInv'
  <2> USE DEF Proceed, Leave, files, locals, history, PCs, Contents, None
  <2>a. pc[c] \in PCs /\ pc'[c] \in PCs /\ pc' = [pc EXCEPT ![c] = pc'[c]]
    BY <1>1 DEF CallIsGood, Step, Export, Stage, Verify, Reject, ReadHeader, ReadBody, ReadFails,
                DiscardCurrent, DropBackup, KeepPrevious, Demote, DemoteMissing, DemoteError,
                Undo, Promote, Tidy, Fail
  <2>b. AtWork = {c} /\ AtWork' = {c}
    BY <2>a DEF AtWork, Calm, CallIsGood
  <2>0. ~ReadFails(c) /\ ~Fail(c) /\ ~DemoteMissing(c)
    BY <2>b, SnapshotAssumption
    DEF Calm, OneIsDamaged, TwoAreKept, ReadFails, Fail, DemoteMissing, DemoteError
  <2>4. Calm'
    BY <1>1, <2>0, <2>b
    DEF Calm, Step, Export, Stage, Verify, Reject, ReadHeader, ReadBody, DiscardCurrent,
        DropBackup, KeepPrevious, Demote, Undo, Promote, Tidy
  <2>1. OneIsDamaged'
    <3> USE DEF OneIsDamaged
    <3>1. CASE Promote(c)
      BY <2>b, <3>1 DEF Promote, CallIsGood, Ready
    <3>2. CASE \/ DiscardCurrent(c) \/ DropBackup(c) \/ KeepPrevious(c)
              \/ Demote(c) \/ Undo(c) \/ Tidy(c)
      BY <3>2 DEF DiscardCurrent, DropBackup, KeepPrevious, Demote, Undo, Tidy
    <3> QED BY <1>1, <2>0, <3>1, <3>2 DEF Step, Export, Stage, Verify, Reject, ReadHeader,
                                          ReadBody
  <2>2. CallIsGood'
    <3> USE <2>b DEF CallIsGood, OneIsDamaged, Ready
    <3>0. pc' = [d \in Callers |-> pc'[d]]
      BY <2>a
    <3>1. CASE Export(c) \/ Stage(c) \/ Verify(c) \/ Reject(c)
      BY <3>0, <3>1 DEF Export, Stage, Verify, Reject
    <3>2. CASE ReadHeader(c)
      BY <3>0, <3>2 DEF ReadHeader
    <3>3. CASE ReadBody(c)
      BY <3>0, <3>3 DEF ReadBody
    <3>4. CASE \/ DiscardCurrent(c) \/ DropBackup(c) \/ KeepPrevious(c)
              \/ Demote(c) \/ Undo(c) \/ Tidy(c)
      BY <3>0, <3>4 DEF DiscardCurrent, DropBackup, KeepPrevious, Demote, Undo, Tidy
    <3>5. CASE Promote(c)
      BY <3>0, <3>5 DEF Promote
    <3> QED BY <1>1, <2>0, <3>1, <3>2, <3>3, <3>4, <3>5 DEF Step
  <2>3. TwoAreKept'
    <3> USE <2>b DEF TwoAreKept, CallIsGood, OneIsDamaged
    <3>1. CASE Export(c) \/ Stage(c) \/ Verify(c) \/ Reject(c)
      BY <3>1 DEF Export, Stage, Verify, Reject
    <3>2. CASE ReadHeader(c)
      BY <3>2 DEF ReadHeader
    <3>3. CASE ReadBody(c)
      BY <3>3 DEF ReadBody
    <3>4. CASE DiscardCurrent(c)
      BY <3>4 DEF DiscardCurrent
    <3>5. CASE DropBackup(c)
      BY <3>5 DEF DropBackup
    <3>6. CASE KeepPrevious(c)
      BY <3>6 DEF KeepPrevious
    <3>7. CASE Demote(c)
      BY <3>7 DEF Demote
    <3>8. CASE Undo(c) \/ Tidy(c)
      BY <3>8 DEF Undo, Tidy
    <3>9. CASE Promote(c)
      BY <3>9 DEF Promote, Ready
    <3> QED BY <1>1, <2>0, <3>1, <3>2, <3>3, <3>4, <3>5, <3>6, <3>7, <3>8, <3>9 DEF Step
  <2> QED BY <2>1, <2>2, <2>3, <2>4, <2>b
<1>2. ~Crash
  BY DEF Calm, Crash
<1>3. CASE Decay
  <2>1. damage = 0 /\ damage' = 1 /\ Damaged \notin Generations /\ Damaged # None
    BY <1>3 DEF Calm, Decay, OneIsDamaged, None
  <2>2. /\ UNCHANGED <<staged, locals, pc, exported, published, faults>>
        /\ \/ current # None /\ current' = Damaged /\ UNCHANGED <<previous, backup>>
           \/ previous # None /\ previous' = Damaged /\ UNCHANGED <<current, backup>>
           \/ backup # None /\ backup' = Damaged /\ UNCHANGED <<current, previous>>
    BY <1>3 DEF Decay
  <2>3. OneIsDamaged'
    BY <2>1, <2>2 DEF OneIsDamaged, Contents
  <2>b. AtWork' = AtWork
    BY <2>2 DEF AtWork
  <2>4. CallIsGood'
    BY <2>1, <2>2, <2>b DEF CallIsGood, locals, Contents
  <2>5. TwoAreKept'
    BY <2>1, <2>2, <2>b DEF TwoAreKept
  <2>6. Calm'
    BY <2>2, <2>b DEF Calm
  <2> QED BY <2>2, <2>3, <2>4, <2>5, <2>6, <2>b
<1>4. CASE UNCHANGED vars
  BY <1>4 DEF vars, files, locals, history, OneIsDamaged, CallIsGood, TwoAreKept, Calm, AtWork
<1> QED BY <1>1, <1>2, <1>3, <1>4 DEF Next

\* Then there is something to restore.
LEMMA AnotherIsLeft == ASSUME SnapshotAssumption, SerialInv PROVE OneDamageIsSurvived
<1> SUFFICES ASSUME Len(published) >= 2 PROVE Restorable # None
  BY DEF OneDamageIsSurvived
<1>1. published \in Seq(Contents) /\ Len(published) >= 1 /\ published # <<>>
  BY DEF SerialInv, TwoAreKept
<1>2. PICK c \in AtWork : TRUE
  BY <1>1 DEF SerialInv
<1>3. \/ current # None /\ (previous # None \/ Spent)
      \/ previous # None /\ (backup # None \/ Spent)
      \/ current # None /\ (backup # None \/ Spent)
  <2>1. CASE pc[c] \notin {"demote", "promote"}
    BY <1>1, <1>2, <2>1 DEF SerialInv, TwoAreKept
  <2>2. CASE pc[c] = "demote"
    BY <1>1, <1>2, <2>2 DEF SerialInv, TwoAreKept
  <2>3. CASE pc[c] = "promote"
    BY <1>1, <1>2, <2>3 DEF SerialInv, TwoAreKept
  <2> QED BY <2>1, <2>2, <2>3
<1>4. Good(current) \/ Good(previous) \/ Good(backup)
  BY <1>3 DEF SerialInv, OneIsDamaged, Good, Contents, Spent, Generations, None
<1> QED BY <1>4 DEF Restorable, Good

\* A generation that stops verifying at any moment of an uninterrupted rotation
\* leaves another one to restore (#rotateVerifiedSnapshots).
THEOREM OneDamageLeavesAnother ==
  ASSUME SnapshotAssumption, OneCaller, MaxFaults = 0, MaxDamage \in {0, 1}
  PROVE  Spec => []OneDamageIsSurvived
<1>1. Init => SerialInv
  BY DEF Init, SerialInv, OneIsDamaged, CallIsGood, TwoAreKept, Generations, Contents, PCs,
         Ready, Calm, AtWork, OneCaller, None, SnapshotAssumption
<1> QED BY <1>1, AnotherIsLeft, SerialStep, PTL DEF Spec
=============================================================================
