--------------------------- MODULE WorkspaceArchive ---------------------------
(***************************************************************************)
(* validateArchiveEntries: what a tar archive may hold before it replaces  *)
(* a workspace or leaves one.  An archive is a sequence of blocks, each    *)
(* read as a header where the reader expects one; a payload may hold any   *)
(* block.  Names, link targets, checksums and modes decide only whether a  *)
(* header is denied.                                                       *)
(***************************************************************************)
EXTENDS Naturals, Sequences, FiniteSets, Functions

CONSTANTS
  BlockSize,  \* 512
  MaxSize,    \* bound on the size a header states
  MaxBlocks,  \* bound on the length of an archive
  MaxFiles,   \* limits.maxFiles
  MaxBytes    \* limits.maxBytes

ASSUME ArchiveAssumption ==
  /\ BlockSize \in Nat \ {0} /\ MaxSize \in Nat /\ MaxBlocks \in Nat
  /\ MaxFiles \in Nat \ {0} /\ MaxBytes \in Nat

\* a header: a zero block, a regular file, a directory, or one that is denied (a
\* link or device, an unsafe path, a wrong checksum or number)
Blocks ==
  [type : {"file"}, size : 0 .. MaxSize]
    \union [type : {"directory"}, size : 0 .. 1]
    \union {[type |-> "zero", size |-> 0], [type |-> "denied", size |-> 0]}

Archives == UNION {[1 .. n -> Blocks] : n \in 0 .. MaxBlocks}

VARIABLES
  blocks,     \* the archive
  offset,     \* blocks read
  entriesRead, \* files
  payload,    \* payloadBytes
  endBlocks,
  verdict     \* "reading", "accepted" or "thrown"

archiveVars == <<blocks, offset, entriesRead, payload, endBlocks, verdict>>

ArchiveInit ==
  /\ blocks \in Archives
  /\ offset = 0 /\ entriesRead = 0 /\ payload = 0 /\ endBlocks = 0
  /\ verdict = "reading"

Header == blocks[offset + 1]

\* Mutant: a last block that is not full does not count.
PaddedDown(size) == size \div BlockSize

Padded(size) == (size + BlockSize - 1) \div BlockSize

ReadZero ==
  /\ verdict = "reading" /\ endBlocks < 2 /\ offset < Len(blocks)
  /\ Header.type = "zero"
  /\ offset' = offset + 1 /\ endBlocks' = endBlocks + 1
  /\ UNCHANGED <<blocks, entriesRead, payload, verdict>>

\* the checks of one header, in any order: each throws
Admitted ==
  /\ endBlocks = 0
  /\ Header.type # "denied"
  /\ Header.type = "directory" => Header.size = 0
  /\ entriesRead < MaxFiles /\ payload + Header.size <= MaxBytes
  /\ offset + 1 + Padded(Header.size) <= Len(blocks)

ReadEntry ==
  /\ verdict = "reading" /\ endBlocks < 2 /\ offset < Len(blocks)
  /\ Header.type # "zero"
  /\ IF Admitted
     THEN /\ offset' = offset + 1 + Padded(Header.size)
          /\ entriesRead' = entriesRead + 1 /\ payload' = payload + Header.size
          /\ UNCHANGED verdict
     ELSE verdict' = "thrown" /\ UNCHANGED <<offset, entriesRead, payload>>
  /\ UNCHANGED <<blocks, endBlocks>>

\* Mutant: one zero block ends an archive.
ConcludeArchiveEarly ==
  /\ verdict = "reading" /\ (endBlocks = 2 \/ offset = Len(blocks))
  /\ verdict' = IF endBlocks >= 1 /\ \A k \in offset + 1 .. Len(blocks) : blocks[k].type = "zero"
                THEN "accepted" ELSE "thrown"
  /\ UNCHANGED <<blocks, offset, entriesRead, payload, endBlocks>>

\* canonical end marker: two zero blocks, and zeros to the end
ConcludeArchive ==
  /\ verdict = "reading" /\ (endBlocks = 2 \/ offset = Len(blocks))
  /\ verdict' = IF endBlocks = 2 /\ \A k \in offset + 1 .. Len(blocks) : blocks[k].type = "zero"
                THEN "accepted" ELSE "thrown"
  /\ UNCHANGED <<blocks, offset, entriesRead, payload, endBlocks>>

ArchiveNext == ReadZero \/ ReadEntry \/ ConcludeArchive

ArchiveSpec == ArchiveInit /\ [][ArchiveNext]_archiveVars

-----------------------------------------------------------------------------
ArchiveTypeOK ==
  /\ blocks \in Archives /\ offset \in 0 .. Len(blocks) /\ endBlocks \in 0 .. 2
  /\ entriesRead \in 0 .. MaxFiles /\ payload \in 0 .. MaxBytes
  /\ verdict \in {"reading", "accepted", "thrown"}

(* The format, without a reader: headers whose payloads tile the archive up to *)
(* its end, which is two zero blocks or more.                                  *)
BlocksOf(size) == CHOOSE n \in 0 .. size : n * BlockSize >= size /\ (n = 0 \/ (n - 1) * BlockSize < size)

Tiles(heads, end) ==
  \A k \in 1 .. end :
    Cardinality({h \in heads : h <= k /\ k <= h + BlocksOf(blocks[h].size)}) = 1

LaidOut(end, heads) ==
  /\ Len(blocks) - end >= 2
  /\ \A k \in end + 1 .. Len(blocks) : blocks[k].type = "zero"
  /\ \A h \in heads : /\ blocks[h].type \in {"file", "directory"}
                      /\ blocks[h].type = "directory" => blocks[h].size = 0
                      /\ h + BlocksOf(blocks[h].size) <= end
  /\ Tiles(heads, end)
  /\ Cardinality(heads) <= MaxFiles
  /\ SumFunction([h \in heads |-> blocks[h].size]) <= MaxBytes

Conforms == \E end \in 0 .. Len(blocks) : \E heads \in SUBSET (1 .. end) : LaidOut(end, heads)

\* Exactly the archives of the format and within the limits are accepted, whatever
\* their payloads look like (validateArchiveEntries, runtime-docker/src/index.ts:911-951).
AcceptsTheFormat == verdict # "reading" => (verdict = "accepted" <=> Conforms)
=============================================================================
