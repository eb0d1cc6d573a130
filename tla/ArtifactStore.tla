---------------------------- MODULE ArtifactStore ----------------------------
(* LocalArtifactStore: a file of a workspace, or a download that the browser  *)
(* may still be writing, becomes a row and an encrypted blob, and comes back   *)
(* as a file.  Reads of a file that is rewritten meanwhile are torn: a        *)
(* content is the pair of versions of its halves, and a digest stands for the *)
(* content; the size is checked with it.  Code without an await is cut only   *)
(* by a crash.                                                                *)
EXTENDS Naturals

CONSTANTS
  Artifacts,    \* ids, each published once
  MaxRewrites,  \* of the source, for the bound
  Gone, Part, Spoilt   \* no file; a file cut short; one that the disk spoilt

Pairs == (0 .. MaxRewrites) \X (0 .. MaxRewrites)

ASSUME ArtifactAssumption ==
  /\ MaxRewrites \in Nat
  /\ Gone \notin Pairs /\ Part \notin Pairs /\ Spoilt \notin Pairs
  /\ Gone # Part /\ Gone # Spoilt /\ Part # Spoilt

VARIABLES
  source,   \* version of the source file
  others,   \* versions written by another run
  moved,    \* the lease of the workspace went to another run
  publish,  \* where the publication of an artifact is
  fenced,   \* artifacts that artifact_publish reads from the workspace
  half,     \* the version of the half that is read
  claim,    \* the digest that its record claims
  draft, blob,   \* the staging file and the blob
  listed,    \* its row, once committed
  copy,     \* the file at the destination
  copying,  \* artifacts that are being materialized
  serving, crashed   \* the Manager runs; it crashed before

artifactVars == <<source, others, moved, publish, fenced, half, claim, draft, blob, listed, copy,
                  copying, serving, crashed>>
placeVars == <<blob, listed, copy, copying>>
worldVars == <<source, others, moved, serving, crashed>>
readVars == <<fenced, half, claim>>

\* The code from the staged file to COMMIT has no await.
Synchronous == {"staged", "inserted", "promoted"}
Reaches(a, at) == serving /\ publish[a] = at /\ \A b \in Artifacts \ {a} : publish[b] \notin Synchronous
Quiet == serving /\ \A b \in Artifacts : publish[b] \notin Synchronous

ArtifactInit ==
  /\ source = 0 /\ others = {} /\ moved = FALSE
  /\ publish = [a \in Artifacts |-> "none"] /\ half = [a \in Artifacts |-> 0]
  /\ claim = [a \in Artifacts |-> <<0, 0>>]
  /\ draft = [a \in Artifacts |-> Gone] /\ blob = [a \in Artifacts |-> Gone]
  /\ listed = [a \in Artifacts |-> Gone] /\ copy = [a \in Artifacts |-> Gone]
  /\ fenced = {} /\ copying = {} /\ serving = TRUE /\ crashed = FALSE

-----------------------------------------------------------------------------
(* publishFromFile: the file is read twice                                    *)

BeginDigest(a) ==
  /\ Reaches(a, "none") /\ publish' = [publish EXCEPT ![a] = "hashing"]
  /\ half' = [half EXCEPT ![a] = source]
  /\ UNCHANGED <<fenced, claim, draft, placeVars, worldVars>>

EndDigest(a) ==
  /\ Reaches(a, "hashing") /\ publish' = [publish EXCEPT ![a] = "streaming"]
  /\ claim' = [claim EXCEPT ![a] = <<half[a], source>>]
  /\ half' = [half EXCEPT ![a] = source] /\ draft' = [draft EXCEPT ![a] = Part]
  /\ UNCHANGED <<fenced, placeVars, worldVars>>

\* Mutant: the second reading is trusted.
Trusted(c, content) == TRUE

Verified(c, content) == content = c

EndStream(a) ==
  /\ Reaches(a, "streaming") /\ UNCHANGED <<readVars, placeVars, worldVars>>
  /\ LET content == <<half[a], source>> IN
     \/ /\ Verified(claim[a], content)
        /\ draft' = [draft EXCEPT ![a] = content] /\ publish' = [publish EXCEPT ![a] = "staged"]
     \/ draft' = [draft EXCEPT ![a] = Gone] /\ publish' = [publish EXCEPT ![a] = "over"]

-----------------------------------------------------------------------------
(* publish, of a workspace file that is read under the fence of the run       *)

BeginRead(a) ==
  /\ Reaches(a, "none") /\ ~moved /\ publish' = [publish EXCEPT ![a] = "reading"]
  /\ half' = [half EXCEPT ![a] = source] /\ fenced' = fenced \cup {a}
  /\ UNCHANGED <<claim, draft, placeVars, worldVars>>

\* Mutant: the fence is not checked again.
FenceAssumed == TRUE

FenceHolds == ~moved

\* A write of the staging file that fails leaves what it wrote.
EndRead(a) ==
  /\ Reaches(a, "reading") /\ UNCHANGED <<fenced, half, placeVars, worldVars>>
  /\ LET content == <<half[a], source>> IN
     \/ /\ FenceHolds /\ claim' = [claim EXCEPT ![a] = content]
        /\ draft' = [draft EXCEPT ![a] = content] /\ publish' = [publish EXCEPT ![a] = "staged"]
     \/ /\ publish' = [publish EXCEPT ![a] = "over"] /\ UNCHANGED claim
        /\ \/ UNCHANGED draft
           \/ FenceHolds /\ draft' = [draft EXCEPT ![a] = Part]

-----------------------------------------------------------------------------
(* BEGIN IMMEDIATE, INSERT, rename, COMMIT                                    *)

InsertRow(a) ==
  /\ Reaches(a, "staged") /\ publish' = [publish EXCEPT ![a] = "inserted"]
  /\ UNCHANGED <<readVars, draft, placeVars, worldVars>>

Promote(a) ==
  /\ Reaches(a, "inserted") /\ publish' = [publish EXCEPT ![a] = "promoted"]
  /\ blob' = [blob EXCEPT ![a] = draft[a]] /\ draft' = [draft EXCEPT ![a] = Gone]
  /\ UNCHANGED <<readVars, listed, copy, copying, worldVars>>

\* Mutant: COMMIT, then the rename.
CommittedFirst(a) == Reaches(a, "inserted")

Committable(a) == Reaches(a, "promoted")

Commit(a) ==
  /\ Committable(a) /\ listed' = [listed EXCEPT ![a] = claim[a]]
  /\ publish' = [publish EXCEPT ![a] = "over"]
  /\ UNCHANGED <<readVars, draft, blob, copy, copying, worldVars>>

\* Mutant: the blob stays.
Kept(a) == blob

Withdrawn(a) == [blob EXCEPT ![a] = Gone]

PublishFails(a) ==
  /\ \E at \in Synchronous : Reaches(a, at)
  /\ publish' = [publish EXCEPT ![a] = "over"] /\ draft' = [draft EXCEPT ![a] = Gone]
  /\ blob' = IF publish[a] = "promoted" THEN Withdrawn(a) ELSE blob
  /\ UNCHANGED <<readVars, listed, copy, copying, worldVars>>

-----------------------------------------------------------------------------
(* materializeToFile, into a new path, and get                                *)

BeginMaterialize(a) ==
  /\ Quiet /\ listed[a] # Gone /\ copy[a] = Gone /\ a \notin copying
  /\ copying' = copying \cup {a} /\ copy' = [copy EXCEPT ![a] = Part]
  /\ UNCHANGED <<publish, readVars, draft, blob, listed, worldVars>>

\* Mutant: what fails its check is left where it is.
LeftThere(a) == IF blob[a] = listed[a] THEN blob[a] ELSE Part

Checked(a) == IF blob[a] = listed[a] THEN blob[a] ELSE Gone

EndMaterialize(a) ==
  /\ Quiet /\ a \in copying /\ copying' = copying \ {a}
  /\ copy' \in {[copy EXCEPT ![a] = Checked(a)], [copy EXCEPT ![a] = Gone]}
  /\ UNCHANGED <<publish, readVars, draft, blob, listed, worldVars>>

Get(a) ==
  /\ Quiet /\ listed[a] # Gone /\ copy[a] = Gone /\ a \notin copying
  /\ copy' = [copy EXCEPT ![a] = Checked(a)]
  /\ UNCHANGED <<publish, readVars, draft, blob, listed, copying, worldVars>>

-----------------------------------------------------------------------------
(* The browser or the processes of the workspace, the disk, the Manager       *)

Rewrite ==
  /\ source < MaxRewrites /\ source' = source + 1
  /\ others' = IF moved THEN others \cup {source'} ELSE others
  /\ UNCHANGED <<publish, readVars, draft, placeVars, moved, serving, crashed>>

LoseLease ==
  /\ serving /\ ~moved /\ moved' = TRUE
  /\ UNCHANGED <<publish, readVars, draft, placeVars, source, others, serving, crashed>>

BlobSpoils(a) ==
  /\ blob[a] \in Pairs /\ blob' = [blob EXCEPT ![a] = Spoilt]
  /\ UNCHANGED <<publish, readVars, draft, listed, copy, copying, worldVars>>

\* SQLite rolls back what was not committed; what was read is gone.
StoreCrashes ==
  /\ serving /\ serving' = FALSE /\ crashed' = TRUE /\ copying' = {}
  /\ publish' = [a \in Artifacts |-> IF publish[a] = "none" THEN "none" ELSE "over"]
  /\ UNCHANGED <<source, others, moved, readVars, draft, blob, listed, copy>>

StoreRestarts ==
  /\ ~serving /\ serving' = TRUE
  /\ UNCHANGED <<source, others, moved, crashed, publish, readVars, draft, placeVars>>

ArtifactNext ==
  \/ \E a \in Artifacts :
       \/ BeginDigest(a) \/ EndDigest(a) \/ EndStream(a) \/ BeginRead(a) \/ EndRead(a)
       \/ InsertRow(a) \/ Promote(a) \/ Commit(a) \/ PublishFails(a)
       \/ BeginMaterialize(a) \/ EndMaterialize(a) \/ Get(a) \/ BlobSpoils(a)
  \/ Rewrite \/ LoseLease \/ StoreCrashes \/ StoreRestarts

ArtifactSpec == ArtifactInit /\ [][ArtifactNext]_artifactVars

-----------------------------------------------------------------------------
(* Properties *)

ArtifactTypeOK ==
  /\ source \in 0 .. MaxRewrites /\ others \subseteq 0 .. MaxRewrites
  /\ moved \in BOOLEAN /\ serving \in BOOLEAN /\ crashed \in BOOLEAN
  /\ publish \in [Artifacts -> {"none", "hashing", "streaming", "reading", "over"} \cup Synchronous]
  /\ fenced \subseteq Artifacts /\ half \in [Artifacts -> 0 .. MaxRewrites] /\ claim \in [Artifacts -> Pairs]
  /\ draft \in [Artifacts -> Pairs \cup {Gone, Part}]
  /\ blob \in [Artifacts -> Pairs \cup {Gone, Spoilt}]
  /\ listed \in [Artifacts -> Pairs \cup {Gone}]
  /\ copy \in [Artifacts -> Pairs \cup {Gone, Part}] /\ copying \subseteq Artifacts

\* Wherever a crash falls, a row has the blob that it claims, unless the disk spoilt it:
\* a source that changes while it is read is refused.
RowsHaveTheirBlobs ==
  \A a \in Artifacts : listed[a] # Gone => blob[a] \in {listed[a], Spoilt}

\* Without a crash, a blob whose publication failed is gone again.
FailuresLeaveNoBlob ==
  ~crashed => \A a \in Artifacts : publish[a] = "over" /\ listed[a] = Gone => blob[a] = Gone

\* What is handed out is what was published; a file cut short is seen only while it is
\* written, or after a crash.
CopiesAreWhole ==
  \A a \in Artifacts :
    copy[a] # Gone =>
      \/ listed[a] # Gone /\ copy[a] = listed[a]
      \/ copy[a] = Part /\ (a \in copying \/ crashed)

\* Nothing that another run wrote, while the lease moved on, is published by this one.
PublishedUnderFence ==
  \A a \in fenced : listed[a] # Gone => {listed[a][1], listed[a][2]} \cap others = {}

\* The store as a whole: rows, blobs and copies agree through failures and crashes.
ArtifactsAreSound ==
  RowsHaveTheirBlobs /\ FailuresLeaveNoBlob /\ CopiesAreWhole /\ PublishedUnderFence
=============================================================================
