--------------------------- MODULE CredentialStore ---------------------------
(* The secrets of an installation, each under its key: in a file that          *)
(* processes share under a lock file, which is the recovery envelope of        *)
(* EncryptedFileSecretStore or the Windows index of OsSecretStore, or in the   *)
(* keychain of another operating system.  The files differ in how a lock goes  *)
(* stale and in what is read without the file.                                 *)
EXTENDS Naturals, FiniteSets

CONSTANTS
  SecretKeys,
  Processes,
  Unlocked,   \* the lock file does not exist
  NoFile,
  MaxSecrets, \* bound on the values that are created
  MaxFaults   \* bound on crashes and failed commands and renames

ASSUME CredentialAssumption ==
  /\ Unlocked \notin Processes /\ IsFiniteSet(Processes)
  /\ SecretKeys # {} /\ MaxSecrets \in Nat /\ MaxFaults \in Nat
  /\ NoFile \notin [SecretKeys -> Nat]

VARIABLES
  kind,    \* "windows", "recovery" or "keychain"
  users,   \* the processes that use the store
  at,      \* where the operation of a process is: see CredentialSteps
  verb,    \* it: see Verbs
  wanted,  \* its key
  values,  \* what it has read and changed
  file,    \* the file, its backup; the keychain is a file that is always there
  spare,
  lockOf,  \* whose lock file there is
  marks,   \* of it: "named" holds the pid, "old" is 30 s old, "orphan" has a dead owner
  secrets, \* values created so far
  truth,    \* what the last change of each key has left
  wrong,   \* a caller was told something else, or created over a value
  faults,
  slow,    \* a lock became old in the hands of a live owner
  cut      \* a write ended while the file was aside

fileVars == <<file, spare, secrets>>
lockVars == <<lockOf, marks, slow>>
callVars == <<verb, wanted, values>>
toldVars == <<truth, wrong>>
credentialVars == <<kind, users, at, callVars, fileVars, lockVars, toldVars, faults, cut>>

CredentialSteps == {"idle", "waiting", "removing", "opened", "locked", "read", "dropped",
                    "aside", "placed", "told"}
Verbs == {"get", "getOrCreate", "set", "delete"}
Empty == [k \in SecretKeys |-> 0]
AnyKey == CHOOSE k \in SecretKeys : TRUE

CredentialInit ==
  /\ kind \in {"windows", "recovery", "keychain"} /\ users \in SUBSET Processes \ {{}}
  /\ at = [p \in Processes |-> "idle"] /\ values = [p \in Processes |-> Empty]
  /\ verb = [p \in Processes |-> "get"] /\ wanted = [p \in Processes |-> AnyKey]
  /\ file = (IF kind = "keychain" THEN Empty ELSE NoFile) /\ spare = NoFile /\ secrets = 0
  /\ lockOf = Unlocked /\ marks = {} /\ slow = FALSE
  /\ truth = Empty /\ wrong = FALSE /\ faults = 0
  /\ cut = FALSE

Step(p, from, to) == at[p] = from /\ at' = [at EXCEPT ![p] = to]

\* The call is over.
Forgotten(p) ==
  /\ verb' = [verb EXCEPT ![p] = "get"] /\ wanted' = [wanted EXCEPT ![p] = AnyKey]
  /\ values' = [values EXCEPT ![p] = Empty]

KeyChanged(p, v) ==
  /\ truth' = [truth EXCEPT ![wanted[p]] = v]
  /\ wrong' = (wrong \/ (verb[p] = "getOrCreate" /\ truth[wanted[p]] # 0))

Fault == faults < MaxFaults /\ faults' = faults + 1
Cut(p) == cut' = (cut \/ (at[p] = "aside" /\ file' = NoFile))

-----------------------------------------------------------------------------
(* The lock                                                                   *)

Called(p) ==
  /\ Step(p, "idle", IF kind = "keychain" THEN "locked" ELSE "waiting")
  /\ \E k \in SecretKeys : wanted' = [wanted EXCEPT ![p] = k]
  /\ \E v \in Verbs : verb' = [verb EXCEPT ![p] = v]
  /\ UNCHANGED <<values, fileVars, lockVars, toldVars, faults, cut>>

OpenLock(p) ==
  /\ Step(p, "waiting", "opened") /\ lockOf = Unlocked
  /\ lockOf' = p /\ marks' = {}
  /\ UNCHANGED <<callVars, fileVars, slow, toldVars, faults, cut>>

NameLock(p) ==
  /\ Step(p, "opened", "locked")
  /\ marks' = IF lockOf = p THEN marks \cup {"named"} ELSE marks
  /\ UNCHANGED <<callVars, fileVars, lockOf, slow, toldVars, faults, cut>>

\* Windows spares the old lock of a process that lives.
FindStale(p) ==
  /\ Step(p, "waiting", "removing") /\ lockOf # Unlocked /\ "old" \in marks
  /\ kind = "windows" => "named" \notin marks \/ "orphan" \in marks
  /\ UNCHANGED <<callVars, fileVars, lockVars, toldVars, faults, cut>>

\* rm of the path, whatever lock is there by now.
RemoveStale(p) ==
  /\ Step(p, "removing", "waiting") /\ lockOf' = Unlocked /\ marks' = {}
  /\ UNCHANGED <<callVars, fileVars, slow, toldVars, faults, cut>>

LockTimesOut(p) ==
  /\ Step(p, "waiting", "idle") /\ lockOf # Unlocked /\ Forgotten(p)
  /\ UNCHANGED <<fileVars, lockVars, toldVars, faults, cut>>

SecretLockAges ==
  /\ lockOf # Unlocked /\ "old" \notin marks /\ marks' = marks \cup {"old"}
  /\ slow' = (slow \/ "orphan" \notin marks)
  /\ UNCHANGED <<at, callVars, fileVars, lockOf, toldVars, faults, cut>>

\* The end of the operation.
Unlock(p) ==
  /\ Step(p, "told", "idle") /\ lockOf' = Unlocked /\ marks' = {} /\ Forgotten(p)
  /\ UNCHANGED <<fileVars, slow, toldVars, faults, cut>>

-----------------------------------------------------------------------------
(* What the operations read                                                   *)

\* Mutant: a missing file is an empty one.
ReadPathOnly == IF file # NoFile THEN file ELSE Empty

\* The Windows index reads the backup of a missing file.
OnDisk ==
  IF file # NoFile THEN file
  ELSE IF kind = "windows" /\ spare # NoFile THEN spare ELSE Empty

\* The operation ends here, without a write.
Answered(p, v) ==
  /\ Step(p, "locked", "told") /\ wrong' = (wrong \/ v # truth[wanted[p]])
  /\ UNCHANGED <<values, secrets, truth>>

WriteNext(p, v) ==
  /\ Step(p, "locked", "read") /\ UNCHANGED toldVars
  /\ values' = [values EXCEPT ![p] = [OnDisk EXCEPT ![wanted[p]] = v]]

WriteNew(p) == secrets < MaxSecrets /\ secrets' = secrets + 1 /\ WriteNext(p, secrets')

GetSecret(p, v) == verb[p] = "get" /\ Answered(p, v)

GetOrCreate(p, v) ==
  verb[p] = "getOrCreate" /\ IF v # 0 THEN Answered(p, v) ELSE WriteNew(p)

SetSecret(p) == verb[p] = "set" /\ WriteNew(p)

DeleteSecret(p, v) ==
  /\ verb[p] = "delete"
  /\ IF v = 0 THEN Answered(p, 0) ELSE WriteNext(p, 0) /\ UNCHANGED secrets

Read(p) ==
  /\ LET v == OnDisk[wanted[p]]
     IN  GetSecret(p, v) \/ GetOrCreate(p, v) \/ SetSecret(p) \/ DeleteSecret(p, v)
  /\ UNCHANGED <<verb, wanted, file, spare, lockVars, faults, cut>>

Planned(p) == values[p][wanted[p]]
InKeychain(p) == file' = [file EXCEPT ![wanted[p]] = Planned(p)] /\ KeyChanged(p, Planned(p))

\* security and secret-tool change one key of the keychain.
KeychainChanges(p) ==
  /\ kind = "keychain" /\ Step(p, "read", "told") /\ InKeychain(p)
  /\ UNCHANGED <<callVars, spare, secrets, lockVars, faults, cut>>

\* The command that encrypts, or that changes the keychain, fails or is aborted.
CommandFails(p) ==
  /\ Step(p, "read", "told") /\ Fault
  /\ \/ /\ kind = "keychain" \/ (kind = "windows" /\ verb[p] # "delete")
        /\ UNCHANGED <<file, toldVars>>
     \/ kind = "keychain" /\ InKeychain(p)
  /\ UNCHANGED <<callVars, spare, secrets, lockVars, cut>>

-----------------------------------------------------------------------------
(* The write of the file                                                      *)

\* The temporary file is written and the backup of an earlier write removed.
DropSpare(p) ==
  /\ kind # "keychain" /\ Step(p, "read", "dropped") /\ spare' = NoFile
  /\ UNCHANGED <<callVars, file, secrets, lockVars, toldVars, faults, cut>>

MoveAside(p) ==
  /\ Step(p, "dropped", "aside") /\ file' = NoFile
  /\ spare' = IF file # NoFile THEN file ELSE spare
  /\ UNCHANGED <<callVars, secrets, lockVars, toldVars, faults, cut>>

MoveIn(p) ==
  /\ Step(p, "aside", "placed") /\ file' = values[p] /\ KeyChanged(p, Planned(p))
  /\ UNCHANGED <<callVars, spare, secrets, lockVars, faults, cut>>

Succeed(p) ==
  /\ Step(p, "placed", "told") /\ spare' = NoFile
  /\ UNCHANGED <<callVars, file, secrets, lockVars, toldVars, faults, cut>>

\* The rename fails, or the removal of the backup: the backup is moved back, unless that
\* fails too.
WriteFails(p) ==
  /\ at[p] \in {"aside", "placed"} /\ Step(p, at[p], "told") /\ Fault
  /\ \/ /\ spare # NoFile /\ file' = spare /\ spare' = NoFile
        /\ truth' = IF at[p] = "aside" THEN truth
                   ELSE [truth EXCEPT ![wanted[p]] = spare[wanted[p]]]
     \/ (at[p] = "placed" => spare # NoFile) /\ UNCHANGED <<file, spare, truth>>
  /\ Cut(p) /\ UNCHANGED <<callVars, secrets, lockVars, wrong>>

ProcessDies(p) ==
  /\ at[p] # "idle" /\ at' = [at EXCEPT ![p] = "idle"] /\ Forgotten(p) /\ Fault
  /\ marks' = IF lockOf = p THEN marks \cup {"orphan"} ELSE marks
  /\ UNCHANGED <<fileVars, lockOf, slow, toldVars>> /\ Cut(p)

CredentialStep(p) ==
  \/ Called(p) \/ OpenLock(p) \/ NameLock(p) \/ FindStale(p) \/ RemoveStale(p)
  \/ LockTimesOut(p) \/ Unlock(p) \/ Read(p) \/ CommandFails(p) \/ KeychainChanges(p)
  \/ DropSpare(p) \/ MoveAside(p) \/ MoveIn(p) \/ WriteFails(p) \/ Succeed(p) \/ ProcessDies(p)

CredentialNext ==
  /\ (\E p \in users : CredentialStep(p)) \/ SecretLockAges
  /\ UNCHANGED <<kind, users>>

CredentialSpec == CredentialInit /\ [][CredentialNext]_credentialVars

-----------------------------------------------------------------------------
(* Properties                                                                 *)

Contents == [SecretKeys -> 0..MaxSecrets] \cup {NoFile}

CredentialTypeOK ==
  /\ at \in [Processes -> CredentialSteps] /\ wanted \in [Processes -> SecretKeys]
  /\ verb \in [Processes -> Verbs]
  /\ {file, spare} \subseteq Contents /\ \A p \in Processes : values[p] \in Contents
  /\ lockOf \in Processes \cup {Unlocked} /\ marks \subseteq {"named", "old", "orphan"}
  /\ truth \in [SecretKeys -> 0..MaxSecrets] /\ faults \in 0..MaxFaults

\* getOrCreate, get, set, delete: every caller is told what the last change of the key has
\* left, and none creates over it: among processes that share a file and do not fail, and,
\* but for the recovery envelope, also when the only one fails or dies in the middle of a
\* write.  A keychain has no lock between its processes.
KeysSurvive ==
  \/ kind # "keychain" /\ faults = 0 /\ ~slow
  \/ kind # "recovery" /\ Cardinality(users) = 1 /\ faults <= 1
  => ~wrong

\* "an explicit encrypted recovery envelope without ... lost concurrent updates"
RecoveryLosesNoUpdate == kind = "recovery" /\ ~slow /\ ~cut => ~wrong
=============================================================================
