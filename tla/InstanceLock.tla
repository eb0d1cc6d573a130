----------------------------- MODULE InstanceLock -----------------------------
(* ManagerInstanceLock: Managers that start at the same time on one data      *)
(* directory, the directory manager.lock with its owner.json, and the Unix    *)
(* socket.  An action is what happens up to the next await.                   *)
EXTENDS Naturals, FiniteSets

CONSTANTS Managers, Dead, NoOwner  \* Dead is a Manager that died before

VARIABLES
  lockDir,  \* [exists, owner, fresh]; fresh: younger than 30 seconds
  socket,   \* NoOwner, or who bound the socket file
  stage,    \* where each Manager is
  seen,     \* the owner it has read
  tries     \* attempts of acquire it has made

instanceVars == <<lockDir, socket, stage, seen, tries>>

Steps == {"new", "mkdir", "own", "endpoint", "unlink", "held", "serving",
          "read", "probe", "check", "reclaim", "gone"}
Free == [exists |-> FALSE, owner |-> NoOwner, fresh |-> FALSE]

\* Nothing is there, or what a Manager that died has left.
InstanceInit ==
  /\ \/ lockDir = Free /\ socket = NoOwner
     \/ lockDir = [exists |-> TRUE, owner |-> Dead, fresh |-> FALSE] /\ socket \in {NoOwner, Dead}
  /\ stage = [m \in Managers |-> "new"] /\ seen = [m \in Managers |-> NoOwner]
  /\ tries = [m \in Managers |-> 0]

Running(m) == m \in Managers /\ stage[m] \notin {"new", "gone"}
\* probeManagerEndpoint
Answers == socket \in Managers /\ stage[socket] = "serving"
GoTo(m, s) == stage' = [stage EXCEPT ![m] = s]

\* mkdir of the lock; four attempts.
MakeLock(m) ==
  /\ stage[m] \in {"new", "mkdir"}
  /\ IF tries[m] = 4 THEN GoTo(m, "gone") /\ UNCHANGED <<lockDir, tries>>
     ELSE /\ tries' = [tries EXCEPT ![m] = @ + 1]
          /\ IF lockDir.exists THEN GoTo(m, "read") /\ UNCHANGED lockDir
             ELSE GoTo(m, "own") /\ lockDir' = [exists |-> TRUE, owner |-> NoOwner, fresh |-> TRUE]
  /\ UNCHANGED <<socket, seen>>

\* open(owner.json, "wx"): a lock that somebody removed, or owns by now, is not
\* this one's.
WriteOwner(m) ==
  /\ stage[m] = "own"
  /\ IF lockDir.exists /\ lockDir.owner = NoOwner
     THEN lockDir' = [lockDir EXCEPT !.owner = m] /\ GoTo(m, "endpoint")
     ELSE UNCHANGED lockDir /\ GoTo(m, IF lockDir.exists THEN "read" ELSE "gone")
  /\ UNCHANGED <<socket, seen, tries>>

\* #prepareEndpoint, then startup.
PrepareEndpoint(m) ==
  /\ stage[m] = "endpoint"
  /\ IF Answers
     THEN /\ GoTo(m, "gone")
          /\ lockDir' = IF lockDir.owner = m THEN Free ELSE lockDir
     ELSE /\ GoTo(m, IF socket = NoOwner THEN "held" ELSE "unlink")
          /\ UNCHANGED lockDir
  /\ UNCHANGED <<socket, seen, tries>>

UnlinkEndpoint(m) ==
  /\ stage[m] = "unlink" /\ socket' = NoOwner /\ GoTo(m, "held")
  /\ UNCHANGED <<lockDir, seen, tries>>

\* The server binds the socket; an address in use ends the Manager.
ListenOnSocket(m) ==
  /\ stage[m] = "held"
  /\ IF socket = NoOwner THEN socket' = m /\ GoTo(m, "serving")
     ELSE UNCHANGED socket /\ GoTo(m, "gone")
  /\ UNCHANGED <<lockDir, seen, tries>>

ReadOwner(m) ==
  /\ stage[m] = "read"
  /\ seen' = [seen EXCEPT ![m] = lockDir.owner] /\ GoTo(m, "probe")
  /\ UNCHANGED <<lockDir, socket, tries>>

\* The endpoint and the process of the owner.
ProbeOwner(m) ==
  /\ stage[m] = "probe"
  /\ GoTo(m, IF Answers \/ Running(seen[m]) THEN "gone" ELSE "check")
  /\ UNCHANGED <<lockDir, socket, seen, tries>>

\* lstat: a lock that is gone is an error, one without an owner must be old.
CheckAge(m) ==
  /\ stage[m] = "check"
  /\ GoTo(m, IF lockDir.exists /\ (seen[m] = NoOwner => ~lockDir.fresh) THEN "reclaim" ELSE "gone")
  /\ UNCHANGED <<lockDir, socket, seen, tries>>

\* rm of whatever is there by now.
ReclaimLock(m) ==
  /\ stage[m] = "reclaim" /\ lockDir' = Free /\ GoTo(m, "mkdir")
  /\ UNCHANGED <<socket, seen, tries>>

LockAges ==
  /\ lockDir.fresh /\ lockDir' = [lockDir EXCEPT !.fresh = FALSE]
  /\ UNCHANGED <<socket, stage, seen, tries>>

\* release: it removes the lock and its endpoint only while the lock is its own.
ReleaseLock(m) ==
  /\ stage[m] = "serving" /\ GoTo(m, "gone")
  /\ IF lockDir.owner = m THEN lockDir' = Free /\ socket' = NoOwner
     ELSE UNCHANGED lockDir /\ socket' = IF socket = m THEN Dead ELSE socket
  /\ UNCHANGED <<seen, tries>>

ManagerCrashes(m) ==
  /\ Running(m) /\ GoTo(m, "gone") /\ UNCHANGED <<lockDir, socket, seen, tries>>

InstanceNext ==
  \/ \E m \in Managers :
       \/ MakeLock(m) \/ WriteOwner(m) \/ PrepareEndpoint(m) \/ UnlinkEndpoint(m) \/ ListenOnSocket(m)
       \/ ReadOwner(m) \/ ProbeOwner(m) \/ CheckAge(m) \/ ReclaimLock(m)
       \/ ReleaseLock(m) \/ ManagerCrashes(m)
  \/ LockAges

InstanceSpec == InstanceInit /\ [][InstanceNext]_instanceVars

\* Managers that do not stall: no lock gets old while its owner is written.
PromptNext == InstanceNext /\ (lockDir.fresh => lockDir'.fresh \/ lockDir' = Free)

PromptSpec == InstanceInit /\ [][PromptNext]_instanceVars

\* docs/OPERATIONS.md:13-14, "Manager holds <data-dir>/manager.lock, refuses a
\* live owner, reclaims only a proven dead owner": no two Managers hold it.
OneManager == Cardinality({m \in Managers : stage[m] \in {"held", "serving"}}) <= 1
=============================================================================
