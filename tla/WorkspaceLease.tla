--------------------------- MODULE WorkspaceLease ---------------------------
(* The fenced write lease of a workspace, as the table workspace_leases and  *)
(* the four transactions of SqliteRunStore implement it, seen by contenders  *)
(* (runs, possibly of several Manager processes) that keep a copy of the     *)
(* lease they were granted and may act on it long after it expired.          *)
(*                                                                           *)
(* Time is abstracted to one bit: "live" says that expires_at is in the      *)
(* future.  A renewal that succeeds moves expires_at and is a stutter here.  *)
EXTENDS Naturals

CONSTANTS
    Workspaces,   \* rows of workspace_leases
    Runs,         \* the runs that contend for them
    WorkspaceOf,  \* runs.workspace_internal_id
    NoRun,        \* owner_run_id IS NULL
    Epochs        \* the fencing tokens considered: Nat, or 0 .. n under TLC

ASSUME LeaseAssumption ==
    /\ WorkspaceOf \in [Runs -> Workspaces]
    /\ NoRun \notin Runs
    /\ Epochs \subseteq Nat
    /\ 0 \in Epochs

VARIABLES
    lease,   \* the durable row of each workspace
    held,    \* the fencing token in each contender's own copy, 0 if none
    fence    \* the token of the last mutation a workspace accepted

leaseVars == <<lease, held, fence>>

Row == [owner : Runs \cup {NoRun}, token : Epochs, live : BOOLEAN]

-----------------------------------------------------------------------------
(* What each transaction computes from the row it read.                      *)

\* Another run's unexpired lease turns the contender away.
Blocked(row, r) == row.owner # NoRun /\ row.owner # r /\ row.live

\* Mutant: taking an expired lease over continues its epoch.
GrantedSameEpoch(row, r) ==
    [owner |-> r,
     token |-> IF row.owner # NoRun THEN row.token ELSE row.token + 1,
     live  |-> TRUE]

\* Only an owner that is still live keeps its epoch.
Granted(row, r) ==
    [owner |-> r,
     token |-> IF row.owner = r /\ row.live THEN row.token ELSE row.token + 1,
     live  |-> TRUE]

Valid(row, r, t) == row.owner = r /\ row.token = t /\ row.live

\* Release asks for the owner and the token, not for an unexpired row.
Releasable(row, r, t) == row.owner = r /\ row.token = t

\* Mutant: the expiry of a released lease stays.
ReleasedUnexpired(row) == [row EXCEPT !.owner = NoRun]

\* Mutant: a released lease forgets its epoch, as if its row were deleted.
ReleasedFromZero(row) == [owner |-> NoRun, token |-> 0, live |-> FALSE]

Released(row) == [row EXCEPT !.owner = NoRun, !.live = FALSE]

-----------------------------------------------------------------------------
LeaseInit ==
    /\ lease = [w \in Workspaces |-> [owner |-> NoRun, token |-> 0, live |-> FALSE]]
    /\ held  = [r \in Runs |-> 0]
    /\ fence = [w \in Workspaces |-> 0]

\* acquireWorkspaceLease succeeds.
Acquire(r) ==
    LET w == WorkspaceOf[r] IN
    /\ ~Blocked(lease[w], r)
    /\ Granted(lease[w], r).token \in Epochs
    /\ lease' = [lease EXCEPT ![w] = Granted(@, r)]
    /\ held'  = [held EXCEPT ![r] = Granted(lease[w], r).token]
    /\ UNCHANGED fence

\* expires_at passes: a stalled or dead owner did not renew in time.
Expire(w) ==
    /\ lease[w].live
    /\ lease' = [lease EXCEPT ![w].live = FALSE]
    /\ UNCHANGED <<held, fence>>

\* releaseWorkspaceLease by a contender that still owns the row.
Release(r) ==
    LET w == WorkspaceOf[r] IN
    /\ held[r] # 0
    /\ Releasable(lease[w], r, held[r])
    /\ lease' = [lease EXCEPT ![w] = Released(@)]
    /\ held'  = [held EXCEPT ![r] = 0]
    /\ UNCHANGED fence

\* Contenders give their copies up: a release or a renewal changed no row, or
\* the process that ran them died.
Forget(gone) ==
    /\ held' = [r \in Runs |-> IF r \in gone THEN 0 ELSE held[r]]
    /\ UNCHANGED <<lease, fence>>

\* A mutation passes validateWorkspaceLease with the contender's copy.
Mutate(r) ==
    LET w == WorkspaceOf[r] IN
    /\ held[r] # 0
    /\ Valid(lease[w], r, held[r])
    /\ fence' = [fence EXCEPT ![w] = held[r]]
    /\ UNCHANGED <<lease, held>>

LeaseNext ==
    \/ \E r \in Runs : Acquire(r) \/ Release(r) \/ Mutate(r)
    \/ \E gone \in SUBSET Runs : Forget(gone)
    \/ \E w \in Workspaces : Expire(w)

LeaseSpec == LeaseInit /\ [][LeaseNext]_leaseVars

-----------------------------------------------------------------------------
(* Properties.                                                               *)

\* Every row and every copy is well formed, and a row nobody owns is not live.
LeaseTypeOK ==
    /\ lease \in [Workspaces -> Row]
    /\ held  \in [Runs -> Epochs]
    /\ fence \in [Workspaces -> Epochs]
    /\ \A w \in Workspaces : lease[w].owner = NoRun => ~lease[w].live

\* An epoch names one grant: two contenders never hold the same token of one
\* workspace, however many times leases expired, were released or were taken
\* over in between (acquireWorkspaceLease).
EpochsAreUnique ==
    \A r, s \in Runs :
        /\ WorkspaceOf[r] = WorkspaceOf[s]
        /\ held[r] # 0
        /\ held[r] = held[s]
        => r = s

\* The tokens of accepted mutations never go back: once a newer owner has
\* written, a woken stale writer is rejected (validateWorkspaceLease).
FenceRises == \A w \in Workspaces : fence'[w] >= fence[w]

FencingIsMonotone == [][FenceRises]_leaseVars

\* A workspace never changes hands under the same epoch: a new owner always
\* starts a strictly newer one (acquireWorkspaceLease).
OwnersDiffer ==
    \A w \in Workspaces :
        /\ lease'[w].owner # lease[w].owner
        /\ lease'[w].owner # NoRun
        => lease'[w].token > lease[w].token

NewOwnerNewEpoch == [][OwnersDiffer]_leaseVars

\* What the fencing tokens are for: an epoch names one grant, a new owner starts a
\* newer one, and what its token has written no older token writes over.
GrantsAreFenced == [][EpochsAreUnique' /\ FenceRises /\ OwnersDiffer]_leaseVars
=============================================================================
