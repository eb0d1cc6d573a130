----------------------------- MODULE Approvals -----------------------------
(* The approval of a tool call: #approveToolIfRequired with its timer and its *)
(* abort listener, resolveApproval of the client, the row of approvals, and   *)
(* #assertApprovalExecutable right before the call.  One call is enough: an   *)
(* approval and its waiter belong to one call.  Node runs each step below     *)
(* without interruption; the store commits its part in one transaction.       *)
EXTENDS Naturals

CONSTANT MaxGeneration  \* bound on changes of profile and route

ASSUME ApprovalAssumption == MaxGeneration \in Nat

VARIABLES
  approval,   \* approvals.status, or "none"
  asked,      \* generation of profile and route in the execution digest
  generation, \* that of the rows now
  lapsed,     \* expires_at has passed
  waiter,     \* #approvalWaiters has the call
  callPc,     \* the agent: "idle", "waiting", "granted", "denied", "executed"
  runOpen,    \* the run has no terminal status
  aborting,   \* signal.aborted
  answers,    \* approval.resolved events of the run
  consent     \* history: the generation the client said yes to, or NoConsent

row == <<approval, asked, answers>>
memory == <<waiter, callPc, aborting>>
approvalVars == <<row, generation, lapsed, memory, runOpen, consent>>

NoConsent == MaxGeneration + 1

ApprovalInit ==
  /\ approval = "none" /\ asked = 0 /\ generation = 0 /\ lapsed = FALSE
  /\ waiter = FALSE /\ callPc = "idle" /\ runOpen = TRUE /\ aborting = FALSE
  /\ answers = 0 /\ consent = NoConsent

-----------------------------------------------------------------------------
(* resolveApprovalAndAppendEvent                                              *)

\* The update counts only for a pending row of an open run, and an approval only
\* before it expires; the event is in the same transaction.
Resolvable(status) == approval = "PENDING" /\ runOpen /\ (status = "APPROVED" => ~lapsed)

Resolve(status) ==
  IF Resolvable(status)
  THEN approval' = status /\ answers' = answers + 1
  ELSE UNCHANGED <<approval, answers>>

\* The promise of the call settles, once; timer and listener go.
SettleCall(granted) ==
  /\ waiter' = FALSE
  /\ callPc' = IF waiter THEN (IF granted THEN "granted" ELSE "denied") ELSE callPc

-----------------------------------------------------------------------------
(* The agent                                                                  *)

RequestApproval ==
  /\ callPc = "idle" /\ runOpen /\ ~aborting
  /\ approval' = "PENDING" /\ asked' = generation
  /\ waiter' = TRUE /\ callPc' = "waiting"
  /\ UNCHANGED <<answers, generation, lapsed, aborting, runOpen, consent>>

\* The timer was set after expires_at was computed: it fires later.
ApprovalTimesOut ==
  /\ waiter /\ lapsed
  /\ Resolve("EXPIRED") /\ SettleCall(FALSE)
  /\ UNCHANGED <<asked, generation, lapsed, aborting, runOpen, consent>>

AbortApproval ==
  /\ ~aborting /\ runOpen /\ aborting' = TRUE
  /\ IF waiter THEN Resolve("DENIED") /\ SettleCall(FALSE)
     ELSE UNCHANGED <<approval, answers, waiter, callPc>>
  /\ UNCHANGED <<asked, generation, lapsed, runOpen, consent>>

\* Mutant: the row is trusted.
ExecutableByRow == approval = "APPROVED"

\* #assertApprovalExecutable
Executable == approval = "APPROVED" /\ ~lapsed /\ asked = generation

\* The last check and the start of the call are one synchronous step.
ExecuteApproved ==
  /\ callPc = "granted"
  /\ callPc' = IF Executable THEN "executed" ELSE "denied"
  /\ UNCHANGED <<row, generation, lapsed, waiter, aborting, runOpen, consent>>

-----------------------------------------------------------------------------
(* The client                                                                 *)

\* The binding of the record is compared with the rows of now.
AnswerOf(approved) ==
  IF lapsed THEN "EXPIRED"
  ELSE IF approved /\ asked = generation THEN "APPROVED" ELSE "DENIED"

\* Mutant: the waiter is told what the client said.
ToldByClient(approved, status) == approved

\* The waiter is told what the row says after the commit.
Told(approved, status) == status = "APPROVED" /\ Resolvable(status)

\* The answer is computed, then committed: the approval may expire in between,
\* and is then resolved as expired.  An answer for a run that ended changes
\* nothing and is answered as pending.
ResolveApproval(approved, late) ==
  /\ approval = "PENDING"
  /\ late => ~lapsed /\ AnswerOf(approved) = "APPROVED"
  /\ LET status == IF late THEN "EXPIRED" ELSE AnswerOf(approved)
     IN /\ Resolve(status)
        /\ SettleCall(Told(approved, status))
        /\ consent' = IF approved /\ Resolvable(status) THEN generation ELSE consent
  /\ lapsed' = (lapsed \/ late)
  /\ UNCHANGED <<asked, generation, aborting, runOpen>>

-----------------------------------------------------------------------------
(* Around the call                                                            *)

ApprovalLapses ==
  /\ ~lapsed /\ approval # "none" /\ lapsed' = TRUE
  /\ UNCHANGED <<row, generation, memory, runOpen, consent>>

\* createAgentProfile raises the version; a changed route has another digest.
PolicyChanges ==
  /\ generation < MaxGeneration /\ generation' = generation + 1
  /\ UNCHANGED <<row, lapsed, memory, runOpen, consent>>

\* A run gets its terminal status when its agent has returned.
RunOfCallEnds ==
  /\ runOpen /\ callPc \notin {"waiting", "granted"} /\ runOpen' = FALSE
  /\ UNCHANGED <<row, generation, lapsed, memory, consent>>

\* The Manager dies and starts again: reconcileInterruptedRuns closes the run and
\* leaves its pending approval.
ManagerRestarts ==
  /\ runOpen /\ runOpen' = FALSE
  /\ waiter' = FALSE /\ callPc' = "lost" /\ aborting' = FALSE
  /\ UNCHANGED <<row, generation, lapsed, consent>>

ApprovalNext ==
  \/ RequestApproval \/ ApprovalTimesOut \/ AbortApproval \/ ExecuteApproved
  \/ \E approved, late \in BOOLEAN : ResolveApproval(approved, late)
  \/ ApprovalLapses \/ PolicyChanges \/ RunOfCallEnds \/ ManagerRestarts

ApprovalSpec == ApprovalInit /\ [][ApprovalNext]_approvalVars

-----------------------------------------------------------------------------
(* Properties                                                                 *)

\* The rows and the memory hold values of their columns and fields.
ApprovalTypeOK ==
  /\ approval \in {"none", "PENDING", "APPROVED", "DENIED", "EXPIRED"}
  /\ callPc \in {"idle", "waiting", "granted", "denied", "executed", "lost"}
  /\ asked \in 0..MaxGeneration /\ generation \in 0..MaxGeneration
  /\ lapsed \in BOOLEAN /\ waiter \in BOOLEAN /\ runOpen \in BOOLEAN /\ aborting \in BOOLEAN
  /\ answers \in Nat /\ consent \in 0..NoConsent

\* #approveToolIfRequired and resolveApproval: whoever of the client, the timer
\* and the abort listener comes first decides for the row and for the call.  A
\* waiting call has a pending row, a call goes on only on an approved row, no
\* call gives up on a row that can still be approved, and the run tells its
\* clients of one resolution, when there was one.
WaiterAgreesWithRow ==
  /\ waiter <=> callPc = "waiting"
  /\ callPc = "waiting" => approval = "PENDING"
  /\ callPc \in {"granted", "executed"} => approval = "APPROVED"
  /\ approval = "PENDING" /\ runOpen => waiter
  /\ answers = IF approval \in {"none", "PENDING"} THEN 0 ELSE 1

\* #assertApprovalExecutable: a call that needs approval starts only while the
\* client's yes to exactly the profile and the route of this moment holds,
\* however long ago the waiter was released.
ExecutesWhatWasApproved ==
  [][callPc' = "executed" => callPc = "executed" \/ (consent = generation /\ ~lapsed)]_approvalVars
=============================================================================
