---------------------------- MODULE RunAdmission ----------------------------
(* The admission of runs for one owner: the one transaction of                *)
(* createOrGetRun, and the catalogue of agent profiles and sessions that it   *)
(* reads and fills.  Workspaces are inserted when they are named, and never   *)
(* deleted.  What a subagent is given of a budget is in ChildBudgets.         *)
EXTENDS Naturals, Sequences

CONSTANTS Keys, AgentNames, WorkspaceNames, SessionNames,
          Unnamed,  \* the request names no session
          MaxRows   \* bound on runs, and on profiles

ASSUME AdmissionAssumption == Unnamed \notin SessionNames /\ MaxRows \in Nat

VARIABLES
  runRows,    \* rows of runs, in the order of their admission
  profiles,   \* agent_profiles.internal_id by name, 0 if there is none
  profileIds, \* internal ids given out
  sessions    \* sessions.agent_internal_id by name, 0 if there is none

admissionVars == <<runRows, profiles, profileIds, sessions>>

Sessions == SessionNames \union {<<"ses", n>> : n \in 1 .. MaxRows}
RowNumbers == DOMAIN runRows

AdmissionInit ==
  /\ runRows = <<>> /\ profiles = [a \in AgentNames |-> 0] /\ profileIds = 0
  /\ sessions = [s \in Sessions |-> 0]

-----------------------------------------------------------------------------
\* A missing profile is inserted in the same transaction.
ProfileFor(name) == IF profiles[name] = 0 THEN profileIds + 1 ELSE profiles[name]

BoundTo(session) == {runRows[n].workspace : n \in {m \in RowNumbers : runRows[m].session = session}}

\* Mutant: the workspace of a session is not asked for.
AcceptsAgent(session, agent, workspace) == sessions[session] \in {0, agent}

Accepts(session, agent, workspace) ==
  sessions[session] \in {0, agent} /\ BoundTo(session) \subseteq {workspace}

\* createOrGetRun with an unused key: the row, with the profile and the session
\* that it lacks.  A request that is refused is rolled back as a whole; one that
\* was admitted before is answered with its run, or refused if it differs now.
CreateOrGetRun(key, request) ==
  LET agent == ProfileFor(request.agent)
      session == IF request.session = Unnamed THEN <<"ses", Len(runRows) + 1>> ELSE request.session
  IN /\ Len(runRows) < MaxRows /\ agent <= MaxRows
     /\ \A n \in RowNumbers : runRows[n].key # key
     /\ Accepts(session, agent, request.workspace)
     /\ runRows' = Append(runRows, [key |-> key, agent |-> agent,
                                    workspace |-> request.workspace, session |-> session])
     /\ profiles' = [profiles EXCEPT ![request.agent] = agent]
     /\ profileIds' = IF agent > profileIds THEN agent ELSE profileIds
     /\ sessions' = [sessions EXCEPT ![session] = agent]

CreateAgentProfile(name) ==
  /\ profiles[name] = 0 /\ profileIds < MaxRows
  /\ profiles' = [profiles EXCEPT ![name] = profileIds + 1] /\ profileIds' = profileIds + 1
  /\ UNCHANGED <<runRows, sessions>>

DeleteAgentProfile(name) ==
  /\ profiles[name] # 0
  /\ \A n \in RowNumbers : runRows[n].agent # profiles[name]
  /\ \A s \in Sessions : sessions[s] # profiles[name]
  /\ profiles' = [profiles EXCEPT ![name] = 0]
  /\ UNCHANGED <<runRows, profileIds, sessions>>

\* The workspace of a subagent, and its session, are new with its key.
Requests ==
  [agent : AgentNames, workspace : WorkspaceNames, session : SessionNames \union {Unnamed}]

AdmissionNext ==
  \/ \E key \in Keys, request \in Requests : CreateOrGetRun(key, request)
  \/ \E name \in AgentNames : CreateAgentProfile(name) \/ DeleteAgentProfile(name)

AdmissionSpec == AdmissionInit /\ [][AdmissionNext]_admissionVars

-----------------------------------------------------------------------------
(* Properties *)

\* Types of the rows.
AdmissionTypeOK ==
  /\ Len(runRows) \in 0 .. MaxRows /\ profileIds \in 0 .. MaxRows
  /\ profiles \in [AgentNames -> 0 .. profileIds] /\ sessions \in [Sessions -> 0 .. profileIds]

\* Whatever profiles are deleted and made again under their names: the runs of a
\* session share its workspace, which is why the queue of the workspace orders
\* them, and its profile, which exists as long as a run refers to it.
SessionsStayBound ==
  /\ \A m, n \in RowNumbers : runRows[m].session = runRows[n].session =>
       runRows[m].workspace = runRows[n].workspace /\ runRows[m].agent = runRows[n].agent
  /\ \A n \in RowNumbers :
       /\ sessions[runRows[n].session] = runRows[n].agent
       /\ \E name \in AgentNames : profiles[name] = runRows[n].agent
=============================================================================
