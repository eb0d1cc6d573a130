--------------------------- MODULE MCRunLifecycle ---------------------------
(* Small topologies of runs for TLC.                                         *)
EXTENDS RunLifecycle, TLC

CONSTANTS w1, w2, w3

\* Two client runs that queue for one workspace.
PairRuns       == {1, 2}
PairWorkspaces == {w1}
PairWorkspaceOf == 1 :> w1 @@ 2 :> w1
PairParentOf    == 1 :> 0 @@ 2 :> 0

\* A client run, its subagent, and the subagent of that, each in a workspace of its own.
FamilyRuns        == {1, 2, 3}
FamilyWorkspaces  == {w1, w2, w3}
FamilyWorkspaceOf == 1 :> w1 @@ 2 :> w2 @@ 3 :> w3
FamilyParentOf    == 1 :> 0 @@ 2 :> 1 @@ 3 :> 2
=============================================================================
