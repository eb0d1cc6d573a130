--------------------------- MODULE MCRequestRoutes ---------------------------
(* A run, its subagent of another agent in another workspace, and a run of    *)
(* another owner; tokens with and without a binding.                          *)
EXTENDS RequestRoutes, TLC

CONSTANTS r1, r2, r3, w1, w2

MCOrigin ==
  r1 :> [owner |-> 1, agent |-> 1, workspace |-> w1, parent |-> Unbound] @@
  r2 :> [owner |-> 1, agent |-> 2, workspace |-> w2, parent |-> r1] @@
  r3 :> [owner |-> 2, agent |-> 1, workspace |-> w1, parent |-> Unbound]

Bearer(o, a, w) == [owner |-> o, agent |-> a, workspace |-> w]
MCBearers == {Bearer(1, Unbound, Unbound), Bearer(1, 1, w1), Bearer(2, 1, Unbound), Bearer(1, 2, w1)}
=============================================================================
