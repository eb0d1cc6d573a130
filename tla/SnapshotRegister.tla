-------------------------- MODULE SnapshotRegister --------------------------
(***************************************************************************)
(* What the snapshots of one workspace promise: a register that holds the  *)
(* archive a restore returns.  Archives are numbered in the order in which *)
(* they were exported.  A create offers the archive it exported; sooner or *)
(* later it is published as a whole, or abandoned without a trace.  Only   *)
(* something newer than the value replaces it.                             *)
(***************************************************************************)
EXTENDS Naturals

VARIABLES value,     \* archive a restore returns, 0 when there is none
          exported,  \* archives exported so far
          offered    \* archives whose create has not ended

rvars == <<value, exported, offered>>

RegisterInit == value = 0 /\ exported = 0 /\ offered = {}

Offer ==
  /\ exported' = exported + 1
  /\ offered' = offered \union {exported + 1}
  /\ UNCHANGED value

Publish(a) ==
  /\ a \in offered
  /\ a > value
  /\ value' = a
  /\ UNCHANGED <<exported, offered>>

Conclude(done) ==
  /\ offered' = offered \ done
  /\ UNCHANGED <<value, exported>>

RegisterNext ==
  \/ Offer
  \/ \E a \in offered : Publish(a)
  \/ \E done \in SUBSET offered : Conclude(done)

RegisterSpec == RegisterInit /\ [][RegisterNext]_rvars
=============================================================================
