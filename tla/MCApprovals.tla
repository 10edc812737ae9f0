----------------------------- MODULE MCApprovals -----------------------------
(***************************************************************************)
(* Instances of Approvals for TLC.                                         *)
(***************************************************************************)
EXTENDS Approvals, TLC

CONSTANTS c1, c2, p1, p2

\* One client with one credential, and two clients with one each.
OneClient  == (p1 :> c1)
TwoClients == (p1 :> c1) @@ (p2 :> c2)

\* Ids are only compared, so they are interchangeable.
IdSymmetry ==
    Permutations(SessionIds) \cup Permutations(ExecutionIds) \cup Permutations(Calls)
=============================================================================
