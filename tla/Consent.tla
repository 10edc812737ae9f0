------------------------------- MODULE Consent -------------------------------
(***************************************************************************)
(* What the approval engine promises, without sessions, snapshots,         *)
(* databases or restarts: an operation that needs consent is performed at  *)
(* most once, only after the local user granted it, and never once the     *)
(* permission has been withdrawn (plan section 17, "Approval execution     *)
(* contract").                                                             *)
(***************************************************************************)
EXTENDS Naturals

CONSTANT Requests

VARIABLES
    permission,   \* state of the permission of each request
    performed     \* how often each requested operation has been performed

absvars == <<permission, performed>>

Permissions == {"unasked", "asked", "granted", "spent", "void"}

AbsTypeOK ==
    /\ permission \in [Requests -> Permissions]
    /\ performed \in [Requests -> Nat]

AbsInit ==
    /\ permission = [r \in Requests |-> "unasked"]
    /\ performed = [r \in Requests |-> 0]

\* A client asks for an operation that needs consent.
Ask(r) ==
    /\ permission[r] = "unasked"
    /\ permission' = [permission EXCEPT ![r] = "asked"]
    /\ UNCHANGED performed

\* The local user allows it.
Grant(r) ==
    /\ permission[r] = "asked"
    /\ permission' = [permission EXCEPT ![r] = "granted"]
    /\ UNCHANGED performed

\* Permissions are refused, expire or are revoked, several at a time; a
\* permission that has been spent cannot be withdrawn any more.
Withdraw(R) ==
    /\ \A r \in R : permission[r] \in {"asked", "granted"}
    /\ permission' = [r \in Requests |-> IF r \in R THEN "void" ELSE permission[r]]
    /\ UNCHANGED performed

\* The permission is consumed, before the operation is performed.
Spend(r) ==
    /\ permission[r] = "granted"
    /\ permission' = [permission EXCEPT ![r] = "spent"]
    /\ UNCHANGED performed

\* The operation is performed.
Perform(r) ==
    /\ permission[r] = "spent"
    /\ performed[r] = 0
    /\ performed' = [performed EXCEPT ![r] = 1]
    /\ UNCHANGED permission

AbsNext ==
    \/ \E r \in Requests : Ask(r) \/ Grant(r) \/ Spend(r) \/ Perform(r)
    \/ \E R \in SUBSET Requests : Withdraw(R)

AbsSpec == AbsInit /\ [][AbsNext]_absvars
=============================================================================
