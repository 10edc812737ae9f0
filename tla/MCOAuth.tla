------------------------------- MODULE MCOAuth -------------------------------
(***************************************************************************)
(* Instances of OAuth for TLC.  Token requests are interchangeable, and so *)
(* are registrations, credentials and principals.                          *)
(***************************************************************************)
EXTENDS OAuth, TLC

Symmetry == Permutations(Calls) \cup Permutations(Regs) \cup Permutations(Clients)
                \cup Permutations(Creds)
=============================================================================
