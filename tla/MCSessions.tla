----------------------------- MODULE MCSessions -----------------------------
\* Two clients with a credential each.
EXTENDS Sessions, TLC

CONSTANTS c1, c2, p1, p2
TwoClients == (p1 :> c1) @@ (p2 :> c2)
=============================================================================
