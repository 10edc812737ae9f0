----------------------------- MODULE MCPipeline -----------------------------
\* The pipeline on small instances; TLC names the calls and argument digests.
EXTENDS Pipeline, TLC

Symmetry == Permutations(Calls) \cup Permutations(Digests)
=============================================================================
