---- MODULE MCMcpRegistry ----
EXTENDS McpRegistry, TLC
Symmetry == Permutations(Ids)
====
