--------------------------- MODULE MCAgentManager ---------------------------
(***************************************************************************)
(* The AgentManager on a small instance: two handler threads, two agent    *)
(* names (so that two spawns may collide on one name or lose each other's  *)
(* update on two), two spawns in all, one key and one Action Plane.        *)
(***************************************************************************)
EXTENDS AgentManager, TLC

\* Clients, names and ids are interchangeable: no action or property tells them apart.
Symmetry == Permutations(Clients) \cup Permutations(Names) \cup Permutations(Ids)

\* Once all three documents are disturbed, every property but TypeOK holds for
\* that reason alone: what follows such a state is not explored.
SomeDocumentUndisturbed == disturbed # FileNames
=============================================================================
