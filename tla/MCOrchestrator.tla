--------------------------- MODULE MCOrchestrator ---------------------------
EXTENDS OrchestratorProps, TLC
Symmetry == Permutations(EventIds) \cup Permutations(Candidates)
=============================================================================
