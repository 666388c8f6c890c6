--------------------------- MODULE MCOrchestrator ---------------------------
EXTENDS Orchestrator, TLC

\* Callers are interchangeable, and so are peers: the seed bond is any bond of the store.
Symmetry == Permutations(Caller) \cup Permutations(Peer)
=============================================================================
