------------------------------- MODULE MCStore -------------------------------
(* Two nodes that report each other while the clock passes ExpireInterval, *)
(* and two accounts between which their credit is added and moved.         *)
EXTENDS MemoryStoreSpec, TLC

MCCredit == {1}
MCNonces == {<<CHOOSE a \in Account : TRUE, 1>>}
MCReports == SUBSET Node
Symmetry == Permutations(Node)
=============================================================================
