------------------------- MODULE MCStrelaResources -------------------------
(* Threads are interchangeable.                                            *)
EXTENDS StrelaResources, TLC

ThreadSymmetry == Permutations(Threads)

=============================================================================
