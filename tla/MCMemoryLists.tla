--------------------------- MODULE MCMemoryLists ---------------------------
(* Instance of MemoryLists for TLC.                                        *)
EXTENDS MemoryLists, TLC

\* Processes are interchangeable, and so are the addresses they share.
MemorySymmetry == Permutations(Handles) \cup Permutations(Pvus)
=============================================================================
