--------------------------- MODULE MCFileHandles ---------------------------
(* A console, as CreateFileW makes it, and a file on disk, opened for      *)
(* reading or for writing.                                                 *)
EXTENDS FileHandles, TLC

MCFiles == {"conout", "disk"}
MCType == [f \in MCFiles |-> IF f = "conout" THEN "char" ELSE "disk"]
MCAccesses == [f \in MCFiles |->
                 IF f = "conout" THEN {{"write"}} ELSE {{"read"}, {"write"}}]
Symmetry == Permutations(Threads)
=============================================================================
