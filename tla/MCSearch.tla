------------------------------ MODULE MCSearch ------------------------------
(* The directory's own entry, a directory, a file that arrives late, and a *)
(* record that is damaged, or whose name cannot be converted, in each of   *)
(* the ways the code checks for.                                           *)
EXTENDS Search

MCEntries == {".", "d", "late", "x"}
MCDirectories ==
    {[e \in MCEntries |-> CASE e = "." -> "dot" [] e = "d" -> "directory"
                             [] e = "late" -> "file" [] e = "x" -> bad] :
        bad \in {"unnamed", "unterminated", "truncated"}}
MCInitial == {".", "d", "x"}
MCPatterns == {MCEntries}
=============================================================================
