-------------------------- MODULE MCWildcardMatch --------------------------
(* Two letters that fold together, the dot, and the star, which a host     *)
(* file name may hold.                                                     *)
EXTENDS WildcardMatch

MCUnits == {"a", "A", ".", "*"}
MCFold(unit) == IF unit = "A" THEN "a" ELSE unit
=============================================================================
