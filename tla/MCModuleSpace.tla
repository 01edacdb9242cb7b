--------------------------- MODULE MCModuleSpace ---------------------------
(***************************************************************************)
(* Two images with the same preferred base, whose exports forward to each  *)
(* other in a cycle, native tables that forward and that are malformed,    *)
(* and spellings that differ in case and in the .dll suffix.               *)
(***************************************************************************)
EXTENDS ModuleSpace

MCNames == {"a.dll", "A.DLL", "b", "b.dll"}
MCFold == [n \in MCNames |-> IF n = "A.DLL" THEN "a.dll" ELSE n]
MCWithDll == [n \in MCNames |-> IF n = "b" THEN "b.dll" ELSE n]
MCKeys == {"f", "g"}
MCBases == {8, 12}

Function(keys, at) == [keys |-> keys, kind |-> "function", at |-> at]
Forwarder(keys, at, to, key) ==
    [keys |-> keys, kind |-> "forwarder", at |-> at, wellformed |-> TRUE, to |-> to, key |-> key]
BadForwarder(keys) == [keys |-> keys, kind |-> "forwarder", at |-> 0, wellformed |-> FALSE]

\* Four cells: header, code, import table, the pointer that is relocated; the
\* relocation directory is the second cell.
Image(relocs, protection, exports, imports) ==
    [size |-> 4, headers |-> <<7>>, base |-> 8, plus |-> TRUE, relocs |-> relocs,
     sections |-> <<[at |-> 1, virtual |-> 3, raw |-> <<DIR64 * RvaSpan + 3, 1, 9>>,
                     protection |-> protection]>>,
     exports |-> exports, imports |-> imports]

MCImages ==
    { Image([rva |-> 1, size |-> 1], {"R", "X"},
            <<Function({"f"}, 1), Forwarder({"g"}, 2, "b", "f")>>,
            <<[iat |-> 2, module |-> "b.dll", key |-> "f"]>>),
      Image([rva |-> 0, size |-> 0], {"R"},
            <<Forwarder({"f"}, 2, "A.DLL", "g"), Function({"g"}, 3)>>,
            <<[iat |-> 2, module |-> "a.dll", key |-> "f"]>>) }

MCTables ==
    { <<Function({"f"}, 50), Forwarder({"g"}, 0, "A.DLL", "f")>>,
      <<Forwarder({"f"}, 0, "b", "g"), BadForwarder({"g"})>>,
      <<Function({"f"}, 51), Function({"f", "g"}, 52)>> }

=============================================================================
