---------------------------- MODULE LoaderImage ----------------------------
(***************************************************************************)
(* The life of one mapped image under the loader's own interface           *)
(* (src/include/sadlayer/loader.h): any image, mapped for inspection or    *)
(* for execution, relocated any number of times, bound with any answers of *)
(* the resolver, finalized with any failure of mprotect, and unmapped.     *)
(***************************************************************************)
EXTENDS Loader

CONSTANTS GivenImages,  \* the parsed images the loader is given
          LoadBases,    \* addresses a caller relocates to and mmap returns
          Targets       \* addresses the import resolver returns

ASSUME LoaderImageAssumption ==
    /\ LoadBases \subseteq 1 .. AddressSpace - 1
    /\ Targets \subseteq 1 .. AddressSpace - 1
    /\ \A image \in GivenImages :
        /\ ParsesOK(image)
        /\ image.size \in Nat
        /\ image.relocs \in [rva : Nat, size : Nat]
        /\ \A i \in DOMAIN image.sections :
            LET s == image.sections[i]
            IN s.at \in Nat /\ s.virtual \in Nat /\ Len(s.raw) \in Nat

VARIABLES given,      \* the image given to the calls
          mapping,    \* the sl_mapped_image
          binding,    \* the answers of the last bind that succeeded
          returned    \* the status of the last call

loaderVars == <<given, mapping, binding, returned>>

Unbound == <<>>

\* What a resolver may answer for an image's imports.
Answers(img) ==
    [DOMAIN img.imports -> [status : {"OK"}, address : Targets]
                           \cup {[status |-> "MODULE_NOT_FOUND", address |-> 0]}]

LoaderTypeOK ==
    /\ given \in GivenImages
    /\ mapping # NoMapping =>
        /\ mapping.storage \in {"heap", "virtual", "tainted"}
        /\ mapping.base \in LoadBases \cup {given.base}
        /\ mapping.cells \in [Cells(given) -> 0 .. AddressSpace - 1]
        /\ mapping.prot \in [Pages(given) -> Protections]
    /\ binding \in {Unbound} \cup Answers(given)

LoaderInit ==
    /\ given \in GivenImages
    /\ mapping = NoMapping
    /\ binding = Unbound
    /\ returned = "OK"

Return(outcome) ==
    /\ mapping' = outcome.mapped
    /\ returned' = outcome.status

\* A live mapping is unmapped before the object is used again.
Map ==
    /\ mapping = NoMapping
    /\ \E outcome \in MapImage(given) : Return(outcome)
    /\ UNCHANGED <<given, binding>>

MapForExecution ==
    /\ mapping = NoMapping
    /\ \/ \E address \in LoadBases : Return(MapImageForExecution(given, address))
       \/ Return(Refused("MEMORY_MAPPING", NoMapping))
    /\ UNCHANGED <<given, binding>>

Relocate ==
    /\ mapping # NoMapping
    /\ \E base \in LoadBases \cup {given.base} : Return(ApplyRelocations(given, mapping, base))
    /\ UNCHANGED <<given, binding>>

Bind ==
    /\ mapping # NoMapping
    /\ \/ \E resolved \in Answers(given) :
            /\ Return(BindImports(given, mapping, resolved))
            /\ binding' = IF returned' = "OK" THEN resolved ELSE binding
       \/ /\ ~IsClosed(mapping)
          /\ given.imports # <<>>
          /\ Return(Refused("OUT_OF_MEMORY", mapping))
          /\ UNCHANGED binding
    /\ UNCHANGED given

Finalize ==
    /\ mapping # NoMapping
    /\ \E outcome \in FinalizeImage(given, mapping) : Return(outcome)
    /\ UNCHANGED <<given, binding>>

Unmap ==
    /\ mapping # NoMapping
    /\ mapping' = UnmapImage(mapping)
    /\ binding' = Unbound
    /\ returned' = "OK"
    /\ UNCHANGED given

LoaderNext == Map \/ MapForExecution \/ Relocate \/ Bind \/ Finalize \/ Unmap

LoaderSpec == LoaderInit /\ [][LoaderNext]_loaderVars

-----------------------------------------------------------------------------
(* Properties.                                                             *)

\* The cells the relocation directory of the file names.
Pointers ==
    LET raw == PopulateMapping(given)
        dir == {raw[c] : c \in {r \in Cells(given) : InDirectory(given, r)}}
    IN {e % RvaSpan : e \in {d \in dir : d \div RvaSpan \in {HIGHLOW, DIR64}}}
       \cap Cells(given)

IatCells == {given.imports[i].iat : i \in DOMAIN given.imports}

\* sl_loader_apply_relocations patches by the difference to the base it last
\* recorded: after any sequence of relocations, failed ones included, every
\* pointer is the file's pointer moved by load_base - preferred_base, and
\* every cell that is neither a pointer nor an import is the file's cell.
PointersFollowTheBase ==
    mapping # NoMapping =>
        \A r \in Cells(given) \ IatCells :
            mapping.cells[r] =
                (PopulateMapping(given)[r]
                 + IF r \in Pointers THEN mapping.base - given.base ELSE 0)
                % PointerSpace(given)

\* sl_loader_bind_imports is all or nothing: the import table holds the file's
\* cells, or the answers of one successful call, never a mixture.
ImportsAreOneAnswer ==
    mapping # NoMapping =>
        \A i \in {j \in DOMAIN given.imports : given.imports[j].iat \in Cells(given)} :
            mapping.cells[given.imports[i].iat] =
                IF binding = Unbound THEN PopulateMapping(given)[given.imports[i].iat]
                ELSE binding[i].address

\* A call that fails leaves the mapping as it was: no half-patched image, no
\* base that was not reached.  Only sl_loader_finalize_image may change it, to
\* a tainted mapping with the same contents.
FailedCallsChangeNothing ==
    returned' # "OK" =>
        \/ mapping' = mapping
        \/ /\ mapping'.storage = "tainted"
           /\ mapping' = [mapping EXCEPT !.storage = "tainted", !.prot = mapping'.prot]

\* "A virtual mapping with an indeterminate protection layout; unmap only":
\* a finalized or a tainted image is never changed again, it is only unmapped.
ClosedUntilUnmapped ==
    mapping.finalized \/ mapping.storage = "tainted"
        => mapping' \in {mapping, NoMapping}

\* sl_loader_finalize_image: a page has exactly the rights of the headers and
\* of the sections with a cell on it once the image is finalized, and is
\* readable and writable before and after a failure that could be undone.
ProtectionIsExact ==
    mapping.storage = "virtual" =>
        \A p \in Pages(given) :
            mapping.prot[p] =
                IF ~mapping.finalized THEN {"R", "W"}
                ELSE UNION ({{"R"} : r \in {c \in 0 .. Len(given.headers) - 1 :
                                                c \div PageSize = p}}
                            \cup {given.sections[i].protection : i \in
                                    {j \in DOMAIN given.sections :
                                        \E c \in Cells(given) :
                                            /\ c \div PageSize = p
                                            /\ c >= given.sections[j].at
                                            /\ c < given.sections[j].at
                                                   + SectionLength(given.sections[j])}})

\* No page of an image is ever writable and executable, not even on a tainted
\* mapping whose layout mprotect left half done.
WriteXorExecute ==
    mapping # NoMapping =>
        \A p \in Pages(given) : ~WritableAndExecutable(mapping.prot[p])

\* Every cell of a mapped image is accounted for: a file cell, a pointer moved
\* to the present base, or an import of one successful binding.
ContentsAreExact == LoaderTypeOK /\ PointersFollowTheBase /\ ImportsAreOneAnswer

\* sl_loader_finalize_image: the rights of a page are those of what lies on
\* it, and never both write and execute.
ProtectionIsSafe == ProtectionIsExact /\ WriteXorExecute

\* What the loader maps is what the file, its relocations, its imports and
\* its sections' rights say, after any sequence of its calls.
MappingIsExact == ContentsAreExact /\ ProtectionIsSafe

\* A loader call does all of its work or none of it, and a finalized or
\* tainted image is past all work.
CallsAreAllOrNothing == [][FailedCallsChangeNothing /\ ClosedUntilUnmapped]_loaderVars
=============================================================================
