------------------------------- MODULE Loader -------------------------------
(***************************************************************************)
(* The image loader of src/src/loader.c as operators on a mapped image.    *)
(* Each operator takes the parsed image and the mapping and returns the    *)
(* outcomes of the call: records of a status and the mapping it leaves.    *)
(* LoaderImage drives them for one image, ModuleSpace for many.            *)
(*                                                                         *)
(* Memory is a function from cells to numbers.  A cell is one pointer      *)
(* wide, so the width and alignment of a pointer have no counterpart here. *)
(* A cell of the relocation directory packs what the code reads from a     *)
(* block header and an entry: the kind of the relocation and the rva that  *)
(* page_rva + offset name.                                                 *)
(***************************************************************************)
EXTENDS Integers, Sequences, FiniteSets, FiniteSetsExt, SequencesExt

CONSTANTS PageSize,      \* cells on a host page
          RvaSpan,       \* an entry is kind * RvaSpan + rva
          AddressSpace,  \* 64-bit pointers are numbers modulo this
          AddressSpace32 \* 32-bit pointers are numbers modulo this

ASSUME LoaderAssumption == /\ PageSize \in Nat \ {0}
                           /\ RvaSpan \in Nat \ {0}
                           /\ AddressSpace32 \in Nat \ {0}
                           /\ AddressSpace \in Nat
                           /\ AddressSpace >= AddressSpace32

Protections == SUBSET {"R", "W", "X"}

\* Relocation kinds; Malformed is a block header whose size does not fit.
ABSOLUTE == 0
HIGHLOW == 1
DIR64 == 2
Malformed == 3

NoMapping == [storage |-> "none", bytes |-> 0, base |-> 0, finalized |-> FALSE,
              cells |-> <<>>, prot |-> <<>>]

Cells(image) == 0 .. image.size - 1

PageCount(image) == (image.size + PageSize - 1) \div PageSize

Pages(image) == 0 .. PageCount(image) - 1

Fits(start, length, image) == start + length <= image.size

\* The section ranges sl_pe_parse accepts.
ParsesOK(image) ==
    /\ image.size > 0
    /\ Len(image.headers) \in 1 .. image.size
    /\ \A i \in DOMAIN image.sections :
        LET s == image.sections[i]
        IN /\ s.raw # <<>> => Fits(s.at, Len(s.raw), image)
           /\ s.virtual # 0 => Fits(s.at, s.virtual, image)

\* Headers first, then every section over them, in order; the rest is zero.
PopulateMapping(image) ==
    [r \in Cells(image) |->
        LET over == {i \in DOMAIN image.sections :
                        LET s == image.sections[i]
                        IN r >= s.at /\ r - s.at < Len(s.raw)}
        IN IF over # {} THEN image.sections[Max(over)].raw[r - image.sections[Max(over)].at + 1]
           ELSE IF r < Len(image.headers) THEN image.headers[r + 1]
           ELSE 0]

InitializeMapping(image, bytes, storage) ==
    [storage |-> storage, bytes |-> bytes, base |-> image.base, finalized |-> FALSE,
     cells |-> PopulateMapping(image),
     prot |-> [p \in Pages(image) |-> {"R", "W"}]]

-----------------------------------------------------------------------------
(* Relocations.                                                            *)

InDirectory(image, rva) ==
    rva >= image.relocs.rva /\ rva < image.relocs.rva + image.relocs.size

\* MUTANT: a patch may overwrite the directory that is being read.
PatchableMutant(image, rva) == rva \in Cells(image)

Patchable(image, rva) == rva \in Cells(image) /\ ~InDirectory(image, rva)

PointerSpace(image) == IF image.plus THEN AddressSpace ELSE AddressSpace32

\* The unsigned sum that store_u64 or store_u32 keeps of a patched pointer.
Rebased(image, value, delta) == (value + delta) % PointerSpace(image)

\* One relocation entry, read from the memory that earlier entries patched.
ProcessEntry(image, acc, cursor, delta, apply) ==
    LET kind == acc.cells[cursor] \div RvaSpan
        rva  == acc.cells[cursor] % RvaSpan
    IN IF acc.status # "OK" \/ kind = ABSOLUTE THEN acc
       ELSE IF kind = Malformed THEN [acc EXCEPT !.status = "INVALID_IMAGE"]
       ELSE IF kind # (IF image.plus THEN DIR64 ELSE HIGHLOW)
            THEN [acc EXCEPT !.status = "UNSUPPORTED_RELOCATION"]
       ELSE IF ~Patchable(image, rva) THEN [acc EXCEPT !.status = "INVALID_IMAGE"]
       ELSE IF apply THEN [acc EXCEPT !.cells[rva] = Rebased(image, @, delta)]
       ELSE acc

\* The entries of the directory, one after the other.
ProcessRelocations(image, cells, delta, apply) ==
    LET after[n \in 0 .. image.relocs.size] ==
          IF n = 0 THEN [status |-> "OK", cells |-> cells]
          ELSE ProcessEntry(image, after[n - 1], image.relocs.rva + n - 1, delta, apply)
    IN  after[image.relocs.size]

\* MUTANT: the pass that only validates is gone.
SinglePass(image, cells, delta) == ProcessRelocations(image, cells, delta, TRUE)

\* A validating pass, and a patching pass only if the whole directory is good.
Patched(image, cells, delta) ==
    LET checked == ProcessRelocations(image, cells, delta, FALSE)
    IN IF checked.status # "OK" THEN checked
       ELSE ProcessRelocations(image, cells, delta, TRUE)

Refused(status, m) == [status |-> status, mapped |-> m]

\* A finalized or tainted mapping takes no more patches.
IsClosed(m) == m.finalized \/ m.storage = "tainted"

ApplyRelocations(image, m, load_base) ==
    IF IsClosed(m) THEN Refused("INVALID_STATE", m)
    ELSE IF m.storage = "virtual" /\ load_base # m.bytes THEN Refused("INVALID_STATE", m)
    ELSE IF load_base >= PointerSpace(image) THEN Refused("INVALID_ARGUMENT", m)
    ELSE IF load_base = m.base THEN [status |-> "OK", mapped |-> m]
    ELSE IF image.relocs.size = 0 THEN Refused("RELOCATION_REQUIRED", m)
    ELSE IF ~Fits(image.relocs.rva, image.relocs.size, image) THEN Refused("INVALID_IMAGE", m)
    ELSE LET patched == Patched(image, m.cells, (load_base - m.base) % AddressSpace)
         IN [status |-> patched.status,
             mapped |-> [m EXCEPT !.cells = patched.cells,
                                  !.base = IF patched.status = "OK" THEN load_base ELSE @]]

-----------------------------------------------------------------------------
(* Mapping.                                                                *)

\* sl_loader_map_image: a heap copy at the preferred base, never executed.
MapImage(image) ==
    {Refused("OUT_OF_MEMORY", NoMapping),
     [status |-> "OK", mapped |-> InitializeMapping(image, 0, "heap")]}

\* sl_loader_map_image_for_execution, given the address mmap grants: the
\* preferred one, or any aligned one when the preferred one is refused.
MapImageForExecution(image, address) ==
    IF ~image.plus THEN Refused("UNSUPPORTED_MACHINE", NoMapping)
    ELSE LET placed == ApplyRelocations(image, InitializeMapping(image, address, "virtual"),
                                        address)
         IN IF placed.status = "OK" THEN placed ELSE Refused(placed.status, NoMapping)

UnmapImage(m) == NoMapping

-----------------------------------------------------------------------------
(* Imports.  resolved[i] is the resolver's answer for the i-th import.     *)

\* The stores of a list of imports, in order: of two to one cell the last stays.
WriteIat(image, cells, resolved) ==
    [r \in Cells(image) |->
        LET stores == {i \in DOMAIN image.imports : image.imports[i].iat = r}
        IN IF stores = {} THEN cells[r] ELSE resolved[Max(stores)].address]

\* resolve_import_symbol: the resolver's status, or an address too wide.
Storable(image, answer) ==
    IF answer.status = "OK" /\ answer.address >= PointerSpace(image)
    THEN "ADDRESS_OUT_OF_RANGE" ELSE answer.status

\* All imports are resolved before the first address is stored.
BindImports(image, m, resolved) ==
    LET misplaced == {i \in DOMAIN image.imports : image.imports[i].iat \notin Cells(image)}
        failing   == {i \in DOMAIN image.imports : Storable(image, resolved[i]) # "OK"}
    IN IF IsClosed(m) THEN Refused("INVALID_STATE", m)
       ELSE IF misplaced # {} THEN Refused("INVALID_IMAGE", m)
       ELSE IF failing # {} THEN Refused(Storable(image, resolved[Min(failing)]), m)
       ELSE [status |-> "OK",
             mapped |-> [m EXCEPT !.cells = WriteIat(image, m.cells, resolved)]]

-----------------------------------------------------------------------------
(* Page protection.                                                        *)

\* The pages add_page_permissions touches for a range of the image.
OnPages(start, length, page) ==
    length > 0 /\ page >= start \div PageSize /\ page <= (start + length - 1) \div PageSize

SectionLength(s) == IF Len(s.raw) > s.virtual THEN Len(s.raw) ELSE s.virtual

Permissions(image) ==
    [p \in Pages(image) |->
        (IF OnPages(0, Len(image.headers), p) THEN {"R"} ELSE {})
        \cup UNION {image.sections[i].protection :
                        i \in {j \in DOMAIN image.sections :
                                  OnPages(image.sections[j].at,
                                          SectionLength(image.sections[j]), p)}}]

WritableAndExecutable(protection) == {"W", "X"} \subseteq protection

HasWxConflict(image) ==
    \E p \in Pages(image) : WritableAndExecutable(Permissions(image)[p])

\* The layout mprotect leaves: pages from first up to end have their new
\* protection, the others are readable and writable.
Layout(image, first, end) ==
    [p \in Pages(image) |->
        IF p >= first /\ p < end THEN Permissions(image)[p] ELSE {"R", "W"}]

\* A failure restores the writable layout, or taints the mapping when that
\* fails as well; changed is the number of pages mprotect had changed.
FinalizeFailed(image, m, status, changed) ==
    {Refused(status, [m EXCEPT !.prot = Layout(image, 0, 0)])}
    \cup {Refused("MEMORY_PROTECTION",
                  [m EXCEPT !.storage = "tainted", !.prot = Layout(image, restored, changed)]) :
              restored \in 0 .. changed}

\* The pages get their protection one after the other, unless mprotect fails.
ProtectPages(image, m) ==
    (UNION {FinalizeFailed(image, m, "MEMORY_PROTECTION", changed) :
                changed \in 0 .. PageCount(image) - 1})
    \cup {[status |-> "OK",
           mapped |-> [m EXCEPT !.finalized = TRUE, !.prot = Permissions(image)]]}

FinalizeImage(image, m) ==
    IF m.storage = "tainted" THEN {Refused("INVALID_STATE", m)}
    ELSE IF m.storage # "virtual" THEN {Refused("INVALID_ARGUMENT", m)}
    ELSE IF m.finalized THEN {[status |-> "OK", mapped |-> m]}
    ELSE {Refused("OUT_OF_MEMORY", m)}
         \cup IF HasWxConflict(image) THEN FinalizeFailed(image, m, "WX_CONFLICT", 0)
              ELSE ProtectPages(image, m)

=============================================================================
