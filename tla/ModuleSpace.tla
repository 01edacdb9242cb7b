---------------------------- MODULE ModuleSpace ----------------------------
(***************************************************************************)
(* Bootstrap of the guest's modules: the registry of names, aliases and    *)
(* exports (src/src/module.c), the space that owns the mapped images       *)
(* (src/src/module_space.c) and its one-shot transfer into the process     *)
(* (src/src/process.c).  What the loader does to an image is module        *)
(* Loader.  One thread drives the bootstrap; other threads only retain and *)
(* release the process.                                                    *)
(*                                                                         *)
(* A module name is a spelling; Fold maps the spellings that differ in     *)
(* ASCII case only to one of them, and WithDll is what parse_forwarder     *)
(* makes of the module part of a forwarder.  A key stands for an export    *)
(* name or an ordinal.                                                     *)
(***************************************************************************)
EXTENDS Loader

CONSTANTS Names, Fold, WithDll, Keys,
          Images,            \* images that add_pe is given
          Tables,            \* native export tables that add_native is given
          Bases,             \* aligned addresses mmap may return
          Capacity,          \* SL_MODULE_REGISTRY_CAPACITY
          AliasCapacity,     \* SL_MODULE_ALIAS_CAPACITY
          ForwarderDepthLimit,
          MaxReferences      \* bound of the model on process references

\* What sl_pe_find_export and parse_forwarder return: an export is a function at
\* one of the places, or a forwarder whose text may be malformed.
IsExportTable(exports, places) ==
    /\ Len(exports) \in Nat /\ DOMAIN exports = 1 .. Len(exports)
    /\ \A e \in DOMAIN exports :
        LET export == exports[e]
        IN \/ export.kind = "function" /\ export.at \in places
           \/ /\ export.kind = "forwarder"
              /\ export.wellformed => export.to \in Names /\ export.key \in Keys

ASSUME ModuleSpaceAssumption ==
    /\ Fold \in [Names -> Names]
    /\ WithDll \in [Names -> Names]
    /\ {Capacity, AliasCapacity, ForwarderDepthLimit, MaxReferences} \subseteq Nat
    /\ Bases \subseteq 1 .. AddressSpace - 1

ASSUME ImagesAssumption ==
    /\ \A image \in Images :
        /\ image.size \in Nat
        /\ IsExportTable(image.exports, Cells(image))
        /\ image.imports \in Seq([iat : Nat, module : Names, key : Keys])
    /\ \A exports \in Tables : IsExportTable(exports, 0 .. AddressSpace - 1)

VARIABLES holder,    \* who owns the space: "none", "caller" or "process"
          modules,   \* registry->modules[0 .. count)
          aliases,   \* registry->aliases[0 .. alias_count)
          owned,     \* space->owned[0 .. owned_count)
          memory,    \* the ranges mmap gave out and munmap has not taken
          main,      \* process->main_module, an index of modules, 0 for NULL
          peb,       \* the PEB's image base
          refs,      \* process->active_references
          answered   \* a symbol that somebody resolved, with the answer

vars == <<holder, modules, aliases, owned, memory, main, peb, refs, answered>>
registry == <<modules, aliases>>
process == <<main, peb, refs>>

PeModule(name, index) == [name |-> name, kind |-> "PE", own |-> index, exports |-> <<>>]
NativeModule(name, exports) == [name |-> name, kind |-> "NATIVE", own |-> 0, exports |-> exports]

TypeOK ==
    /\ holder \in {"none", "caller", "process"}
    /\ Len(modules) <= Capacity
    /\ \A i \in DOMAIN modules :
        /\ modules[i].name \in Names
        /\ modules[i].kind = "PE" => modules[i].own \in DOMAIN owned
    /\ Len(aliases) <= AliasCapacity
    /\ \A i \in DOMAIN aliases : aliases[i] \in [contract : Names, target : Names]
    /\ \A i \in DOMAIN owned : /\ owned[i].image \in Images
                               /\ owned[i].bound \in BOOLEAN
    /\ memory \subseteq [base : Bases, size : Nat]
    /\ main \in 0 .. Len(modules)
    /\ peb \in {0} \cup Bases
    /\ refs \in 0 .. MaxReferences
    /\ answered \in {<<>>} \cup [name : Names, key : Keys,
                                 answer : [status : {"OK"}, module : DOMAIN modules,
                                           address : 1 .. AddressSpace - 1]]

Init ==
    /\ holder = "none"
    /\ modules = <<>>
    /\ aliases = <<>>
    /\ owned = <<>>
    /\ memory = {}
    /\ main = 0
    /\ peb = 0
    /\ refs = 0
    /\ answered = <<>>

-----------------------------------------------------------------------------
(* The registry (module.c).                                                *)

SameName(a, b) == Fold[a] = Fold[b]

FindModule(name) == SelectInSeq(modules, LAMBDA m : SameName(m.name, name))

FindAlias(name) == SelectInSeq(aliases, LAMBDA a : SameName(a.contract, name))

IsTaken(name) == FindModule(name) # 0 \/ FindAlias(name) # 0

\* A direct module, or the target of one alias; aliases do not chain.
ResolveModule(name) ==
    LET direct == FindModule(name)
        alias  == FindAlias(name)
    IN IF direct # 0 THEN direct
       ELSE IF alias # 0 THEN FindModule(aliases[alias].target)
       ELSE 0

Mapped(i) == owned[modules[i].own].mapped

IsPe(i) == modules[i].kind = "PE"

PeModules == {i \in DOMAIN modules : IsPe(i)}

First(found) == IF found = {} THEN 0 ELSE Min(found)

\* PE handles are load bases; the lookup takes the first module that matches.
ResolveHandle(handle) == First({i \in PeModules : Mapped(i).base = handle})

IsInside(i, address) ==
    address >= Mapped(i).base /\ address - Mapped(i).base < owned[modules[i].own].image.size

ResolveAddress(address) == First({i \in PeModules : IsInside(i, address)})

\* The export table of a module: an export has its keys and a target, which is
\* an address, an rva of the image or a forwarder.
Exports(i) == IF IsPe(i) THEN owned[modules[i].own].image.exports ELSE modules[i].exports

FindExport(i, key) == SelectInSeq(Exports(i), LAMBDA e : key \in e.keys)

IsForwarder(export) == export.kind = "forwarder"

Answer(status, i, address) == [status |-> status, module |-> i, address |-> address]

Failed(status) == Answer(status, 0, 0)

\* The address of an export that is no forwarder.
ExportAddress(i, export) ==
    IF IsPe(i) THEN Mapped(i).base + export.at ELSE export.at

\* What is asked at a depth of the recursion.
Queries == (0 .. ForwarderDepthLimit + 1) \X Names \X Keys

\* resolve_symbol_recursive: the recursion is on the depth, which every
\* forwarder increases.
ResolveQuery[query \in Queries] ==
    LET i == ResolveModule(query[2])
        e == FindExport(i, query[3])
        export == Exports(i)[e]
    IN IF query[1] > ForwarderDepthLimit THEN Failed("FORWARDER_LIMIT")
       ELSE IF i = 0 THEN Failed("MODULE_NOT_FOUND")
       ELSE IF e = 0 THEN Failed("EXPORT_NOT_FOUND")
       ELSE IF ~IsForwarder(export) THEN Answer("OK", i, ExportAddress(i, export))
       ELSE IF ~export.wellformed THEN Failed("INVALID_FORWARDER")
       ELSE ResolveQuery[<<query[1] + 1, WithDll[export.to], export.key>>]

ResolveSymbol(name, key) == ResolveQuery[<<0, name, key>>]

\* Somebody resolves a symbol and keeps the address: an import that is bound, or
\* the guest's GetProcAddress.
KeepAnswer(name, key) ==
    LET answer == ResolveSymbol(name, key)
    IN /\ answered = <<>>
       /\ answer.status = "OK"
       /\ answered' = [name |-> name, key |-> key, answer |-> answer]
       /\ UNCHANGED <<holder, registry, owned, memory, process>>

\* What sl_module_registry_add_native requires of a table.
IsValidTable(exports) ==
    /\ exports # <<>>
    /\ \A e \in DOMAIN exports :
        /\ exports[e].keys # {}
        /\ IsForwarder(exports[e]) # (exports[e].at # 0)
        /\ \A previous \in 1 .. e - 1 : exports[e].keys \cap exports[previous].keys = {}

-----------------------------------------------------------------------------
(* The module space (module_space.c).                                      *)

Create ==
    /\ holder = "none"
    /\ holder' = "caller"
    /\ UNCHANGED <<registry, owned, memory, process, answered>>

Add(module) == modules' = Append(modules, module)

\* MUTANT: only modules are searched for the new name.
CanAddMutant(name) == FindModule(name) = 0 /\ Len(modules) < Capacity

CanAdd(name) == ~IsTaken(name) /\ Len(modules) < Capacity

\* The range of an image mapped at base.
Span(image, base) == [base |-> base, size |-> image.size]

\* mmap grants a range that nothing occupies.
Grants(span) ==
    /\ span.base + span.size <= AddressSpace
    /\ \A m \in memory : \/ span.base + span.size <= m.base
                         \/ m.base + m.size <= span.base

\* The memory after an attempt to map: unmapped again if it failed.
KeepMapping(span, status) ==
    memory' = IF status = "OK" THEN memory \cup {span} ELSE memory

\* sl_module_space_add_pe for a name, a file and the address mmap grants: the
\* name and the capacity are checked, the file is copied and parsed, the image
\* mapped, relocated and registered; if one of these fails nothing is kept.
AddPe(name, image, base) ==
    LET placed == MapImageForExecution(image, base)
        status == IF placed.status = "OK" /\ ~CanAdd(name) THEN "DUPLICATE_MODULE"
                  ELSE placed.status
    IN /\ holder = "caller"
       /\ ResolveModule(name) = 0
       /\ Len(modules) < Capacity
       /\ ParsesOK(image)
       /\ Grants(Span(image, base))
       /\ KeepMapping(Span(image, base), status)
       /\ IF status = "OK"
          THEN /\ owned' = Append(owned, [image |-> image, mapped |-> placed.mapped,
                                          bound |-> FALSE])
               /\ Add(PeModule(name, Len(owned) + 1))
          ELSE UNCHANGED <<owned, modules>>
       /\ UNCHANGED <<holder, aliases, process, answered>>

AddNative(name, exports) ==
    /\ holder = "caller"
    /\ CanAdd(name)
    /\ IsValidTable(exports)
    /\ Add(NativeModule(name, exports))
    /\ UNCHANGED <<holder, aliases, owned, memory, process, answered>>

\* The spelling of the target in the registry, if there is such a module.
AliasTarget(name) ==
    IF FindModule(name) # 0 THEN modules[FindModule(name)].name ELSE "missing"

AddAlias(contract, target) ==
    /\ holder = "caller"
    /\ ~IsTaken(contract)
    /\ AliasTarget(target) # "missing"
    /\ Len(aliases) < AliasCapacity
    /\ aliases' = Append(aliases, [contract |-> contract, target |-> AliasTarget(target)])
    /\ UNCHANGED <<holder, modules, owned, memory, process, answered>>

\* The registry's answers for the imports of the i-th module's image.
ImportAnswers(i) ==
    LET imports == owned[modules[i].own].image.imports
    IN [j \in DOMAIN imports |-> ResolveSymbol(imports[j].module, imports[j].key)]

\* MUTANT: the image counts as bound although the call failed.
IsBoundAfterMutant(own, status) == TRUE

IsBoundAfter(own, status) == owned[own].bound \/ status = "OK"

BindModule(i) ==
    LET own == modules[i].own
        outcome == BindImports(owned[own].image, Mapped(i), ImportAnswers(i))
    IN /\ holder = "caller"
       /\ IsPe(i)
       /\ owned' = [owned EXCEPT ![own].mapped = outcome.mapped,
                                 ![own].bound = IsBoundAfter(own, outcome.status)]
       /\ UNCHANGED <<holder, registry, memory, process, answered>>

CanFinalize(i) == IsPe(i) /\ owned[modules[i].own].bound

FinalizeModule(i) ==
    /\ holder = "caller"
    /\ CanFinalize(i)
    /\ \E outcome \in FinalizeImage(owned[modules[i].own].image, Mapped(i)) :
        owned' = [owned EXCEPT ![modules[i].own].mapped = outcome.mapped]
    /\ UNCHANGED <<holder, registry, memory, process, answered>>

\* The space is freed with every image it owns.
FreeSpace ==
    /\ holder' = "none"
    /\ modules' = <<>>
    /\ aliases' = <<>>
    /\ owned' = <<>>
    /\ answered' = <<>>
    /\ memory' = memory \ {Span(owned[i].image, owned[i].mapped.bytes) : i \in DOMAIN owned}

DestroySpace ==
    /\ holder = "caller"
    /\ FreeSpace
    /\ UNCHANGED process

-----------------------------------------------------------------------------
(* The process (process.c).                                                *)

SpaceIsFinalized ==
    \A i \in DOMAIN modules :
        IsPe(i) => /\ Mapped(i).storage = "virtual"
                   /\ Mapped(i).finalized
                   /\ Mapped(i).base = Mapped(i).bytes

\* MUTANT: only the main module is looked at.
CanAdoptMutant(i) == main = 0 /\ peb = 0 /\ refs = 0 /\ IsPe(i) /\ Mapped(i).finalized

CanAdopt(i) ==
    /\ main = 0
    /\ peb = 0
    /\ refs = 0
    /\ IsPe(i)
    /\ SpaceIsFinalized

Adopt(i) ==
    /\ holder = "caller"
    /\ CanAdopt(i)
    /\ holder' = "process"
    /\ main' = i
    /\ peb' = Mapped(i).base
    /\ UNCHANGED <<registry, owned, memory, refs, answered>>

MaySetImageBase(base) == holder = "process" => base = Mapped(main).base

SetImageBase(base) ==
    /\ MaySetImageBase(base)
    /\ peb' = base
    /\ UNCHANGED <<holder, registry, owned, memory, main, refs, answered>>

Retain ==
    /\ refs < MaxReferences
    /\ refs' = refs + 1
    /\ UNCHANGED <<holder, registry, owned, memory, main, peb, answered>>

Release ==
    /\ refs > 0
    /\ refs' = refs - 1
    /\ UNCHANGED <<holder, registry, owned, memory, main, peb, answered>>

\* sl_win32_process_destroy, followed by the creation of another process.
DestroyProcess ==
    /\ refs = 0
    /\ main' = 0
    /\ peb' = 0
    /\ UNCHANGED refs
    /\ \/ holder = "process" /\ FreeSpace
       \/ holder # "process" /\ UNCHANGED <<holder, registry, owned, memory, answered>>

Next ==
    \/ Create
    \/ \E name \in Names, image \in Images, base \in Bases : AddPe(name, image, base)
    \/ \E name \in Names, exports \in Tables : AddNative(name, exports)
    \/ \E contract, target \in Names : AddAlias(contract, target)
    \/ \E i \in DOMAIN modules : BindModule(i) \/ FinalizeModule(i) \/ Adopt(i)
    \/ \E name \in Names, key \in Keys : KeepAnswer(name, key)
    \/ DestroySpace
    \/ \E base \in Bases \cup {0} : SetImageBase(base)
    \/ Retain
    \/ Release
    \/ DestroyProcess

Spec == Init /\ [][Next]_vars

-----------------------------------------------------------------------------
(* Properties.                                                             *)

\* A spelling denotes at most one module or alias, in any case, and an alias
\* always stands for a registered module: whichever of the registry's two
\* linear searches runs first, the answer is the same.
NamesAreUnambiguous ==
    /\ \A i, j \in DOMAIN modules : SameName(modules[i].name, modules[j].name) => i = j
    /\ \A i, j \in DOMAIN aliases : SameName(aliases[i].contract, aliases[j].contract) => i = j
    /\ \A i \in DOMAIN aliases : /\ FindModule(aliases[i].contract) = 0
                                 /\ FindModule(aliases[i].target) # 0

\* sl_module_space_add_pe and _destroy: the mappings that exist are those of
\* the owned images, each of which is the image of one registered module.
MappingsAreOwned ==
    /\ memory = {Span(owned[i].image, owned[i].mapped.bytes) : i \in DOMAIN owned}
    /\ \A i \in DOMAIN owned :
        /\ owned[i].mapped # NoMapping
        /\ Cardinality({m \in PeModules : modules[m].own = i}) = 1
        /\ \A j \in DOMAIN owned : owned[i].mapped.bytes = owned[j].mapped.bytes => i = j

\* A handle and every address of an image lead back to the image's module,
\* also when two images lie next to each other.
AddressesFindTheirModule ==
    \A i \in PeModules :
        /\ ResolveHandle(Mapped(i).base) = i
        /\ \A r \in Cells(owned[modules[i].own].image) : ResolveAddress(Mapped(i).base + r) = i

\* A symbol that resolves is a function: an address of a native table, or an
\* exported rva of a mapped image that is not the text of a forwarder, however
\* many forwarders and aliases lead to it.
ResolvedSymbolsAreFunctions ==
    \A name \in Names, key \in Keys :
        LET answer == ResolveSymbol(name, key)
        IN answer.status = "OK" =>
            \E e \in DOMAIN Exports(answer.module) :
                LET export == Exports(answer.module)[e]
                IN /\ export.kind = "function"
                   /\ answer.address = export.at
                        + IF IsPe(answer.module) THEN Mapped(answer.module).bytes ELSE 0

\* Modules and aliases that are added later never change what a symbol resolves
\* to: an import bound early and a GetProcAddress made late agree.
ResolutionIsStable ==
    answered # <<>> => ResolveSymbol(answered.name, answered.key) = answered.answer

\* An image is as it was mapped until one bind succeeds, whatever failed before,
\* and from then on its import table holds the addresses the registry gives now:
\* a cell that several imports name, that of the last one.
BoundImportsAreCurrent ==
    \A i \in PeModules :
        LET image   == owned[modules[i].own].image
            imports == image.imports
        IN IF owned[modules[i].own].bound
           THEN \A j \in DOMAIN imports :
                    \/ \E later \in DOMAIN imports : later > j /\ imports[later].iat = imports[j].iat
                    \/ Mapped(i).cells[imports[j].iat] = ImportAnswers(i)[j].address
           ELSE Mapped(i).cells = MapImageForExecution(image, Mapped(i).bytes).mapped.cells

\* "a fully bound/finalized bootstrap module space": once the process has the
\* space, every image is bound, sealed and at its base, and every import leads
\* to a native function or into another image of the space.
AdoptedSpaceIsLinked ==
    holder = "process" =>
        \A i \in PeModules :
            /\ owned[modules[i].own].bound
            /\ Mapped(i).storage = "virtual" /\ Mapped(i).finalized
            /\ Mapped(i).base = Mapped(i).bytes
            /\ \A j \in DOMAIN ImportAnswers(i) : ImportAnswers(i)[j].status = "OK"

\* The PEB names the main module's image from the adoption to the end of the
\* process, and the process never outlives the images it owns.
PebNamesMainImage ==
    /\ main # 0 <=> holder = "process"
    /\ main # 0 => IsPe(main) /\ peb = Mapped(main).base /\ \E m \in memory : m.base = peb

(* What sl_module_registry_add and sl_module_space_add_pe build, failed    *)
(* calls included: names and addresses lead to one module, and what is     *)
(* mapped is what is registered.                                           *)
RegistryIsConsistent ==
    /\ TypeOK
    /\ NamesAreUnambiguous
    /\ AddressesFindTheirModule
    /\ MappingsAreOwned

(* sl_win32_process_adopt_module_space: the process owns a linked space    *)
(* and its PEB names the main image of it.                                 *)
ProcessIsLinked == AdoptedSpaceIsLinked /\ PebNamesMainImage

(* A symbol leads to a function, and to the same one ever after.           *)
SymbolsAreStable == ResolvedSymbolsAreFunctions /\ ResolutionIsStable

(* The registry, the mappings and the process that adopts them agree after *)
(* any sequence of calls, failed ones included.                            *)
SpaceIsConsistent == RegistryIsConsistent /\ ProcessIsLinked
=============================================================================
