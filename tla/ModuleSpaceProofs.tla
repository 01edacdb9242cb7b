------------------------- MODULE ModuleSpaceProofs -------------------------
(***************************************************************************)
(* Safety of the bootstrap for any names, images, native tables and bases, *)
(* any capacities of the registry and any limit on forwarders; and safety  *)
(* of one image under the loader's interface, for any images and addresses *)
(***************************************************************************)
EXTENDS ModuleSpace, LoaderImage, WellFoundedInduction, FiniteSetTheorems, TLAPS

IsSequence(s) == s \in Seq({s[i] : i \in DOMAIN s})

NativeTables == {exports \in Tables : IsValidTable(exports)}

ModuleType == [name : Names, kind : {"PE"}, own : Nat, exports : {<<>>}]
              \cup [name : Names, kind : {"NATIVE"}, own : {0}, exports : NativeTables]

AliasType == [contract : Names, target : Names]

(* A mapping of an execution image, at the base it was relocated to. *)
IsMapping(m) ==
    /\ DOMAIN m = {"storage", "bytes", "base", "finalized", "cells", "prot"}
    /\ m.storage \in {"virtual", "tainted"}
    /\ m.bytes \in Bases
    /\ m.base = m.bytes
    /\ m.finalized \in BOOLEAN

IsOwned(o) ==
    /\ DOMAIN o = {"image", "mapped", "bound"}
    /\ o.image \in Images
    /\ o.image.size > 0
    /\ IsMapping(o.mapped)
    /\ o.bound \in BOOLEAN
    /\ o.mapped.finalized => o.bound

IsAnswered(a) ==
    /\ a = [name |-> a.name, key |-> a.key, answer |-> a.answer]
    /\ a.name \in Names
    /\ a.key \in Keys
    /\ a.answer.status = "OK"

TypeInv ==
    /\ holder \in {"none", "caller", "process"}
    /\ modules \in Seq(ModuleType)
    /\ Len(modules) <= Capacity
    /\ aliases \in Seq(AliasType)
    /\ Len(aliases) <= AliasCapacity
    /\ IsSequence(owned)
    /\ \A o \in DOMAIN owned : IsOwned(owned[o])
    /\ main \in 0 .. Len(modules)
    /\ peb \in {0} \cup Bases
    /\ refs \in 0 .. MaxReferences

(* Modules and aliases have names of their own, and an alias a module. *)
NameInv ==
    /\ \A i, j \in DOMAIN modules : SameName(modules[i].name, modules[j].name) => i = j
    /\ \A i, j \in DOMAIN aliases : SameName(aliases[i].contract, aliases[j].contract) => i = j
    /\ \A a \in DOMAIN aliases :
        /\ \A i \in DOMAIN modules : ~SameName(modules[i].name, aliases[a].contract)
        /\ \E i \in DOMAIN modules : SameName(modules[i].name, aliases[a].target)

(* Images and the modules that own them correspond one to one. *)
OwnInv ==
    /\ \A i \in PeModules : modules[i].own \in DOMAIN owned
    /\ \A i, j \in PeModules : modules[i].own = modules[j].own => i = j
    /\ \A o \in DOMAIN owned : \E i \in PeModules : modules[i].own = o

SpanOf(o) == Span(owned[o].image, owned[o].mapped.bytes)

(* The mappings are those of the owned images, and do not overlap. *)
SpanInv ==
    /\ memory = {SpanOf(o) : o \in DOMAIN owned}
    /\ \A o \in DOMAIN owned : SpanOf(o).base + SpanOf(o).size <= AddressSpace
    /\ \A o, p \in DOMAIN owned :
        o # p => \/ SpanOf(o).base + SpanOf(o).size <= SpanOf(p).base
                 \/ SpanOf(p).base + SpanOf(p).size <= SpanOf(o).base

(* A bound image's imports all resolve, to what its import table holds. *)
BoundInv ==
    \A i \in PeModules :
        owned[modules[i].own].bound =>
            \A j \in DOMAIN owned[modules[i].own].image.imports : ImportAnswers(i)[j].status = "OK"

ProcessInv ==
    /\ main # 0 <=> holder = "process"
    /\ holder = "process" => /\ main \in PeModules
                             /\ peb = Mapped(main).base
                             /\ SpaceIsFinalized

AnswerInv ==
    answered # <<>> => /\ IsAnswered(answered)
                       /\ ResolutionIsStable

IndInv ==
    /\ TypeInv
    /\ NameInv
    /\ OwnInv
    /\ SpanInv
    /\ BoundInv
    /\ BoundImportsAreCurrent
    /\ ProcessInv
    /\ AnswerInv
-----------------------------------------------------------------------------
(* Lookups.                                                                *)

(* A nonempty set of naturals has a least element. *)
LEMMA SmallestExists ==
  ASSUME NEW S \in SUBSET Nat, S # {}
  PROVE  \E x \in S : \A y \in S : x <= y
<1>1. PICK x \in S : \A y \in S : <<y, x>> \notin OpToRel(<, Nat)
  BY NatLessThanWellFounded, WFMin
<1>2. \A y \in S : ~(y < x)
  BY <1>1 DEF OpToRel
<1>3. QED
  BY <1>2

(* Induction over the naturals, for a set. *)
LEMMA Induction ==
  ASSUME NEW S, 0 \in S, \A n \in Nat : n \in S => n + 1 \in S
  PROVE  \A n \in Nat : n \in S
<1> DEFINE Bad == Nat \ S
<1> SUFFICES ASSUME Bad # {} PROVE FALSE
  OBVIOUS
<1>1. PICK m \in Bad : \A k \in Bad : m <= k
  BY SmallestExists
<1>2. m \in Nat /\ m # 0
  OBVIOUS
<1>3. m - 1 \in Nat /\ (m - 1) + 1 = m
  BY <1>2
<1>4. m - 1 \in S
  BY <1>1, <1>3
<1>5. QED
  BY <1>3, <1>4

(* A set of indices has a least one. *)
LEMMA LeastIndex ==
  ASSUME NEW n \in Nat, NEW I \in SUBSET (1 .. n), I # {}
  PROVE  Min(I) \in I /\ \A k \in I : Min(I) <= k
<1>1. \E x \in I : \A y \in I : x <= y
  BY SmallestExists
<1>2. QED
  BY <1>1 DEF Min

LEMMA FindModuleIs ==
  ASSUME TypeInv, NEW name \in Names
  PROVE  /\ FindModule(name) \in 0 .. Len(modules)
         /\ FindModule(name) = 0 => \A i \in DOMAIN modules : ~SameName(modules[i].name, name)
         /\ FindModule(name) # 0 => SameName(modules[FindModule(name)].name, name)
<1> DEFINE I == {i \in 1 .. Len(modules) : SameName(modules[i].name, name)}
<1>1. Len(modules) \in Nat /\ DOMAIN modules = 1 .. Len(modules)
  BY DEF TypeInv
<1>2. FindModule(name) = IF I # {} THEN Min(I) ELSE 0
  BY DEF FindModule, SelectInSeq
<1>3. I # {} => Min(I) \in I
  BY <1>1, LeastIndex
<1>4. QED
  BY <1>1, <1>2, <1>3

LEMMA FindAliasIs ==
  ASSUME TypeInv, NEW name \in Names
  PROVE  /\ FindAlias(name) \in 0 .. Len(aliases)
         /\ FindAlias(name) = 0 => \A a \in DOMAIN aliases : ~SameName(aliases[a].contract, name)
         /\ FindAlias(name) # 0 => SameName(aliases[FindAlias(name)].contract, name)
<1> DEFINE I == {a \in 1 .. Len(aliases) : SameName(aliases[a].contract, name)}
<1>1. Len(aliases) \in Nat /\ DOMAIN aliases = 1 .. Len(aliases)
  BY DEF TypeInv
<1>2. FindAlias(name) = IF I # {} THEN Min(I) ELSE 0
  BY DEF FindAlias, SelectInSeq
<1>3. I # {} => Min(I) \in I
  BY <1>1, LeastIndex
<1>4. QED
  BY <1>1, <1>2, <1>3

(* A module answers to its own name and to its aliases, and to nothing else. *)
AnswersTo(i, name) ==
    \/ SameName(modules[i].name, name)
    \/ \E a \in DOMAIN aliases : /\ SameName(aliases[a].contract, name)
                                 /\ SameName(modules[i].name, aliases[a].target)

LEMMA ResolveModuleIs ==
  ASSUME TypeInv, NameInv, NEW name \in Names
  PROVE  /\ ResolveModule(name) \in 0 .. Len(modules)
         /\ \A i \in DOMAIN modules : AnswersTo(i, name) <=> ResolveModule(name) = i
<1>1. Len(modules) \in Nat /\ DOMAIN modules = 1 .. Len(modules)
  BY DEF TypeInv
<1>2. \A a \in DOMAIN aliases : aliases[a].target \in Names
  <2>1. aliases \in Seq(AliasType)
    BY DEF TypeInv
  <2>2. \A a \in DOMAIN aliases : aliases[a] \in AliasType
    BY <2>1
  <2>3. QED
    BY <2>2 DEF AliasType
<1>3. Len(aliases) \in Nat /\ DOMAIN aliases = 1 .. Len(aliases)
  BY DEF TypeInv
<1>4. CASE FindModule(name) # 0
  <2>1. ResolveModule(name) = FindModule(name)
    BY <1>4 DEF ResolveModule
  <2>2. FindModule(name) \in DOMAIN modules
    BY <1>1, <1>4, FindModuleIs
  <2>3. SameName(modules[FindModule(name)].name, name)
    BY <1>4, FindModuleIs
  <2>4. \A a \in DOMAIN aliases : ~SameName(aliases[a].contract, name)
    BY <2>2, <2>3 DEF NameInv, SameName
  <2>5. \A i \in DOMAIN modules : SameName(modules[i].name, name) => i = FindModule(name)
    BY <2>2, <2>3 DEF NameInv, SameName
  <2>6. QED
    BY <1>1, <2>1, <2>2, <2>3, <2>4, <2>5 DEF AnswersTo
<1>5. CASE FindModule(name) = 0 /\ FindAlias(name) # 0
  <2> DEFINE a == FindAlias(name)
  <2>1. a \in DOMAIN aliases /\ SameName(aliases[a].contract, name)
    BY <1>3, <1>5, FindAliasIs
  <2>2. \A i \in DOMAIN modules : ~SameName(modules[i].name, name)
    BY <1>5, FindModuleIs
  <2>3. \A b \in DOMAIN aliases : SameName(aliases[b].contract, name) => b = a
    BY <2>1 DEF NameInv, SameName
  <2>4. \E i \in DOMAIN modules : SameName(modules[i].name, aliases[a].target)
    BY <2>1 DEF NameInv
  <2>5. aliases[a].target \in Names
    BY <1>2, <2>1
  <2> DEFINE k == FindModule(aliases[a].target)
  <2>6. k # 0 /\ k \in DOMAIN modules
    BY <2>4, <2>5, <1>1, FindModuleIs
  <2>7. SameName(modules[k].name, aliases[a].target)
    BY <2>5, <2>6, FindModuleIs
  <2>8. \A i \in DOMAIN modules : SameName(modules[i].name, aliases[a].target) => i = k
    BY <2>6, <2>7 DEF NameInv, SameName
  <2>9. ResolveModule(name) = k
    BY <1>5 DEF ResolveModule
  <2> HIDE DEF a, k
  <2>10. QED
    BY <1>1, <2>1, <2>2, <2>3, <2>6, <2>7, <2>8, <2>9 DEF AnswersTo
<1>6. CASE FindModule(name) = 0 /\ FindAlias(name) = 0
  <2>1. ResolveModule(name) = 0
    BY <1>6 DEF ResolveModule
  <2>2. \A i \in DOMAIN modules : ~AnswersTo(i, name)
    BY <1>6, FindModuleIs, FindAliasIs DEF AnswersTo
  <2>3. QED
    BY <1>1, <2>1, <2>2
<1>7. QED
  BY <1>4, <1>5, <1>6

Lookups ==
    \A name \in Names :
        \A i \in DOMAIN modules : AnswersTo(i, name) <=> ResolveModule(name) = i

LEMMA LookupsAnswer == TypeInv /\ NameInv => Lookups
  BY ResolveModuleIs DEF Lookups

(* The table of a registered module is one of those the parsers return. *)
LEMMA ExportsAreTables ==
  ASSUME TypeInv, OwnInv, NEW i \in DOMAIN modules
  PROVE  \E places : IsExportTable(Exports(i), places)
<1>1. modules[i] \in ModuleType
  BY DEF TypeInv
<1>2. CASE IsPe(i)
  <2>1. modules[i].own \in DOMAIN owned
    BY <1>2 DEF OwnInv, PeModules
  <2>2. owned[modules[i].own].image \in Images
    BY <2>1 DEF TypeInv, IsOwned
  <2>3. QED
    BY <1>2, <2>2, ImagesAssumption DEF Exports
<1>3. CASE ~IsPe(i)
  <2>1. modules[i].exports \in Tables
    BY <1>1, <1>3 DEF ModuleType, NativeTables, IsPe
  <2>2. QED
    BY <1>3, <2>1, ImagesAssumption DEF Exports
<1>4. QED
  BY <1>2, <1>3

LEMMA FindExportIs ==
  ASSUME TypeInv, OwnInv, NEW i \in DOMAIN modules, NEW key
  PROVE  FindExport(i, key) # 0 => FindExport(i, key) \in DOMAIN Exports(i)
<1> DEFINE I == {e \in 1 .. Len(Exports(i)) : key \in Exports(i)[e].keys}
<1>1. Len(Exports(i)) \in Nat /\ DOMAIN Exports(i) = 1 .. Len(Exports(i))
  BY ExportsAreTables DEF IsExportTable
<1>2. FindExport(i, key) = IF I # {} THEN Min(I) ELSE 0
  BY DEF FindExport, SelectInSeq
<1>3. I # {} => Min(I) \in I
  BY <1>1, LeastIndex
<1>4. QED
  BY <1>1, <1>2, <1>3

-----------------------------------------------------------------------------
(* Resolution.  A query lands on a function, hops to another query, or     *)
(* fails.                                                                  *)

Target(q) == Exports(ResolveModule(q[2]))[FindExport(ResolveModule(q[2]), q[3])]

Finds(q) ==
    /\ q[1] <= ForwarderDepthLimit
    /\ ResolveModule(q[2]) # 0
    /\ FindExport(ResolveModule(q[2]), q[3]) # 0

Lands(q) == Finds(q) /\ ~IsForwarder(Target(q))

Hops(q) == Finds(q) /\ IsForwarder(Target(q)) /\ Target(q).wellformed

Hop(q) == <<q[1] + 1, WithDll[Target(q).to], Target(q).key>>

LEMMA HopIsQuery ==
  ASSUME TypeInv, NameInv, OwnInv, NEW q \in Queries, Hops(q)
  PROVE  Hop(q) \in Queries /\ Hop(q)[1] = q[1] + 1
<1> DEFINE i == ResolveModule(q[2])
           e == FindExport(i, q[3])
<1>1. q[1] \in 0 .. ForwarderDepthLimit + 1 /\ q[2] \in Names /\ q[3] \in Keys
  BY DEF Queries
<1>2. i \in DOMAIN modules
  BY <1>1, ResolveModuleIs DEF Hops, Finds, TypeInv
<1>3. e \in DOMAIN Exports(i)
  BY <1>2, FindExportIs DEF Hops, Finds
<1>4. Target(q).to \in Names /\ Target(q).key \in Keys
  BY <1>2, <1>3, ExportsAreTables DEF IsExportTable, Hops, Target, IsForwarder
<1>5. WithDll[Target(q).to] \in Names
  BY <1>4, ModuleSpaceAssumption
<1>6. q[1] + 1 \in 0 .. ForwarderDepthLimit + 1
  BY <1>1, ModuleSpaceAssumption DEF Hops, Finds
<1>7. QED
  BY <1>4, <1>5, <1>6 DEF Queries, Hop

(* ResolveQuery satisfies its recursion: every forwarder increases the     *)
(* depth, and the depth is limited.                                        *)
LEMMA ResolveQueryIs ==
  ASSUME TypeInv, NameInv, OwnInv, NEW q \in Queries
  PROVE  /\ Lands(q) => ResolveQuery[q] =
                Answer("OK", ResolveModule(q[2]), ExportAddress(ResolveModule(q[2]), Target(q)))
         /\ Hops(q) => ResolveQuery[q] = ResolveQuery[Hop(q)]
         /\ ~Lands(q) /\ ~Hops(q) => ResolveQuery[q].status # "OK"
<1> DEFINE L == ForwarderDepthLimit
           Body(f, p) ==
             LET i == ResolveModule(p[2])
                 e == FindExport(i, p[3])
                 export == Exports(i)[e]
             IN IF p[1] > L THEN Failed("FORWARDER_LIMIT")
                ELSE IF i = 0 THEN Failed("MODULE_NOT_FOUND")
                ELSE IF e = 0 THEN Failed("EXPORT_NOT_FOUND")
                ELSE IF ~IsForwarder(export) THEN Answer("OK", i, ExportAddress(i, export))
                ELSE IF ~export.wellformed THEN Failed("INVALID_FORWARDER")
                ELSE f[<<p[1] + 1, WithDll[export.to], export.key>>]
<1>1. \A p \in Queries : p[1] \in 0 .. L + 1
  BY DEF Queries
<1>2. L \in Nat
  BY ModuleSpaceAssumption
<1>3. ASSUME NEW f, NEW p \in Queries
      PROVE  /\ Lands(p) => Body(f, p) =
                   Answer("OK", ResolveModule(p[2]), ExportAddress(ResolveModule(p[2]), Target(p)))
             /\ Hops(p) => Body(f, p) = f[Hop(p)]
             /\ ~Lands(p) /\ ~Hops(p) => Body(f, p).status # "OK"
  <2>1. CASE p[1] > L
    BY <2>1, <1>1, <1>2 DEF Lands, Hops, Finds, Failed, Answer
  <2>2. CASE ~(p[1] > L) /\ ~Finds(p)
    BY <2>2, <1>1, <1>2 DEF Lands, Hops, Finds, Failed, Answer
  <2>3. CASE ~(p[1] > L) /\ Finds(p)
    BY <2>3, <1>1, <1>2 DEF Lands, Hops, Hop, Target, Finds, Failed, Answer
  <2>4. QED
    BY <2>1, <2>2, <2>3
<1>4. ASSUME NEW f, NEW g, NEW p \in Queries, Hops(p) => f[Hop(p)] = g[Hop(p)]
      PROVE  Body(f, p) = Body(g, p)
  <2>1. CASE p[1] > L
    BY <2>1
  <2>2. CASE ~(p[1] > L) /\ ~Finds(p)
    BY <2>2, <1>1, <1>2 DEF Finds
  <2>3. CASE ~(p[1] > L) /\ Finds(p)
    BY <2>3, <1>4, <1>1, <1>2 DEF Finds, Hops, Hop, Target
  <2>4. QED
    BY <2>1, <2>2, <2>3
<1>5. ResolveQuery = CHOOSE f : f = [p \in Queries |-> Body(f, p)]
  BY DEF ResolveQuery
<1> HIDE DEF Body
<1> DEFINE Below(f, n) == \A p \in Queries : p[1] >= L + 1 - n => f[p] = Body(f, p)
           Good == {n \in Nat : \E f : f = [p \in Queries |-> f[p]] /\ Below(f, n)}
<1>6. 0 \in Good
  <2> DEFINE f == [p \in Queries |-> Body(0, p)]
  <2>1. ASSUME NEW p \in Queries, p[1] >= L + 1 - 0 PROVE f[p] = Body(f, p)
    <3>1. ~Hops(p)
      BY <2>1, <1>1, <1>2 DEF Hops, Finds
    <3>2. Body(f, p) = Body(0, p)
      BY <3>1, <1>4
    <3>3. QED
      BY <3>2
  <2>2. f = [p \in Queries |-> f[p]]
    OBVIOUS
  <2> HIDE DEF f
  <2>3. QED
    BY <2>1, <2>2
<1>7. ASSUME NEW n \in Nat, n \in Good PROVE n + 1 \in Good
  <2>1. PICK f : f = [p \in Queries |-> f[p]] /\ Below(f, n)
    BY <1>7
  <2> DEFINE g == [p \in Queries |-> Body(f, p)]
  <2>2. ASSUME NEW p \in Queries, p[1] >= L + 1 - (n + 1) PROVE g[p] = Body(g, p)
    <3>1. ASSUME Hops(p) PROVE f[Hop(p)] = g[Hop(p)]
      <4>1. Hop(p) \in Queries /\ Hop(p)[1] = p[1] + 1
        BY <3>1, HopIsQuery
      <4>2. Hop(p)[1] >= L + 1 - n
        BY <4>1, <2>2, <1>1, <1>2
      <4>3. QED
        BY <4>1, <4>2, <2>1
    <3>2. Body(f, p) = Body(g, p)
      BY <3>1, <1>4
    <3>3. QED
      BY <3>2
  <2>3. g = [p \in Queries |-> g[p]]
    OBVIOUS
  <2> HIDE DEF g
  <2>4. QED
    BY <2>2, <2>3
<1>8. L + 1 \in Good
  <2> HIDE DEF Good
  <2>1. \A n \in Nat : n \in Good
    BY <1>6, <1>7, Induction
  <2>2. QED
    BY <2>1, <1>2
<1>9. PICK f : f = [p \in Queries |-> f[p]] /\ Below(f, L + 1)
  BY <1>8
<1>10. f = [p \in Queries |-> Body(f, p)]
  <2>1. \A p \in Queries : f[p] = Body(f, p)
    BY <1>9, <1>1, <1>2
  <2>2. QED
    BY <1>9, <2>1
<1>11. ResolveQuery = [p \in Queries |-> Body(ResolveQuery, p)]
  <2>1. \E h : h = [p \in Queries |-> Body(h, p)]
    BY <1>10
  <2>2. QED
    BY <2>1, <1>5
<1>12. ResolveQuery[q] = Body(ResolveQuery, q)
  BY <1>11
<1>13. QED
  BY <1>12, <1>3

Levels ==
    \A q \in Queries :
        /\ Lands(q) => ResolveQuery[q] =
               Answer("OK", ResolveModule(q[2]), ExportAddress(ResolveModule(q[2]), Target(q)))
        /\ Hops(q) => ResolveQuery[q] = ResolveQuery[Hop(q)]

LEMMA LevelsHold == TypeInv /\ NameInv /\ OwnInv => Levels
  BY ResolveQueryIs DEF Levels

(* What a resolved symbol is: an export of a registered module that is no  *)
(* forwarder.                                                              *)
IsFunctionOf(answer, i, e) ==
    /\ i \in DOMAIN modules
    /\ e \in DOMAIN Exports(i)
    /\ ~IsForwarder(Exports(i)[e])
    /\ answer = Answer("OK", i, ExportAddress(i, Exports(i)[e]))

LEMMA LandsOnFunction ==
  ASSUME TypeInv, NameInv, OwnInv, NEW q \in Queries, Lands(q)
  PROVE  \E i \in DOMAIN modules : \E e \in DOMAIN Exports(i) : IsFunctionOf(ResolveQuery[q], i, e)
<1> DEFINE i == ResolveModule(q[2])
           e == FindExport(i, q[3])
<1>1. q[2] \in Names
  BY DEF Queries
<1>2. i \in DOMAIN modules
  BY <1>1, ResolveModuleIs DEF Lands, Finds, TypeInv
<1>3. e \in DOMAIN Exports(i)
  BY <1>2, FindExportIs DEF Lands, Finds
<1>4. ResolveQuery[q] = Answer("OK", i, ExportAddress(i, Exports(i)[e]))
  BY ResolveQueryIs DEF Target
<1>5. IsFunctionOf(ResolveQuery[q], i, e)
  BY <1>2, <1>3, <1>4 DEF IsFunctionOf, Lands, Target
<1>6. QED
  BY <1>2, <1>3, <1>5

(* However many forwarders lead to it. *)
LEMMA ResolvedIsFunction ==
  ASSUME TypeInv, NameInv, OwnInv, NEW q \in Queries, ResolveQuery[q].status = "OK"
  PROVE  \E i \in DOMAIN modules : \E e \in DOMAIN Exports(i) : IsFunctionOf(ResolveQuery[q], i, e)
<1> DEFINE L == ForwarderDepthLimit
           Claim(p) == ResolveQuery[p].status = "OK" =>
               \E i \in DOMAIN modules : \E e \in DOMAIN Exports(i) : IsFunctionOf(ResolveQuery[p], i, e)
           Good == {n \in Nat : \A p \in Queries : p[1] >= L + 1 - n => Claim(p)}
<1>1. L \in Nat /\ \A p \in Queries : p[1] \in 0 .. L + 1
  BY ModuleSpaceAssumption DEF Queries
<1>2. ASSUME NEW p \in Queries, Hops(p) => Claim(Hop(p)) PROVE Claim(p)
  <2>1. CASE Lands(p)
    BY <2>1, LandsOnFunction
  <2>2. CASE Hops(p)
    <3>1. ResolveQuery[p] = ResolveQuery[Hop(p)]
      BY <2>2, ResolveQueryIs
    <3>2. QED
      BY <3>1, <2>2, <1>2
  <2>3. CASE ~Lands(p) /\ ~Hops(p)
    BY <2>3, ResolveQueryIs
  <2>4. QED
    BY <2>1, <2>2, <2>3
<1> HIDE DEF Claim
<1>3. 0 \in Good
  <2>1. ASSUME NEW p \in Queries, p[1] >= L + 1 - 0 PROVE Claim(p)
    BY <2>1, <1>1, <1>2 DEF Hops, Finds
  <2>2. QED
    BY <2>1
<1>4. ASSUME NEW n \in Nat, n \in Good PROVE n + 1 \in Good
  <2>1. ASSUME NEW p \in Queries, p[1] >= L + 1 - (n + 1) PROVE Claim(p)
    <3>1. ASSUME Hops(p) PROVE Claim(Hop(p))
      <4>1. Hop(p) \in Queries /\ Hop(p)[1] = p[1] + 1
        BY <3>1, HopIsQuery
      <4>2. Hop(p)[1] >= L + 1 - n
        BY <4>1, <2>1, <1>1
      <4>3. QED
        BY <4>1, <4>2, <1>4
    <3>2. QED
      BY <3>1, <1>2
  <2>2. QED
    BY <2>1
<1>5. L + 1 \in Good
  <2> HIDE DEF Good
  <2>1. \A n \in Nat : n \in Good
    BY <1>3, <1>4, Induction
  <2>2. QED
    BY <2>1, <1>1
<1>6. Claim(q)
  BY <1>5, <1>1
<1>7. QED
  BY <1>6 DEF Claim

(* A step that adds to the registry and leaves alone what resolution reads *)
(* of what was there.                                                      *)
Kept ==
    /\ \A i \in DOMAIN modules : i \in DOMAIN modules' /\ modules'[i] = modules[i]
    /\ \A a \in DOMAIN aliases : a \in DOMAIN aliases' /\ aliases'[a] = aliases[a]
    /\ \A o \in DOMAIN owned : /\ o \in DOMAIN owned'
                               /\ owned'[o].image = owned[o].image
                               /\ owned'[o].mapped.base = owned[o].mapped.base

LEMMA LookupsKept ==
  ASSUME TypeInv, NameInv, OwnInv, TypeInv', NameInv', OwnInv', Kept
  PROVE  /\ \A name \in Names : ResolveModule(name) # 0 => ResolveModule(name)' = ResolveModule(name)
         /\ \A i \in DOMAIN modules : /\ Exports(i)' = Exports(i)
                                      /\ \A export : ExportAddress(i, export)' = ExportAddress(i, export)
<1>1. ASSUME NEW name \in Names, ResolveModule(name) # 0
      PROVE  ResolveModule(name)' = ResolveModule(name)
  <2> DEFINE i == ResolveModule(name)
  <2>1. i \in DOMAIN modules /\ AnswersTo(i, name)
    BY <1>1, ResolveModuleIs DEF TypeInv
  <2>2. i \in DOMAIN modules'
    BY <2>1 DEF Kept
  <2> HIDE DEF i
  <2>3. \/ SameName(modules'[i].name, name)
        \/ \E a \in DOMAIN aliases' : /\ SameName(aliases'[a].contract, name)
                                      /\ SameName(modules'[i].name, aliases'[a].target)
    BY <2>1 DEF AnswersTo, Kept
  <2>4. Lookups'
    BY LookupsAnswer, PTL
  <2>5. QED
    BY <2>2, <2>3, <2>4 DEF Lookups, AnswersTo, i
<1>2. ASSUME NEW i \in DOMAIN modules
      PROVE  /\ Exports(i)' = Exports(i)
             /\ \A export : ExportAddress(i, export)' = ExportAddress(i, export)
  <2>1. modules'[i] = modules[i]
    BY DEF Kept
  <2>2. CASE IsPe(i)
    <3>1. modules[i].own \in DOMAIN owned
      BY <2>2 DEF OwnInv, PeModules
    <3>2. QED
      BY <2>1, <2>2, <3>1 DEF Kept, Exports, ExportAddress, IsPe, Mapped
  <2>3. CASE ~IsPe(i)
    BY <2>1, <2>3 DEF Exports, ExportAddress, IsPe
  <2>4. QED
    BY <2>2, <2>3
<1>3. QED
  BY <1>1, <1>2

(* One level of a query that finds an export finds the same one later. *)
LEMMA FindsKept ==
  ASSUME TypeInv, NameInv, OwnInv, TypeInv', NameInv', OwnInv', Kept,
         NEW q \in Queries, Finds(q)
  PROVE  /\ ResolveModule(q[2])' = ResolveModule(q[2])
         /\ Finds(q)'
         /\ Target(q)' = Target(q)
         /\ ExportAddress(ResolveModule(q[2]), Target(q))' = ExportAddress(ResolveModule(q[2]), Target(q))
<1> DEFINE i == ResolveModule(q[2])
           e == FindExport(i, q[3])
<1>1. q[2] \in Names /\ i # 0
  BY DEF Queries, Finds
<1>2. i \in DOMAIN modules
  BY <1>1, ResolveModuleIs DEF TypeInv
<1>3. i' = i
  BY <1>1, LookupsKept
<1>4. /\ Exports(i)' = Exports(i)
      /\ \A export : ExportAddress(i, export)' = ExportAddress(i, export)
  <2>1. ASSUME NEW k \in DOMAIN modules
        PROVE  /\ Exports(k)' = Exports(k)
               /\ \A export : ExportAddress(k, export)' = ExportAddress(k, export)
    BY LookupsKept
  <2>2. QED
    BY <1>2, <1>3, <2>1 DEF Exports, ExportAddress, IsPe, Mapped
<1>5. e' = e
  BY <1>3, <1>4 DEF FindExport, SelectInSeq
<1>6. Target(q)' = Target(q)
  BY <1>3, <1>4, <1>5 DEF Target
<1>7. QED
  BY <1>3, <1>4, <1>5, <1>6 DEF Finds

(* A symbol that resolves resolves to the same address ever after.         *)
LEMMA ResolvedStays ==
  ASSUME TypeInv, NameInv, OwnInv, TypeInv', NameInv', OwnInv', Kept,
         NEW q \in Queries, ResolveQuery[q].status = "OK"
  PROVE  ResolveQuery'[q] = ResolveQuery[q]
<1> DEFINE L == ForwarderDepthLimit
           Claim(p) == ResolveQuery[p].status = "OK" => ResolveQuery'[p] = ResolveQuery[p]
           Good == {n \in Nat : \A p \in Queries : p[1] >= L + 1 - n => Claim(p)}
<1>1. L \in Nat /\ \A p \in Queries : p[1] \in 0 .. L + 1
  BY ModuleSpaceAssumption DEF Queries
<1>2. ASSUME NEW p \in Queries, Hops(p) => Claim(Hop(p)) PROVE Claim(p)
  <2>1. Levels'
    BY LevelsHold, PTL
  <2>2. CASE Lands(p)
    <3>1. Lands(p)'
      BY <2>2, FindsKept DEF Lands
    <3>2. ResolveQuery'[p] =
            Answer("OK", ResolveModule(p[2]), ExportAddress(ResolveModule(p[2]), Target(p)))'
      BY <3>1, <2>1 DEF Levels
    <3>3. ResolveQuery[p] =
            Answer("OK", ResolveModule(p[2]), ExportAddress(ResolveModule(p[2]), Target(p)))
      BY <2>2, ResolveQueryIs
    <3>4. QED
      BY <2>2, <3>2, <3>3, FindsKept DEF Lands, Answer
  <2>3. CASE Hops(p)
    <3>1. Hops(p)' /\ Hop(p)' = Hop(p)
      BY <2>3, FindsKept DEF Hops, Hop
    <3>2. ResolveQuery'[p] = ResolveQuery'[Hop(p)]
      BY <3>1, <2>1 DEF Levels
    <3>3. ResolveQuery[p] = ResolveQuery[Hop(p)]
      BY <2>3, ResolveQueryIs
    <3>4. QED
      BY <2>3, <3>2, <3>3, <1>2
  <2>4. CASE ~Lands(p) /\ ~Hops(p)
    BY <2>4, ResolveQueryIs
  <2>5. QED
    BY <2>2, <2>3, <2>4
<1> HIDE DEF Claim
<1>3. 0 \in Good
  <2>1. ASSUME NEW p \in Queries, p[1] >= L + 1 - 0 PROVE Claim(p)
    BY <2>1, <1>1, <1>2 DEF Hops, Finds
  <2>2. QED
    BY <2>1
<1>4. ASSUME NEW n \in Nat, n \in Good PROVE n + 1 \in Good
  <2>1. ASSUME NEW p \in Queries, p[1] >= L + 1 - (n + 1) PROVE Claim(p)
    <3>1. ASSUME Hops(p) PROVE Claim(Hop(p))
      <4>1. Hop(p) \in Queries /\ Hop(p)[1] = p[1] + 1
        BY <3>1, HopIsQuery
      <4>2. Hop(p)[1] >= L + 1 - n
        BY <4>1, <2>1, <1>1
      <4>3. QED
        BY <4>1, <4>2, <1>4
    <3>2. QED
      BY <3>1, <1>2
  <2>2. QED
    BY <2>1
<1>5. L + 1 \in Good
  <2> HIDE DEF Good
  <2>1. \A n \in Nat : n \in Good
    BY <1>3, <1>4, Induction
  <2>2. QED
    BY <2>1, <1>1
<1>6. Claim(q)
  BY <1>5, <1>1
<1>7. QED
  BY <1>6 DEF Claim

-----------------------------------------------------------------------------
(* The loader's outcomes.                                                  *)

LEMMA PlacedIs ==
  ASSUME NEW image, NEW base \in Bases, MapImageForExecution(image, base).status = "OK"
  PROVE  /\ IsMapping(MapImageForExecution(image, base).mapped)
         /\ MapImageForExecution(image, base).mapped.bytes = base
         /\ MapImageForExecution(image, base).mapped.storage = "virtual"
         /\ MapImageForExecution(image, base).mapped.finalized = FALSE
<1> DEFINE m == InitializeMapping(image, base, "virtual")
           placed == ApplyRelocations(image, m, base)
           patched == Patched(image, m.cells, (base - m.base) % AddressSpace)
<1>1. /\ MapImageForExecution(image, base) = placed
      /\ placed.status = "OK"
  BY DEF MapImageForExecution, Refused
<1>2. /\ DOMAIN m = {"storage", "bytes", "base", "finalized", "cells", "prot"}
      /\ m.storage = "virtual" /\ m.bytes = base /\ m.finalized = FALSE
  BY DEF InitializeMapping
<1> HIDE DEF m
<1>3. \/ placed.mapped = m /\ base = m.base
      \/ /\ patched.status = "OK"
         /\ placed.mapped = [m EXCEPT !.cells = patched.cells, !.base = base]
  BY <1>1 DEF ApplyRelocations, Refused
<1> HIDE DEF placed, patched
<1>4. CASE placed.mapped = m /\ base = m.base
  BY <1>1, <1>2, <1>4 DEF IsMapping
<1>5. CASE placed.mapped = [m EXCEPT !.cells = patched.cells, !.base = base]
  BY <1>1, <1>2, <1>5 DEF IsMapping
<1>6. QED
  BY <1>3, <1>4, <1>5

(* A mapping with other cells. *)
LEMMA WithCells ==
  ASSUME NEW m, IsMapping(m), NEW cells
  PROVE  /\ IsMapping([m EXCEPT !.cells = cells])
         /\ [m EXCEPT !.cells = cells].bytes = m.bytes
         /\ [m EXCEPT !.cells = cells].base = m.base
         /\ [m EXCEPT !.cells = cells].storage = m.storage
         /\ [m EXCEPT !.cells = cells].finalized = m.finalized
         /\ [m EXCEPT !.cells = cells].cells = cells
BY DEF IsMapping

LEMMA ImportsAreTyped ==
  ASSUME NEW image \in Images
  PROVE  /\ Len(image.imports) \in Nat /\ DOMAIN image.imports = 1 .. Len(image.imports)
         /\ \A j \in DOMAIN image.imports :
               /\ image.imports[j].iat \in Nat
               /\ image.imports[j].module \in Names
               /\ image.imports[j].key \in Keys
<1>1. image.imports \in Seq([iat : Nat, module : Names, key : Keys])
  BY ImagesAssumption
<1>2. ASSUME NEW S, NEW s \in Seq(S)
      PROVE  Len(s) \in Nat /\ DOMAIN s = 1 .. Len(s) /\ \A j \in DOMAIN s : s[j] \in S
  OBVIOUS
<1> DEFINE Import == [iat : Nat, module : Names, key : Keys]
<1>3. \A import \in Import : import.iat \in Nat /\ import.module \in Names /\ import.key \in Keys
  OBVIOUS
<1> HIDE DEF Import
<1>4. /\ Len(image.imports) \in Nat /\ DOMAIN image.imports = 1 .. Len(image.imports)
      /\ \A j \in DOMAIN image.imports : image.imports[j] \in Import
  BY <1>1, <1>2 DEF Import
<1>5. QED
  BY <1>3, <1>4

LEMMA BindOutcome ==
  ASSUME NEW image \in Images, NEW m, IsMapping(m), NEW resolved
  PROVE  LET outcome == BindImports(image, m, resolved)
         IN \/ /\ outcome.status # "OK"
               /\ outcome.mapped = m
            \/ /\ outcome.status = "OK"
               /\ ~m.finalized
               /\ outcome.mapped = [m EXCEPT !.cells = WriteIat(image, m.cells, resolved)]
               /\ \A j \in DOMAIN image.imports : /\ image.imports[j].iat \in Cells(image)
                                                  /\ resolved[j].status = "OK"
<1> DEFINE misplaced == {i \in DOMAIN image.imports : image.imports[i].iat \notin Cells(image)}
           failing   == {i \in DOMAIN image.imports : Storable(image, resolved[i]) # "OK"}
           outcome   == BindImports(image, m, resolved)
<1>1. failing # {} => Storable(image, resolved[Min(failing)]) # "OK"
  <2>1. failing \in SUBSET (1 .. Len(image.imports)) /\ Len(image.imports) \in Nat
    BY ImportsAreTyped
  <2>2. failing # {} => Min(failing) \in failing
    BY <2>1, LeastIndex
  <2>3. QED
    BY <2>2
<1>2. CASE IsClosed(m)
  BY <1>2 DEF BindImports, Refused
<1>3. CASE ~IsClosed(m) /\ misplaced # {}
  BY <1>3 DEF BindImports, Refused
<1>4. CASE ~IsClosed(m) /\ misplaced = {} /\ failing # {}
  BY <1>1, <1>4 DEF BindImports, Refused
<1>5. CASE ~IsClosed(m) /\ misplaced = {} /\ failing = {}
  <2>1. outcome = [status |-> "OK", mapped |-> [m EXCEPT !.cells = WriteIat(image, m.cells, resolved)]]
    BY <1>5 DEF BindImports
  <2>2. \A j \in DOMAIN image.imports : /\ image.imports[j].iat \in Cells(image)
                                        /\ resolved[j].status = "OK"
    BY <1>5 DEF Storable
  <2>3. ~m.finalized
    BY <1>5 DEF IsClosed
  <2> HIDE DEF outcome
  <2>4. QED
    BY <2>1, <2>2, <2>3 DEF outcome
<1>6. QED
  BY <1>2, <1>3, <1>4, <1>5

(* The last import of a cell decides what the cell holds. *)
LEMMA LastStoreStays ==
  ASSUME NEW image \in Images, NEW cells, NEW resolved,
         NEW j \in DOMAIN image.imports, image.imports[j].iat \in Cells(image),
         \A later \in DOMAIN image.imports : later > j => image.imports[later].iat # image.imports[j].iat
  PROVE  WriteIat(image, cells, resolved)[image.imports[j].iat] = resolved[j].address
<1> DEFINE stores == {i \in DOMAIN image.imports : image.imports[i].iat = image.imports[j].iat}
<1>1. j \in stores /\ \A i \in stores : i \in Nat /\ j >= i
  BY ImportsAreTyped
<1>2. \A x \in stores : (\A y \in stores : x >= y) => x = j
  BY <1>1
<1>3. Max(stores) = j
  <2>1. Max(stores) \in stores /\ \A y \in stores : Max(stores) >= y
    <3>1. \E x \in stores : \A y \in stores : x >= y
      BY <1>1
    <3>2. QED
      BY <3>1 DEF Max
  <2>2. QED
    BY <1>2, <2>1
<1>4. WriteIat(image, cells, resolved)[image.imports[j].iat] =
        IF stores = {} THEN cells[image.imports[j].iat] ELSE resolved[Max(stores)].address
  BY DEF WriteIat
<1>5. QED
  BY <1>1, <1>3, <1>4

(* A mapping with another protection, or sealed, or tainted. *)
LEMMA WithProtection ==
  ASSUME NEW m, IsMapping(m), NEW prot
  PROVE  \A n \in {[m EXCEPT !.prot = prot],
                   [m EXCEPT !.storage = "tainted", !.prot = prot],
                   [m EXCEPT !.finalized = TRUE, !.prot = prot]} :
            IsMapping(n) /\ n.bytes = m.bytes /\ n.cells = m.cells
<1>1. ASSUME NEW n, n = [m EXCEPT !.prot = prot]
      PROVE  IsMapping(n) /\ n.bytes = m.bytes /\ n.cells = m.cells
  BY <1>1 DEF IsMapping
<1>2. ASSUME NEW n, n = [m EXCEPT !.storage = "tainted", !.prot = prot]
      PROVE  IsMapping(n) /\ n.bytes = m.bytes /\ n.cells = m.cells
  BY <1>2 DEF IsMapping
<1>3. ASSUME NEW n, n = [m EXCEPT !.finalized = TRUE, !.prot = prot]
      PROVE  IsMapping(n) /\ n.bytes = m.bytes /\ n.cells = m.cells
  BY <1>3 DEF IsMapping
<1>4. QED
  BY <1>1, <1>2, <1>3

(* Sealing changes neither the contents nor the place of an image. *)
LEMMA FinalizeOutcome ==
  ASSUME NEW image, NEW m, IsMapping(m), NEW outcome \in FinalizeImage(image, m)
  PROVE  /\ IsMapping(outcome.mapped)
         /\ outcome.mapped.bytes = m.bytes
         /\ outcome.mapped.cells = m.cells
<1> DEFINE Forms(prot) == {[m EXCEPT !.prot = prot],
                           [m EXCEPT !.storage = "tainted", !.prot = prot],
                           [m EXCEPT !.finalized = TRUE, !.prot = prot]}
<1>1. \A prot : \A n \in Forms(prot) : IsMapping(n) /\ n.bytes = m.bytes /\ n.cells = m.cells
  BY WithProtection
<1>2. ASSUME NEW status, NEW changed, outcome \in FinalizeFailed(image, m, status, changed)
      PROVE  \E prot : outcome.mapped \in Forms(prot)
  <2>1. CASE outcome = Refused(status, [m EXCEPT !.prot = Layout(image, 0, 0)])
    <3>1. outcome.mapped = [m EXCEPT !.prot = Layout(image, 0, 0)]
      BY <2>1 DEF Refused
    <3>2. outcome.mapped \in Forms(Layout(image, 0, 0))
      BY <3>1
    <3>3. QED
      BY <3>2
  <2>2. ASSUME NEW restored \in 0 .. changed,
               outcome = Refused("MEMORY_PROTECTION",
                    [m EXCEPT !.storage = "tainted", !.prot = Layout(image, restored, changed)])
        PROVE  \E prot : outcome.mapped \in Forms(prot)
    <3>1. outcome.mapped = [m EXCEPT !.storage = "tainted", !.prot = Layout(image, restored, changed)]
      BY <2>2 DEF Refused
    <3>2. outcome.mapped \in Forms(Layout(image, restored, changed))
      BY <3>1
    <3>3. QED
      BY <3>2
  <2>3. QED
    BY <1>2, <2>1, <2>2 DEF FinalizeFailed
<1>3. CASE outcome = [status |-> "OK",
                      mapped |-> [m EXCEPT !.finalized = TRUE, !.prot = Permissions(image)]]
  <2>1. outcome.mapped = [m EXCEPT !.finalized = TRUE, !.prot = Permissions(image)]
    BY <1>3
  <2>2. outcome.mapped \in Forms(Permissions(image))
    BY <2>1
  <2>3. QED
    BY <1>1, <2>2
<1>4. CASE \E status : outcome = [status |-> status, mapped |-> m]
  <2>1. outcome.mapped = m
    BY <1>4
  <2>2. QED
    BY <2>1
<1>5. CASE \E status, changed : outcome \in FinalizeFailed(image, m, status, changed)
  <2>1. \E prot : outcome.mapped \in Forms(prot)
    BY <1>2, <1>5
  <2>2. QED
    BY <1>1, <2>1
<1>6. QED
  <2>1. CASE m.storage = "tainted" \/ ~(m.storage = "virtual") \/ m.finalized = TRUE
    BY <1>4, <2>1 DEF FinalizeImage, Refused
  <2>2. CASE m.storage # "tainted" /\ m.storage = "virtual" /\ ~m.finalized
    <3> DEFINE tries == UNION {FinalizeFailed(image, m, "MEMORY_PROTECTION", changed) :
                                   changed \in 0 .. PageCount(image) - 1}
               sealed == [status |-> "OK",
                          mapped |-> [m EXCEPT !.finalized = TRUE, !.prot = Permissions(image)]]
    <3>1. FinalizeImage(image, m) =
            {Refused("OUT_OF_MEMORY", m)}
            \cup IF HasWxConflict(image) THEN FinalizeFailed(image, m, "WX_CONFLICT", 0)
                 ELSE ProtectPages(image, m)
      BY <2>2 DEF FinalizeImage
    <3>0. ProtectPages(image, m) = tries \cup {sealed}
      BY DEF ProtectPages
    <3>2. outcome \in tries => \E changed : outcome \in FinalizeFailed(image, m, "MEMORY_PROTECTION", changed)
      OBVIOUS
    <3> HIDE DEF tries, sealed
    <3>3. \/ outcome = Refused("OUT_OF_MEMORY", m)
          \/ outcome \in FinalizeFailed(image, m, "WX_CONFLICT", 0)
          \/ outcome \in tries
          \/ outcome = sealed
      BY <3>0, <3>1
    <3>4. QED
      BY <1>3, <1>4, <1>5, <3>2, <3>3 DEF Refused, sealed
  <2>3. QED
    BY <2>1, <2>2 DEF IsMapping

-----------------------------------------------------------------------------
(* Sequences that grow or change at one place.                             *)

LEMMA SequenceIs ==
  ASSUME NEW s, IsSequence(s)
  PROVE  Len(s) \in Nat /\ DOMAIN s = 1 .. Len(s)
BY DEF IsSequence

LEMMA AppendIs ==
  ASSUME NEW s, IsSequence(s), NEW e
  PROVE  /\ IsSequence(Append(s, e))
         /\ Len(Append(s, e)) = Len(s) + 1
         /\ DOMAIN Append(s, e) = 1 .. Len(s) + 1
         /\ \A i \in DOMAIN s : Append(s, e)[i] = s[i]
         /\ Append(s, e)[Len(s) + 1] = e
<1>1. Len(s) \in Nat /\ DOMAIN s = 1 .. Len(s)
  BY SequenceIs
<1> DEFINE S == {s[i] : i \in DOMAIN s}
           t == Append(s, e)
<1>2. s \in Seq(S \cup {e})
  <2>1. s \in Seq(S)
    BY DEF IsSequence
  <2> HIDE DEF S
  <2>2. QED
    BY <2>1
<1>3. /\ Len(t) = Len(s) + 1
      /\ DOMAIN t = 1 .. Len(s) + 1
      /\ \A i \in DOMAIN s : t[i] = s[i]
      /\ t[Len(s) + 1] = e
  <2> HIDE DEF S
  <2>1. QED
    BY <1>1, <1>2
<1>4. t \in Seq(S \cup {e})
  <2> HIDE DEF S
  <2>1. QED
    BY <1>2
<1> DEFINE T == {t[i] : i \in DOMAIN t}
<1>5. t \in Seq(T)
  <2>1. t = [i \in 1 .. Len(t) |-> t[i]] /\ Len(t) \in Nat
    <3> HIDE DEF t, S
    <3>1. QED
      BY <1>4
  <2>2. \A i \in 1 .. Len(t) : t[i] \in T
    BY <1>1, <1>3
  <2> HIDE DEF t, T
  <2>3. QED
    BY <2>1, <2>2
<1>6. QED
  BY <1>3, <1>5 DEF IsSequence

(* An image that gets other contents keeps its place among the owned ones. *)
LEMMA ReplaceIs ==
  ASSUME NEW s, IsSequence(s), NEW k \in DOMAIN s,
         DOMAIN s[k] = {"image", "mapped", "bound"}, NEW m, NEW b
  PROVE  LET t == [s EXCEPT ![k].mapped = m, ![k].bound = b]
         IN /\ IsSequence(t)
            /\ DOMAIN t = DOMAIN s
            /\ Len(t) = Len(s)
            /\ \A i \in DOMAIN s : i # k => t[i] = s[i]
            /\ DOMAIN t[k] = {"image", "mapped", "bound"}
            /\ t[k].image = s[k].image
            /\ t[k].mapped = m
            /\ t[k].bound = b
<1> DEFINE t == [s EXCEPT ![k].mapped = m, ![k].bound = b]
<1>1. Len(s) \in Nat /\ DOMAIN s = 1 .. Len(s)
  BY SequenceIs
<1>2. s = [i \in DOMAIN s |-> s[i]]
  BY DEF IsSequence
<1>3. /\ DOMAIN t = DOMAIN s
      /\ t = [i \in DOMAIN s |-> t[i]]
      /\ \A i \in DOMAIN s : i # k => t[i] = s[i]
      /\ DOMAIN t[k] = {"image", "mapped", "bound"}
      /\ t[k].image = s[k].image
      /\ t[k].mapped = m
      /\ t[k].bound = b
  BY <1>2
<1> HIDE DEF t
<1> DEFINE T == {t[i] : i \in DOMAIN t}
<1>4. \A i \in 1 .. Len(s) : t[i] \in T
  BY <1>1, <1>3
<1> HIDE DEF T
<1>5. t \in Seq(T) /\ Len(t) = Len(s)
  BY <1>1, <1>3, <1>4
<1>6. QED
  BY <1>3, <1>5 DEF IsSequence, t, T

LEMMA SealIs ==
  ASSUME NEW s, IsSequence(s), NEW k \in DOMAIN s,
         DOMAIN s[k] = {"image", "mapped", "bound"}, NEW m
  PROVE  LET t == [s EXCEPT ![k].mapped = m]
         IN /\ IsSequence(t)
            /\ DOMAIN t = DOMAIN s
            /\ Len(t) = Len(s)
            /\ \A i \in DOMAIN s : i # k => t[i] = s[i]
            /\ DOMAIN t[k] = {"image", "mapped", "bound"}
            /\ t[k].image = s[k].image
            /\ t[k].mapped = m
            /\ t[k].bound = s[k].bound
<1> DEFINE t == [s EXCEPT ![k].mapped = m]
<1>1. Len(s) \in Nat /\ DOMAIN s = 1 .. Len(s)
  BY SequenceIs
<1>2. s = [i \in DOMAIN s |-> s[i]]
  BY DEF IsSequence
<1>3. /\ DOMAIN t = DOMAIN s
      /\ t = [i \in DOMAIN s |-> t[i]]
      /\ \A i \in DOMAIN s : i # k => t[i] = s[i]
      /\ DOMAIN t[k] = {"image", "mapped", "bound"}
      /\ t[k].image = s[k].image
      /\ t[k].mapped = m
      /\ t[k].bound = s[k].bound
  BY <1>2
<1> HIDE DEF t
<1> DEFINE T == {t[i] : i \in DOMAIN t}
<1>4. \A i \in 1 .. Len(s) : t[i] \in T
  BY <1>1, <1>3
<1> HIDE DEF T
<1>5. t \in Seq(T) /\ Len(t) = Len(s)
  BY <1>1, <1>3, <1>4
<1>6. QED
  BY <1>3, <1>5 DEF IsSequence, t, T

-----------------------------------------------------------------------------
(* What a step keeps of the answers and of the import tables.              *)

(* The invariants that say what is registered and owned, without an answer. *)
Structure == TypeInv /\ NameInv /\ OwnInv

ImportQuery(i, j) ==
    LET import == owned[modules[i].own].image.imports[j]
    IN <<0, import.module, import.key>>

LEMMA OwnedIs ==
  ASSUME TypeInv, OwnInv, NEW i \in PeModules
  PROVE  /\ i \in DOMAIN modules
         /\ modules[i].own \in DOMAIN owned
         /\ IsOwned(owned[modules[i].own])
BY DEF TypeInv, OwnInv, PeModules

LEMMA ImportQueryIs ==
  ASSUME TypeInv, OwnInv, NEW i \in PeModules,
         NEW j \in DOMAIN owned[modules[i].own].image.imports
  PROVE  /\ ImportQuery(i, j) \in Queries
         /\ ImportAnswers(i)[j] = ResolveQuery[ImportQuery(i, j)]
<1> DEFINE image == owned[modules[i].own].image
<1>1. image \in Images
  BY OwnedIs DEF IsOwned
<1>2. image.imports[j].module \in Names /\ image.imports[j].key \in Keys
  BY <1>1, ImportsAreTyped
<1>3. 0 \in 0 .. ForwarderDepthLimit + 1
  BY ModuleSpaceAssumption
<1>4. QED
  BY <1>2, <1>3 DEF Queries, ImportQuery, ImportAnswers, ResolveSymbol

(* The imports of the module that resolve do so to the same addresses. *)
LEMMA ImportAnswersStay ==
  ASSUME Structure, Structure', Kept, NEW i \in PeModules, i \in PeModules',
         NEW j \in DOMAIN owned[modules[i].own].image.imports,
         ImportAnswers(i)[j].status = "OK"
  PROVE  ImportAnswers(i)'[j] = ImportAnswers(i)[j]
<1> DEFINE image == owned[modules[i].own].image
<1>1. modules'[i] = modules[i] /\ owned'[modules'[i].own].image = image
  BY OwnedIs DEF Kept, Structure
<1>2. ImportQuery(i, j)' = ImportQuery(i, j)
  BY <1>1 DEF ImportQuery
<1>3. ImportQuery(i, j) \in Queries /\ ImportAnswers(i)[j] = ResolveQuery[ImportQuery(i, j)]
  BY ImportQueryIs DEF Structure
<1>4. ResolveQuery'[ImportQuery(i, j)] = ResolveQuery[ImportQuery(i, j)]
  BY <1>3, ResolvedStays DEF Structure
<1>5. ImportAnswers(i)'[j] = ResolveQuery'[ImportQuery(i, j)']
  BY <1>1 DEF ImportAnswers, ResolveSymbol, ImportQuery
<1>6. QED
  BY <1>2, <1>3, <1>4, <1>5

(* The step leaves the image as it is. *)
Same(i) ==
    /\ i \in PeModules
    /\ modules'[i] = modules[i]
    /\ LET o == owned[modules[i].own]
           p == owned'[modules[i].own]
       IN /\ p.image = o.image
          /\ p.bound = o.bound
          /\ p.mapped.cells = o.mapped.cells
          /\ p.mapped.bytes = o.mapped.bytes

(* The step maps the image. *)
Fresh(i) ==
    LET p == owned'[modules'[i].own]
    IN /\ ~p.bound
       /\ p.mapped.cells = MapImageForExecution(p.image, p.mapped.bytes).mapped.cells

(* The step stores the answers for all imports in the image. *)
Linked(i) ==
    /\ i \in PeModules
    /\ modules'[i] = modules[i]
    /\ LET o == owned[modules[i].own]
           p == owned'[modules[i].own]
       IN /\ p.image = o.image
          /\ p.bound
          /\ p.mapped.cells = WriteIat(o.image, o.mapped.cells, ImportAnswers(i))
          /\ \A j \in DOMAIN o.image.imports : /\ o.image.imports[j].iat \in Cells(o.image)
                                               /\ ImportAnswers(i)[j].status = "OK"

(* The two invariants for one module. *)
ImportsResolve(i) ==
    owned[modules[i].own].bound =>
        \A j \in DOMAIN owned[modules[i].own].image.imports : ImportAnswers(i)[j].status = "OK"

CellsAreCurrent(i) ==
    LET image   == owned[modules[i].own].image
        imports == image.imports
    IN IF owned[modules[i].own].bound
       THEN \A j \in DOMAIN imports :
                \/ \E later \in DOMAIN imports : later > j /\ imports[later].iat = imports[j].iat
                \/ Mapped(i).cells[imports[j].iat] = ImportAnswers(i)[j].address
       ELSE Mapped(i).cells = MapImageForExecution(image, Mapped(i).bytes).mapped.cells

Current == \A i \in PeModules : ImportsResolve(i) /\ CellsAreCurrent(i)

LEMMA CurrentIs == Current <=> BoundInv /\ BoundImportsAreCurrent
  BY DEF Current, ImportsResolve, CellsAreCurrent, BoundInv, BoundImportsAreCurrent

LEMMA SameStays ==
  ASSUME Structure, Structure', Kept, Current, NEW i \in PeModules', Same(i)
  PROVE  (ImportsResolve(i) /\ CellsAreCurrent(i))'
<1> DEFINE o == owned[modules[i].own]
           p == owned'[modules'[i].own]
<1>1. i \in PeModules /\ modules'[i] = modules[i]
  BY DEF Same
<1>2. /\ p.image = o.image
      /\ p.bound = o.bound
      /\ p.mapped.cells = o.mapped.cells
      /\ p.mapped.bytes = o.mapped.bytes
  BY <1>1 DEF Same
<1>3. ImportsResolve(i) /\ CellsAreCurrent(i)
  BY <1>1 DEF Current
<1>4. CASE ~o.bound
  <2>1. o.mapped.cells = MapImageForExecution(o.image, o.mapped.bytes).mapped.cells
    BY <1>3, <1>4 DEF CellsAreCurrent, Mapped
  <2>2. p.mapped.cells = MapImageForExecution(p.image, p.mapped.bytes).mapped.cells
    BY <1>2, <2>1
  <2> HIDE DEF o
  <2>3. ~p.bound
    BY <1>2, <1>4
  <2>4. QED
    BY <2>2, <2>3 DEF ImportsResolve, CellsAreCurrent, Mapped
<1>5. CASE o.bound
  <2>1. ASSUME NEW j \in DOMAIN o.image.imports
        PROVE  ImportAnswers(i)[j].status = "OK" /\ ImportAnswers(i)'[j] = ImportAnswers(i)[j]
    <3>1. ImportAnswers(i)[j].status = "OK"
      BY <1>3, <1>5 DEF ImportsResolve
    <3>2. QED
      BY <1>1, <3>1, ImportAnswersStay
  <2>2. ASSUME NEW j \in DOMAIN o.image.imports,
               \A later \in DOMAIN o.image.imports :
                   later > j => o.image.imports[later].iat # o.image.imports[j].iat
        PROVE  p.mapped.cells[o.image.imports[j].iat] = ImportAnswers(i)[j].address
    <3>1. o.mapped.cells[o.image.imports[j].iat] = ImportAnswers(i)[j].address
      BY <1>3, <1>5, <2>2 DEF CellsAreCurrent, Mapped
    <3>2. QED
      BY <1>2, <3>1
  <2>3. p.bound
    BY <1>2, <1>5
  <2> HIDE DEF o
  <2>4. ImportsResolve(i)'
    BY <1>2, <2>1, <2>3 DEF ImportsResolve
  <2>5. CellsAreCurrent(i)'
    BY <1>2, <2>1, <2>2, <2>3 DEF CellsAreCurrent, Mapped
  <2>6. QED
    BY <2>4, <2>5
<1>6. QED
  BY <1>4, <1>5

LEMMA FreshIs ==
  ASSUME NEW i \in PeModules', Fresh(i)
  PROVE  (ImportsResolve(i) /\ CellsAreCurrent(i))'
BY DEF Fresh, ImportsResolve, CellsAreCurrent, Mapped

LEMMA LinkedIs ==
  ASSUME Structure, Structure', Kept, NEW i \in PeModules', Linked(i)
  PROVE  (ImportsResolve(i) /\ CellsAreCurrent(i))'
<1> DEFINE o == owned[modules[i].own]
           p == owned'[modules'[i].own]
           imports == o.image.imports
<1>1. i \in PeModules /\ modules'[i] = modules[i]
  BY DEF Linked
<1>2. /\ p.image = o.image
      /\ p.bound
      /\ p.mapped.cells = WriteIat(o.image, o.mapped.cells, ImportAnswers(i))
      /\ \A j \in DOMAIN imports : /\ imports[j].iat \in Cells(o.image)
                                   /\ ImportAnswers(i)[j].status = "OK"
  BY <1>1 DEF Linked
<1>3. \A j \in DOMAIN imports : ImportAnswers(i)'[j] = ImportAnswers(i)[j]
  BY <1>1, <1>2, ImportAnswersStay
<1>4. o.image \in Images
  BY <1>1, OwnedIs DEF Structure, IsOwned
<1>5. ASSUME NEW j \in DOMAIN imports,
             \A later \in DOMAIN imports : later > j => imports[later].iat # imports[j].iat
      PROVE  p.mapped.cells[imports[j].iat] = ImportAnswers(i)[j].address
  <2> HIDE DEF o
  <2>1. imports[j].iat \in Cells(o.image)
    BY <1>2
  <2>2. WriteIat(o.image, o.mapped.cells, ImportAnswers(i))[imports[j].iat] = ImportAnswers(i)[j].address
    BY <1>4, <1>5, <2>1, LastStoreStays
  <2>3. QED
    BY <1>2, <2>2
<1> HIDE DEF o
<1>6. ImportsResolve(i)'
  BY <1>2, <1>3 DEF ImportsResolve
<1>7. CellsAreCurrent(i)'
  BY <1>2, <1>3, <1>5 DEF CellsAreCurrent, Mapped
<1>8. QED
  BY <1>6, <1>7

LEMMA CurrentStays ==
  ASSUME Structure, Structure', Kept, Current,
         \A i \in PeModules' : Same(i) \/ Fresh(i) \/ Linked(i)
  PROVE  Current'
<1>1. ASSUME NEW i \in PeModules' PROVE (ImportsResolve(i) /\ CellsAreCurrent(i))'
  BY SameStays, FreshIs, LinkedIs
<1>2. QED
  BY <1>1 DEF Current

LEMMA AnswerStays ==
  ASSUME Structure, Structure', Kept, AnswerInv, answered' = answered
  PROVE  AnswerInv'
<1> SUFFICES ASSUME answered # <<>>
             PROVE  ResolutionIsStable' /\ IsAnswered(answered)
  BY DEF AnswerInv, IsAnswered
<1> DEFINE q == <<0, answered.name, answered.key>>
<1>1. IsAnswered(answered) /\ ResolveQuery[q] = answered.answer
  BY DEF AnswerInv, ResolutionIsStable, ResolveSymbol
<1>2. 0 \in 0 .. ForwarderDepthLimit + 1
  BY ModuleSpaceAssumption
<1>3. q \in Queries
  BY <1>1, <1>2 DEF IsAnswered, Queries
<1>4. ResolveQuery[q].status = "OK"
  BY <1>1 DEF IsAnswered
<1>5. ResolveQuery'[q] = ResolveQuery[q]
  BY <1>3, <1>4, ResolvedStays DEF Structure
<1>6. QED
  BY <1>1, <1>5 DEF ResolutionIsStable, ResolveSymbol

-----------------------------------------------------------------------------
(* The inductive invariant.                                                *)

LEMMA Parts ==
  ASSUME IndInv
  PROVE  /\ Structure /\ SpanInv /\ Current /\ ProcessInv /\ AnswerInv
         /\ TypeInv /\ NameInv /\ OwnInv
BY CurrentIs DEF IndInv, Structure

(* A step that frees nothing. *)
LEMMA Assemble ==
  ASSUME IndInv, Structure', SpanInv', ProcessInv', Kept, answered' = answered,
         \A i \in PeModules' : Same(i) \/ Fresh(i) \/ Linked(i)
  PROVE  IndInv'
<1>1. Current' /\ AnswerInv'
  BY Parts, CurrentStays, AnswerStays
<1>2. Current' => BoundInv' /\ BoundImportsAreCurrent'
  BY CurrentIs, PTL
<1>3. QED
  BY <1>1, <1>2 DEF IndInv, Structure

(* A step that touches neither the registry nor the images. *)
LEMMA RegistryStays ==
  ASSUME IndInv, UNCHANGED <<modules, aliases, owned, memory>>,
         holder' \in {"none", "caller", "process"},
         main' \in 0 .. Len(modules), peb' \in {0} \cup Bases, refs' \in 0 .. MaxReferences
  PROVE  /\ Structure' /\ SpanInv' /\ Kept
         /\ PeModules' = PeModules
         /\ \A i \in PeModules' : Same(i)
<1>1. TypeInv' /\ NameInv'
  BY DEF IndInv, TypeInv, NameInv, SameName
<1>2. PeModules' = PeModules
  BY DEF PeModules, IsPe
<1>3. OwnInv'
  BY <1>2 DEF IndInv, OwnInv
<1>4. SpanInv'
  BY DEF IndInv, SpanInv, SpanOf
<1>5. Kept
  BY DEF Kept
<1>6. \A i \in PeModules' : Same(i)
  BY <1>2 DEF Same
<1>7. QED
  BY <1>1, <1>2, <1>3, <1>4, <1>5, <1>6 DEF Structure

LEMMA InitIs == Init => IndInv
<1> SUFFICES ASSUME Init PROVE IndInv
  OBVIOUS
<1> USE ModuleSpaceAssumption DEF Init
<1>1. TypeInv
  <2>1. <<>> \in Seq(ModuleType) /\ <<>> \in Seq(AliasType) /\ <<>> \in Seq({<<>>[i] : i \in DOMAIN <<>>})
    OBVIOUS
  <2>2. QED
    BY <2>1 DEF TypeInv, IsSequence
<1>2. NameInv
  BY DEF NameInv
<1>3. PeModules = {} /\ DOMAIN owned = {}
  BY DEF PeModules
<1>4. OwnInv /\ SpanInv /\ BoundInv /\ BoundImportsAreCurrent
  BY <1>3 DEF OwnInv, SpanInv, BoundInv, BoundImportsAreCurrent
<1>5. ProcessInv /\ AnswerInv
  BY DEF ProcessInv, AnswerInv
<1>6. QED
  BY <1>1, <1>2, <1>4, <1>5 DEF IndInv

(* Everything is freed at once. *)
LEMMA FreeSpaceKeeps ==
  ASSUME IndInv, FreeSpace, main' = 0, peb' \in {0} \cup Bases, refs' = refs
  PROVE  IndInv'
<1> USE ModuleSpaceAssumption DEF FreeSpace
<1>1. TypeInv'
  <2>1. <<>> \in Seq(ModuleType) /\ <<>> \in Seq(AliasType) /\ <<>> \in Seq({<<>>[i] : i \in DOMAIN <<>>})
    OBVIOUS
  <2>2. QED
    BY <2>1 DEF IndInv, TypeInv, IsSequence
<1>2. NameInv'
  BY DEF NameInv
<1>3. PeModules' = {} /\ DOMAIN owned' = {}
  BY DEF PeModules
<1>4. OwnInv' /\ BoundInv' /\ BoundImportsAreCurrent'
  BY <1>3 DEF OwnInv, BoundInv, BoundImportsAreCurrent
<1>5. SpanInv'
  <2>1. memory' = {}
    BY DEF IndInv, SpanInv, SpanOf
  <2>2. QED
    BY <1>3, <2>1 DEF SpanInv
<1>6. ProcessInv' /\ AnswerInv'
  BY DEF ProcessInv, AnswerInv
<1>7. QED
  BY <1>1, <1>2, <1>4, <1>5, <1>6 DEF IndInv

LEMMA CreateKeeps ==
  ASSUME IndInv, Create
  PROVE  IndInv'
<1> USE DEF Create, registry, process
<1>1. /\ Structure' /\ SpanInv' /\ Kept
      /\ \A i \in PeModules' : Same(i)
  BY RegistryStays DEF IndInv, TypeInv
<1>2. ProcessInv'
  BY DEF IndInv, ProcessInv
<1>3. QED
  BY <1>1, <1>2, Assemble

LEMMA DestroySpaceKeeps ==
  ASSUME IndInv, DestroySpace
  PROVE  IndInv'
<1>1. FreeSpace /\ main' = 0 /\ peb' = peb /\ refs' = refs
  BY DEF DestroySpace, process, IndInv, ProcessInv
<1>2. QED
  BY <1>1, FreeSpaceKeeps DEF IndInv, TypeInv

LEMMA DestroyProcessKeeps ==
  ASSUME IndInv, DestroyProcess
  PROVE  IndInv'
<1>1. CASE FreeSpace
  BY <1>1, FreeSpaceKeeps DEF DestroyProcess
<1>2. CASE holder # "process" /\ UNCHANGED <<holder, registry, owned, memory, answered>>
  <2>1. main' \in 0 .. Len(modules)
    BY DEF DestroyProcess, IndInv, TypeInv
  <2>2. /\ Structure' /\ SpanInv' /\ Kept
        /\ \A i \in PeModules' : Same(i)
    BY <1>2, <2>1, RegistryStays DEF DestroyProcess, registry, IndInv, TypeInv
  <2>3. ProcessInv'
    BY <1>2 DEF DestroyProcess, ProcessInv
  <2>4. QED
    BY <1>2, <2>2, <2>3, Assemble
<1>3. QED
  BY <1>1, <1>2 DEF DestroyProcess

(* References come and go whatever the process owns. *)
LEMMA ReferencesKeep ==
  ASSUME IndInv, Retain \/ Release
  PROVE  IndInv'
<1>1. refs' \in 0 .. MaxReferences
  BY ModuleSpaceAssumption DEF Retain, Release, IndInv, TypeInv
<1>2. UNCHANGED <<holder, modules, aliases, owned, memory, main, peb, answered>>
  BY DEF Retain, Release, registry
<1>3. /\ Structure' /\ SpanInv' /\ Kept
      /\ PeModules' = PeModules
      /\ \A i \in PeModules' : Same(i)
  BY <1>1, <1>2, RegistryStays DEF IndInv, TypeInv
<1>4. ProcessInv'
  BY <1>2, <1>3 DEF IndInv, ProcessInv, SpaceIsFinalized, Mapped, IsPe
<1>5. QED
  BY <1>2, <1>3, <1>4, Assemble

LEMMA SetImageBaseKeeps ==
  ASSUME IndInv, NEW base \in Bases \cup {0}, SetImageBase(base)
  PROVE  IndInv'
<1>1. UNCHANGED <<holder, modules, aliases, owned, memory, main, refs, answered>>
  BY DEF SetImageBase, registry
<1>2. /\ Structure' /\ SpanInv' /\ Kept
      /\ PeModules' = PeModules
      /\ \A i \in PeModules' : Same(i)
  BY <1>1, RegistryStays DEF SetImageBase, IndInv, TypeInv
<1>3. ProcessInv'
  BY <1>1, <1>2 DEF SetImageBase, MaySetImageBase, IndInv, ProcessInv, SpaceIsFinalized, Mapped, IsPe
<1>4. QED
  BY <1>1, <1>2, <1>3, Assemble

LEMMA AdoptKeeps ==
  ASSUME IndInv, NEW i \in DOMAIN modules, Adopt(i)
  PROVE  IndInv'
<1>1. UNCHANGED <<modules, aliases, owned, memory, refs, answered>>
  BY DEF Adopt, registry
<1>2. i \in PeModules /\ SpaceIsFinalized
  BY DEF Adopt, CanAdopt, PeModules
<1>3. Mapped(i).base \in Bases
  BY <1>2, Parts, OwnedIs DEF IsOwned, IsMapping, Mapped
<1>4. i # 0 /\ i \in 0 .. Len(modules)
  BY DEF IndInv, TypeInv
<1>5. /\ Structure' /\ SpanInv' /\ Kept
      /\ PeModules' = PeModules
      /\ \A k \in PeModules' : Same(k)
  BY <1>1, <1>3, <1>4, RegistryStays DEF Adopt, IndInv, TypeInv
<1>6. SpaceIsFinalized'
  BY <1>1, <1>2 DEF SpaceIsFinalized, Mapped, IsPe
<1>7. ProcessInv'
  BY <1>1, <1>2, <1>4, <1>5, <1>6 DEF Adopt, ProcessInv, Mapped
<1>8. QED
  BY <1>1, <1>5, <1>7, Assemble

LEMMA KeepAnswerKeeps ==
  ASSUME IndInv, NEW name \in Names, NEW key \in Keys, KeepAnswer(name, key)
  PROVE  IndInv'
<1>1. UNCHANGED <<holder, modules, aliases, owned, memory, main, peb, refs>>
  BY DEF KeepAnswer, registry, process
<1>2. /\ Structure' /\ SpanInv' /\ Kept
      /\ PeModules' = PeModules
      /\ \A i \in PeModules' : Same(i)
  BY <1>1, RegistryStays DEF IndInv, TypeInv
<1>3. ProcessInv'
  BY <1>1, <1>2 DEF IndInv, ProcessInv, SpaceIsFinalized, Mapped, IsPe
<1>4. Current'
  BY <1>2, Parts, CurrentStays
<1>5. Current' => BoundInv' /\ BoundImportsAreCurrent'
  BY CurrentIs, PTL
<1>6. AnswerInv'
  <2> DEFINE q == <<0, name, key>>
  <2>1. answered' = [name |-> name, key |-> key, answer |-> ResolveQuery[q]]
        /\ ResolveQuery[q].status = "OK"
    BY DEF KeepAnswer, ResolveSymbol
  <2>2. 0 \in 0 .. ForwarderDepthLimit + 1
    BY ModuleSpaceAssumption
  <2>3. q \in Queries
    BY <2>2 DEF Queries
  <2>4. ResolveQuery'[q] = ResolveQuery[q]
    BY <1>2, <2>1, <2>3, Parts, ResolvedStays DEF Structure
  <2>5. IsAnswered(answered')
    BY <2>1 DEF IsAnswered
  <2>6. ResolutionIsStable'
    BY <2>1, <2>4 DEF ResolutionIsStable, ResolveSymbol
  <2>7. QED
    BY <2>5, <2>6 DEF AnswerInv, IsAnswered
<1>7. QED
  BY <1>2, <1>3, <1>4, <1>5, <1>6 DEF IndInv, Structure

(* A registered name denotes nothing yet. *)
LEMMA TakenIs ==
  ASSUME TypeInv, NEW name \in Names, ~IsTaken(name)
  PROVE  /\ \A i \in DOMAIN modules : ~SameName(modules[i].name, name)
         /\ \A a \in DOMAIN aliases : ~SameName(aliases[a].contract, name)
BY FindModuleIs, FindAliasIs DEF IsTaken

(* A module of a new name is appended to the registry. *)
LEMMA AddKeepsNames ==
  ASSUME IndInv, NEW module \in ModuleType, ~IsTaken(module.name), Len(modules) < Capacity,
         Add(module), aliases' = aliases
  PROVE  /\ modules' \in Seq(ModuleType) /\ Len(modules') <= Capacity
         /\ DOMAIN modules' = 1 .. Len(modules) + 1
         /\ DOMAIN modules = 1 .. Len(modules) /\ Len(modules) \in Nat
         /\ \A i \in DOMAIN modules : i \in DOMAIN modules' /\ modules'[i] = modules[i]
         /\ modules'[Len(modules) + 1] = module
         /\ NameInv'
<1>1. modules \in Seq(ModuleType) /\ Len(modules) <= Capacity
  BY DEF IndInv, TypeInv
<1>2. modules' = Append(modules, module)
  BY DEF Add
<1> HIDE DEF ModuleType
<1>3. /\ modules' \in Seq(ModuleType) /\ Len(modules') = Len(modules) + 1
      /\ DOMAIN modules' = 1 .. Len(modules) + 1
      /\ DOMAIN modules = 1 .. Len(modules) /\ Len(modules) \in Nat
      /\ \A i \in DOMAIN modules : i \in DOMAIN modules' /\ modules'[i] = modules[i]
      /\ modules'[Len(modules) + 1] = module
  BY <1>1, <1>2
<1>4. module.name \in Names
  BY DEF ModuleType
<1>5. /\ \A i \in DOMAIN modules : ~SameName(modules[i].name, module.name)
      /\ \A a \in DOMAIN aliases : ~SameName(aliases[a].contract, module.name)
  BY <1>4, TakenIs DEF IndInv
<1>6. \A i \in DOMAIN modules' : i \in DOMAIN modules \/ i = Len(modules) + 1
  BY <1>3
<1>7. \A i, j \in DOMAIN modules' : SameName(modules'[i].name, modules'[j].name) => i = j
  BY <1>3, <1>5, <1>6 DEF IndInv, NameInv, SameName
<1>8. \A a \in DOMAIN aliases :
        /\ \A i \in DOMAIN modules' : ~SameName(modules'[i].name, aliases[a].contract)
        /\ \E i \in DOMAIN modules' : SameName(modules'[i].name, aliases[a].target)
  BY <1>3, <1>5, <1>6 DEF IndInv, NameInv, SameName
<1>9. NameInv'
  BY <1>7, <1>8 DEF IndInv, NameInv, SameName
<1>10. Len(modules') <= Capacity
  BY <1>1, <1>3, ModuleSpaceAssumption
<1>11. QED
  BY <1>3, <1>9, <1>10

LEMMA AddNativeKeeps ==
  ASSUME IndInv, NEW name \in Names, NEW exports \in Tables, AddNative(name, exports)
  PROVE  IndInv'
<1> DEFINE module == NativeModule(name, exports)
           n == Len(modules) + 1
<1>1. /\ UNCHANGED <<holder, aliases, owned, memory, main, peb, refs, answered>>
      /\ holder = "caller" /\ ~IsTaken(name) /\ Len(modules) < Capacity /\ Add(module)
  BY DEF AddNative, CanAdd, process
<1>2. module \in ModuleType /\ module.name = name /\ module.kind = "NATIVE"
  BY DEF AddNative, NativeModule, ModuleType, NativeTables
<1> HIDE DEF module
<1>3. /\ modules' \in Seq(ModuleType) /\ Len(modules') <= Capacity
      /\ DOMAIN modules' = 1 .. n
      /\ DOMAIN modules = 1 .. Len(modules) /\ Len(modules) \in Nat
      /\ \A i \in DOMAIN modules : i \in DOMAIN modules' /\ modules'[i] = modules[i]
      /\ modules'[n] = module
      /\ NameInv'
  BY <1>1, <1>2, AddKeepsNames
<1>4. main = 0
  BY <1>1 DEF IndInv, ProcessInv
<1>5. TypeInv'
  BY <1>1, <1>3, <1>4 DEF IndInv, TypeInv
<1>6. PeModules' = PeModules
  BY <1>2, <1>3 DEF PeModules, IsPe
<1>7. \A i \in PeModules : modules'[i] = modules[i]
  BY <1>3 DEF PeModules
<1>8. OwnInv'
  BY <1>1, <1>6, <1>7 DEF IndInv, OwnInv
<1>9. SpanInv'
  BY <1>1 DEF IndInv, SpanInv, SpanOf
<1>10. ProcessInv'
  BY <1>1, <1>4 DEF ProcessInv
<1>11. Kept
  BY <1>1, <1>3 DEF Kept
<1>12. \A i \in PeModules' : Same(i)
  BY <1>1, <1>6, <1>7 DEF Same
<1>13. QED
  BY <1>1, <1>3, <1>5, <1>8, <1>9, <1>10, <1>11, <1>12, Assemble DEF Structure

LEMMA AddAliasKeeps ==
  ASSUME IndInv, NEW contract \in Names, NEW target \in Names, AddAlias(contract, target)
  PROVE  IndInv'
<1> DEFINE k == FindModule(target)
           alias == [contract |-> contract, target |-> modules[k].name]
           n == Len(aliases) + 1
<1>1. /\ UNCHANGED <<holder, modules, owned, memory, main, peb, refs, answered>>
      /\ holder = "caller" /\ ~IsTaken(contract) /\ Len(aliases) < AliasCapacity
  BY DEF AddAlias, process
<1>2. k # 0 /\ aliases' = Append(aliases, alias)
  BY DEF AddAlias, AliasTarget
<1>3. k \in DOMAIN modules
  BY <1>2, FindModuleIs DEF IndInv, TypeInv
<1>4. modules[k].name \in Names
  BY <1>3 DEF IndInv, TypeInv, ModuleType
<1>5. alias \in AliasType
  BY <1>4 DEF AliasType
<1>6. alias.contract = contract /\ alias.target = modules[k].name
  OBVIOUS
<1> HIDE DEF alias, k
<1>7. aliases \in Seq(AliasType) /\ Len(aliases) <= AliasCapacity
  BY DEF IndInv, TypeInv
<1>8. /\ aliases' \in Seq(AliasType) /\ Len(aliases') = n
      /\ DOMAIN aliases' = 1 .. n
      /\ DOMAIN aliases = 1 .. Len(aliases) /\ Len(aliases) \in Nat
      /\ \A a \in DOMAIN aliases : a \in DOMAIN aliases' /\ aliases'[a] = aliases[a]
      /\ aliases'[n] = alias
  BY <1>2, <1>5, <1>7
<1>9. \A a \in DOMAIN aliases' : a \in DOMAIN aliases \/ a = n
  BY <1>8
<1>10. /\ \A i \in DOMAIN modules : ~SameName(modules[i].name, contract)
       /\ \A a \in DOMAIN aliases : ~SameName(aliases[a].contract, contract)
  BY <1>1, TakenIs DEF IndInv
<1>11. main = 0
  BY <1>1 DEF IndInv, ProcessInv
<1>12. TypeInv'
  BY <1>1, <1>7, <1>8, ModuleSpaceAssumption DEF IndInv, TypeInv
<1>13. \A a, b \in DOMAIN aliases' : SameName(aliases'[a].contract, aliases'[b].contract) => a = b
  BY <1>6, <1>8, <1>9, <1>10 DEF IndInv, NameInv, SameName
<1>14. \A a \in DOMAIN aliases' :
        /\ \A i \in DOMAIN modules : ~SameName(modules[i].name, aliases'[a].contract)
        /\ \E i \in DOMAIN modules : SameName(modules[i].name, aliases'[a].target)
  BY <1>3, <1>6, <1>8, <1>9, <1>10 DEF IndInv, NameInv, SameName
<1>15. NameInv'
  BY <1>1, <1>13, <1>14 DEF IndInv, NameInv, SameName
<1>16. PeModules' = PeModules
  BY <1>1 DEF PeModules, IsPe
<1>17. OwnInv'
  BY <1>1, <1>16 DEF IndInv, OwnInv
<1>18. SpanInv'
  BY <1>1 DEF IndInv, SpanInv, SpanOf
<1>19. ProcessInv'
  BY <1>1, <1>11 DEF ProcessInv
<1>20. Kept
  BY <1>1, <1>8 DEF Kept
<1>21. \A i \in PeModules' : Same(i)
  BY <1>1, <1>16 DEF Same
<1>22. QED
  BY <1>1, <1>12, <1>15, <1>17, <1>18, <1>19, <1>20, <1>21, Assemble DEF Structure

LEMMA AddPeKeeps ==
  ASSUME IndInv, NEW name \in Names, NEW image \in Images, NEW base \in Bases,
         AddPe(name, image, base)
  PROVE  IndInv'
<1> DEFINE placed == MapImageForExecution(image, base)
           status == IF placed.status = "OK" /\ ~CanAdd(name) THEN "DUPLICATE_MODULE"
                     ELSE placed.status
           span == Span(image, base)
           o == Len(owned) + 1
           n == Len(modules) + 1
           module == PeModule(name, o)
           own == [image |-> image, mapped |-> placed.mapped, bound |-> FALSE]
<1>1. /\ UNCHANGED <<holder, aliases, main, peb, refs, answered>>
      /\ holder = "caller" /\ Grants(span) /\ image.size > 0
  BY DEF AddPe, process, ParsesOK
<1>2. main = 0
  BY <1>1 DEF IndInv, ProcessInv
<1>3. CASE status # "OK"
  <2>1. UNCHANGED <<memory, owned, modules>>
    BY <1>3 DEF AddPe, KeepMapping
  <2>2. /\ Structure' /\ SpanInv' /\ Kept
        /\ \A i \in PeModules' : Same(i)
    BY <1>1, <2>1, RegistryStays DEF IndInv, TypeInv
  <2>3. ProcessInv'
    BY <1>1, <1>2 DEF ProcessInv
  <2>4. QED
    BY <1>1, <2>2, <2>3, Assemble
<1>4. CASE status = "OK"
  <2>1. placed.status = "OK" /\ CanAdd(name)
    BY <1>4
  <2>2. memory' = memory \cup {span} /\ owned' = Append(owned, own) /\ Add(module)
    BY <1>4 DEF AddPe, KeepMapping
  <2>3. IsMapping(placed.mapped) /\ placed.mapped.bytes = base /\ placed.mapped.finalized = FALSE
    BY <2>1, PlacedIs
  <2>4. /\ DOMAIN own = {"image", "mapped", "bound"} /\ own.image = image
        /\ own.mapped = placed.mapped /\ own.bound = FALSE
    OBVIOUS
  <2> HIDE DEF placed, own
  <2>5. IsOwned(own)
    BY <1>1, <2>3, <2>4 DEF IsOwned
  <2>6. IsSequence(owned)
    BY DEF IndInv, TypeInv
  <2>7. /\ IsSequence(owned') /\ DOMAIN owned' = 1 .. o
        /\ Len(owned) \in Nat /\ DOMAIN owned = 1 .. Len(owned)
        /\ \A p \in DOMAIN owned : p \in DOMAIN owned' /\ owned'[p] = owned[p]
        /\ owned'[o] = own
    BY <2>2, <2>6, AppendIs, SequenceIs
  <2>8. module \in ModuleType /\ module.name = name /\ module.kind = "PE" /\ module.own = o
    BY <2>7 DEF PeModule, ModuleType
  <2> HIDE DEF module
  <2>9. /\ modules' \in Seq(ModuleType) /\ Len(modules') <= Capacity
        /\ DOMAIN modules' = 1 .. n
        /\ DOMAIN modules = 1 .. Len(modules) /\ Len(modules) \in Nat
        /\ \A i \in DOMAIN modules : i \in DOMAIN modules' /\ modules'[i] = modules[i]
        /\ modules'[n] = module
        /\ NameInv'
    BY <1>1, <2>1, <2>2, <2>8, AddKeepsNames DEF CanAdd
  <2>10. \A p \in DOMAIN owned' : p \in DOMAIN owned \/ p = o
    BY <2>7
  <2>11. TypeInv'
    <3>1. \A p \in DOMAIN owned' : IsOwned(owned'[p])
      BY <2>5, <2>7, <2>10 DEF IndInv, TypeInv
    <3>2. QED
      BY <1>1, <1>2, <2>7, <2>9, <3>1 DEF IndInv, TypeInv
  <2>12. PeModules' = PeModules \cup {n} /\ n \notin PeModules
    BY <2>8, <2>9 DEF PeModules, IsPe
  <2>13. \A i \in PeModules : /\ modules'[i] = modules[i]
                              /\ modules[i].own \in DOMAIN owned
                              /\ modules[i].own # o
    <3>1. \A p \in DOMAIN owned : p # o
      BY <2>7
    <3>2. QED
      BY <2>9, <3>1 DEF IndInv, OwnInv, PeModules
  <2>14. modules'[n].own = o /\ o \in DOMAIN owned'
    BY <2>7, <2>8, <2>9
  <2>15. OwnInv'
    <3>1. \A i \in PeModules' : modules'[i].own \in DOMAIN owned'
      BY <2>7, <2>12, <2>13, <2>14
    <3>2. \A i, j \in PeModules' : modules'[i].own = modules'[j].own => i = j
      BY <2>12, <2>13, <2>14 DEF IndInv, OwnInv
    <3>3. \A p \in DOMAIN owned' : \E i \in PeModules' : modules'[i].own = p
      BY <2>10, <2>12, <2>13, <2>14 DEF IndInv, OwnInv
    <3>4. QED
      BY <3>1, <3>2, <3>3 DEF OwnInv
  <2>16. SpanInv'
    <3> DEFINE Later(p) == Span(owned'[p].image, owned'[p].mapped.bytes)
    <3>1. \A p \in DOMAIN owned : Later(p) = SpanOf(p)
      BY <2>7 DEF SpanOf
    <3>2. Later(o) = span
      BY <2>3, <2>4, <2>7
    <3>3. memory = {SpanOf(p) : p \in DOMAIN owned}
      BY DEF IndInv, SpanInv
    <3>4. \A p \in DOMAIN owned : \/ span.base + span.size <= SpanOf(p).base
                                  \/ SpanOf(p).base + SpanOf(p).size <= span.base
      BY <1>1, <3>3 DEF Grants
    <3>5. span.base + span.size <= AddressSpace
      BY <1>1 DEF Grants
    <3> HIDE DEF span, Later, o
    <3>6. {Later(p) : p \in DOMAIN owned'} = {SpanOf(p) : p \in DOMAIN owned} \cup {span}
      BY <2>7, <2>10, <2>14, <3>1, <3>2
    <3>7. memory' = {Later(p) : p \in DOMAIN owned'}
      BY <2>2, <3>3, <3>6
    <3>8. \A p \in DOMAIN owned' : Later(p).base + Later(p).size <= AddressSpace
      BY <2>10, <3>1, <3>2, <3>5 DEF IndInv, SpanInv
    <3>9. \A p, r \in DOMAIN owned' :
            p # r => \/ Later(p).base + Later(p).size <= Later(r).base
                     \/ Later(r).base + Later(r).size <= Later(p).base
      BY <2>10, <3>1, <3>2, <3>4 DEF IndInv, SpanInv
    <3>10. QED
      BY <3>7, <3>8, <3>9 DEF SpanInv, SpanOf, Later
  <2>17. ProcessInv'
    BY <1>1, <1>2 DEF ProcessInv
  <2>18. Kept
    BY <1>1, <2>7, <2>9 DEF Kept
  <2>19. ASSUME NEW i \in PeModules' PROVE Same(i) \/ Fresh(i)
    <3>1. CASE i \in PeModules
      <4>1. owned'[modules[i].own] = owned[modules[i].own]
        BY <2>7, <2>13, <3>1
      <4>2. QED
        BY <2>13, <3>1, <4>1 DEF Same
    <3>2. CASE i = n
      BY <2>3, <2>4, <2>7, <2>14, <3>2 DEF Fresh, placed
    <3>3. QED
      BY <2>12, <3>1, <3>2
  <2>20. QED
    BY <1>1, <2>9, <2>11, <2>15, <2>16, <2>17, <2>18, <2>19, Assemble DEF Structure
<1>5. QED
  BY <1>3, <1>4

(* A step that changes the contents of one image. *)
LEMMA ContentsKeep ==
  ASSUME IndInv, NEW k \in PeModules, holder = "caller",
         UNCHANGED <<holder, modules, aliases, memory, main, peb, refs, answered>>,
         IsSequence(owned'), DOMAIN owned' = DOMAIN owned,
         \A o \in DOMAIN owned : o # modules[k].own => owned'[o] = owned[o],
         IsOwned(owned'[modules[k].own]),
         owned'[modules[k].own].image = owned[modules[k].own].image,
         owned'[modules[k].own].mapped.bytes = owned[modules[k].own].mapped.bytes,
         Same(k) \/ Linked(k)
  PROVE  IndInv'
<1>1. modules[k].own \in DOMAIN owned
  BY DEF IndInv, OwnInv
<1>2. \A o \in DOMAIN owned : IsOwned(owned[o]) /\ IsOwned(owned'[o])
  BY <1>1 DEF IndInv, TypeInv
<1>3. \A o \in DOMAIN owned : /\ owned'[o].image = owned[o].image
                              /\ owned'[o].mapped.bytes = owned[o].mapped.bytes
  BY <1>1
<1>4. \A o \in DOMAIN owned : owned'[o].mapped.base = owned[o].mapped.base
  BY <1>2, <1>3 DEF IsOwned, IsMapping
<1>5. TypeInv' /\ NameInv'
  BY <1>2 DEF IndInv, TypeInv, NameInv, SameName
<1>6. PeModules' = PeModules
  BY DEF PeModules, IsPe
<1>7. OwnInv'
  BY <1>6 DEF IndInv, OwnInv
<1>8. SpanInv'
  <2>1. \A o \in DOMAIN owned : SpanOf(o)' = SpanOf(o)
    BY <1>3 DEF SpanOf
  <2>2. {SpanOf(o)' : o \in DOMAIN owned'} = {SpanOf(o) : o \in DOMAIN owned}
    BY <2>1
  <2>3. QED
    BY <2>1, <2>2 DEF IndInv, SpanInv
<1>9. ProcessInv'
  BY DEF IndInv, ProcessInv
<1>10. Kept
  BY <1>3, <1>4 DEF Kept
<1>11. ASSUME NEW i \in PeModules' PROVE Same(i) \/ Linked(i)
  <2>1. CASE i = k
    BY <2>1
  <2>2. CASE i # k
    <3>1. modules[i].own # modules[k].own /\ modules[i].own \in DOMAIN owned
      BY <1>6, <2>2 DEF IndInv, OwnInv
    <3>2. owned'[modules[i].own] = owned[modules[i].own]
      BY <3>1
    <3>3. QED
      BY <1>6, <3>2 DEF Same
  <2>3. QED
    BY <2>1, <2>2
<1>12. QED
  BY <1>5, <1>7, <1>8, <1>9, <1>10, <1>11, Assemble DEF Structure

LEMMA BindModuleKeeps ==
  ASSUME IndInv, NEW k \in DOMAIN modules, BindModule(k)
  PROVE  IndInv'
<1> DEFINE own == modules[k].own
           o == owned[own]
           outcome == BindImports(o.image, o.mapped, ImportAnswers(k))
           p == owned'[own]
           after == IsBoundAfter(own, outcome.status)
           mapped == outcome.mapped
<1>1. k \in PeModules
  BY DEF BindModule, PeModules
<1>2. own \in DOMAIN owned /\ IsOwned(o)
  BY <1>1, OwnedIs DEF IndInv
<1>3. /\ UNCHANGED <<holder, modules, aliases, memory, main, peb, refs, answered>>
      /\ holder = "caller"
      /\ owned' = [owned EXCEPT ![own].mapped = mapped, ![own].bound = after]
  BY DEF BindModule, registry, process, Mapped
<1>4. after = (o.bound \/ outcome.status = "OK")
  BY DEF IsBoundAfter
<1>5. IsSequence(owned) /\ DOMAIN o = {"image", "mapped", "bound"}
  BY <1>2 DEF IndInv, TypeInv, IsOwned
<1> HIDE DEF after, mapped, outcome, o, own
<1>6. /\ IsSequence(owned')
      /\ DOMAIN owned' = DOMAIN owned
      /\ \A i \in DOMAIN owned : i # own => owned'[i] = owned[i]
      /\ DOMAIN p = {"image", "mapped", "bound"}
      /\ p.image = o.image
      /\ p.mapped = mapped
      /\ p.bound = after
  BY <1>2, <1>3, <1>5, ReplaceIs DEF o
<1>7. /\ o.image \in Images /\ IsMapping(o.mapped) /\ o.image.size > 0
      /\ o.bound \in BOOLEAN /\ (o.mapped.finalized => o.bound)
  BY <1>2 DEF IsOwned
<1>8. \/ /\ outcome.status # "OK"
         /\ mapped = o.mapped
      \/ /\ outcome.status = "OK"
         /\ ~o.mapped.finalized
         /\ mapped = [o.mapped EXCEPT !.cells = WriteIat(o.image, o.mapped.cells, ImportAnswers(k))]
         /\ \A j \in DOMAIN o.image.imports : /\ o.image.imports[j].iat \in Cells(o.image)
                                              /\ ImportAnswers(k)[j].status = "OK"
  BY <1>7, BindOutcome DEF mapped, outcome
<1>9. modules'[k] = modules[k]
  BY <1>3
<1> HIDE DEF p
<1>10. CASE outcome.status # "OK"
  <2>1. mapped = o.mapped /\ after = o.bound
    BY <1>4, <1>7, <1>8, <1>10
  <2>2. IsOwned(p) /\ p.mapped.bytes = o.mapped.bytes
    BY <1>6, <1>7, <2>1 DEF IsOwned
  <2>3. Same(k)
    BY <1>1, <1>6, <1>9, <2>1 DEF Same, o, own, p
  <2>4. QED
    BY <1>1, <1>3, <1>6, <2>2, <2>3, ContentsKeep DEF o, own, p
<1>11. CASE outcome.status = "OK"
  <2>1. after = TRUE
    BY <1>4, <1>11
  <2> DEFINE cells == WriteIat(o.image, o.mapped.cells, ImportAnswers(k))
  <2> HIDE DEF cells
  <2>0. mapped = [o.mapped EXCEPT !.cells = cells]
    BY <1>8, <1>11 DEF cells
  <2>2. /\ IsMapping(mapped)
        /\ mapped.bytes = o.mapped.bytes
        /\ mapped.finalized = o.mapped.finalized
        /\ mapped.cells = cells
    BY <1>7, <2>0, WithCells
  <2>3. IsOwned(p) /\ p.mapped.bytes = o.mapped.bytes
    BY <1>6, <1>7, <2>1, <2>2 DEF IsOwned
  <2>4. Linked(k)
    BY <1>1, <1>6, <1>8, <1>9, <1>11, <2>1, <2>2 DEF Linked, o, own, p, cells
  <2>5. QED
    BY <1>1, <1>3, <1>6, <2>3, <2>4, ContentsKeep DEF o, own, p
<1>12. QED
  BY <1>10, <1>11

LEMMA FinalizeModuleKeeps ==
  ASSUME IndInv, NEW k \in DOMAIN modules, FinalizeModule(k)
  PROVE  IndInv'
<1> DEFINE own == modules[k].own
           o == owned[own]
           p == owned'[own]
<1>1. k \in PeModules /\ o.bound
  BY DEF FinalizeModule, CanFinalize, PeModules
<1>2. own \in DOMAIN owned /\ IsOwned(o)
  BY <1>1, OwnedIs DEF IndInv
<1>3. /\ UNCHANGED <<holder, modules, aliases, memory, main, peb, refs, answered>>
      /\ holder = "caller"
  BY DEF FinalizeModule, registry, process
<1>4. PICK outcome \in FinalizeImage(o.image, o.mapped) :
        owned' = [owned EXCEPT ![own].mapped = outcome.mapped]
  BY DEF FinalizeModule, Mapped
<1>5. IsSequence(owned) /\ DOMAIN o = {"image", "mapped", "bound"}
  BY <1>2 DEF IndInv, TypeInv, IsOwned
<1>6. /\ o.image \in Images /\ IsMapping(o.mapped) /\ o.image.size > 0
      /\ o.bound \in BOOLEAN
  BY <1>2 DEF IsOwned
<1>7. /\ IsMapping(outcome.mapped)
      /\ outcome.mapped.bytes = o.mapped.bytes
      /\ outcome.mapped.cells = o.mapped.cells
  BY <1>4, <1>6, FinalizeOutcome
<1> HIDE DEF o, own
<1>8. /\ IsSequence(owned')
      /\ DOMAIN owned' = DOMAIN owned
      /\ \A i \in DOMAIN owned : i # own => owned'[i] = owned[i]
      /\ DOMAIN p = {"image", "mapped", "bound"}
      /\ p.image = o.image
      /\ p.mapped = outcome.mapped
      /\ p.bound = o.bound
  BY <1>2, <1>4, <1>5, SealIs DEF o
<1> HIDE DEF p
<1>9. IsOwned(p)
  BY <1>1, <1>6, <1>7, <1>8 DEF IsOwned
<1>10. Same(k)
  <2>1. modules'[k] = modules[k]
    BY <1>3
  <2>2. QED
    BY <1>1, <1>7, <1>8, <2>1 DEF Same, o, own, p
<1>11. QED
  BY <1>1, <1>3, <1>7, <1>8, <1>9, <1>10, ContentsKeep DEF o, own, p

LEMMA Invariance == Spec => []IndInv
<1>1. Init => IndInv
  BY InitIs
<1>2. IndInv /\ [Next]_vars => IndInv'
  <2> SUFFICES ASSUME IndInv, [Next]_vars PROVE IndInv'
    OBVIOUS
  <2>1. CASE Create
    BY <2>1, CreateKeeps
  <2>2. ASSUME NEW name \in Names, NEW image \in Images, NEW base \in Bases,
               AddPe(name, image, base)
        PROVE  IndInv'
    BY <2>2, AddPeKeeps
  <2>3. ASSUME NEW name \in Names, NEW exports \in Tables, AddNative(name, exports)
        PROVE  IndInv'
    BY <2>3, AddNativeKeeps
  <2>4. ASSUME NEW contract \in Names, NEW target \in Names, AddAlias(contract, target)
        PROVE  IndInv'
    BY <2>4, AddAliasKeeps
  <2>5. ASSUME NEW i \in DOMAIN modules, BindModule(i) \/ FinalizeModule(i) \/ Adopt(i)
        PROVE  IndInv'
    BY <2>5, BindModuleKeeps, FinalizeModuleKeeps, AdoptKeeps
  <2>6. ASSUME NEW name \in Names, NEW key \in Keys, KeepAnswer(name, key)
        PROVE  IndInv'
    BY <2>6, KeepAnswerKeeps
  <2>7. CASE DestroySpace
    BY <2>7, DestroySpaceKeeps
  <2>8. ASSUME NEW base \in Bases \cup {0}, SetImageBase(base) PROVE IndInv'
    BY <2>8, SetImageBaseKeeps
  <2>9. CASE Retain \/ Release
    BY <2>9, ReferencesKeep
  <2>10. CASE DestroyProcess
    BY <2>10, DestroyProcessKeeps
  <2>11. CASE UNCHANGED vars
    <3>1. UNCHANGED <<holder, modules, aliases, owned, memory, main, peb, refs, answered>>
      BY <2>11 DEF vars
    <3>2. /\ Structure' /\ SpanInv' /\ Kept
          /\ PeModules' = PeModules
          /\ \A i \in PeModules' : Same(i)
      BY <3>1, RegistryStays DEF IndInv, TypeInv
    <3>3. ProcessInv'
      BY <3>1, <3>2 DEF IndInv, ProcessInv, SpaceIsFinalized, Mapped, IsPe
    <3>4. QED
      BY <3>1, <3>2, <3>3, Assemble
  <2>12. QED
    BY <2>1, <2>2, <2>3, <2>4, <2>5, <2>6, <2>7, <2>8, <2>9, <2>10, <2>11 DEF Next
<1>3. QED
  BY <1>1, <1>2, PTL DEF Spec

-----------------------------------------------------------------------------
(* What the inductive invariant implies.                                   *)

(* The places of a module's functions. *)
Places(i) == IF IsPe(i) THEN Cells(owned[modules[i].own].image) ELSE 1 .. AddressSpace - 1

LEMMA FunctionPlace ==
  ASSUME TypeInv, OwnInv, NEW i \in DOMAIN modules, NEW e \in DOMAIN Exports(i),
         ~IsForwarder(Exports(i)[e])
  PROVE  Exports(i)[e].kind = "function" /\ Exports(i)[e].at \in Places(i)
<1>1. modules[i] \in ModuleType
  BY DEF TypeInv
<1>2. CASE IsPe(i)
  <2>1. owned[modules[i].own].image \in Images
    BY <1>2, OwnedIs DEF PeModules, IsOwned
  <2>2. IsExportTable(Exports(i), Cells(owned[modules[i].own].image))
    BY <1>2, <2>1, ImagesAssumption DEF Exports
  <2>3. QED
    BY <1>2, <2>2 DEF IsExportTable, IsForwarder, Places
<1>3. CASE ~IsPe(i)
  <2>1. modules[i].exports \in NativeTables
    BY <1>1, <1>3 DEF ModuleType, IsPe
  <2>2. IsExportTable(Exports(i), 0 .. AddressSpace - 1) /\ IsValidTable(Exports(i))
    BY <1>3, <2>1, ImagesAssumption DEF Exports, NativeTables
  <2>3. /\ Exports(i)[e].kind = "function" /\ Exports(i)[e].at \in 0 .. AddressSpace - 1
        /\ Exports(i)[e].at # 0
    BY <2>2 DEF IsExportTable, IsForwarder, IsValidTable
  <2>4. QED
    BY <1>3, <2>3, LoaderAssumption DEF Places
<1>4. QED
  BY <1>2, <1>3

(* The addresses of an image are above 0 and below the end of the address  *)
(* space.                                                                  *)
LEMMA SpanIs ==
  ASSUME IndInv, NEW i \in PeModules
  PROVE  LET o == owned[modules[i].own]
         IN /\ Mapped(i) = o.mapped
            /\ o.mapped.base = o.mapped.bytes
            /\ o.mapped.base \in Bases
            /\ o.mapped.base \in 1 .. AddressSpace - 1
            /\ o.image \in Images
            /\ o.image.size \in Nat /\ o.image.size > 0
            /\ o.mapped.base + o.image.size <= AddressSpace
            /\ SpanOf(modules[i].own).base = Mapped(i).base
            /\ SpanOf(modules[i].own).size = o.image.size
<1>1. modules[i].own \in DOMAIN owned /\ IsOwned(owned[modules[i].own])
  BY OwnedIs DEF IndInv
<1> DEFINE o == owned[modules[i].own]
<1>2. /\ o.mapped.base = o.mapped.bytes /\ o.mapped.base \in Bases
      /\ o.image \in Images /\ o.image.size \in Nat /\ o.image.size > 0
  BY <1>1, ImagesAssumption DEF IsOwned, IsMapping
<1>3. SpanOf(modules[i].own).base = o.mapped.base /\ SpanOf(modules[i].own).size = o.image.size
  BY <1>2 DEF SpanOf, Span
<1>4. o.mapped.base + o.image.size <= AddressSpace
  BY <1>1, <1>3 DEF IndInv, SpanInv
<1>5. QED
  BY <1>2, <1>3, <1>4, ModuleSpaceAssumption DEF Mapped

(* Images of different modules lie apart. *)
LEMMA SpansAreApart ==
  ASSUME IndInv, NEW i \in PeModules, NEW k \in PeModules, i # k
  PROVE  \/ Mapped(i).base + owned[modules[i].own].image.size <= Mapped(k).base
         \/ Mapped(k).base + owned[modules[k].own].image.size <= Mapped(i).base
<1>1. modules[i].own \in DOMAIN owned /\ modules[k].own \in DOMAIN owned /\ modules[i].own # modules[k].own
  BY DEF IndInv, OwnInv
<1>2. QED
  <2>1. \/ SpanOf(modules[i].own).base + SpanOf(modules[i].own).size <= SpanOf(modules[k].own).base
        \/ SpanOf(modules[k].own).base + SpanOf(modules[k].own).size <= SpanOf(modules[i].own).base
    BY <1>1 DEF IndInv, SpanInv
  <2>2. /\ SpanOf(modules[i].own).base = Mapped(i).base
        /\ SpanOf(modules[i].own).size = owned[modules[i].own].image.size
        /\ SpanOf(modules[k].own).base = Mapped(k).base
        /\ SpanOf(modules[k].own).size = owned[modules[k].own].image.size
    BY SpanIs
  <2>3. QED
    BY <2>1, <2>2

(* The only candidate is found. *)
LEMMA OnlyOne ==
  ASSUME NEW S, NEW i \in Nat, i \in S, \A k \in S : k = i
  PROVE  First(S) = i
<1>1. S = {i}
  OBVIOUS
<1>2. Min({i}) = i
  BY DEF Min
<1>3. QED
  BY <1>1, <1>2 DEF First

LEMMA AnswerIsTyped ==
  ASSUME IndInv, NEW q \in Queries, ResolveQuery[q].status = "OK"
  PROVE  ResolveQuery[q] \in [status : {"OK"}, module : DOMAIN modules, address : 1 .. AddressSpace - 1]
<1>1. PICK i \in DOMAIN modules : \E e \in DOMAIN Exports(i) : IsFunctionOf(ResolveQuery[q], i, e)
  BY ResolvedIsFunction DEF IndInv
<1>2. PICK e \in DOMAIN Exports(i) : IsFunctionOf(ResolveQuery[q], i, e)
  BY <1>1
<1>3. ~IsForwarder(Exports(i)[e]) /\ ResolveQuery[q] = Answer("OK", i, ExportAddress(i, Exports(i)[e]))
  BY <1>2 DEF IsFunctionOf
<1>4. Exports(i)[e].at \in Places(i)
  BY <1>3, FunctionPlace DEF IndInv
<1>5. ExportAddress(i, Exports(i)[e]) \in 1 .. AddressSpace - 1
  <2>1. CASE IsPe(i)
    <3>1. i \in PeModules
      BY <2>1 DEF PeModules
    <3> DEFINE o == owned[modules[i].own]
    <3>2. Exports(i)[e].at \in 0 .. o.image.size - 1
      BY <1>4, <2>1 DEF Places, Cells
    <3>3. /\ Mapped(i).base \in 1 .. AddressSpace - 1 /\ o.image.size \in Nat
          /\ Mapped(i).base + o.image.size <= AddressSpace
      BY <3>1, SpanIs
    <3> HIDE DEF o
    <3>4. QED
      BY <2>1, <3>2, <3>3, LoaderAssumption DEF ExportAddress
  <2>2. CASE ~IsPe(i)
    BY <1>4, <2>2 DEF ExportAddress, Places
  <2>3. QED
    BY <2>1, <2>2
<1>6. QED
  BY <1>3, <1>5 DEF Answer

LEMMA TypesHold == IndInv => TypeOK
<1> SUFFICES ASSUME IndInv PROVE TypeOK
  OBVIOUS
<1>1. \A i \in DOMAIN modules : /\ modules[i].name \in Names
                                /\ modules[i].kind = "PE" => modules[i].own \in DOMAIN owned
  <2>1. ASSUME NEW i \in DOMAIN modules PROVE modules[i].name \in Names
    <3>1. modules[i] \in ModuleType
      BY DEF IndInv, TypeInv
    <3>2. QED
      BY <3>1 DEF ModuleType
  <2>2. QED
    BY <2>1 DEF IndInv, OwnInv, PeModules, IsPe
<1>2. \A a \in DOMAIN aliases : aliases[a] \in [contract : Names, target : Names]
  <2>1. aliases \in Seq(AliasType)
    BY DEF IndInv, TypeInv
  <2>2. \A a \in DOMAIN aliases : aliases[a] \in AliasType
    <3> HIDE DEF AliasType
    <3>1. QED
      BY <2>1
  <2>3. QED
    BY <2>2 DEF AliasType
<1>3. \A o \in DOMAIN owned : owned[o].image \in Images /\ owned[o].bound \in BOOLEAN
  BY DEF IndInv, TypeInv, IsOwned
<1>4. memory \subseteq [base : Bases, size : Nat]
  <2>1. \A o \in DOMAIN owned : SpanOf(o) \in [base : Bases, size : Nat]
    BY ImagesAssumption DEF IndInv, TypeInv, IsOwned, IsMapping, SpanOf, Span
  <2>2. QED
    BY <2>1 DEF IndInv, SpanInv
<1>5. ASSUME answered # <<>>
      PROVE  answered \in [name : Names, key : Keys,
                           answer : [status : {"OK"}, module : DOMAIN modules,
                                     address : 1 .. AddressSpace - 1]]
  <2>1. IsAnswered(answered) /\ ResolveSymbol(answered.name, answered.key) = answered.answer
    BY <1>5 DEF IndInv, AnswerInv, ResolutionIsStable
  <2> DEFINE q == <<0, answered.name, answered.key>>
  <2>2. 0 \in 0 .. ForwarderDepthLimit + 1
    BY ModuleSpaceAssumption
  <2>3. q \in Queries
    BY <2>1, <2>2 DEF IsAnswered, Queries
  <2>4. answered.answer = ResolveQuery[q] /\ ResolveQuery[q].status = "OK"
    BY <2>1 DEF IsAnswered, ResolveSymbol
  <2>5. answered.answer \in [status : {"OK"}, module : DOMAIN modules, address : 1 .. AddressSpace - 1]
    BY <2>3, <2>4, AnswerIsTyped
  <2>6. QED
    BY <2>1, <2>5 DEF IsAnswered
<1>6. QED
  BY <1>1, <1>2, <1>3, <1>4, <1>5 DEF IndInv, TypeInv, TypeOK

LEMMA NamesHold == IndInv => NamesAreUnambiguous
<1> SUFFICES ASSUME IndInv PROVE NamesAreUnambiguous
  OBVIOUS
<1>1. ASSUME NEW a \in DOMAIN aliases
      PROVE  FindModule(aliases[a].contract) = 0 /\ FindModule(aliases[a].target) # 0
  <2>1. aliases[a].contract \in Names /\ aliases[a].target \in Names
    <3>1. aliases \in Seq(AliasType)
      BY DEF IndInv, TypeInv
    <3>2. aliases[a] \in AliasType
      <4> HIDE DEF AliasType
      <4>1. QED
        BY <3>1
    <3>3. QED
      BY <3>2 DEF AliasType
  <2>2. DOMAIN modules = 1 .. Len(modules) /\ Len(modules) \in Nat
    BY DEF IndInv, TypeInv
  <2>3. QED
    BY <2>1, <2>2, FindModuleIs DEF IndInv, NameInv
<1>2. QED
  BY <1>1 DEF IndInv, NameInv, NamesAreUnambiguous

LEMMA AddressesHold == IndInv => AddressesFindTheirModule
<1> SUFFICES ASSUME IndInv, NEW i \in PeModules
             PROVE  /\ ResolveHandle(Mapped(i).base) = i
                    /\ \A r \in Cells(owned[modules[i].own].image) :
                          ResolveAddress(Mapped(i).base + r) = i
  BY DEF AddressesFindTheirModule
<1>1. i \in Nat
  BY DEF PeModules, IndInv, TypeInv
<1>2. \A k \in PeModules : /\ Mapped(k).base \in 1 .. AddressSpace - 1
                           /\ owned[modules[k].own].image.size \in Nat
                           /\ owned[modules[k].own].image.size > 0
  BY SpanIs
<1>3. ResolveHandle(Mapped(i).base) = i
  <2> DEFINE S == {k \in PeModules : Mapped(k).base = Mapped(i).base}
  <2>1. \A k \in S : k = i
    BY <1>2, SpansAreApart, LoaderAssumption
  <2>2. First(S) = i
    BY <1>1, <2>1, OnlyOne
  <2>3. QED
    BY <2>2 DEF ResolveHandle
<1>4. ASSUME NEW r \in Cells(owned[modules[i].own].image)
      PROVE  ResolveAddress(Mapped(i).base + r) = i
  <2> DEFINE at == Mapped(i).base + r
             S == {k \in PeModules : IsInside(k, at)}
  <2>1. r \in 0 .. owned[modules[i].own].image.size - 1
    BY DEF Cells
  <2>2. i \in S
    BY <1>2, <2>1, LoaderAssumption DEF IsInside
  <2>3. \A k \in S : k = i
    BY <1>2, <2>1, SpansAreApart, LoaderAssumption DEF IsInside
  <2> HIDE DEF S
  <2>4. First(S) = i
    BY <1>1, <2>2, <2>3, OnlyOne
  <2>5. QED
    BY <2>4 DEF ResolveAddress, S
<1>5. QED
  BY <1>3, <1>4

LEMMA MappingsHold == IndInv => MappingsAreOwned
<1> SUFFICES ASSUME IndInv PROVE MappingsAreOwned
  OBVIOUS
<1>1. memory = {Span(owned[o].image, owned[o].mapped.bytes) : o \in DOMAIN owned}
  BY DEF IndInv, SpanInv, SpanOf
<1>2. ASSUME NEW o \in DOMAIN owned
      PROVE  /\ owned[o].mapped # NoMapping
             /\ Cardinality({m \in PeModules : modules[m].own = o}) = 1
             /\ \A p \in DOMAIN owned : owned[o].mapped.bytes = owned[p].mapped.bytes => o = p
  <2>1. owned[o].mapped # NoMapping
    <3>1. NoMapping.storage = "none"
      BY DEF NoMapping
    <3>2. owned[o].mapped.storage # "none"
      BY DEF IndInv, TypeInv, IsOwned, IsMapping
    <3>3. QED
      BY <3>1, <3>2
  <2>2. PICK i \in PeModules : modules[i].own = o
    BY DEF IndInv, OwnInv
  <2>3. {m \in PeModules : modules[m].own = o} = {i}
    BY <2>2 DEF IndInv, OwnInv
  <2>4. Cardinality({i}) = 1
    BY FS_Singleton
  <2>5. ASSUME NEW p \in DOMAIN owned, owned[o].mapped.bytes = owned[p].mapped.bytes
        PROVE  o = p
    <3>1. PICK k \in PeModules : modules[k].own = p
      BY DEF IndInv, OwnInv
    <3>2. Mapped(i).base = Mapped(k).base /\ Mapped(i).base \in 1 .. AddressSpace - 1
      BY <2>2, <2>5, <3>1, SpanIs
    <3>3. /\ owned[modules[i].own].image.size \in Nat /\ owned[modules[i].own].image.size > 0
          /\ owned[modules[k].own].image.size \in Nat /\ owned[modules[k].own].image.size > 0
      BY SpanIs
    <3>4. i = k
      BY <3>2, <3>3, SpansAreApart, LoaderAssumption
    <3>5. QED
      BY <2>2, <3>1, <3>4
  <2>6. QED
    BY <2>1, <2>3, <2>4, <2>5
<1>3. QED
  BY <1>1, <1>2 DEF MappingsAreOwned

LEMMA ProcessHolds == IndInv => ProcessIsLinked
<1> SUFFICES ASSUME IndInv PROVE ProcessIsLinked
  OBVIOUS
<1>1. AdoptedSpaceIsLinked
  <2> SUFFICES ASSUME holder = "process", NEW i \in PeModules
               PROVE  /\ owned[modules[i].own].bound
                      /\ Mapped(i).storage = "virtual" /\ Mapped(i).finalized
                      /\ Mapped(i).base = Mapped(i).bytes
                      /\ \A j \in DOMAIN ImportAnswers(i) : ImportAnswers(i)[j].status = "OK"
    BY DEF AdoptedSpaceIsLinked
  <2>1. /\ Mapped(i).storage = "virtual" /\ Mapped(i).finalized
        /\ Mapped(i).base = Mapped(i).bytes
    BY DEF IndInv, ProcessInv, SpaceIsFinalized, PeModules
  <2>2. owned[modules[i].own].bound
    BY <2>1, OwnedIs DEF IndInv, IsOwned, Mapped
  <2>3. \A j \in DOMAIN owned[modules[i].own].image.imports : ImportAnswers(i)[j].status = "OK"
    BY <2>2 DEF IndInv, BoundInv
  <2>4. DOMAIN ImportAnswers(i) = DOMAIN owned[modules[i].own].image.imports
    BY DEF ImportAnswers
  <2>5. QED
    BY <2>1, <2>2, <2>3, <2>4
<1>2. PebNamesMainImage
  <2>1. ASSUME main # 0 PROVE IsPe(main) /\ peb = Mapped(main).base /\ \E m \in memory : m.base = peb
    <3>1. main \in PeModules /\ peb = Mapped(main).base
      BY <2>1 DEF IndInv, ProcessInv
    <3>2. SpanOf(modules[main].own).base = peb /\ modules[main].own \in DOMAIN owned
      <4>1. SpanOf(modules[main].own).base = Mapped(main).base
        BY <3>1, SpanIs
      <4>2. modules[main].own \in DOMAIN owned
        BY <3>1 DEF IndInv, OwnInv
      <4>3. QED
        BY <3>1, <4>1, <4>2
    <3>3. SpanOf(modules[main].own) \in memory
      BY <3>2 DEF IndInv, SpanInv
    <3>4. QED
      BY <3>1, <3>2, <3>3 DEF PeModules
  <2>2. QED
    BY <2>1 DEF IndInv, ProcessInv, PebNamesMainImage
<1>3. QED
  BY <1>1, <1>2 DEF ProcessIsLinked

LEMMA FunctionsHold == IndInv => ResolvedSymbolsAreFunctions
<1> SUFFICES ASSUME IndInv, NEW name \in Names, NEW key \in Keys,
                    ResolveSymbol(name, key).status = "OK"
             PROVE  LET answer == ResolveSymbol(name, key)
                    IN \E e \in DOMAIN Exports(answer.module) :
                         LET export == Exports(answer.module)[e]
                         IN /\ export.kind = "function"
                            /\ answer.address = export.at
                                 + IF IsPe(answer.module) THEN Mapped(answer.module).bytes ELSE 0
  BY DEF ResolvedSymbolsAreFunctions
<1> DEFINE q == <<0, name, key>>
           answer == ResolveQuery[q]
<1>1. ResolveSymbol(name, key) = answer
  BY DEF ResolveSymbol
<1>2. 0 \in 0 .. ForwarderDepthLimit + 1
  BY ModuleSpaceAssumption
<1>3. q \in Queries
  BY <1>2 DEF Queries
<1>4. PICK i \in DOMAIN modules : \E e \in DOMAIN Exports(i) : IsFunctionOf(answer, i, e)
  BY <1>1, <1>3, ResolvedIsFunction DEF IndInv
<1>5. PICK e \in DOMAIN Exports(i) : IsFunctionOf(answer, i, e)
  BY <1>4
<1>6. /\ ~IsForwarder(Exports(i)[e])
      /\ answer.module = i /\ answer.address = ExportAddress(i, Exports(i)[e])
  BY <1>5 DEF IsFunctionOf, Answer
<1>7. Exports(i)[e].kind = "function" /\ Exports(i)[e].at \in Places(i)
  BY <1>6, FunctionPlace DEF IndInv
<1>8. ExportAddress(i, Exports(i)[e]) =
        Exports(i)[e].at + IF IsPe(i) THEN Mapped(i).bytes ELSE 0
  <2>1. CASE IsPe(i)
    <3>1. i \in PeModules
      BY <2>1 DEF PeModules
    <3> DEFINE o == owned[modules[i].own]
    <3>2. Exports(i)[e].at \in 0 .. o.image.size - 1
      BY <1>7, <2>1 DEF Places, Cells
    <3>3. Mapped(i).base = Mapped(i).bytes /\ Mapped(i).base \in 1 .. AddressSpace - 1
          /\ o.image.size \in Nat
      BY <3>1, SpanIs
    <3>4. QED
      BY <2>1, <3>2, <3>3, LoaderAssumption DEF ExportAddress
  <2>2. CASE ~IsPe(i)
    BY <1>7, <2>2, LoaderAssumption DEF ExportAddress, Places
  <2>3. QED
    BY <2>1, <2>2
<1> HIDE DEF answer
<1>9. QED
  BY <1>1, <1>6, <1>7, <1>8

(* After any sequence of sl_module_space_*, sl_module_registry_* and       *)
(* sl_win32_process_* calls, failed ones included: names and addresses     *)
(* lead to one module, the mappings are those of the registered images,    *)
(* and a process that adopted the space owns a sealed and linked one.      *)
THEOREM BootstrapIsConsistent == Spec => []SpaceIsConsistent
<1>1. IndInv => SpaceIsConsistent
  BY TypesHold, NamesHold, AddressesHold, MappingsHold, ProcessHolds
  DEF SpaceIsConsistent, RegistryIsConsistent
<1>2. QED
  BY <1>1, Invariance, PTL

(* resolve_symbol_recursive leads a symbol to a function, through any      *)
(* chain of forwarders and aliases, and what it led to once it leads to    *)
(* ever after, whatever sl_module_space_add_pe and add_native add.         *)
THEOREM SymbolsStayResolved == Spec => []SymbolsAreStable
<1>1. IndInv => ResolutionIsStable
  BY DEF IndInv, AnswerInv, ResolutionIsStable
<1>2. IndInv => SymbolsAreStable
  BY <1>1, FunctionsHold DEF SymbolsAreStable
<1>3. QED
  BY <1>2, Invariance, PTL

(* sl_loader_bind_imports: the import table of a bound image holds the     *)
(* registry's present answers, and an image that is not bound is as it was *)
(* mapped, whichever bind failed before.                                   *)
THEOREM ImportsStayCurrent == Spec => []BoundImportsAreCurrent
<1>1. IndInv => BoundImportsAreCurrent
  BY DEF IndInv
<1>2. QED
  BY <1>1, Invariance, PTL
-----------------------------------------------------------------------------
(***************************************************************************)
(* One image under the loader's interface (LoaderImage), for any images,   *)
(* any addresses and any sequence of calls.                                *)
(***************************************************************************)
IsImageMapping(m) ==
    m = [storage |-> m.storage, bytes |-> m.bytes, base |-> m.base,
         finalized |-> m.finalized, cells |-> m.cells, prot |-> m.prot]

WritableLayout(image) == [p \in Pages(image) |-> {"R", "W"}]

(* Pages are writable until they are sealed; a tainted mapping has any mix  *)
(* of the two.                                                              *)
Sealed(image, m) ==
    /\ m.storage \in {"heap", "virtual", "tainted"}
    /\ m.finalized \in BOOLEAN
    /\ DOMAIN m.cells = Cells(image)
    /\ m.finalized => m.storage = "virtual"
    /\ ~m.finalized /\ m.storage # "tainted" => m.prot = WritableLayout(image)
    /\ m.finalized => m.prot = Permissions(image) /\ ~HasWxConflict(image)
    /\ m.storage = "tainted" =>
          \A p \in Pages(image) :
             \/ m.prot[p] = {"R", "W"}
             \/ m.prot[p] = Permissions(image)[p] /\ ~HasWxConflict(image)

LoaderInv ==
    /\ given \in GivenImages
    /\ mapping = NoMapping \/ (IsImageMapping(mapping) /\ Sealed(given, mapping))

(* The loop over the entries of a relocation directory. *)
Entries(image, cells, delta, apply, n, f) ==
    /\ DOMAIN f = 0 .. n
    /\ f[0] = [status |-> "OK", cells |-> cells]
    /\ \A k \in 1 .. n :
          f[k] = ProcessEntry(image, f[k - 1], image.relocs.rva + k - 1, delta, apply)

LEMMA EntriesExist ==
  ASSUME NEW image, NEW cells, NEW delta, NEW apply, NEW n \in Nat
  PROVE  \E f : Entries(image, cells, delta, apply, n, f)
<1> DEFINE Done == {m \in Nat : \E f : Entries(image, cells, delta, apply, m, f)}
<1>1. 0 \in Done
  <2> DEFINE f == [k \in 0 .. 0 |-> [status |-> "OK", cells |-> cells]]
  <2>1. Entries(image, cells, delta, apply, 0, f)
    BY DEF Entries
  <2>2. QED
    BY <2>1
<1>2. ASSUME NEW m \in Nat, m \in Done PROVE m + 1 \in Done
  <2>1. PICK f : Entries(image, cells, delta, apply, m, f)
    BY <1>2
  <2> DEFINE next == ProcessEntry(image, f[m], image.relocs.rva + (m + 1) - 1, delta, apply)
             h == [k \in 0 .. m + 1 |-> IF k <= m THEN f[k] ELSE next]
  <2> HIDE DEF next
  <2>2. DOMAIN h = 0 .. m + 1 /\ h[0] = [status |-> "OK", cells |-> cells]
    BY <2>1 DEF Entries
  <2>3. ASSUME NEW k \in 1 .. m + 1
        PROVE  h[k] = ProcessEntry(image, h[k - 1], image.relocs.rva + k - 1, delta, apply)
    <3>1. CASE k <= m
      <4>1. k \in 1 .. m /\ h[k] = f[k] /\ h[k - 1] = f[k - 1]
        BY <3>1
      <4>2. f[k] = ProcessEntry(image, f[k - 1], image.relocs.rva + k - 1, delta, apply)
        BY <2>1, <4>1 DEF Entries
      <4>3. QED
        BY <4>1, <4>2
    <3>2. CASE k = m + 1
      <4>1. ~(m + 1 <= m) /\ (m + 1) - 1 = m /\ m <= m /\ m \in 0 .. m + 1
        OBVIOUS
      <4>2. h[m + 1] = next /\ h[m] = f[m]
        BY <4>1
      <4> HIDE DEF h
      <4>3. h[k] = next /\ h[k - 1] = f[m]
        BY <3>2, <4>1, <4>2
      <4>4. QED
        BY <3>2, <4>3 DEF next
    <3>3. QED
      BY <3>1, <3>2
  <2> HIDE DEF h
  <2>4. QED
    BY <2>2, <2>3 DEF Entries
<1> HIDE DEF Done
<1>3. n \in Done
  BY <1>1, <1>2, Induction
<1>4. QED
  BY <1>3 DEF Done

LEMMA RelocationsAre ==
  ASSUME NEW image, NEW cells, NEW delta, NEW apply, image.relocs.size \in Nat
  PROVE  \E f : /\ Entries(image, cells, delta, apply, image.relocs.size, f)
                /\ ProcessRelocations(image, cells, delta, apply) = f[image.relocs.size]
<1> DEFINE n == image.relocs.size
           first == [status |-> "OK", cells |-> cells]
           Body(f) == [k \in 0 .. n |->
                         IF k = 0 THEN first
                         ELSE ProcessEntry(image, f[k - 1], image.relocs.rva + k - 1,
                                           delta, apply)]
           out == CHOOSE f : f = Body(f)
<1>1. PICK f : Entries(image, cells, delta, apply, n, f)
  BY EntriesExist
<1>2. Body(f) = Body(Body(f))
  <2> DEFINE h == Body(f)
  <2>1. \A k \in 0 .. n : h[k] = f[k]
    BY <1>1 DEF Entries
  <2> HIDE DEF h
  <2>2. \A k \in 0 .. n : k # 0 => k - 1 \in 0 .. n
    OBVIOUS
  <2>3. Body(h) = Body(f)
    BY <2>1, <2>2
  <2>4. QED
    BY <2>3 DEF h
<1>3. out = Body(out)
  BY <1>2
<1>4. ProcessRelocations(image, cells, delta, apply) = out[n]
  BY DEF ProcessRelocations
<1> HIDE DEF out
<1>5. Entries(image, cells, delta, apply, n, out)
  <2>1. DOMAIN out = 0 .. n /\ out[0] = first
    BY <1>3
  <2>2. ASSUME NEW k \in 1 .. n
        PROVE  out[k] = ProcessEntry(image, out[k - 1], image.relocs.rva + k - 1, delta, apply)
    BY <1>3
  <2>3. QED
    BY <2>1, <2>2 DEF Entries
<1>6. QED
  BY <1>4, <1>5

(* What one entry does depends on the cells of the directory only: an entry *)
(* that is applied leaves them as they are.                                 *)
Outcome(acc) == DOMAIN acc = {"status", "cells"}

(* A pass that only validates is at c, one that patches is at d. *)
Agree(image, cells, c, d) ==
    /\ Outcome(c) /\ Outcome(d)
    /\ c.cells = cells /\ c.status = d.status
    /\ DOMAIN d.cells = Cells(image)
    /\ \A r \in Nat : InDirectory(image, r) => d.cells[r] = cells[r]

LEMMA EntriesAgree ==
  ASSUME NEW image, NEW cells, NEW cursor \in Nat, NEW delta, NEW checked, NEW done,
         image.relocs \in [rva : Nat, size : Nat], image.size \in Nat,
         Fits(image.relocs.rva, image.relocs.size, image),
         InDirectory(image, cursor), Agree(image, cells, checked, done)
  PROVE  Agree(image, cells, ProcessEntry(image, checked, cursor, delta, FALSE),
                             ProcessEntry(image, done, cursor, delta, TRUE))
<1> DEFINE kind == cells[cursor] \div RvaSpan
           rva == cells[cursor] % RvaSpan
           c == ProcessEntry(image, checked, cursor, delta, FALSE)
           d == ProcessEntry(image, done, cursor, delta, TRUE)
           wanted == IF image.plus THEN DIR64 ELSE HIGHLOW
           value == Rebased(image, done.cells[rva], delta)
<1>0. /\ Outcome(checked) /\ Outcome(done)
      /\ checked.cells = cells /\ checked.status = done.status
      /\ DOMAIN done.cells = Cells(image)
      /\ \A r \in Nat : InDirectory(image, r) => done.cells[r] = cells[r]
  BY DEF Agree
<1>1. done.cells[cursor] = cells[cursor]
  BY <1>0
<1>2. c = IF checked.status # "OK" \/ kind = ABSOLUTE THEN checked
          ELSE IF kind = Malformed THEN [checked EXCEPT !.status = "INVALID_IMAGE"]
          ELSE IF kind # wanted THEN [checked EXCEPT !.status = "UNSUPPORTED_RELOCATION"]
          ELSE IF ~Patchable(image, rva) THEN [checked EXCEPT !.status = "INVALID_IMAGE"]
          ELSE checked
  BY <1>0 DEF ProcessEntry
<1>3. d = IF checked.status # "OK" \/ kind = ABSOLUTE THEN done
          ELSE IF kind = Malformed THEN [done EXCEPT !.status = "INVALID_IMAGE"]
          ELSE IF kind # wanted THEN [done EXCEPT !.status = "UNSUPPORTED_RELOCATION"]
          ELSE IF ~Patchable(image, rva) THEN [done EXCEPT !.status = "INVALID_IMAGE"]
          ELSE [done EXCEPT !.cells = [done.cells EXCEPT ![rva] = value]]
  BY <1>0, <1>1 DEF ProcessEntry
<1> HIDE DEF kind, wanted, value
<1>4. \A word : LET e == [checked EXCEPT !.status = word]
                IN  Outcome(e) /\ e.status = word /\ e.cells = checked.cells
  BY <1>0 DEF Outcome
<1>5. \A word : LET e == [done EXCEPT !.status = word]
                IN  Outcome(e) /\ e.status = word /\ e.cells = done.cells
  BY <1>0 DEF Outcome
<1>6. LET e == [done EXCEPT !.cells = [done.cells EXCEPT ![rva] = value]]
      IN  /\ Outcome(e) /\ e.status = done.status
          /\ e.cells = [done.cells EXCEPT ![rva] = value]
  BY <1>0 DEF Outcome
<1>7. ASSUME Patchable(image, rva)
      PROVE  LET m == [done.cells EXCEPT ![rva] = value]
             IN  /\ DOMAIN m = Cells(image)
                 /\ \A r \in Nat : InDirectory(image, r) => m[r] = cells[r]
  <2> HIDE DEF rva
  <2>1. ~InDirectory(image, rva)
    BY <1>7 DEF Patchable
  <2>2. \A r \in Nat : InDirectory(image, r) => r # rva /\ r \in DOMAIN done.cells
    BY <1>0, <2>1 DEF InDirectory, Fits, Cells
  <2>3. QED
    BY <1>0, <2>2
<1> HIDE DEF c, d, rva
<1>8. Agree(image, cells, c, d)
  <2>1. CASE checked.status # "OK" \/ kind = ABSOLUTE
    <3>1. c = checked /\ d = done
      BY <1>2, <1>3, <2>1
    <3>2. QED
      BY <3>1
  <2>2. CASE /\ ~(checked.status # "OK" \/ kind = ABSOLUTE)
             /\ kind = Malformed \/ kind # wanted \/ ~Patchable(image, rva)
    <3>1. PICK word : c = [checked EXCEPT !.status = word]
                      /\ d = [done EXCEPT !.status = word]
      BY <1>2, <1>3, <2>2
    <3>2. /\ Outcome(c) /\ c.status = word /\ c.cells = checked.cells
          /\ Outcome(d) /\ d.status = word /\ d.cells = done.cells
      BY <1>4, <1>5, <3>1
    <3>3. QED
      BY <1>0, <3>2 DEF Agree
  <2>3. CASE /\ ~(checked.status # "OK" \/ kind = ABSOLUTE)
             /\ ~(kind = Malformed \/ kind # wanted \/ ~Patchable(image, rva))
    <3>1. c = checked /\ d = [done EXCEPT !.cells = [done.cells EXCEPT ![rva] = value]]
      BY <1>2, <1>3, <2>3
    <3>2. /\ Outcome(d) /\ d.status = done.status
          /\ d.cells = [done.cells EXCEPT ![rva] = value]
      BY <1>6, <3>1
    <3>3. /\ DOMAIN d.cells = Cells(image)
          /\ \A r \in Nat : InDirectory(image, r) => d.cells[r] = cells[r]
      BY <1>7, <2>3, <3>2
    <3>4. QED
      BY <1>0, <3>1, <3>2, <3>3 DEF Agree
  <2>4. QED
    BY <2>1, <2>2, <2>3
<1>9. QED
  BY <1>8 DEF c, d

(* The pass that patches comes to the end the validating pass came to. *)
LEMMA PassesAgree ==
  ASSUME NEW image, NEW cells, NEW delta,
         image.relocs \in [rva : Nat, size : Nat], image.size \in Nat,
         Fits(image.relocs.rva, image.relocs.size, image),
         DOMAIN cells = Cells(image)
  PROVE  Agree(image, cells, ProcessRelocations(image, cells, delta, FALSE),
                             ProcessRelocations(image, cells, delta, TRUE))
<1> DEFINE n == image.relocs.size
<1>1. PICK f : /\ Entries(image, cells, delta, FALSE, n, f)
               /\ ProcessRelocations(image, cells, delta, FALSE) = f[n]
  BY RelocationsAre
<1>2. PICK g : /\ Entries(image, cells, delta, TRUE, n, g)
               /\ ProcessRelocations(image, cells, delta, TRUE) = g[n]
  BY RelocationsAre
<1> DEFINE Alike(k) == Agree(image, cells, f[k], g[k])
           Reached == {k \in Nat : k <= n => Alike(k)}
<1>3. 0 \in Reached
  <2>1. f[0] = [status |-> "OK", cells |-> cells] /\ g[0] = f[0]
    BY <1>1, <1>2 DEF Entries
  <2>2. QED
    BY <2>1 DEF Agree, Outcome
<1>4. ASSUME NEW k \in Nat, k \in Reached PROVE k + 1 \in Reached
  <2> SUFFICES ASSUME k + 1 <= n PROVE Alike(k + 1)
    OBVIOUS
  <2>1. n \in Nat /\ image.relocs.rva \in Nat /\ k <= n
    OBVIOUS
  <2>2. PICK cursor \in Nat : cursor = image.relocs.rva + (k + 1) - 1
    BY <2>1
  <2>3. InDirectory(image, cursor)
    BY <2>1, <2>2 DEF InDirectory
  <2>4. k + 1 \in 1 .. n /\ (k + 1) - 1 = k
    BY <2>1
  <2>5. /\ f[k + 1] = ProcessEntry(image, f[k], cursor, delta, FALSE)
        /\ g[k + 1] = ProcessEntry(image, g[k], cursor, delta, TRUE)
    BY <1>1, <1>2, <2>2, <2>4 DEF Entries
  <2>6. Alike(k)
    BY <1>4, <2>1
  <2>7. QED
    BY <2>3, <2>5, <2>6, EntriesAgree
<1> HIDE DEF Reached
<1>5. n \in Reached
  BY <1>3, <1>4, Induction
<1>6. Agree(image, cells, f[n], g[n])
  BY <1>5 DEF Reached
<1>7. QED
  BY <1>1, <1>2, <1>6

(* A mapping with other cells and another base, or with another layout. *)
Moved(n, m, cells, base) ==
    /\ IsImageMapping(n)
    /\ n.storage = m.storage /\ n.finalized = m.finalized
    /\ n.prot = m.prot /\ n.cells = cells /\ n.base = base
    /\ cells = m.cells /\ base = m.base => n = m
Relaid(n, m, storage, finalized, prot) ==
    /\ IsImageMapping(n)
    /\ n.storage = storage /\ n.finalized = finalized
    /\ n.prot = prot /\ n.cells = m.cells /\ n.base = m.base
    /\ storage = m.storage /\ finalized = m.finalized /\ prot = m.prot => n = m

LEMMA WithContents ==
  ASSUME NEW m, IsImageMapping(m), NEW cells, NEW base
  PROVE  Moved([m EXCEPT !.cells = cells, !.base = base], m, cells, base)
<1>0. PICK n : n = [m EXCEPT !.cells = cells, !.base = base]
  OBVIOUS
<1>1. n = [storage |-> m.storage, bytes |-> m.bytes, base |-> base,
           finalized |-> m.finalized, cells |-> cells, prot |-> m.prot]
  BY <1>0 DEF IsImageMapping
<1>2. /\ n.storage = m.storage /\ n.finalized = m.finalized /\ n.bytes = m.bytes
      /\ n.prot = m.prot /\ n.cells = cells /\ n.base = base
  BY <1>1
<1>3. QED
  BY <1>0, <1>1, <1>2 DEF IsImageMapping, Moved

LEMMA WithLayout ==
  ASSUME NEW m, IsImageMapping(m), NEW storage, NEW finalized, NEW prot
  PROVE  Relaid([m EXCEPT !.storage = storage, !.finalized = finalized, !.prot = prot],
                m, storage, finalized, prot)
<1>0. PICK n : n = [m EXCEPT !.storage = storage, !.finalized = finalized, !.prot = prot]
  OBVIOUS
<1>1. n = [storage |-> storage, bytes |-> m.bytes, base |-> m.base,
           finalized |-> finalized, cells |-> m.cells, prot |-> prot]
  BY <1>0 DEF IsImageMapping
<1>2. /\ n.storage = storage /\ n.finalized = finalized /\ n.bytes = m.bytes
      /\ n.prot = prot /\ n.cells = m.cells /\ n.base = m.base
  BY <1>1
<1>3. QED
  BY <1>0, <1>1, <1>2 DEF IsImageMapping, Relaid

(* A call that patches all of the image or none of it. *)
AllOrNothing(image, m, outcome) ==
    /\ IsImageMapping(outcome.mapped) /\ Sealed(image, outcome.mapped)
    /\ outcome.status # "OK" \/ IsClosed(m) => outcome.mapped = m
    /\ outcome.mapped.storage = m.storage

LEMMA RefusedIs ==
  ASSUME NEW image, NEW m, IsImageMapping(m), Sealed(image, m), NEW status
  PROVE  AllOrNothing(image, m, [status |-> status, mapped |-> m])
  BY DEF AllOrNothing

LEMMA RelocatedIs ==
  ASSUME NEW image \in GivenImages, NEW m, IsImageMapping(m), Sealed(image, m), NEW base
  PROVE  AllOrNothing(image, m, ApplyRelocations(image, m, base))
<1> DEFINE outcome == ApplyRelocations(image, m, base)
           delta == (base - m.base) % AddressSpace
           patched == Patched(image, m.cells, delta)
           now == IF patched.status = "OK" THEN base ELSE m.base
           moved == [m EXCEPT !.cells = patched.cells, !.base = now]
<1>1. \/ \E status : outcome = [status |-> status, mapped |-> m]
      \/ /\ ~IsClosed(m) /\ Fits(image.relocs.rva, image.relocs.size, image)
         /\ outcome = [status |-> patched.status, mapped |-> moved]
  BY DEF ApplyRelocations, Refused
<1>2. /\ DOMAIN m.cells = Cells(image)
      /\ image.relocs \in [rva : Nat, size : Nat] /\ image.size \in Nat
  BY LoaderImageAssumption DEF Sealed
<1>3. CASE /\ ~IsClosed(m) /\ Fits(image.relocs.rva, image.relocs.size, image)
           /\ outcome = [status |-> patched.status, mapped |-> moved]
  <2> DEFINE checked == ProcessRelocations(image, m.cells, delta, FALSE)
             done == ProcessRelocations(image, m.cells, delta, TRUE)
  <2>1. patched = IF checked.status # "OK" THEN checked ELSE done
    BY DEF Patched
  <2> HIDE DEF checked, done, patched, delta
  <2>2. Agree(image, m.cells, checked, done)
    BY <1>2, <1>3, PassesAgree DEF checked, done
  <2>3. /\ DOMAIN patched.cells = Cells(image)
        /\ patched.status # "OK" => patched.cells = m.cells
    BY <1>2, <2>1, <2>2 DEF Agree
  <2>4. /\ IsImageMapping(moved)
        /\ moved.storage = m.storage /\ moved.finalized = m.finalized
        /\ moved.prot = m.prot /\ moved.cells = patched.cells
        /\ patched.cells = m.cells /\ now = m.base => moved = m
    <3> HIDE DEF now
    <3>1. Moved(moved, m, patched.cells, now)
      BY WithContents
    <3> HIDE DEF moved
    <3>2. QED
      BY <3>1 DEF Moved
  <2>5. patched.status # "OK" => moved = m
    BY <2>3, <2>4
  <2> HIDE DEF moved
  <2>6. Sealed(image, moved)
    BY <2>3, <2>4 DEF Sealed
  <2>7. outcome.status = patched.status /\ outcome.mapped = moved
    BY <1>3
  <2> HIDE DEF outcome
  <2>8. AllOrNothing(image, m, outcome)
    BY <1>3, <2>4, <2>5, <2>6, <2>7 DEF AllOrNothing
  <2>9. QED
    BY <2>8 DEF outcome
<1>4. CASE \E status : outcome = [status |-> status, mapped |-> m]
  BY <1>4, RefusedIs
<1>5. QED
  BY <1>1, <1>3, <1>4

LEMMA BoundIs ==
  ASSUME NEW image \in GivenImages, NEW m, IsImageMapping(m), Sealed(image, m),
         NEW resolved
  PROVE  AllOrNothing(image, m, BindImports(image, m, resolved))
<1> DEFINE outcome == BindImports(image, m, resolved)
           cells == WriteIat(image, m.cells, resolved)
           patched == [m EXCEPT !.cells = cells]
<1>1. \/ \E status : outcome = [status |-> status, mapped |-> m]
      \/ ~IsClosed(m) /\ outcome = [status |-> "OK", mapped |-> patched]
  BY DEF BindImports, Refused
<1>2. CASE ~IsClosed(m) /\ outcome = [status |-> "OK", mapped |-> patched]
  <2>1. DOMAIN cells = Cells(image)
    BY DEF WriteIat
  <2> HIDE DEF cells
  <2>2. /\ IsImageMapping(patched)
        /\ patched.storage = m.storage /\ patched.finalized = m.finalized
        /\ patched.prot = m.prot /\ patched.cells = cells
    BY DEF IsImageMapping
  <2>3. outcome.status = "OK" /\ outcome.mapped = patched
    BY <1>2
  <2> HIDE DEF patched, outcome
  <2>4. Sealed(image, patched)
    BY <2>1, <2>2 DEF Sealed
  <2>5. AllOrNothing(image, m, outcome)
    BY <1>2, <2>2, <2>3, <2>4 DEF AllOrNothing
  <2>6. QED
    BY <2>5 DEF outcome
<1>3. CASE \E status : outcome = [status |-> status, mapped |-> m]
  BY <1>3, RefusedIs
<1>4. QED
  BY <1>1, <1>2, <1>3

(* sl_loader_finalize_image on an image that is not sealed yet. *)
Finished(image, m, outcome) ==
    /\ IsImageMapping(outcome.mapped) /\ Sealed(image, outcome.mapped)
    /\ IsClosed(m) => outcome.mapped = m
    /\ outcome.status # "OK" =>
         \/ outcome.mapped = m
         \/ /\ outcome.mapped.storage = "tainted"
            /\ outcome.mapped = [m EXCEPT !.storage = "tainted",
                                          !.prot = outcome.mapped.prot]

LEMMA FinalizedIs ==
  ASSUME NEW image, NEW m, IsImageMapping(m), Sealed(image, m),
         NEW outcome \in FinalizeImage(image, m)
  PROVE  Finished(image, m, outcome)
<1> DEFINE n == outcome.mapped
<1>1. ASSUME n = m
      PROVE  IsImageMapping(n) /\ Sealed(image, n)
  BY <1>1
<1>2. Layout(image, 0, 0) = WritableLayout(image)
  BY DEF Layout, WritableLayout, Pages
<1>3. ASSUME m.storage = "virtual", ~m.finalized, NEW changed \in Nat,
             HasWxConflict(image) => changed = 0,
             NEW status, outcome \in FinalizeFailed(image, m, status, changed)
      PROVE  /\ IsImageMapping(n) /\ Sealed(image, n)
             /\ \/ n = m
                \/ /\ n.storage = "tainted"
                   /\ n = [m EXCEPT !.storage = "tainted", !.prot = n.prot]
  <2>1. m.prot = WritableLayout(image)
    BY <1>3 DEF Sealed
  <2>2. CASE outcome = Refused(status, [m EXCEPT !.prot = Layout(image, 0, 0)])
    <3>1. n = [m EXCEPT !.prot = m.prot]
      BY <1>2, <2>1, <2>2 DEF Refused
    <3>2. n = m
      BY <3>1 DEF IsImageMapping
    <3>3. QED
      BY <1>1, <3>2
  <2>3. ASSUME NEW restored \in 0 .. changed,
               outcome = Refused("MEMORY_PROTECTION",
                  [m EXCEPT !.storage = "tainted", !.prot = Layout(image, restored, changed)])
        PROVE  /\ IsImageMapping(n) /\ Sealed(image, n) /\ n.storage = "tainted"
               /\ n = [m EXCEPT !.storage = "tainted", !.prot = n.prot]
    <3> DEFINE prot == Layout(image, restored, changed)
    <3>1. n = [m EXCEPT !.storage = "tainted", !.prot = prot]
      BY <2>3 DEF Refused
    <3>2. \A p \in Pages(image) :
             \/ prot[p] = {"R", "W"}
             \/ prot[p] = Permissions(image)[p] /\ ~HasWxConflict(image)
      BY <1>3, <2>3 DEF Layout, Pages
    <3> HIDE DEF prot, n
    <3>3. /\ n = [storage |-> "tainted", bytes |-> m.bytes, base |-> m.base,
                  finalized |-> m.finalized, cells |-> m.cells, prot |-> prot]
      BY <3>1 DEF IsImageMapping
    <3>4. /\ n.storage = "tainted" /\ n.bytes = m.bytes /\ n.base = m.base
          /\ n.finalized = m.finalized /\ n.cells = m.cells /\ n.prot = prot
      BY <3>3
    <3>5. Sealed(image, n)
      BY <1>3, <3>2, <3>4 DEF Sealed
    <3>6. QED
      BY <3>1, <3>3, <3>4, <3>5 DEF IsImageMapping
  <2>4. QED
    BY <1>3, <2>2, <2>3 DEF FinalizeFailed
<1>4. ASSUME m.storage = "virtual", ~m.finalized, ~HasWxConflict(image),
             outcome = [status |-> "OK",
                        mapped |-> [m EXCEPT !.finalized = TRUE,
                                             !.prot = Permissions(image)]]
      PROVE  IsImageMapping(n) /\ Sealed(image, n) /\ outcome.status = "OK"
  <2>1. n = [m EXCEPT !.finalized = TRUE, !.prot = Permissions(image)]
        /\ outcome.status = "OK"
    BY <1>4
  <2> HIDE DEF n
  <2>2. n = [storage |-> m.storage, bytes |-> m.bytes, base |-> m.base,
             finalized |-> TRUE, cells |-> m.cells, prot |-> Permissions(image)]
    BY <2>1 DEF IsImageMapping
  <2>3. /\ n.storage = m.storage /\ n.bytes = m.bytes /\ n.base = m.base
        /\ n.finalized = TRUE /\ n.cells = m.cells /\ n.prot = Permissions(image)
    BY <2>2
  <2>4. Sealed(image, n)
    BY <1>4, <2>3 DEF Sealed
  <2>5. QED
    BY <2>1, <2>2, <2>3, <2>4 DEF IsImageMapping
<1>5. CASE m.storage # "virtual" \/ m.finalized
  <2>1. n = m
    BY <1>5 DEF FinalizeImage, Refused
  <2>2. QED
    BY <1>1, <2>1 DEF Finished
<1>6. CASE m.storage = "virtual" /\ ~m.finalized
  <2> DEFINE tries == UNION {FinalizeFailed(image, m, "MEMORY_PROTECTION", changed) :
                                 changed \in 0 .. PageCount(image) - 1}
             sealed == [status |-> "OK",
                        mapped |-> [m EXCEPT !.finalized = TRUE, !.prot = Permissions(image)]]
  <2>1. FinalizeImage(image, m) =
          {Refused("OUT_OF_MEMORY", m)}
          \cup IF HasWxConflict(image) THEN FinalizeFailed(image, m, "WX_CONFLICT", 0)
               ELSE ProtectPages(image, m)
    BY <1>6 DEF FinalizeImage
  <2>2. ProtectPages(image, m) = tries \cup {sealed}
    BY DEF ProtectPages
  <2>3. outcome \in tries => \E changed \in Nat :
            outcome \in FinalizeFailed(image, m, "MEMORY_PROTECTION", changed)
    OBVIOUS
  <2>4. \/ outcome = Refused("OUT_OF_MEMORY", m)
        \/ HasWxConflict(image) /\ outcome \in FinalizeFailed(image, m, "WX_CONFLICT", 0)
        \/ ~HasWxConflict(image) /\ outcome \in tries
        \/ ~HasWxConflict(image) /\ outcome = sealed
    <3> HIDE DEF tries, sealed
    <3>1. QED
      BY <2>1, <2>2
  <2>5. ~IsClosed(m)
    BY <1>6 DEF IsClosed
  <2>6. CASE outcome = Refused("OUT_OF_MEMORY", m)
    <3>1. n = m
      BY <2>6 DEF Refused
    <3>2. QED
      BY <1>1, <3>1 DEF Finished
  <2>7. CASE HasWxConflict(image) /\ outcome \in FinalizeFailed(image, m, "WX_CONFLICT", 0)
    BY <1>3, <1>6, <2>5, <2>7 DEF Finished
  <2>8. CASE ~HasWxConflict(image) /\ outcome \in tries
    <3>1. PICK changed \in Nat :
              outcome \in FinalizeFailed(image, m, "MEMORY_PROTECTION", changed)
      BY <2>3, <2>8
    <3>2. QED
      BY <1>3, <1>6, <2>5, <2>8, <3>1 DEF Finished
  <2>9. CASE ~HasWxConflict(image) /\ outcome = sealed
    BY <1>4, <1>6, <2>5, <2>9 DEF Finished
  <2>10. QED
    BY <2>4, <2>6, <2>7, <2>8, <2>9
<1>7. QED
  BY <1>5, <1>6

LEMMA FreshMapping ==
  ASSUME NEW image, NEW bytes, NEW storage \in {"heap", "virtual"}
  PROVE  LET m == InitializeMapping(image, bytes, storage)
         IN  IsImageMapping(m) /\ Sealed(image, m)
<1> DEFINE m == InitializeMapping(image, bytes, storage)
<1>1. /\ m = [storage |-> storage, bytes |-> bytes, base |-> image.base,
              finalized |-> FALSE, cells |-> PopulateMapping(image),
              prot |-> WritableLayout(image)]
      /\ DOMAIN PopulateMapping(image) = Cells(image)
  BY DEF InitializeMapping, WritableLayout, PopulateMapping
<1> HIDE DEF m
<1>2. /\ m.storage = storage /\ m.bytes = bytes /\ m.base = image.base
      /\ m.finalized = FALSE /\ m.cells = PopulateMapping(image)
      /\ m.prot = WritableLayout(image)
  BY <1>1
<1>3. IsImageMapping(m)
  BY <1>1, <1>2 DEF IsImageMapping
<1>4. Sealed(image, m)
  BY <1>1, <1>2 DEF Sealed
<1>5. QED
  BY <1>3, <1>4 DEF m

LEMMA ExecutedIs ==
  ASSUME NEW image \in GivenImages, NEW address,
         NEW outcome, outcome = MapImageForExecution(image, address)
  PROVE  /\ \/ outcome.mapped = NoMapping
            \/ IsImageMapping(outcome.mapped) /\ Sealed(image, outcome.mapped)
         /\ outcome.status # "OK" => outcome.mapped = NoMapping
<1> DEFINE fresh == InitializeMapping(image, address, "virtual")
           placed == ApplyRelocations(image, fresh, address)
<1>1. IsImageMapping(fresh) /\ Sealed(image, fresh)
  BY FreshMapping
<1> HIDE DEF fresh
<1>2. AllOrNothing(image, fresh, placed)
  BY <1>1, RelocatedIs
<1>3. \/ \E status : outcome = [status |-> status, mapped |-> NoMapping]
      \/ outcome = placed /\ placed.status = "OK"
  BY DEF MapImageForExecution, Refused, fresh
<1> HIDE DEF placed
<1>4. CASE \E status : outcome = [status |-> status, mapped |-> NoMapping]
  BY <1>4
<1>5. CASE outcome = placed /\ placed.status = "OK"
  BY <1>2, <1>5 DEF AllOrNothing
<1>6. QED
  BY <1>3, <1>4, <1>5

(* Every call keeps the invariant, and does all of its work or none. *)
LoaderKept == LoaderInv' /\ FailedCallsChangeNothing /\ ClosedUntilUnmapped

LEMMA MapKeeps == ASSUME LoaderInv, Map \/ MapForExecution PROVE LoaderKept
<1>1. mapping = NoMapping /\ given' = given /\ given \in GivenImages
  BY DEF LoaderInv, Map, MapForExecution
<1>2. \/ /\ returned' # "OK"
         /\ mapping' = NoMapping
      \/ /\ IsImageMapping(mapping') /\ Sealed(given, mapping')
         /\ returned' = "OK"
      \/ mapping' = NoMapping
  <2>1. CASE Map
    <3> DEFINE fresh == InitializeMapping(given, 0, "heap")
    <3>1. \/ Return(Refused("OUT_OF_MEMORY", NoMapping))
          \/ Return([status |-> "OK", mapped |-> fresh])
      BY <2>1 DEF Map, MapImage
    <3>2. IsImageMapping(fresh) /\ Sealed(given, fresh)
      BY FreshMapping
    <3> HIDE DEF fresh
    <3>3. QED
      BY <3>1, <3>2 DEF Return, Refused
  <2>2. CASE MapForExecution
    <3>1. CASE Return(Refused("MEMORY_MAPPING", NoMapping))
      BY <3>1 DEF Return, Refused
    <3>2. ASSUME NEW address, Return(MapImageForExecution(given, address))
          PROVE  \/ mapping' = NoMapping
                 \/ /\ IsImageMapping(mapping') /\ Sealed(given, mapping')
                    /\ returned' = "OK"
      <4>1. PICK outcome : outcome = MapImageForExecution(given, address)
        OBVIOUS
      <4>2. mapping' = outcome.mapped /\ returned' = outcome.status
        BY <3>2, <4>1 DEF Return
      <4>3. QED
        BY <1>1, <4>1, <4>2, ExecutedIs
    <3>3. QED
      BY <2>2, <3>1, <3>2 DEF MapForExecution
  <2>3. QED
    BY <2>1, <2>2
<1>3. LoaderInv'
  BY <1>1, <1>2 DEF LoaderInv
<1>4. NoMapping.finalized = FALSE /\ NoMapping.storage = "none"
  BY DEF NoMapping
<1>5. QED
  BY <1>1, <1>2, <1>3, <1>4 DEF LoaderKept, FailedCallsChangeNothing, ClosedUntilUnmapped

LEMMA PatchKeeps ==
  ASSUME LoaderInv, Relocate \/ Bind PROVE LoaderKept
<1>1. /\ mapping # NoMapping /\ given' = given /\ given \in GivenImages
      /\ IsImageMapping(mapping) /\ Sealed(given, mapping)
  BY DEF LoaderInv, Relocate, Bind
<1>2. \E outcome : AllOrNothing(given, mapping, outcome) /\ Return(outcome)
  <2>1. CASE Relocate
    <3>1. PICK base : Return(ApplyRelocations(given, mapping, base))
      BY <2>1 DEF Relocate
    <3>2. AllOrNothing(given, mapping, ApplyRelocations(given, mapping, base))
      BY <1>1, RelocatedIs
    <3>3. QED
      BY <3>1, <3>2
  <2>2. CASE \E resolved : Return(BindImports(given, mapping, resolved))
    <3>1. PICK resolved : Return(BindImports(given, mapping, resolved))
      BY <2>2
    <3>2. AllOrNothing(given, mapping, BindImports(given, mapping, resolved))
      BY <1>1, BoundIs
    <3>3. QED
      BY <3>1, <3>2
  <2>3. CASE Return(Refused("OUT_OF_MEMORY", mapping))
    <3>1. AllOrNothing(given, mapping, Refused("OUT_OF_MEMORY", mapping))
      BY <1>1, RefusedIs DEF Refused
    <3>2. QED
      BY <2>3, <3>1
  <2>4. QED
    BY <2>1, <2>2, <2>3 DEF Bind
<1>3. PICK outcome : AllOrNothing(given, mapping, outcome) /\ Return(outcome)
  BY <1>2
<1>4. /\ IsImageMapping(mapping') /\ Sealed(given, mapping')
      /\ returned' # "OK" \/ IsClosed(mapping) => mapping' = mapping
  BY <1>3 DEF AllOrNothing, Return
<1>5. QED
  BY <1>1, <1>4
     DEF LoaderKept, LoaderInv, FailedCallsChangeNothing, ClosedUntilUnmapped, IsClosed

LEMMA FinalizeKeeps == ASSUME LoaderInv, Finalize PROVE LoaderKept
<1>1. /\ mapping # NoMapping /\ given' = given /\ given \in GivenImages
      /\ IsImageMapping(mapping) /\ Sealed(given, mapping)
  BY DEF LoaderInv, Finalize
<1>2. PICK outcome \in FinalizeImage(given, mapping) : Return(outcome)
  BY DEF Finalize
<1>3. mapping' = outcome.mapped /\ returned' = outcome.status
  BY <1>2 DEF Return
<1>4. /\ IsImageMapping(mapping') /\ Sealed(given, mapping')
      /\ IsClosed(mapping) => mapping' = mapping
      /\ returned' # "OK" =>
           \/ mapping' = mapping
           \/ /\ mapping'.storage = "tainted"
              /\ mapping' = [mapping EXCEPT !.storage = "tainted", !.prot = mapping'.prot]
  <2>1. Finished(given, mapping, outcome)
    BY <1>1, FinalizedIs
  <2>2. QED
    BY <1>3, <2>1 DEF Finished
<1>5. QED
  BY <1>1, <1>4
     DEF LoaderKept, LoaderInv, FailedCallsChangeNothing, ClosedUntilUnmapped, IsClosed

LEMMA LoaderStep ==
  ASSUME LoaderInv, [LoaderNext]_loaderVars
  PROVE  /\ LoaderInv'
         /\ [FailedCallsChangeNothing /\ ClosedUntilUnmapped]_loaderVars
<1>1. CASE UNCHANGED loaderVars
  BY <1>1 DEF loaderVars, LoaderInv
<1>2. CASE LoaderNext
  <2>1. CASE Unmap
    <3>1. mapping' = NoMapping /\ returned' = "OK" /\ given' = given
      BY <2>1 DEF Unmap, UnmapImage
    <3>2. QED
      BY <3>1 DEF LoaderInv, FailedCallsChangeNothing, ClosedUntilUnmapped
  <2>2. CASE Map \/ MapForExecution \/ Relocate \/ Bind \/ Finalize
    <3>1. LoaderKept
      BY <2>2, MapKeeps, PatchKeeps, FinalizeKeeps
    <3>2. QED
      BY <3>1 DEF LoaderKept
  <2>3. QED
    BY <1>2, <2>1, <2>2 DEF LoaderNext
<1>3. QED
  BY <1>1, <1>2

LEMMA LoaderInvariant == LoaderSpec => []LoaderInv
<1>1. LoaderInit => LoaderInv
  BY DEF LoaderInit, LoaderInv
<1>2. QED
  BY <1>1, LoaderStep, PTL DEF LoaderSpec

(* A loader call does all of its work or none: no half-patched image, no    *)
(* base that was not reached, no import table of two minds; and a finalized *)
(* or tainted image is never changed again.                                 *)
THEOREM LoadedAllOrNothing == LoaderSpec => CallsAreAllOrNothing
  BY LoaderInvariant, LoaderStep, PTL DEF LoaderSpec, CallsAreAllOrNothing

(* Division by the size of a page. *)
LEMMA QuotientIs ==
  ASSUME NEW a \in Nat, NEW d \in Nat \ {0}
  PROVE  /\ a \div d \in Nat
         /\ (a \div d) * d <= a
         /\ a < (a \div d) * d + d
  OBVIOUS

LEMMA QuotientIsUnique ==
  ASSUME NEW a \in Nat, NEW d \in Nat \ {0}, NEW q \in Nat, q * d <= a, a < q * d + d
  PROVE  a \div d = q
<1>1. ASSUME NEW x \in Nat, NEW y \in Nat, x < y, a < x * d + d PROVE ~(y * d <= a)
  <2>1. PICK k \in Nat : y = x + 1 + k
    <3>1. y - x - 1 \in Nat /\ y = x + 1 + (y - x - 1)
      BY <1>1
    <3>2. QED
      BY <3>1
  <2>2. y * d = x * d + d + k * d /\ k * d \in Nat /\ x * d \in Nat
    BY <2>1
  <2>3. QED
    BY <1>1, <2>2
<1>2. PICK p \in Nat : p = a \div d /\ p * d <= a /\ a < p * d + d
  BY QuotientIs
<1>3. ~(p < q) /\ ~(q < p)
  BY <1>1, <1>2
<1>4. QED
  BY <1>2, <1>3

(* add_page_permissions walks the pages from that of the first cell to that *)
(* of the last one: those with a cell of the range on it.                   *)
LEMMA OnPagesIs ==
  ASSUME NEW start \in Nat, NEW length \in Nat, NEW p \in Nat
  PROVE  OnPages(start, length, p) <=>
            \E c \in Nat : c >= start /\ c < start + length /\ c \div PageSize = p
<1> DEFINE d == PageSize
<1>1. d \in Nat \ {0}
  BY LoaderAssumption
<1> HIDE DEF d
<1>2. ASSUME length > 0, p >= start \div d, p <= (start + length - 1) \div d
      PROVE  \E c \in Nat : c >= start /\ c < start + length /\ c \div d = p
  <2>1. PICK a \in Nat : a = start \div d /\ a * d <= start /\ start < a * d + d
    BY <1>1, QuotientIs
  <2>2. PICK last \in Nat : last = start + length - 1
    BY <1>2
  <2>3. PICK b \in Nat : b = last \div d /\ b * d <= last /\ last < b * d + d
    BY <1>1, QuotientIs
  <2>4. CASE p = a
    BY <1>2, <2>1, <2>4
  <2>5. CASE p # a
    <3>1. p * d \in Nat /\ p * d <= last
      <4>1. PICK k \in Nat : b = p + k
        <5>1. b - p \in Nat /\ b = p + (b - p)
          BY <1>2, <2>2, <2>3
        <5>2. QED
          BY <5>1
      <4>2. b * d = p * d + k * d /\ k * d \in Nat /\ p * d \in Nat
        BY <1>1, <4>1
      <4>3. QED
        BY <2>3, <4>2
    <3>2. start <= p * d
      <4>1. PICK k \in Nat : p = a + 1 + k
        <5>1. p - a - 1 \in Nat /\ p = a + 1 + (p - a - 1)
          BY <1>2, <2>1, <2>5
        <5>2. QED
          BY <5>1
      <4>2. p * d = a * d + d + k * d /\ k * d \in Nat
        BY <1>1, <4>1
      <4>3. PICK down \in Nat, up \in Nat, rest \in Nat :
                 down = a * d /\ up = p * d /\ rest = k * d
        <5>1. a * d \in Nat
          BY <1>1
        <5>2. QED
          BY <3>1, <4>2, <5>1
      <4>4. up = down + d + rest /\ start < down + d
        BY <2>1, <4>2, <4>3
      <4>5. start <= up
        BY <1>1, <4>4
      <4>6. QED
        BY <4>3, <4>5
    <3>3. (p * d) \div d = p
      BY <1>1, <3>1, QuotientIsUnique
    <3>4. QED
      BY <2>2, <3>1, <3>2, <3>3
  <2>6. QED
    BY <2>4, <2>5
<1>3. ASSUME NEW x \in Nat, NEW y \in Nat, x <= y PROVE x \div d <= y \div d
  <2>1. PICK a \in Nat : a = x \div d /\ a * d <= x /\ x < a * d + d
    BY <1>1, QuotientIs
  <2>2. PICK b \in Nat : b = y \div d /\ b * d <= y /\ y < b * d + d
    BY <1>1, QuotientIs
  <2>3. SUFFICES ASSUME b < a PROVE FALSE
    BY <2>1, <2>2
  <2>4. PICK k \in Nat : a = b + 1 + k
    <3>1. a - b - 1 \in Nat /\ a = b + 1 + (a - b - 1)
      BY <2>3
    <3>2. QED
      BY <3>1
  <2>5. a * d = b * d + d + k * d /\ k * d \in Nat
    BY <1>1, <2>4
  <2>6. PICK lower \in Nat, upper \in Nat, rest \in Nat :
             lower = b * d /\ upper = a * d /\ rest = k * d
    <3>1. a * d \in Nat /\ b * d \in Nat
      BY <1>1
    <3>2. QED
      BY <2>5, <3>1
  <2>7. upper = lower + d + rest /\ upper <= x /\ y < lower + d
    BY <2>1, <2>2, <2>5, <2>6
  <2>8. QED
    BY <1>1, <1>3, <2>7
<1>4. ASSUME NEW c \in Nat, c >= start, c < start + length, c \div d = p
      PROVE  length > 0 /\ p >= start \div d /\ p <= (start + length - 1) \div d
  <2>1. PICK last \in Nat : last = start + length - 1 /\ start <= c /\ c <= last
    BY <1>4
  <2>2. start \div d <= c \div d /\ c \div d <= last \div d
    BY <1>3, <2>1
  <2>3. start \div d \in Nat /\ last \div d \in Nat
    BY <1>1, QuotientIs
  <2>4. QED
    BY <1>4, <2>1, <2>2, <2>3
<1>5. QED
  BY <1>2, <1>4 DEF OnPages, d

LEMMA PermissionsAre ==
  ASSUME NEW image \in GivenImages, NEW p \in Pages(image)
  PROVE  Permissions(image)[p] =
            UNION ({{"R"} : r \in {c \in 0 .. Len(image.headers) - 1 :
                                       c \div PageSize = p}}
                   \cup {image.sections[i].protection : i \in
                           {j \in DOMAIN image.sections :
                               \E c \in Cells(image) :
                                   /\ c \div PageSize = p
                                   /\ c >= image.sections[j].at
                                   /\ c < image.sections[j].at
                                          + SectionLength(image.sections[j])}})
<1> DEFINE heads == {c \in 0 .. Len(image.headers) - 1 : c \div PageSize = p}
           over == {j \in DOMAIN image.sections :
                      OnPages(image.sections[j].at, SectionLength(image.sections[j]), p)}
           with == {j \in DOMAIN image.sections :
                      \E c \in Cells(image) :
                         /\ c \div PageSize = p
                         /\ c >= image.sections[j].at
                         /\ c < image.sections[j].at + SectionLength(image.sections[j])}
<1>1. p \in Nat /\ image.size \in Nat /\ ParsesOK(image)
  BY LoaderImageAssumption DEF Pages
<1>2. OnPages(0, Len(image.headers), p) <=> heads # {}
  <2>1. Len(image.headers) \in Nat
    BY <1>1 DEF ParsesOK
  <2>2. OnPages(0, Len(image.headers), p) <=>
          \E c \in Nat : c >= 0 /\ c < 0 + Len(image.headers) /\ c \div PageSize = p
    BY <1>1, <2>1, OnPagesIs
  <2>3. QED
    BY <2>1, <2>2
<1>3. over = with
  <2> SUFFICES ASSUME NEW j \in DOMAIN image.sections
               PROVE  j \in over <=> j \in with
    OBVIOUS
  <2> DEFINE s == image.sections[j]
             length == SectionLength(s)
  <2>1. s.at \in Nat /\ s.virtual \in Nat /\ Len(s.raw) \in Nat
    BY LoaderImageAssumption
  <2>2. /\ s.raw # <<>> => s.at + Len(s.raw) <= image.size
        /\ s.virtual # 0 => s.at + s.virtual <= image.size
    BY <1>1 DEF ParsesOK, Fits
  <2>3. s.raw = <<>> => Len(s.raw) = 0
    OBVIOUS
  <2>4. length \in Nat /\ (length # 0 => s.at + length <= image.size)
    BY <2>1, <2>2, <2>3 DEF SectionLength
  <2> HIDE DEF length
  <2>5. OnPages(s.at, length, p) <=>
          \E c \in Nat : c >= s.at /\ c < s.at + length /\ c \div PageSize = p
    BY <1>1, <2>1, <2>4, OnPagesIs
  <2>6. \A c \in Nat : c >= s.at /\ c < s.at + length => c \in Cells(image)
    BY <1>1, <2>1, <2>4 DEF Cells
  <2>7. Cells(image) \subseteq Nat
    BY <1>1 DEF Cells
  <2>8. (\E c \in Nat : c >= s.at /\ c < s.at + length /\ c \div PageSize = p)
          <=> \E c \in Cells(image) : /\ c \div PageSize = p
                                      /\ c >= s.at /\ c < s.at + length
    BY <2>6, <2>7
  <2>9. QED
    BY <2>5, <2>8 DEF length
<1>4. Permissions(image)[p] =
        (IF OnPages(0, Len(image.headers), p) THEN {"R"} ELSE {})
        \cup UNION {image.sections[i].protection : i \in over}
  BY DEF Permissions
<1> HIDE DEF heads, over, with
<1>5. UNION {{"R"} : r \in heads} = IF heads = {} THEN {} ELSE {"R"}
  OBVIOUS
<1>6. \A A, B : UNION (A \cup B) = (UNION A) \cup (UNION B)
  OBVIOUS
<1>7. Permissions(image)[p] =
        UNION ({{"R"} : r \in heads} \cup {image.sections[i].protection : i \in with})
  BY <1>2, <1>3, <1>4, <1>5, <1>6
<1>8. QED
  BY <1>7 DEF heads, with

(* sl_loader_finalize_image gives a page the rights of what lies on it, and *)
(* no page is ever writable and executable, not even when mprotect leaves   *)
(* the layout half done.                                                    *)
THEOREM ProtectedExactly == LoaderSpec => []ProtectionIsSafe
<1>1. LoaderInv => ProtectionIsSafe
  <2> SUFFICES ASSUME LoaderInv PROVE ProtectionIsSafe
    OBVIOUS
  <2>1. mapping = NoMapping => mapping.storage = "none"
    BY DEF NoMapping
  <2>2. ASSUME mapping # NoMapping PROVE Sealed(given, mapping) /\ given \in GivenImages
    BY <2>2 DEF LoaderInv
  <2>3. ProtectionIsExact
    <3> SUFFICES ASSUME mapping.storage = "virtual", NEW p \in Pages(given)
                 PROVE  mapping.prot[p] =
                          IF ~mapping.finalized THEN {"R", "W"}
                          ELSE UNION ({{"R"} : r \in {c \in 0 .. Len(given.headers) - 1 :
                                                         c \div PageSize = p}}
                                 \cup {given.sections[i].protection : i \in
                                    {j \in DOMAIN given.sections :
                                        \E c \in Cells(given) :
                                            /\ c \div PageSize = p
                                            /\ c >= given.sections[j].at
                                            /\ c < given.sections[j].at
                                                   + SectionLength(given.sections[j])}})
      BY DEF ProtectionIsExact
    <3>1. Sealed(given, mapping) /\ given \in GivenImages
      BY <2>1, <2>2
    <3>2. CASE mapping.finalized
      <4>1. mapping.prot[p] = Permissions(given)[p]
        BY <3>1, <3>2 DEF Sealed
      <4>2. QED
        BY <3>1, <3>2, <4>1, PermissionsAre
    <3>3. CASE ~mapping.finalized
      <4>1. mapping.prot = WritableLayout(given)
        BY <3>1, <3>3 DEF Sealed
      <4>2. mapping.prot[p] = {"R", "W"}
        BY <4>1 DEF WritableLayout
      <4>3. QED
        BY <3>3, <4>2
    <3>4. QED
      BY <3>2, <3>3
  <2>4. WriteXorExecute
    <3> SUFFICES ASSUME mapping # NoMapping, NEW p \in Pages(given)
                 PROVE  ~WritableAndExecutable(mapping.prot[p])
      BY DEF WriteXorExecute
    <3>1. Sealed(given, mapping)
      BY <2>2
    <3>2. ~WritableAndExecutable({"R", "W"})
      BY DEF WritableAndExecutable
    <3>3. ~HasWxConflict(given) => ~WritableAndExecutable(Permissions(given)[p])
      BY DEF HasWxConflict
    <3>4. \/ mapping.prot[p] = {"R", "W"}
          \/ mapping.prot[p] = Permissions(given)[p] /\ ~HasWxConflict(given)
      BY <3>1 DEF Sealed, WritableLayout
    <3>5. QED
      BY <3>2, <3>3, <3>4
  <2>5. QED
    BY <2>3, <2>4 DEF ProtectionIsSafe
<1>2. QED
  BY <1>1, LoaderInvariant, PTL
=============================================================================
