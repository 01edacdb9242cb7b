---------------------------- MODULE MCAlgorithms ----------------------------
(***************************************************************************)
(* The components that share no state with another one, checked in one run: *)
(* a behaviour picks one of them, `turn', and only that one moves.  The     *)
(* others stay in one of their initial states, or their variables hold      *)
(* Idle.                                                                    *)
(***************************************************************************)
EXTENDS MCLoaderImage, SearchPath, WildcardMatch, GuestMemory

VARIABLES turn,
          fn, text, table, pc, regs, mem,        \* VirtualUnwind
          call, answer, reply, commandLine       \* Conversion

Idle == "idle"

unwinderVars == <<fn, text, table, pc, regs, mem>>
converterVars == <<call, answer, reply, commandLine>>

-----------------------------------------------------------------------------
(* root/a is a directory with a directory b; root/b is a link out of the   *)
(* root.  Two steps of another process replace a directory by a link.      *)
MCNames == {"a", "b"}
MCHostDirectories == {"A", "B"}
MCInitialAt ==
    [d \in MCHostDirectories |-> IF d = "A" THEN <<"Root", "a">> ELSE <<"A", "b">>]
MCInitialLinks == {<<"Root", "b", "Outside">>}

(* Two letters that fold together, the dot, and the star, which a host     *)
(* file name may hold.                                                     *)
MCUnits == {"a", "A", ".", "*"}
MCFold(unit) == IF unit = "A" THEN "a" ELSE unit

Guest == INSTANCE MCGuestFunctions
Unwinder == INSTANCE VirtualUnwind
              WITH Functions <- Guest!Functions, Base <- 18, MaxChain <- 2,
                   MaxEpilogue <- 6

(* Bytes and units at the edges of every class the decoders tell apart, and *)
(* the first bytes of the two code pages' upper halves.                     *)
Extension == [page \in {"1252", "437", "utf8"} |->
                CASE page = "1252" -> <<8364, 65535, 8218>>
                  [] page = "437" -> <<199, 252, 233>>
                  [] OTHER -> <<>>]
Converter == INSTANCE Conversion
               WITH SourceBytes <- {65, 128, 129, 143, 159, 160, 191, 193, 194,
                                    224, 237, 240, 244, 245},
                    SourceUnits <- {65, 127, 128, 233, 2047, 2048, 8364, 55295,
                                    55296, 56319, 56320, 57343, 57344, 65533},
                    MaxBytes <- 4, MaxUnits <- 3, Extension <- Extension,
                    CommandLineCapacity <- 3
-----------------------------------------------------------------------------
ImageIdle == given = (CHOOSE image \in GivenImages : TRUE) /\ LoaderInit
PathIdle == path = <<>> /\ WalkInit
WildcardIdle == pattern = <<>> /\ name = <<>> /\ caseSensitive = TRUE /\ MatchInit
MemoryIdle == part = "heap" /\ MemoryInit
UnwinderIdle == /\ fn = Idle /\ text = Idle /\ table = Idle
                /\ pc = Idle /\ regs = Idle /\ mem = Idle
ConverterIdle == call = Idle /\ answer = Idle /\ reply = Idle /\ commandLine = Idle

AlgorithmsInit ==
    /\ turn \in {"image", "path", "wildcard", "unwinder", "converter", "memory"}
    /\ IF turn = "image" THEN LoaderInit ELSE ImageIdle
    /\ IF turn = "path" THEN WalkInit ELSE PathIdle
    /\ IF turn = "wildcard" THEN MatchInit ELSE WildcardIdle
    /\ IF turn = "unwinder" THEN Unwinder!Init ELSE UnwinderIdle
    /\ IF turn = "converter" THEN Converter!Init ELSE ConverterIdle
    /\ IF turn = "memory" THEN MemoryInit ELSE MemoryIdle

Others(mine) ==
    /\ IF mine = "image" THEN TRUE ELSE UNCHANGED loaderVars
    /\ IF mine = "path" THEN TRUE ELSE UNCHANGED walkVars
    /\ IF mine = "wildcard" THEN TRUE ELSE UNCHANGED matchVars
    /\ IF mine = "unwinder" THEN TRUE ELSE UNCHANGED unwinderVars
    /\ IF mine = "converter" THEN TRUE ELSE UNCHANGED converterVars
    /\ IF mine = "memory" THEN TRUE ELSE UNCHANGED memoryVars
    /\ UNCHANGED turn

AlgorithmsNext ==
    \/ turn = "image" /\ LoaderNext /\ Others("image")
    \/ turn = "path" /\ WalkNext /\ Others("path")
    \/ turn = "wildcard" /\ MatchNext /\ Others("wildcard")
    \/ turn = "unwinder" /\ Unwinder!Next /\ Others("unwinder")
    \/ turn = "converter" /\ Converter!Next /\ Others("converter")
    \/ turn = "memory" /\ MemoryNext /\ Others("memory")

AlgorithmsSpec == AlgorithmsInit /\ [][AlgorithmsNext]_<<turn, loaderVars, walkVars,
    matchVars, unwinderVars, converterVars, memoryVars>>

-----------------------------------------------------------------------------
(* The properties of the unwinder and the converters; those of the other   *)
(* components hold as they are stated in their modules, for a component    *)
(* that has no turn stays in an initial state.                             *)

\* VirtualUnwind: the caller's registers are found from every instruction.
CallerIsRecovered == turn = "unwinder" => Unwinder!CallerIsRecovered

\* VirtualUnwind: a frame keeps its name at every instruction of its body.
EstablisherIsStable == turn = "unwinder" => Unwinder!EstablisherIsStable

\* Conversion: the size a query reports is the size a conversion needs.
QueryIsExact == turn = "converter" => Converter!QueryIsExact

\* Conversion: what is returned is the source in the other form, or is marked.
ConversionIsFaithful == turn = "converter" => Converter!ConversionIsFaithful
=============================================================================
