--------------------------- MODULE Kernel32Proofs ---------------------------
(***************************************************************************)
(* Safety of two parts of KERNEL32: the TLS and FLS slots (LocalSlots),    *)
(* for every number of threads, slots, values and nested callbacks, and    *)
(* below them the memory it hands out (GuestMemory).                       *)
(***************************************************************************)
EXTENDS LocalSlots, GuestMemory, TLAPS

(* Steps of a call, by what the call has done so far. *)
AllocOwning == {"alloc_generation", "alloc_skip_zero", "alloc_callback",
                "alloc_publish"}
FreeOwning  == {"free_value", "free_load", "free_clear", "callback",
                "free_release"}
Owning      == AllocOwning \cup FreeOwning
Changing    == {"alloc_cas", "free_cas"} \cup Owning
Unrun       == {"free_value", "free_load", "free_clear"}
Unloaded    == {"alloc_publish", "free_value", "free_load"}
Loaded      == {"free_clear", "callback", "free_release"}
Decided     == {"callback", "free_release"}
Taken       == {"free_load", "free_clear", "callback", "free_release"}
Checking    == {"confirm", "recheck"}
Using       == {"get_value", "set_value"} \cup Checking
Settled     == {"after"} \cup Using
Started     == {"state"} \cup Settled
Reading     == {"before"} \cup Started
Futile      == {"before", "state", "refused"}
Accesses    == {"get", "set"}

(* The call an actor is in fits its step. *)
CallInv ==
    \A a \in Actors :
        /\ pc[a] = "idle" => op[a] = "none"
        /\ pc[a] \in Changing => op[a] \notin Accesses
        /\ pc[a] = "alloc_cas" \/ pc[a] \in AllocOwning => arg[a] \in Addresses
        /\ pc[a] \in Reading => op[a] \in Accesses
        /\ pc[a] = "get_value" => op[a] = "get"
        /\ pc[a] = "set_value" => op[a] = "set"
        /\ op[a] = "set" => arg[a] \in Pointers

(* Of the calls of one thread all but the innermost wait in a callback. *)
NestInv ==
    \A a, b \in Actors :
        Thread(a) = Thread(b) /\ a[2] < b[2] /\ pc[b] # "idle" => pc[a] = "callback"

(* A slot between two states has one owner. *)
OwnInv ==
    /\ \A a, b \in Actors :
          pc[a] \in Owning /\ pc[b] \in Owning /\ idx[a] = idx[b] => a = b
    /\ \A a \in Actors : pc[a] \in Owning => state[idx[a]] = "initializing"
    /\ \A s \in Slots :
          state[s] = "initializing" =>
              \E a \in Actors : pc[a] \in Owning /\ idx[a] = s

(* A get or set that nobody has disturbed finds the slot as it was. *)
DisturbInv ==
    \A a \in Actors :
        op[a] \in Accesses /\ ~disturbed[a] =>
            /\ state[idx[a]] = "allocated"
            /\ pc[a] \in Started => gen[a] = generation[idx[a]]
            /\ pc[a] # "refused"

(* A get or set on a slot that its own thread is freeing gets nowhere. *)
NestedUseInv ==
    \A a, b \in Actors :
        (/\ Thread(a) = Thread(b)
         /\ pc[a] = "callback"
         /\ idx[a] = idx[b]
         /\ op[b] \in Accesses)
        => pc[b] \in Futile

(* The callback of a tenancy is the registered one, and it is called once  *)
(* or never.                                                               *)
CallbackInv ==
    /\ \A s \in Slots :
          state[s] = "allocated" => callback[s] = registered[s] /\ called[s] = 0
    /\ \A a \in Actors :
          /\ pc[a] \in AllocOwning => called[idx[a]] = 0 /\ registered[idx[a]] = arg[a]
          /\ pc[a] \in Unloaded => callback[idx[a]] = registered[idx[a]]
          /\ pc[a] \in Unrun => called[idx[a]] = 0
          /\ pc[a] \in Loaded => cb[a] = registered[idx[a]]
          /\ pc[a] \in Decided => called[idx[a]] = IF RunsCallback(a) THEN 1 ELSE 0

(* The tenancies of s can still be told apart by their generation. *)
Young(s) == tenancy[s] < GenerationLimit

(* x is at most the last tenancy of s that was published. *)
Past(x, s) ==
    /\ x <= tenancy[s]
    /\ \A a \in Actors : pc[a] \in AllocOwning /\ idx[a] = s => x < tenancy[s]

(* The generation is the number of the tenancy. *)
GenerationInv ==
    /\ \A s \in Slots : state[s] # "free" => tenancy[s] >= 1
    /\ \A s \in Slots :
          Young(s) =>
              \/ generation[s] = tenancy[s]
              \/ \E a \in Actors : idx[a] = s /\ pc[a] = "alloc_generation"
    /\ \A a \in Actors :
          Young(idx[a]) =>
              /\ pc[a] = "alloc_generation" => generation[idx[a]] = tenancy[idx[a]] - 1
              /\ pc[a] # "alloc_skip_zero"

(* What thread t last stored in tenancy n of slot s. *)
LastStored(t, s, n) ==
    IF stored[t][s].tenancy = n THEN stored[t][s].value ELSE Null

(* The cell of thread t holds what it stored in this tenancy of s. *)
Agree(t, s) ==
    /\ cell[t][s].generation = tenancy[s] <=> stored[t][s].tenancy = tenancy[s]
    /\ cell[t][s].generation = tenancy[s] => cell[t][s].value = stored[t][s].value

(* Thread t has written its cell and not yet confirmed it. *)
Storing(t, s) ==
    \E a \in Actors : /\ Thread(a) = t /\ idx[a] = s /\ op[a] = "set"
                      /\ pc[a] \in Checking

CellInv ==
    \A t \in Threads, s \in Slots :
        Young(s) =>
            /\ Past(cell[t][s].generation, s)
            /\ Past(stored[t][s].tenancy, s)
            /\ state[s] = "allocated" /\ ~Storing(t, s) => Agree(t, s)

(* What a get or set has read so far belongs to one published tenancy. *)
UseInv ==
    \A a \in Actors :
        op[a] \in Accesses /\ Young(idx[a]) =>
            /\ pc[a] = "state" => gen[a] <= tenancy[idx[a]]
            /\ pc[a] \in Settled => Past(gen[a], idx[a]) /\ Past(1, idx[a])
            /\ pc[a] \in Using => /\ gen[a] >= 1
                                  /\ stored[Thread(a)][idx[a]].tenancy <= gen[a]
            /\ pc[a] = "recheck" => Past(witness[a], idx[a]) /\ gen[a] <= witness[a]

(* What a call has put into its cell, or read from it. *)
ValueInv ==
    \A a \in Actors :
        Young(idx[a]) =>
            /\ pc[a] \in Checking /\ op[a] = "set" =>
                  cell[Thread(a)][idx[a]] = [value |-> arg[a], generation |-> gen[a]]
            /\ pc[a] = "confirm" /\ op[a] = "get" => val[a] = Current(a, gen[a])
            /\ pc[a] = "recheck" /\ op[a] = "get" /\ gen[a] = witness[a] =>
                  val[a] = LastStored(Thread(a), idx[a], witness[a])
            /\ pc[a] = "granted" /\ op[a] = "get" =>
                  val[a] = LastStored(Thread(a), idx[a], witness[a])

(* A free takes what its thread stored in the tenancy it ends. *)
FreeInv ==
    \A a \in Actors :
        Young(idx[a]) =>
            /\ pc[a] = "free_value" => Agree(Thread(a), idx[a])
            /\ pc[a] \in Taken => val[a] = LastStored(Thread(a), idx[a], tenancy[idx[a]])

IndInv ==
    /\ TypeOK
    /\ CallInv
    /\ NestInv
    /\ OwnInv
    /\ DisturbInv
    /\ NestedUseInv
    /\ CallbackInv
    /\ GenerationInv
    /\ CellInv
    /\ UseInv
    /\ ValueInv
    /\ FreeInv

-----------------------------------------------------------------------------
(* The actors of a thread are told apart by their depth. *)
LEMMA ActorFacts ==
  /\ \A a \in Actors : Thread(a) \in Threads /\ a[2] \in 0 .. MaxDepth
  /\ \A a, b \in Actors : Thread(a) = Thread(b) /\ a[2] = b[2] => a = b
BY DEF Actors, Thread

LEMMA FamilyFacts ==
  ASSUME NEW a \in Actors, NEW b \in Actors, Thread(a) = Thread(b)
  PROVE  /\ a[2] < b[2] =>
               /\ Parent(b) \in Actors /\ Thread(Parent(b)) = Thread(b)
               /\ Parent(b)[2] = b[2] - 1
               /\ a = Parent(b) \/ a[2] < Parent(b)[2]
         /\ a[2] < b[2] =>
               /\ Child(a) \in Actors /\ Thread(Child(a)) = Thread(a)
               /\ Child(a)[2] = a[2] + 1
               /\ b = Child(a) \/ Child(a)[2] < b[2]
<1>1. PICK t \in Threads, i \in 0 .. MaxDepth, j \in 0 .. MaxDepth :
         a = <<t, i>> /\ b = <<t, j>>
  BY DEF Actors, Thread
<1>2. a[2] = i /\ b[2] = j /\ Parent(b) = <<t, j - 1>> /\ Child(a) = <<t, i + 1>>
  BY <1>1 DEF Parent, Child
<1>3. ASSUME i < j
      PROVE  <<t, j - 1>> \in Actors /\ <<t, i + 1>> \in Actors
  BY <1>3, LocalSlotsAssumption DEF Actors
<1>4. QED
  BY <1>1, <1>2, <1>3 DEF Thread

(* What the types of the variables hold. *)
LEMMA TypeFacts ==
  /\ FirstSlot \in Slots
  /\ Slots \subseteq Int
  /\ 0 \in Generations
  /\ Generations \subseteq Nat
  /\ \A g \in Generations : NextGeneration(g) \in Generations
  /\ Null \in Pointers
  /\ NoCallback \in Addresses
  /\ EmptyCell \in [value : Pointers, generation : Generations]
<1>1. \A g \in Generations : NextGeneration(g) \in Generations
  BY LocalSlotsAssumption DEF Generations, NextGeneration
<1>2. QED
  BY <1>1, LocalSlotsAssumption
     DEF FirstSlot, Slots, Generations, Pointers, Addresses, EmptyCell

(* Before the generations wrap, the next one is one more. *)
LEMMA NextGenerationFacts ==
  ASSUME NEW g \in Nat, g + 1 < GenerationLimit
  PROVE  NextGeneration(g) = g + 1
BY LocalSlotsAssumption DEF NextGeneration

(* The types of what the invariant speaks of. *)
LEMMA Typing ==
  ASSUME TypeOK
  PROVE  /\ \A a \in Actors : /\ idx[a] \in Slots /\ gen[a] \in Nat
                              /\ witness[a] \in Nat
         /\ \A s \in Slots : /\ tenancy[s] \in Nat /\ generation[s] \in Nat
                             /\ called[s] \in Nat
         /\ \A t \in Threads, s \in Slots : /\ cell[t][s].generation \in Nat
                                            /\ stored[t][s].tenancy \in Nat
<1>1. \A t \in Threads, s \in Slots :
         /\ cell[t][s] \in [value : Pointers, generation : Generations]
         /\ stored[t][s] \in [value : Pointers, tenancy : Nat]
  BY DEF TypeOK
<1>2. \A a \in Actors : gen[a] \in Generations
  BY DEF TypeOK
<1>3. \A s \in Slots : generation[s] \in Generations
  BY DEF TypeOK
<1>4. QED
  BY <1>1, <1>2, <1>3, TypeFacts DEF TypeOK

(* What a get or a free takes from its cell is a pointer. *)
LEMMA CurrentType ==
  ASSUME TypeOK, NEW a \in Actors, NEW g
  PROVE  Current(a, g) \in Pointers
<1>1. cell[Thread(a)][idx[a]] \in [value : Pointers, generation : Generations]
  BY ActorFacts DEF TypeOK
<1>2. QED
  BY <1>1, TypeFacts DEF Current

(* A thread is active in one call at a time. *)
LEMMA OneActive ==
  ASSUME NestInv, NEW a \in Actors, NEW b \in Actors, Thread(a) = Thread(b),
         pc[a] \notin {"idle", "callback"}, pc[b] \notin {"idle", "callback"}
  PROVE  a = b
BY ActorFacts DEF NestInv

(* Which steps are of which kind. *)
LEMMA StepKinds ==
  /\ "idle" \notin AllocOwning \cup FreeOwning \cup Owning \cup Changing
         \cup Unrun \cup Unloaded \cup Loaded \cup Decided \cup Taken \cup
         Checking \cup Using \cup Settled \cup Started \cup Reading \cup
         Futile
  /\ "alloc_cas" \in Changing
  /\ "alloc_cas" \notin AllocOwning \cup FreeOwning \cup Owning \cup Unrun
         \cup Unloaded \cup Loaded \cup Decided \cup Taken \cup Checking
         \cup Using \cup Settled \cup Started \cup Reading \cup Futile
  /\ "alloc_generation" \in AllocOwning \cap Owning \cap Changing
  /\ "alloc_generation" \notin FreeOwning \cup Unrun \cup Unloaded \cup
         Loaded \cup Decided \cup Taken \cup Checking \cup Using \cup
         Settled \cup Started \cup Reading \cup Futile
  /\ "alloc_skip_zero" \in AllocOwning \cap Owning \cap Changing
  /\ "alloc_skip_zero" \notin FreeOwning \cup Unrun \cup Unloaded \cup
         Loaded \cup Decided \cup Taken \cup Checking \cup Using \cup
         Settled \cup Started \cup Reading \cup Futile
  /\ "alloc_callback" \in AllocOwning \cap Owning \cap Changing
  /\ "alloc_callback" \notin FreeOwning \cup Unrun \cup Unloaded \cup Loaded
         \cup Decided \cup Taken \cup Checking \cup Using \cup Settled \cup
         Started \cup Reading \cup Futile
  /\ "alloc_publish" \in AllocOwning \cap Owning \cap Changing \cap Unloaded
  /\ "alloc_publish" \notin FreeOwning \cup Unrun \cup Loaded \cup Decided
         \cup Taken \cup Checking \cup Using \cup Settled \cup Started \cup
         Reading \cup Futile
  /\ "free_cas" \in Changing
  /\ "free_cas" \notin AllocOwning \cup FreeOwning \cup Owning \cup Unrun
         \cup Unloaded \cup Loaded \cup Decided \cup Taken \cup Checking
         \cup Using \cup Settled \cup Started \cup Reading \cup Futile
  /\ "free_value" \in FreeOwning \cap Owning \cap Changing \cap Unrun \cap
         Unloaded
  /\ "free_value" \notin AllocOwning \cup Loaded \cup Decided \cup Taken
         \cup Checking \cup Using \cup Settled \cup Started \cup Reading
         \cup Futile
  /\ "free_load" \in FreeOwning \cap Owning \cap Changing \cap Unrun \cap
         Unloaded \cap Taken
  /\ "free_load" \notin AllocOwning \cup Loaded \cup Decided \cup Checking
         \cup Using \cup Settled \cup Started \cup Reading \cup Futile
  /\ "free_clear" \in FreeOwning \cap Owning \cap Changing \cap Unrun \cap
         Loaded \cap Taken
  /\ "free_clear" \notin AllocOwning \cup Unloaded \cup Decided \cup
         Checking \cup Using \cup Settled \cup Started \cup Reading \cup
         Futile
  /\ "callback" \in FreeOwning \cap Owning \cap Changing \cap Loaded \cap
         Decided \cap Taken
  /\ "callback" \notin AllocOwning \cup Unrun \cup Unloaded \cup Checking
         \cup Using \cup Settled \cup Started \cup Reading \cup Futile
  /\ "free_release" \in FreeOwning \cap Owning \cap Changing \cap Loaded
         \cap Decided \cap Taken
  /\ "free_release" \notin AllocOwning \cup Unrun \cup Unloaded \cup
         Checking \cup Using \cup Settled \cup Started \cup Reading \cup
         Futile
  /\ "before" \in Reading \cap Futile
  /\ "before" \notin AllocOwning \cup FreeOwning \cup Owning \cup Changing
         \cup Unrun \cup Unloaded \cup Loaded \cup Decided \cup Taken \cup
         Checking \cup Using \cup Settled \cup Started
  /\ "state" \in Started \cap Reading \cap Futile
  /\ "state" \notin AllocOwning \cup FreeOwning \cup Owning \cup Changing
         \cup Unrun \cup Unloaded \cup Loaded \cup Decided \cup Taken \cup
         Checking \cup Using \cup Settled
  /\ "after" \in Settled \cap Started \cap Reading
  /\ "after" \notin AllocOwning \cup FreeOwning \cup Owning \cup Changing
         \cup Unrun \cup Unloaded \cup Loaded \cup Decided \cup Taken \cup
         Checking \cup Using \cup Futile
  /\ "get_value" \in Using \cap Settled \cap Started \cap Reading
  /\ "get_value" \notin AllocOwning \cup FreeOwning \cup Owning \cup
         Changing \cup Unrun \cup Unloaded \cup Loaded \cup Decided \cup
         Taken \cup Checking \cup Futile
  /\ "set_value" \in Using \cap Settled \cap Started \cap Reading
  /\ "set_value" \notin AllocOwning \cup FreeOwning \cup Owning \cup
         Changing \cup Unrun \cup Unloaded \cup Loaded \cup Decided \cup
         Taken \cup Checking \cup Futile
  /\ "confirm" \in Checking \cap Using \cap Settled \cap Started \cap
         Reading
  /\ "confirm" \notin AllocOwning \cup FreeOwning \cup Owning \cup Changing
         \cup Unrun \cup Unloaded \cup Loaded \cup Decided \cup Taken \cup
         Futile
  /\ "recheck" \in Checking \cap Using \cap Settled \cap Started \cap
         Reading
  /\ "recheck" \notin AllocOwning \cup FreeOwning \cup Owning \cup Changing
         \cup Unrun \cup Unloaded \cup Loaded \cup Decided \cup Taken \cup
         Futile
  /\ "granted" \notin AllocOwning \cup FreeOwning \cup Owning \cup Changing
         \cup Unrun \cup Unloaded \cup Loaded \cup Decided \cup Taken \cup
         Checking \cup Using \cup Settled \cup Started \cup Reading \cup
         Futile
  /\ "refused" \in Futile
  /\ "refused" \notin AllocOwning \cup FreeOwning \cup Owning \cup Changing
         \cup Unrun \cup Unloaded \cup Loaded \cup Decided \cup Taken \cup
         Checking \cup Using \cup Settled \cup Started \cup Reading
  /\ "get" \in Accesses /\ "set" \in Accesses
  /\ "none" \notin Accesses /\ "alloc" \notin Accesses /\ "free" \notin Accesses
BY DEF AllocOwning, FreeOwning, Owning, Changing, Unrun, Unloaded, Loaded,
      Decided, Taken, Checking, Using, Settled, Started, Reading, Futile,
      Accesses

(* The kinds of steps include and exclude each other. *)
LEMMA KindFacts ==
  /\ AllocOwning \subseteq Owning /\ FreeOwning \subseteq Owning
  /\ Owning \subseteq Changing
  /\ Unrun \subseteq FreeOwning /\ Loaded \subseteq FreeOwning
  /\ Taken \subseteq FreeOwning /\ Decided \subseteq Loaded
  /\ Unloaded \subseteq Owning
  /\ Checking \subseteq Using /\ Using \subseteq Settled
  /\ Settled \subseteq Started /\ Started \subseteq Reading
  /\ AllocOwning \cap FreeOwning = {}
  /\ Changing \cap Reading = {}
BY DEF AllocOwning, FreeOwning, Owning, Changing, Unrun, Unloaded, Loaded,
      Decided, Taken, Checking, Using, Settled, Started, Reading, Futile

(* The names of steps, calls and states. *)
LEMMA NameFacts ==
  /\ "idle" \in Steps
  /\ "alloc_cas" \in Steps
  /\ "alloc_generation" \in Steps
  /\ "alloc_skip_zero" \in Steps
  /\ "alloc_callback" \in Steps
  /\ "alloc_publish" \in Steps
  /\ "free_cas" \in Steps
  /\ "free_value" \in Steps
  /\ "free_load" \in Steps
  /\ "free_clear" \in Steps
  /\ "callback" \in Steps
  /\ "free_release" \in Steps
  /\ "before" \in Steps
  /\ "state" \in Steps
  /\ "after" \in Steps
  /\ "get_value" \in Steps
  /\ "set_value" \in Steps
  /\ "confirm" \in Steps
  /\ "recheck" \in Steps
  /\ "granted" \in Steps
  /\ "refused" \in Steps
  /\ "none" \in Ops
  /\ "alloc" \in Ops
  /\ "free" \in Ops
  /\ "get" \in Ops
  /\ "set" \in Ops
  /\ "free" \in States
  /\ "initializing" \in States
  /\ "allocated" \in States
BY DEF Steps, Ops, States

(* A get or set that finds its generation again read one tenancy all along. *)
LEMMA RecheckAgrees ==
  ASSUME IndInv, NEW a \in Actors, pc[a] = "recheck", op[a] \in Accesses,
         Young(idx[a]), generation[idx[a]] = gen[a]
  PROVE  gen[a] = witness[a]
<1>1. Past(witness[a], idx[a]) /\ gen[a] <= witness[a]
  BY DEF IndInv, UseInv
<1>2. CASE generation[idx[a]] = tenancy[idx[a]]
  BY <1>1, <1>2, Typing DEF IndInv, Past
<1>3. CASE \E b \in Actors : idx[b] = idx[a] /\ pc[b] = "alloc_generation"
  <2>1. PICK b \in Actors : idx[b] = idx[a] /\ pc[b] = "alloc_generation"
    BY <1>3
  <2>2. generation[idx[a]] = tenancy[idx[a]] - 1 /\ witness[a] < tenancy[idx[a]]
    BY <1>1, <2>1, StepKinds DEF IndInv, GenerationInv, Past
  <2>3. QED
    BY <1>1, <2>2, Typing DEF IndInv
<1>4. QED
  BY <1>2, <1>3, Typing DEF IndInv, GenerationInv

(* TlsAlloc or FlsAlloc is called: the search starts at the first slot. *)
LEMMA AllocStep ==
  ASSUME IndInv, NEW a \in Actors, NEW f \in Addresses,
         pc[a] = "idle",
         MayCall(a),
         allocs < MaxAllocs,
         op' = [op EXCEPT ![a] = "alloc"],
         idx' = [idx EXCEPT ![a] = FirstSlot],
         arg' = [arg EXCEPT ![a] = f],
         allocs' = allocs + 1,
         pc' = [pc EXCEPT ![a] = "alloc_cas"],
         UNCHANGED <<state, generation, callback, cell, gen, val, cb, tenancy,
                      registered, stored, called, witness, disturbed>>
  PROVE  IndInv'
<1> USE ActorFacts, StepKinds, KindFacts, LocalSlotsAssumption DEF IndInv
<1>1. /\ \A b \in Actors : op'[b] = IF b = a THEN "alloc" ELSE op[b]
      /\ \A b \in Actors : idx'[b] = IF b = a THEN FirstSlot ELSE idx[b]
      /\ \A b \in Actors : arg'[b] = IF b = a THEN f ELSE arg[b]
      /\ \A b \in Actors : pc'[b] = IF b = a THEN "alloc_cas" ELSE pc[b]
  BY DEF TypeOK
<1> USE <1>1, Typing
<1>2. TypeOK'
  BY TypeFacts, NameFacts DEF TypeOK, CallInv
<1>3. CallInv'
  BY DEF CallInv
<1>4. NestInv'
  <2> SUFFICES ASSUME NEW c \in Actors, NEW d \in Actors, Thread(c) = Thread(d),
                      c[2] < d[2], pc'[d] # "idle"
               PROVE  pc'[c] = "callback"
    BY DEF NestInv
  <2>1. CASE d = a
    BY <2>1, FamilyFacts DEF NestInv, MayCall
  <2>2. CASE d # a
    BY <2>2 DEF NestInv
  <2>3. QED
    BY <2>1, <2>2
<1>5. OwnInv'
  BY DEF OwnInv, CallInv
<1>6. DisturbInv'
  BY DEF DisturbInv, CallInv, OwnInv
<1>7. NestedUseInv'
  BY DEF NestedUseInv, CallInv, NestInv, OwnInv
<1>8. CallbackInv'
  BY DEF CallbackInv, CallInv, OwnInv, RunsCallback
<1>9. GenerationInv'
  BY DEF GenerationInv, CallInv, OwnInv, Young
<1>10. CellInv'
  BY DEF CellInv, CallInv, NestInv, OwnInv, GenerationInv, UseInv, ValueInv,
      Young, Past, Agree, Storing
<1>11. UseInv'
  BY DEF UseInv, CallInv, NestInv, OwnInv, GenerationInv, CellInv, Young, Past
<1>12. ValueInv'
  BY DEF ValueInv, CallInv, NestInv, OwnInv, GenerationInv, CellInv, UseInv,
      Young, Past, LastStored, Agree, Storing, Current
<1>13. FreeInv'
  BY DEF FreeInv, CallInv, NestInv, OwnInv, GenerationInv, CellInv,
      NestedUseInv, Young, LastStored, Agree, Storing
<1>14. QED
  BY <1>2, <1>3, <1>4, <1>5, <1>6, <1>7, <1>8, <1>9, <1>10, <1>11, <1>12,
      <1>13

(* local_alloc takes a free slot: a new tenancy begins. *)
LEMMA AllocTakeStep ==
  ASSUME IndInv, NEW a \in Actors,
         pc[a] = "alloc_cas",
         state[idx[a]] = "free",
         state' = [state EXCEPT ![idx[a]] = "initializing"],
         tenancy' = [tenancy EXCEPT ![idx[a]] = tenancy[idx[a]] + 1],
         registered' = [registered EXCEPT ![idx[a]] = arg[a]],
         called' = [called EXCEPT ![idx[a]] = 0],
         pc' = [pc EXCEPT ![a] = "alloc_generation"],
         UNCHANGED <<generation, callback, cell, op, idx, arg, gen, val, cb,
                      allocs, stored, witness, disturbed>>
  PROVE  IndInv'
<1> USE ActorFacts, StepKinds, KindFacts, LocalSlotsAssumption DEF IndInv
<1>1. /\ \A s \in Slots :
            state'[s] = IF s = idx[a] THEN "initializing"
                        ELSE state[s]
      /\ \A s \in Slots :
            tenancy'[s] = IF s = idx[a] THEN tenancy[idx[a]] + 1
                          ELSE tenancy[s]
      /\ \A s \in Slots :
            registered'[s] = IF s = idx[a] THEN arg[a]
                             ELSE registered[s]
      /\ \A s \in Slots : called'[s] = IF s = idx[a] THEN 0 ELSE called[s]
      /\ \A b \in Actors :
            pc'[b] = IF b = a THEN "alloc_generation"
                     ELSE pc[b]
  BY DEF TypeOK
<1> USE <1>1, Typing
<1>2. TypeOK'
  <2>1. registered' \in [Slots -> Addresses]
    BY DEF TypeOK, CallInv
  <2>2. tenancy' \in [Slots -> Nat] /\ called' \in [Slots -> Nat]
    BY DEF TypeOK
  <2>3. QED
    BY <2>1, <2>2, NameFacts DEF TypeOK
<1>3. CallInv'
  BY DEF CallInv
<1>4. NestInv'
  BY DEF NestInv
<1>5. OwnInv'
  BY DEF OwnInv, CallInv
<1>6. DisturbInv'
  BY DEF DisturbInv, CallInv, OwnInv
<1>7. NestedUseInv'
  BY DEF NestedUseInv, CallInv, NestInv, OwnInv
<1>8. CallbackInv'
  BY DEF CallbackInv, CallInv, OwnInv, RunsCallback
<1>9. GenerationInv'
  BY DEF GenerationInv, CallInv, OwnInv, Young
<1>10. CellInv'
  BY DEF CellInv, CallInv, NestInv, OwnInv, GenerationInv, UseInv, ValueInv,
      Young, Past, Agree, Storing
<1>11. UseInv'
  BY DEF UseInv, CallInv, NestInv, OwnInv, GenerationInv, CellInv, Young, Past
<1>12. ValueInv'
  BY DEF ValueInv, CallInv, NestInv, OwnInv, GenerationInv, CellInv, UseInv,
      Young, Past, LastStored, Agree, Storing, Current
<1>13. FreeInv'
  BY DEF FreeInv, CallInv, NestInv, OwnInv, GenerationInv, CellInv,
      NestedUseInv, Young, LastStored, Agree, Storing
<1>14. QED
  BY <1>2, <1>3, <1>4, <1>5, <1>6, <1>7, <1>8, <1>9, <1>10, <1>11, <1>12,
      <1>13

(* local_alloc finds a slot in use and looks at the next one. *)
LEMMA AllocSkipStep ==
  ASSUME IndInv, NEW a \in Actors,
         pc[a] = "alloc_cas",
         idx[a] + 1 \in Slots,
         idx' = [idx EXCEPT ![a] = idx[a] + 1],
         UNCHANGED <<state, generation, callback, cell, pc, op, arg, gen, val,
                      cb, allocs, tenancy, registered, stored, called,
                      witness, disturbed>>
  PROVE  IndInv'
<1> USE ActorFacts, StepKinds, KindFacts, LocalSlotsAssumption DEF IndInv
<1>1. /\ \A b \in Actors : idx'[b] = IF b = a THEN idx[a] + 1 ELSE idx[b]
  BY DEF TypeOK
<1> USE <1>1, Typing
<1>2. TypeOK'
  BY TypeFacts, NameFacts DEF TypeOK, CallInv
<1>3. CallInv'
  BY DEF CallInv
<1>4. NestInv'
  BY DEF NestInv
<1>5. OwnInv'
  BY DEF OwnInv, CallInv
<1>6. DisturbInv'
  BY DEF DisturbInv, CallInv, OwnInv
<1>7. NestedUseInv'
  BY DEF NestedUseInv, CallInv, NestInv, OwnInv
<1>8. CallbackInv'
  BY DEF CallbackInv, CallInv, OwnInv, RunsCallback
<1>9. GenerationInv'
  BY DEF GenerationInv, CallInv, OwnInv, Young
<1>10. CellInv'
  BY DEF CellInv, CallInv, NestInv, OwnInv, GenerationInv, UseInv, ValueInv,
      Young, Past, Agree, Storing
<1>11. UseInv'
  BY DEF UseInv, CallInv, NestInv, OwnInv, GenerationInv, CellInv, Young, Past
<1>12. ValueInv'
  BY DEF ValueInv, CallInv, NestInv, OwnInv, GenerationInv, CellInv, UseInv,
      Young, Past, LastStored, Agree, Storing, Current
<1>13. FreeInv'
  BY DEF FreeInv, CallInv, NestInv, OwnInv, GenerationInv, CellInv,
      NestedUseInv, Young, LastStored, Agree, Storing
<1>14. QED
  BY <1>2, <1>3, <1>4, <1>5, <1>6, <1>7, <1>8, <1>9, <1>10, <1>11, <1>12,
      <1>13

(* local_alloc has looked at every slot. *)
LEMMA AllocFailStep ==
  ASSUME IndInv, NEW a \in Actors,
         pc[a] = "alloc_cas",
         idx[a] + 1 \notin Slots,
         pc' = [pc EXCEPT ![a] = "refused"],
         UNCHANGED <<state, generation, callback, cell, op, idx, arg, gen,
                      val, cb, allocs, tenancy, registered, stored, called,
                      witness, disturbed>>
  PROVE  IndInv'
<1> USE ActorFacts, StepKinds, KindFacts, LocalSlotsAssumption DEF IndInv
<1>1. /\ \A b \in Actors : pc'[b] = IF b = a THEN "refused" ELSE pc[b]
  BY DEF TypeOK
<1> USE <1>1, Typing
<1>2. TypeOK'
  BY TypeFacts, NameFacts DEF TypeOK, CallInv
<1>3. CallInv'
  BY DEF CallInv
<1>4. NestInv'
  BY DEF NestInv
<1>5. OwnInv'
  BY DEF OwnInv, CallInv
<1>6. DisturbInv'
  BY DEF DisturbInv, CallInv, OwnInv
<1>7. NestedUseInv'
  BY DEF NestedUseInv, CallInv, NestInv, OwnInv
<1>8. CallbackInv'
  BY DEF CallbackInv, CallInv, OwnInv, RunsCallback
<1>9. GenerationInv'
  BY DEF GenerationInv, CallInv, OwnInv, Young
<1>10. CellInv'
  BY DEF CellInv, CallInv, NestInv, OwnInv, GenerationInv, UseInv, ValueInv,
      Young, Past, Agree, Storing
<1>11. UseInv'
  BY DEF UseInv, CallInv, NestInv, OwnInv, GenerationInv, CellInv, Young, Past
<1>12. ValueInv'
  BY DEF ValueInv, CallInv, NestInv, OwnInv, GenerationInv, CellInv, UseInv,
      Young, Past, LastStored, Agree, Storing, Current
<1>13. FreeInv'
  BY DEF FreeInv, CallInv, NestInv, OwnInv, GenerationInv, CellInv,
      NestedUseInv, Young, LastStored, Agree, Storing
<1>14. QED
  BY <1>2, <1>3, <1>4, <1>5, <1>6, <1>7, <1>8, <1>9, <1>10, <1>11, <1>12,
      <1>13

(* local_alloc numbers the tenancy. *)
LEMMA AllocGenerationStep ==
  ASSUME IndInv, NEW a \in Actors,
         pc[a] = "alloc_generation",
         NextGeneration(generation[idx[a]]) # 0,
         generation' = [generation EXCEPT ![idx[a]] = NextGeneration(generation[idx[a]])],
         pc' = [pc EXCEPT ![a] = "alloc_callback"],
         UNCHANGED <<state, callback, cell, op, idx, arg, gen, val, cb,
                      allocs, tenancy, registered, stored, called, witness,
                      disturbed>>
  PROVE  IndInv'
<1> USE ActorFacts, StepKinds, KindFacts, LocalSlotsAssumption DEF IndInv
<1>1. /\ \A s \in Slots :
            generation'[s] = IF s = idx[a] THEN NextGeneration(generation[idx[a]])
                             ELSE generation[s]
      /\ \A b \in Actors : pc'[b] = IF b = a THEN "alloc_callback" ELSE pc[b]
  BY DEF TypeOK
<1> USE <1>1, Typing
<1>2. TypeOK'
  BY TypeFacts, NameFacts DEF TypeOK, CallInv
<1>3. CallInv'
  BY DEF CallInv
<1>4. NestInv'
  BY DEF NestInv
<1>5. OwnInv'
  BY DEF OwnInv, CallInv
<1>6. DisturbInv'
  BY DEF DisturbInv, CallInv, OwnInv
<1>7. NestedUseInv'
  BY DEF NestedUseInv, CallInv, NestInv, OwnInv
<1>8. CallbackInv'
  BY DEF CallbackInv, CallInv, OwnInv, RunsCallback
<1>9. GenerationInv'
  <2>1. Young(idx[a]) => NextGeneration(generation[idx[a]]) = tenancy[idx[a]]
    BY NextGenerationFacts DEF GenerationInv, OwnInv, Young
  <2>2. QED
    BY <2>1 DEF GenerationInv, OwnInv, Young
<1>10. CellInv'
  BY DEF CellInv, CallInv, NestInv, OwnInv, GenerationInv, UseInv, ValueInv,
      Young, Past, Agree, Storing
<1>11. UseInv'
  BY DEF UseInv, CallInv, NestInv, OwnInv, GenerationInv, CellInv, Young, Past
<1>12. ValueInv'
  BY DEF ValueInv, CallInv, NestInv, OwnInv, GenerationInv, CellInv, UseInv,
      Young, Past, LastStored, Agree, Storing, Current
<1>13. FreeInv'
  BY DEF FreeInv, CallInv, NestInv, OwnInv, GenerationInv, CellInv,
      NestedUseInv, Young, LastStored, Agree, Storing
<1>14. QED
  BY <1>2, <1>3, <1>4, <1>5, <1>6, <1>7, <1>8, <1>9, <1>10, <1>11, <1>12,
      <1>13

(* The generation wraps: zero is no tenancy. *)
LEMMA AllocWrapStep ==
  ASSUME IndInv, NEW a \in Actors,
         pc[a] = "alloc_generation",
         NextGeneration(generation[idx[a]]) = 0,
         generation' = [generation EXCEPT ![idx[a]] = 0],
         pc' = [pc EXCEPT ![a] = "alloc_skip_zero"],
         UNCHANGED <<state, callback, cell, op, idx, arg, gen, val, cb,
                      allocs, tenancy, registered, stored, called, witness,
                      disturbed>>
  PROVE  IndInv'
<1> USE ActorFacts, StepKinds, KindFacts, LocalSlotsAssumption DEF IndInv
<1>1. /\ \A s \in Slots :
            generation'[s] = IF s = idx[a] THEN 0
                             ELSE generation[s]
      /\ \A b \in Actors : pc'[b] = IF b = a THEN "alloc_skip_zero" ELSE pc[b]
  BY DEF TypeOK
<1> USE <1>1, Typing
<1>2. TypeOK'
  BY TypeFacts, NameFacts DEF TypeOK, CallInv
<1>3. CallInv'
  BY DEF CallInv
<1>4. NestInv'
  BY DEF NestInv
<1>5. OwnInv'
  BY DEF OwnInv, CallInv
<1>6. DisturbInv'
  BY DEF DisturbInv, CallInv, OwnInv
<1>7. NestedUseInv'
  BY DEF NestedUseInv, CallInv, NestInv, OwnInv
<1>8. CallbackInv'
  BY DEF CallbackInv, CallInv, OwnInv, RunsCallback
<1>9. GenerationInv'
  <2>1. ~Young(idx[a])
    BY NextGenerationFacts DEF GenerationInv, OwnInv, Young
  <2>2. QED
    BY <2>1 DEF GenerationInv, OwnInv, Young
<1>10. CellInv'
  BY DEF CellInv, CallInv, NestInv, OwnInv, GenerationInv, UseInv, ValueInv,
      Young, Past, Agree, Storing
<1>11. UseInv'
  BY DEF UseInv, CallInv, NestInv, OwnInv, GenerationInv, CellInv, Young, Past
<1>12. ValueInv'
  BY DEF ValueInv, CallInv, NestInv, OwnInv, GenerationInv, CellInv, UseInv,
      Young, Past, LastStored, Agree, Storing, Current
<1>13. FreeInv'
  BY DEF FreeInv, CallInv, NestInv, OwnInv, GenerationInv, CellInv,
      NestedUseInv, Young, LastStored, Agree, Storing
<1>14. QED
  BY <1>2, <1>3, <1>4, <1>5, <1>6, <1>7, <1>8, <1>9, <1>10, <1>11, <1>12,
      <1>13

(* local_alloc leaves generation zero out. *)
LEMMA AllocSkipZeroStep ==
  ASSUME IndInv, NEW a \in Actors,
         pc[a] = "alloc_skip_zero",
         generation' = [generation EXCEPT ![idx[a]] = NextGeneration(generation[idx[a]])],
         pc' = [pc EXCEPT ![a] = "alloc_callback"],
         UNCHANGED <<state, callback, cell, op, idx, arg, gen, val, cb,
                      allocs, tenancy, registered, stored, called, witness,
                      disturbed>>
  PROVE  IndInv'
<1> USE ActorFacts, StepKinds, KindFacts, LocalSlotsAssumption DEF IndInv
<1>1. /\ \A s \in Slots :
            generation'[s] = IF s = idx[a] THEN NextGeneration(generation[idx[a]])
                             ELSE generation[s]
      /\ \A b \in Actors : pc'[b] = IF b = a THEN "alloc_callback" ELSE pc[b]
  BY DEF TypeOK
<1> USE <1>1, Typing
<1>2. TypeOK'
  BY TypeFacts, NameFacts DEF TypeOK, CallInv
<1>3. CallInv'
  BY DEF CallInv
<1>4. NestInv'
  BY DEF NestInv
<1>5. OwnInv'
  BY DEF OwnInv, CallInv
<1>6. DisturbInv'
  BY DEF DisturbInv, CallInv, OwnInv
<1>7. NestedUseInv'
  BY DEF NestedUseInv, CallInv, NestInv, OwnInv
<1>8. CallbackInv'
  BY DEF CallbackInv, CallInv, OwnInv, RunsCallback
<1>9. GenerationInv'
  BY DEF GenerationInv, CallInv, OwnInv, Young
<1>10. CellInv'
  BY DEF CellInv, CallInv, NestInv, OwnInv, GenerationInv, UseInv, ValueInv,
      Young, Past, Agree, Storing
<1>11. UseInv'
  BY DEF UseInv, CallInv, NestInv, OwnInv, GenerationInv, CellInv, Young, Past
<1>12. ValueInv'
  BY DEF ValueInv, CallInv, NestInv, OwnInv, GenerationInv, CellInv, UseInv,
      Young, Past, LastStored, Agree, Storing, Current
<1>13. FreeInv'
  BY DEF FreeInv, CallInv, NestInv, OwnInv, GenerationInv, CellInv,
      NestedUseInv, Young, LastStored, Agree, Storing
<1>14. QED
  BY <1>2, <1>3, <1>4, <1>5, <1>6, <1>7, <1>8, <1>9, <1>10, <1>11, <1>12,
      <1>13

(* local_alloc registers the callback of the tenancy. *)
LEMMA AllocCallbackStep ==
  ASSUME IndInv, NEW a \in Actors,
         pc[a] = "alloc_callback",
         callback' = [callback EXCEPT ![idx[a]] = arg[a]],
         pc' = [pc EXCEPT ![a] = "alloc_publish"],
         UNCHANGED <<state, generation, cell, op, idx, arg, gen, val, cb,
                      allocs, tenancy, registered, stored, called, witness,
                      disturbed>>
  PROVE  IndInv'
<1> USE ActorFacts, StepKinds, KindFacts, LocalSlotsAssumption DEF IndInv
<1>1. /\ \A s \in Slots :
            callback'[s] = IF s = idx[a] THEN arg[a]
                           ELSE callback[s]
      /\ \A b \in Actors : pc'[b] = IF b = a THEN "alloc_publish" ELSE pc[b]
  BY DEF TypeOK
<1> USE <1>1, Typing
<1>2. TypeOK'
  BY TypeFacts, NameFacts DEF TypeOK, CallInv
<1>3. CallInv'
  BY DEF CallInv
<1>4. NestInv'
  BY DEF NestInv
<1>5. OwnInv'
  BY DEF OwnInv, CallInv
<1>6. DisturbInv'
  BY DEF DisturbInv, CallInv, OwnInv
<1>7. NestedUseInv'
  BY DEF NestedUseInv, CallInv, NestInv, OwnInv
<1>8. CallbackInv'
  BY DEF CallbackInv, CallInv, OwnInv, RunsCallback
<1>9. GenerationInv'
  BY DEF GenerationInv, CallInv, OwnInv, Young
<1>10. CellInv'
  BY DEF CellInv, CallInv, NestInv, OwnInv, GenerationInv, UseInv, ValueInv,
      Young, Past, Agree, Storing
<1>11. UseInv'
  BY DEF UseInv, CallInv, NestInv, OwnInv, GenerationInv, CellInv, Young, Past
<1>12. ValueInv'
  BY DEF ValueInv, CallInv, NestInv, OwnInv, GenerationInv, CellInv, UseInv,
      Young, Past, LastStored, Agree, Storing, Current
<1>13. FreeInv'
  BY DEF FreeInv, CallInv, NestInv, OwnInv, GenerationInv, CellInv,
      NestedUseInv, Young, LastStored, Agree, Storing
<1>14. QED
  BY <1>2, <1>3, <1>4, <1>5, <1>6, <1>7, <1>8, <1>9, <1>10, <1>11, <1>12,
      <1>13

(* local_alloc publishes the slot. *)
LEMMA AllocPublishStep ==
  ASSUME IndInv, NEW a \in Actors,
         pc[a] = "alloc_publish",
         state' = [state EXCEPT ![idx[a]] = "allocated"],
         pc' = [pc EXCEPT ![a] = "granted"],
         UNCHANGED <<generation, callback, cell, op, idx, arg, gen, val, cb,
                      allocs, tenancy, registered, stored, called, witness,
                      disturbed>>
  PROVE  IndInv'
<1> USE ActorFacts, StepKinds, KindFacts, LocalSlotsAssumption DEF IndInv
<1>1. /\ \A s \in Slots :
            state'[s] = IF s = idx[a] THEN "allocated"
                        ELSE state[s]
      /\ \A b \in Actors : pc'[b] = IF b = a THEN "granted" ELSE pc[b]
  BY DEF TypeOK
<1> USE <1>1, Typing
<1>2. TypeOK'
  BY TypeFacts, NameFacts DEF TypeOK, CallInv
<1>3. CallInv'
  BY DEF CallInv
<1>4. NestInv'
  BY DEF NestInv
<1>5. OwnInv'
  BY DEF OwnInv, CallInv
<1>6. DisturbInv'
  BY DEF DisturbInv, CallInv, OwnInv
<1>7. NestedUseInv'
  BY DEF NestedUseInv, CallInv, NestInv, OwnInv
<1>8. CallbackInv'
  BY DEF CallbackInv, CallInv, OwnInv, RunsCallback
<1>9. GenerationInv'
  BY DEF GenerationInv, CallInv, OwnInv, Young
<1>10. CellInv'
  BY DEF CellInv, CallInv, NestInv, OwnInv, GenerationInv, UseInv, ValueInv,
      Young, Past, Agree, Storing
<1>11. UseInv'
  BY DEF UseInv, CallInv, NestInv, OwnInv, GenerationInv, CellInv, Young, Past
<1>12. ValueInv'
  BY DEF ValueInv, CallInv, NestInv, OwnInv, GenerationInv, CellInv, UseInv,
      Young, Past, LastStored, Agree, Storing, Current
<1>13. FreeInv'
  BY DEF FreeInv, CallInv, NestInv, OwnInv, GenerationInv, CellInv,
      NestedUseInv, Young, LastStored, Agree, Storing
<1>14. QED
  BY <1>2, <1>3, <1>4, <1>5, <1>6, <1>7, <1>8, <1>9, <1>10, <1>11, <1>12,
      <1>13

(* TlsFree or FlsFree is called. *)
LEMMA FreeStep ==
  ASSUME IndInv, NEW a \in Actors, NEW r \in Slots,
         pc[a] = "idle",
         MayCall(a),
         op' = [op EXCEPT ![a] = "free"],
         idx' = [idx EXCEPT ![a] = r],
         arg' = [arg EXCEPT ![a] = Null],
         pc' = [pc EXCEPT ![a] = "free_cas"],
         UNCHANGED <<state, generation, callback, cell, gen, val, cb, allocs,
                      tenancy, registered, stored, called, witness,
                      disturbed>>
  PROVE  IndInv'
<1> USE ActorFacts, StepKinds, KindFacts, LocalSlotsAssumption DEF IndInv
<1>1. /\ \A b \in Actors : op'[b] = IF b = a THEN "free" ELSE op[b]
      /\ \A b \in Actors : idx'[b] = IF b = a THEN r ELSE idx[b]
      /\ \A b \in Actors : arg'[b] = IF b = a THEN Null ELSE arg[b]
      /\ \A b \in Actors : pc'[b] = IF b = a THEN "free_cas" ELSE pc[b]
  BY DEF TypeOK
<1> USE <1>1, Typing
<1>2. TypeOK'
  BY TypeFacts, NameFacts DEF TypeOK, CallInv
<1>3. CallInv'
  BY DEF CallInv
<1>4. NestInv'
  <2> SUFFICES ASSUME NEW c \in Actors, NEW d \in Actors, Thread(c) = Thread(d),
                      c[2] < d[2], pc'[d] # "idle"
               PROVE  pc'[c] = "callback"
    BY DEF NestInv
  <2>1. CASE d = a
    BY <2>1, FamilyFacts DEF NestInv, MayCall
  <2>2. CASE d # a
    BY <2>2 DEF NestInv
  <2>3. QED
    BY <2>1, <2>2
<1>5. OwnInv'
  BY DEF OwnInv, CallInv
<1>6. DisturbInv'
  BY DEF DisturbInv, CallInv, OwnInv
<1>7. NestedUseInv'
  BY DEF NestedUseInv, CallInv, NestInv, OwnInv
<1>8. CallbackInv'
  BY DEF CallbackInv, CallInv, OwnInv, RunsCallback
<1>9. GenerationInv'
  BY DEF GenerationInv, CallInv, OwnInv, Young
<1>10. CellInv'
  BY DEF CellInv, CallInv, NestInv, OwnInv, GenerationInv, UseInv, ValueInv,
      Young, Past, Agree, Storing
<1>11. UseInv'
  BY DEF UseInv, CallInv, NestInv, OwnInv, GenerationInv, CellInv, Young, Past
<1>12. ValueInv'
  BY DEF ValueInv, CallInv, NestInv, OwnInv, GenerationInv, CellInv, UseInv,
      Young, Past, LastStored, Agree, Storing, Current
<1>13. FreeInv'
  BY DEF FreeInv, CallInv, NestInv, OwnInv, GenerationInv, CellInv,
      NestedUseInv, Young, LastStored, Agree, Storing
<1>14. QED
  BY <1>2, <1>3, <1>4, <1>5, <1>6, <1>7, <1>8, <1>9, <1>10, <1>11, <1>12,
      <1>13

(* local_free claims an allocated slot and disturbs the calls that use it. *)
LEMMA FreeClaimStep ==
  ASSUME IndInv, NEW a \in Actors,
         pc[a] = "free_cas",
         state[idx[a]] = "allocated",
         state' = [state EXCEPT ![idx[a]] = "initializing"],
         disturbed' = [b \in Actors |-> disturbed[b] \/ (op[b] \in Accesses /\ idx[b] = idx[a])],
         pc' = [pc EXCEPT ![a] = "free_value"],
         UNCHANGED <<generation, callback, cell, op, idx, arg, gen, val, cb,
                      allocs, tenancy, registered, stored, called, witness>>
  PROVE  IndInv'
<1> USE ActorFacts, StepKinds, KindFacts, LocalSlotsAssumption DEF IndInv
<1>1. /\ \A s \in Slots :
            state'[s] = IF s = idx[a] THEN "initializing"
                        ELSE state[s]
      /\ \A b \in Actors : pc'[b] = IF b = a THEN "free_value" ELSE pc[b]
  BY DEF TypeOK
<1> USE <1>1, Typing
<1>2. TypeOK'
  BY TypeFacts, NameFacts DEF TypeOK, CallInv
<1>3. CallInv'
  BY DEF CallInv
<1>4. NestInv'
  BY DEF NestInv
<1>5. OwnInv'
  BY DEF OwnInv, CallInv
<1>6. DisturbInv'
  <2>1. \A b \in Actors :
           disturbed'[b] <=> disturbed[b] \/ (op[b] \in Accesses /\ idx[b] = idx[a])
    OBVIOUS
  <2>2. QED
    BY <2>1 DEF DisturbInv, CallInv
<1>7. NestedUseInv'
  BY DEF NestedUseInv, CallInv, NestInv, OwnInv
<1>8. CallbackInv'
  BY DEF CallbackInv, CallInv, OwnInv, RunsCallback
<1>9. GenerationInv'
  BY DEF GenerationInv, CallInv, OwnInv, Young
<1>10. CellInv'
  BY DEF CellInv, CallInv, NestInv, OwnInv, GenerationInv, UseInv, ValueInv,
      Young, Past, Agree, Storing
<1>11. UseInv'
  BY DEF UseInv, CallInv, NestInv, OwnInv, GenerationInv, CellInv, Young, Past
<1>12. ValueInv'
  BY DEF ValueInv, CallInv, NestInv, OwnInv, GenerationInv, CellInv, UseInv,
      Young, Past, LastStored, Agree, Storing, Current
<1>13. FreeInv'
  <2>0. ~Storing(Thread(a), idx[a])
    BY OneActive DEF Storing, CallInv
  <2> SUFFICES ASSUME NEW b \in Actors, Young(idx[b])'
               PROVE  (/\ pc[b] = "free_value" => Agree(Thread(b), idx[b])
                       /\ pc[b] \in Taken =>
                             val[b] = LastStored(Thread(b), idx[b], tenancy[idx[b]]))'
    BY DEF FreeInv
  <2>1. CASE b = a
    BY <2>0, <2>1
       DEF FreeInv, Young, Agree, LastStored, CellInv, Storing, NestInv,
           GenerationInv, OwnInv, CallInv, Current
  <2>2. CASE b # a
    BY <2>2
       DEF FreeInv, Young, Agree, LastStored, NestInv, CallInv, OwnInv,
           NestedUseInv
  <2>3. QED
    BY <2>1, <2>2
<1>14. QED
  BY <1>2, <1>3, <1>4, <1>5, <1>6, <1>7, <1>8, <1>9, <1>10, <1>11, <1>12,
      <1>13

(* local_free finds the slot unallocated. *)
LEMMA FreeRejectStep ==
  ASSUME IndInv, NEW a \in Actors,
         pc[a] = "free_cas",
         pc' = [pc EXCEPT ![a] = "refused"],
         UNCHANGED <<state, generation, callback, cell, op, idx, arg, gen,
                      val, cb, allocs, tenancy, registered, stored, called,
                      witness, disturbed>>
  PROVE  IndInv'
<1> USE ActorFacts, StepKinds, KindFacts, LocalSlotsAssumption DEF IndInv
<1>1. /\ \A b \in Actors : pc'[b] = IF b = a THEN "refused" ELSE pc[b]
  BY DEF TypeOK
<1> USE <1>1, Typing
<1>2. TypeOK'
  BY TypeFacts, NameFacts DEF TypeOK, CallInv
<1>3. CallInv'
  BY DEF CallInv
<1>4. NestInv'
  BY DEF NestInv
<1>5. OwnInv'
  BY DEF OwnInv, CallInv
<1>6. DisturbInv'
  BY DEF DisturbInv, CallInv, OwnInv
<1>7. NestedUseInv'
  BY DEF NestedUseInv, CallInv, NestInv, OwnInv
<1>8. CallbackInv'
  BY DEF CallbackInv, CallInv, OwnInv, RunsCallback
<1>9. GenerationInv'
  BY DEF GenerationInv, CallInv, OwnInv, Young
<1>10. CellInv'
  BY DEF CellInv, CallInv, NestInv, OwnInv, GenerationInv, UseInv, ValueInv,
      Young, Past, Agree, Storing
<1>11. UseInv'
  BY DEF UseInv, CallInv, NestInv, OwnInv, GenerationInv, CellInv, Young, Past
<1>12. ValueInv'
  BY DEF ValueInv, CallInv, NestInv, OwnInv, GenerationInv, CellInv, UseInv,
      Young, Past, LastStored, Agree, Storing, Current
<1>13. FreeInv'
  BY DEF FreeInv, CallInv, NestInv, OwnInv, GenerationInv, CellInv,
      NestedUseInv, Young, LastStored, Agree, Storing
<1>14. QED
  BY <1>2, <1>3, <1>4, <1>5, <1>6, <1>7, <1>8, <1>9, <1>10, <1>11, <1>12,
      <1>13

(* local_free takes the thread's own value of the tenancy. *)
LEMMA FreeValueStep ==
  ASSUME IndInv, NEW a \in Actors,
         pc[a] = "free_value",
         gen' = [gen EXCEPT ![a] = generation[idx[a]]],
         val' = [val EXCEPT ![a] = Current(a, generation[idx[a]])],
         pc' = [pc EXCEPT ![a] = "free_load"],
         UNCHANGED <<state, generation, callback, cell, op, idx, arg, cb,
                      allocs, tenancy, registered, stored, called, witness,
                      disturbed>>
  PROVE  IndInv'
<1> USE ActorFacts, StepKinds, KindFacts, LocalSlotsAssumption DEF IndInv
<1>1. /\ \A b \in Actors :
            gen'[b] = IF b = a THEN generation[idx[a]]
                      ELSE gen[b]
      /\ \A b \in Actors :
            val'[b] = IF b = a THEN Current(a, generation[idx[a]])
                      ELSE val[b]
      /\ \A b \in Actors : pc'[b] = IF b = a THEN "free_load" ELSE pc[b]
  BY DEF TypeOK
<1> USE <1>1, Typing
<1>2. TypeOK'
  BY NameFacts, TypeFacts, CurrentType DEF TypeOK
<1>3. CallInv'
  BY DEF CallInv
<1>4. NestInv'
  BY DEF NestInv
<1>5. OwnInv'
  BY DEF OwnInv, CallInv
<1>6. DisturbInv'
  BY DEF DisturbInv, CallInv, OwnInv
<1>7. NestedUseInv'
  BY DEF NestedUseInv, CallInv, NestInv, OwnInv
<1>8. CallbackInv'
  BY DEF CallbackInv, CallInv, OwnInv, RunsCallback
<1>9. GenerationInv'
  BY DEF GenerationInv, CallInv, OwnInv, Young
<1>10. CellInv'
  BY DEF CellInv, CallInv, NestInv, OwnInv, GenerationInv, UseInv, ValueInv,
      Young, Past, Agree, Storing
<1>11. UseInv'
  BY DEF UseInv, CallInv, NestInv, OwnInv, GenerationInv, CellInv, Young, Past
<1>12. ValueInv'
  BY DEF ValueInv, CallInv, NestInv, OwnInv, GenerationInv, CellInv, UseInv,
      Young, Past, LastStored, Agree, Storing, Current
<1>13. FreeInv'
  <2> SUFFICES ASSUME NEW b \in Actors, Young(idx[b])'
               PROVE  (/\ pc[b] = "free_value" => Agree(Thread(b), idx[b])
                       /\ pc[b] \in Taken =>
                             val[b] = LastStored(Thread(b), idx[b], tenancy[idx[b]]))'
    BY DEF FreeInv
  <2>1. CASE b = a
    BY <2>1
       DEF FreeInv, Young, Agree, LastStored, CellInv, Storing, NestInv,
           GenerationInv, OwnInv, CallInv, Current
  <2>2. CASE b # a
    BY <2>2
       DEF FreeInv, Young, Agree, LastStored, NestInv, CallInv, OwnInv,
           NestedUseInv
  <2>3. QED
    BY <2>1, <2>2
<1>14. QED
  BY <1>2, <1>3, <1>4, <1>5, <1>6, <1>7, <1>8, <1>9, <1>10, <1>11, <1>12,
      <1>13

(* local_free reads the callback and empties the thread's own cell. *)
LEMMA FreeLoadStep ==
  ASSUME IndInv, NEW a \in Actors,
         pc[a] = "free_load",
         cb' = [cb EXCEPT ![a] = callback[idx[a]]],
         cell' = [cell EXCEPT ![Thread(a)][idx[a]] = EmptyCell],
         pc' = [pc EXCEPT ![a] = "free_clear"],
         UNCHANGED <<state, generation, callback, op, idx, arg, gen, val,
                      allocs, tenancy, registered, stored, called, witness,
                      disturbed>>
  PROVE  IndInv'
<1> USE ActorFacts, StepKinds, KindFacts, LocalSlotsAssumption DEF IndInv
<1>1. /\ \A b \in Actors : cb'[b] = IF b = a THEN callback[idx[a]] ELSE cb[b]
      /\ \A t \in Threads, s \in Slots :
            cell'[t][s] = IF t = Thread(a) /\ s = idx[a] THEN EmptyCell
                        ELSE cell[t][s]
      /\ \A b \in Actors : pc'[b] = IF b = a THEN "free_clear" ELSE pc[b]
  BY DEF TypeOK
<1> USE <1>1, Typing
<1>2. TypeOK'
  BY TypeFacts, NameFacts DEF TypeOK, CallInv
<1>3. CallInv'
  BY DEF CallInv
<1>4. NestInv'
  BY DEF NestInv
<1>5. OwnInv'
  BY DEF OwnInv, CallInv
<1>6. DisturbInv'
  BY DEF DisturbInv, CallInv, OwnInv
<1>7. NestedUseInv'
  BY DEF NestedUseInv, CallInv, NestInv, OwnInv
<1>8. CallbackInv'
  BY DEF CallbackInv, CallInv, OwnInv, RunsCallback
<1>9. GenerationInv'
  BY DEF GenerationInv, CallInv, OwnInv, Young
<1>10. CellInv'
  <2> SUFFICES ASSUME NEW t \in Threads, NEW s \in Slots, Young(s)'
               PROVE  /\ Past(cell[t][s].generation, s)'
                      /\ Past(stored[t][s].tenancy, s)'
                      /\ (state[s] = "allocated" /\ ~Storing(t, s) => Agree(t, s))'
    BY DEF CellInv
  <2>1. Young(s)
    BY DEF Young
  <2>2. Past(cell[t][s].generation, s)'
    BY <2>1 DEF EmptyCell, CellInv, Past, OwnInv
  <2>3. Past(stored[t][s].tenancy, s)'
    BY <2>1 DEF CellInv, Past
  <2>4. (state[s] = "allocated" /\ ~Storing(t, s) => Agree(t, s))'
    BY <2>1 DEF CellInv, Agree, Storing, OwnInv
  <2>5. QED
    BY <2>2, <2>3, <2>4
<1>11. UseInv'
  BY DEF UseInv, CallInv, NestInv, OwnInv, GenerationInv, CellInv, Young, Past
<1>12. ValueInv'
  <2>0. \A b \in Actors \ {a} :
           Thread(b) = Thread(a) => pc[b] \in {"idle", "callback"}
    BY OneActive
  <2> SUFFICES ASSUME NEW b \in Actors, Young(idx[b])'
               PROVE  (/\ pc[b] \in Checking /\ op[b] = "set" =>
                             cell[Thread(b)][idx[b]] =
                                 [value |-> arg[b], generation |-> gen[b]]
                       /\ pc[b] = "confirm" /\ op[b] = "get" =>
                             val[b] = Current(b, gen[b])
                       /\ pc[b] = "recheck" /\ op[b] = "get" /\ gen[b] = witness[b] =>
                             val[b] = LastStored(Thread(b), idx[b], witness[b])
                       /\ pc[b] = "granted" /\ op[b] = "get" =>
                             val[b] = LastStored(Thread(b), idx[b], witness[b]))'
    BY DEF ValueInv
  <2>1. CASE b = a
    BY <2>1
       DEF ValueInv, Young, Current, LastStored, UseInv, CellInv, Agree,
           Storing, NestInv, GenerationInv, OwnInv, Past, CallInv
  <2>2. CASE b # a
    BY <2>0, <2>2 DEF ValueInv, Young, Current, LastStored, NestInv, CallInv
  <2>3. QED
    BY <2>1, <2>2
<1>13. FreeInv'
  BY DEF FreeInv, CallInv, NestInv, OwnInv, GenerationInv, CellInv,
      NestedUseInv, Young, LastStored, Agree, Storing
<1>14. QED
  BY <1>2, <1>3, <1>4, <1>5, <1>6, <1>7, <1>8, <1>9, <1>10, <1>11, <1>12,
      <1>13

(* local_free clears the callback and runs it. *)
LEMMA FreeRunsStep ==
  ASSUME IndInv, NEW a \in Actors,
         pc[a] = "free_clear",
         RunsCallback(a),
         callback' = [callback EXCEPT ![idx[a]] = NoCallback],
         called' = [called EXCEPT ![idx[a]] = called[idx[a]] + 1],
         pc' = [pc EXCEPT ![a] = "callback"],
         UNCHANGED <<state, generation, cell, op, idx, arg, gen, val, cb,
                      allocs, tenancy, registered, stored, witness,
                      disturbed>>
  PROVE  IndInv'
<1> USE ActorFacts, StepKinds, KindFacts, LocalSlotsAssumption DEF IndInv
<1>1. /\ \A s \in Slots :
            callback'[s] = IF s = idx[a] THEN NoCallback
                           ELSE callback[s]
      /\ \A s \in Slots :
            called'[s] = IF s = idx[a] THEN called[idx[a]] + 1
                         ELSE called[s]
      /\ \A b \in Actors : pc'[b] = IF b = a THEN "callback" ELSE pc[b]
  BY DEF TypeOK
<1> USE <1>1, Typing
<1>2. TypeOK'
  <2>1. called' \in [Slots -> Nat]
    BY DEF TypeOK
  <2>2. QED
    BY <2>1, TypeFacts, NameFacts DEF TypeOK
<1>3. CallInv'
  BY DEF CallInv
<1>4. NestInv'
  BY DEF NestInv
<1>5. OwnInv'
  BY DEF OwnInv, CallInv
<1>6. DisturbInv'
  BY DEF DisturbInv, CallInv, OwnInv
<1>7. NestedUseInv'
  <2> SUFFICES ASSUME NEW c \in Actors, NEW b \in Actors,
                      (/\ Thread(c) = Thread(b)
                       /\ pc[c] = "callback"
                       /\ idx[c] = idx[b]
                       /\ op[b] \in Accesses)'
               PROVE  pc'[b] \in Futile
    BY DEF NestedUseInv
  <2>1. b # a
    BY DEF CallInv
  <2>2. CASE c = a
    <3>1. pc[b] \in {"idle", "callback"}
      BY <2>1, <2>2, OneActive
    <3>2. QED
      BY <2>2, <3>1 DEF CallInv
  <2>3. CASE c # a
    BY <2>1, <2>3 DEF NestedUseInv
  <2>4. QED
    BY <2>2, <2>3
<1>8. CallbackInv'
  BY DEF CallbackInv, CallInv, OwnInv, RunsCallback
<1>9. GenerationInv'
  BY DEF GenerationInv, CallInv, OwnInv, Young
<1>10. CellInv'
  BY DEF CellInv, CallInv, NestInv, OwnInv, GenerationInv, UseInv, ValueInv,
      Young, Past, Agree, Storing
<1>11. UseInv'
  BY DEF UseInv, CallInv, NestInv, OwnInv, GenerationInv, CellInv, Young, Past
<1>12. ValueInv'
  BY DEF ValueInv, CallInv, NestInv, OwnInv, GenerationInv, CellInv, UseInv,
      Young, Past, LastStored, Agree, Storing, Current
<1>13. FreeInv'
  BY DEF FreeInv, CallInv, NestInv, OwnInv, GenerationInv, CellInv,
      NestedUseInv, Young, LastStored, Agree, Storing
<1>14. QED
  BY <1>2, <1>3, <1>4, <1>5, <1>6, <1>7, <1>8, <1>9, <1>10, <1>11, <1>12,
      <1>13

(* local_free clears the callback and has none to run. *)
LEMMA FreeRunsNotStep ==
  ASSUME IndInv, NEW a \in Actors,
         pc[a] = "free_clear",
         ~RunsCallback(a),
         callback' = [callback EXCEPT ![idx[a]] = NoCallback],
         pc' = [pc EXCEPT ![a] = "free_release"],
         UNCHANGED <<state, generation, cell, op, idx, arg, gen, val, cb,
                      allocs, tenancy, registered, stored, called, witness,
                      disturbed>>
  PROVE  IndInv'
<1> USE ActorFacts, StepKinds, KindFacts, LocalSlotsAssumption DEF IndInv
<1>1. /\ \A s \in Slots :
            callback'[s] = IF s = idx[a] THEN NoCallback
                           ELSE callback[s]
      /\ \A b \in Actors : pc'[b] = IF b = a THEN "free_release" ELSE pc[b]
  BY DEF TypeOK
<1> USE <1>1, Typing
<1>2. TypeOK'
  BY TypeFacts, NameFacts DEF TypeOK, CallInv
<1>3. CallInv'
  BY DEF CallInv
<1>4. NestInv'
  BY DEF NestInv
<1>5. OwnInv'
  BY DEF OwnInv, CallInv
<1>6. DisturbInv'
  BY DEF DisturbInv, CallInv, OwnInv
<1>7. NestedUseInv'
  BY DEF NestedUseInv, CallInv, NestInv, OwnInv
<1>8. CallbackInv'
  BY DEF CallbackInv, CallInv, OwnInv, RunsCallback
<1>9. GenerationInv'
  BY DEF GenerationInv, CallInv, OwnInv, Young
<1>10. CellInv'
  BY DEF CellInv, CallInv, NestInv, OwnInv, GenerationInv, UseInv, ValueInv,
      Young, Past, Agree, Storing
<1>11. UseInv'
  BY DEF UseInv, CallInv, NestInv, OwnInv, GenerationInv, CellInv, Young, Past
<1>12. ValueInv'
  BY DEF ValueInv, CallInv, NestInv, OwnInv, GenerationInv, CellInv, UseInv,
      Young, Past, LastStored, Agree, Storing, Current
<1>13. FreeInv'
  BY DEF FreeInv, CallInv, NestInv, OwnInv, GenerationInv, CellInv,
      NestedUseInv, Young, LastStored, Agree, Storing
<1>14. QED
  BY <1>2, <1>3, <1>4, <1>5, <1>6, <1>7, <1>8, <1>9, <1>10, <1>11, <1>12,
      <1>13

(* The callback returns after the calls it made. *)
LEMMA CallbackReturnStep ==
  ASSUME IndInv, NEW a \in Actors,
         pc[a] = "callback",
         Child(a) \in Actors => pc[Child(a)] = "idle",
         pc' = [pc EXCEPT ![a] = "free_release"],
         UNCHANGED <<state, generation, callback, cell, op, idx, arg, gen,
                      val, cb, allocs, tenancy, registered, stored, called,
                      witness, disturbed>>
  PROVE  IndInv'
<1> USE ActorFacts, StepKinds, KindFacts, LocalSlotsAssumption DEF IndInv
<1>1. /\ \A b \in Actors : pc'[b] = IF b = a THEN "free_release" ELSE pc[b]
  BY DEF TypeOK
<1> USE <1>1, Typing
<1>2. TypeOK'
  BY TypeFacts, NameFacts DEF TypeOK, CallInv
<1>3. CallInv'
  BY DEF CallInv
<1>4. NestInv'
  <2> SUFFICES ASSUME NEW c \in Actors, NEW d \in Actors, Thread(c) = Thread(d),
                      c[2] < d[2], pc'[d] # "idle"
               PROVE  pc'[c] = "callback"
    BY DEF NestInv
  <2>1. pc[d] # "idle" /\ pc[c] = "callback"
    BY DEF NestInv
  <2>2. c # a
    BY <2>1, FamilyFacts DEF NestInv
  <2>3. QED
    BY <2>1, <2>2
<1>5. OwnInv'
  BY DEF OwnInv, CallInv
<1>6. DisturbInv'
  BY DEF DisturbInv, CallInv, OwnInv
<1>7. NestedUseInv'
  BY DEF NestedUseInv, CallInv, NestInv, OwnInv
<1>8. CallbackInv'
  BY DEF CallbackInv, CallInv, OwnInv, RunsCallback
<1>9. GenerationInv'
  BY DEF GenerationInv, CallInv, OwnInv, Young
<1>10. CellInv'
  BY DEF CellInv, CallInv, NestInv, OwnInv, GenerationInv, UseInv, ValueInv,
      Young, Past, Agree, Storing
<1>11. UseInv'
  BY DEF UseInv, CallInv, NestInv, OwnInv, GenerationInv, CellInv, Young, Past
<1>12. ValueInv'
  BY DEF ValueInv, CallInv, NestInv, OwnInv, GenerationInv, CellInv, UseInv,
      Young, Past, LastStored, Agree, Storing, Current
<1>13. FreeInv'
  BY DEF FreeInv, CallInv, NestInv, OwnInv, GenerationInv, CellInv,
      NestedUseInv, Young, LastStored, Agree, Storing
<1>14. QED
  BY <1>2, <1>3, <1>4, <1>5, <1>6, <1>7, <1>8, <1>9, <1>10, <1>11, <1>12,
      <1>13

(* local_free gives the slot back. *)
LEMMA FreeReleaseStep ==
  ASSUME IndInv, NEW a \in Actors,
         pc[a] = "free_release",
         state' = [state EXCEPT ![idx[a]] = "free"],
         pc' = [pc EXCEPT ![a] = "granted"],
         UNCHANGED <<generation, callback, cell, op, idx, arg, gen, val, cb,
                      allocs, tenancy, registered, stored, called, witness,
                      disturbed>>
  PROVE  IndInv'
<1> USE ActorFacts, StepKinds, KindFacts, LocalSlotsAssumption DEF IndInv
<1>1. /\ \A s \in Slots : state'[s] = IF s = idx[a] THEN "free" ELSE state[s]
      /\ \A b \in Actors : pc'[b] = IF b = a THEN "granted" ELSE pc[b]
  BY DEF TypeOK
<1> USE <1>1, Typing
<1>2. TypeOK'
  BY TypeFacts, NameFacts DEF TypeOK, CallInv
<1>3. CallInv'
  BY DEF CallInv
<1>4. NestInv'
  BY DEF NestInv
<1>5. OwnInv'
  BY DEF OwnInv, CallInv
<1>6. DisturbInv'
  BY DEF DisturbInv, CallInv, OwnInv
<1>7. NestedUseInv'
  BY DEF NestedUseInv, CallInv, NestInv, OwnInv
<1>8. CallbackInv'
  BY DEF CallbackInv, CallInv, OwnInv, RunsCallback
<1>9. GenerationInv'
  BY DEF GenerationInv, CallInv, OwnInv, Young
<1>10. CellInv'
  BY DEF CellInv, CallInv, NestInv, OwnInv, GenerationInv, UseInv, ValueInv,
      Young, Past, Agree, Storing
<1>11. UseInv'
  BY DEF UseInv, CallInv, NestInv, OwnInv, GenerationInv, CellInv, Young, Past
<1>12. ValueInv'
  BY DEF ValueInv, CallInv, NestInv, OwnInv, GenerationInv, CellInv, UseInv,
      Young, Past, LastStored, Agree, Storing, Current
<1>13. FreeInv'
  BY DEF FreeInv, CallInv, NestInv, OwnInv, GenerationInv, CellInv,
      NestedUseInv, Young, LastStored, Agree, Storing
<1>14. QED
  BY <1>2, <1>3, <1>4, <1>5, <1>6, <1>7, <1>8, <1>9, <1>10, <1>11, <1>12,
      <1>13

(* TlsGetValue or FlsGetValue is called. *)
LEMMA GetStep ==
  ASSUME IndInv, NEW a \in Actors, NEW r \in Slots,
         pc[a] = "idle",
         MayCall(a),
         op' = [op EXCEPT ![a] = "get"],
         idx' = [idx EXCEPT ![a] = r],
         arg' = [arg EXCEPT ![a] = Null],
         disturbed' = [disturbed EXCEPT ![a] = (state[r] # "allocated")],
         pc' = [pc EXCEPT ![a] = "before"],
         UNCHANGED <<state, generation, callback, cell, gen, val, cb, allocs,
                      tenancy, registered, stored, called, witness>>
  PROVE  IndInv'
<1> USE ActorFacts, StepKinds, KindFacts, LocalSlotsAssumption DEF IndInv
<1>1. /\ \A b \in Actors : op'[b] = IF b = a THEN "get" ELSE op[b]
      /\ \A b \in Actors : idx'[b] = IF b = a THEN r ELSE idx[b]
      /\ \A b \in Actors : arg'[b] = IF b = a THEN Null ELSE arg[b]
      /\ \A b \in Actors :
            disturbed'[b] = IF b = a THEN (state[r] # "allocated")
                            ELSE disturbed[b]
      /\ \A b \in Actors : pc'[b] = IF b = a THEN "before" ELSE pc[b]
  BY DEF TypeOK
<1> USE <1>1, Typing
<1>2. TypeOK'
  BY TypeFacts, NameFacts DEF TypeOK, CallInv
<1>3. CallInv'
  BY DEF CallInv
<1>4. NestInv'
  <2> SUFFICES ASSUME NEW c \in Actors, NEW d \in Actors, Thread(c) = Thread(d),
                      c[2] < d[2], pc'[d] # "idle"
               PROVE  pc'[c] = "callback"
    BY DEF NestInv
  <2>1. CASE d = a
    BY <2>1, FamilyFacts DEF NestInv, MayCall
  <2>2. CASE d # a
    BY <2>2 DEF NestInv
  <2>3. QED
    BY <2>1, <2>2
<1>5. OwnInv'
  BY DEF OwnInv, CallInv
<1>6. DisturbInv'
  <2>1. disturbed'[a] <=> state[r] # "allocated"
    BY DEF TypeOK
  <2>2. \A b \in Actors \ {a} : disturbed'[b] <=> disturbed[b]
    BY DEF TypeOK
  <2>3. QED
    BY <2>1, <2>2 DEF DisturbInv
<1>7. NestedUseInv'
  BY DEF NestedUseInv, CallInv, NestInv, OwnInv
<1>8. CallbackInv'
  BY DEF CallbackInv, CallInv, OwnInv, RunsCallback
<1>9. GenerationInv'
  BY DEF GenerationInv, CallInv, OwnInv, Young
<1>10. CellInv'
  BY DEF CellInv, CallInv, NestInv, OwnInv, GenerationInv, UseInv, ValueInv,
      Young, Past, Agree, Storing
<1>11. UseInv'
  BY DEF UseInv, CallInv, NestInv, OwnInv, GenerationInv, CellInv, Young, Past
<1>12. ValueInv'
  BY DEF ValueInv, CallInv, NestInv, OwnInv, GenerationInv, CellInv, UseInv,
      Young, Past, LastStored, Agree, Storing, Current
<1>13. FreeInv'
  BY DEF FreeInv, CallInv, NestInv, OwnInv, GenerationInv, CellInv,
      NestedUseInv, Young, LastStored, Agree, Storing
<1>14. QED
  BY <1>2, <1>3, <1>4, <1>5, <1>6, <1>7, <1>8, <1>9, <1>10, <1>11, <1>12,
      <1>13

(* TlsSetValue or FlsSetValue is called. *)
LEMMA SetStep ==
  ASSUME IndInv, NEW a \in Actors, NEW r \in Slots, NEW v \in Pointers,
         pc[a] = "idle",
         MayCall(a),
         op' = [op EXCEPT ![a] = "set"],
         idx' = [idx EXCEPT ![a] = r],
         arg' = [arg EXCEPT ![a] = v],
         disturbed' = [disturbed EXCEPT ![a] = (state[r] # "allocated")],
         pc' = [pc EXCEPT ![a] = "before"],
         UNCHANGED <<state, generation, callback, cell, gen, val, cb, allocs,
                      tenancy, registered, stored, called, witness>>
  PROVE  IndInv'
<1> USE ActorFacts, StepKinds, KindFacts, LocalSlotsAssumption DEF IndInv
<1>1. /\ \A b \in Actors : op'[b] = IF b = a THEN "set" ELSE op[b]
      /\ \A b \in Actors : idx'[b] = IF b = a THEN r ELSE idx[b]
      /\ \A b \in Actors : arg'[b] = IF b = a THEN v ELSE arg[b]
      /\ \A b \in Actors :
            disturbed'[b] = IF b = a THEN (state[r] # "allocated")
                            ELSE disturbed[b]
      /\ \A b \in Actors : pc'[b] = IF b = a THEN "before" ELSE pc[b]
  BY DEF TypeOK
<1> USE <1>1, Typing
<1>2. TypeOK'
  BY TypeFacts, NameFacts DEF TypeOK, CallInv
<1>3. CallInv'
  BY DEF CallInv
<1>4. NestInv'
  <2> SUFFICES ASSUME NEW c \in Actors, NEW d \in Actors, Thread(c) = Thread(d),
                      c[2] < d[2], pc'[d] # "idle"
               PROVE  pc'[c] = "callback"
    BY DEF NestInv
  <2>1. CASE d = a
    BY <2>1, FamilyFacts DEF NestInv, MayCall
  <2>2. CASE d # a
    BY <2>2 DEF NestInv
  <2>3. QED
    BY <2>1, <2>2
<1>5. OwnInv'
  BY DEF OwnInv, CallInv
<1>6. DisturbInv'
  <2>1. disturbed'[a] <=> state[r] # "allocated"
    BY DEF TypeOK
  <2>2. \A b \in Actors \ {a} : disturbed'[b] <=> disturbed[b]
    BY DEF TypeOK
  <2>3. QED
    BY <2>1, <2>2 DEF DisturbInv
<1>7. NestedUseInv'
  BY DEF NestedUseInv, CallInv, NestInv, OwnInv
<1>8. CallbackInv'
  BY DEF CallbackInv, CallInv, OwnInv, RunsCallback
<1>9. GenerationInv'
  BY DEF GenerationInv, CallInv, OwnInv, Young
<1>10. CellInv'
  BY DEF CellInv, CallInv, NestInv, OwnInv, GenerationInv, UseInv, ValueInv,
      Young, Past, Agree, Storing
<1>11. UseInv'
  BY DEF UseInv, CallInv, NestInv, OwnInv, GenerationInv, CellInv, Young, Past
<1>12. ValueInv'
  BY DEF ValueInv, CallInv, NestInv, OwnInv, GenerationInv, CellInv, UseInv,
      Young, Past, LastStored, Agree, Storing, Current
<1>13. FreeInv'
  BY DEF FreeInv, CallInv, NestInv, OwnInv, GenerationInv, CellInv,
      NestedUseInv, Young, LastStored, Agree, Storing
<1>14. QED
  BY <1>2, <1>3, <1>4, <1>5, <1>6, <1>7, <1>8, <1>9, <1>10, <1>11, <1>12,
      <1>13

(* local_generation reads the generation. *)
LEMMA GenerationBeforeStep ==
  ASSUME IndInv, NEW a \in Actors,
         pc[a] = "before",
         gen' = [gen EXCEPT ![a] = generation[idx[a]]],
         pc' = [pc EXCEPT ![a] = "state"],
         UNCHANGED <<state, generation, callback, cell, op, idx, arg, val, cb,
                      allocs, tenancy, registered, stored, called, witness,
                      disturbed>>
  PROVE  IndInv'
<1> USE ActorFacts, StepKinds, KindFacts, LocalSlotsAssumption DEF IndInv
<1>1. /\ \A b \in Actors :
            gen'[b] = IF b = a THEN generation[idx[a]]
                      ELSE gen[b]
      /\ \A b \in Actors : pc'[b] = IF b = a THEN "state" ELSE pc[b]
  BY DEF TypeOK
<1> USE <1>1, Typing
<1>2. TypeOK'
  BY TypeFacts, NameFacts DEF TypeOK, CallInv
<1>3. CallInv'
  BY DEF CallInv
<1>4. NestInv'
  BY DEF NestInv
<1>5. OwnInv'
  BY DEF OwnInv, CallInv
<1>6. DisturbInv'
  BY DEF DisturbInv, CallInv, OwnInv
<1>7. NestedUseInv'
  BY DEF NestedUseInv, CallInv, NestInv, OwnInv
<1>8. CallbackInv'
  BY DEF CallbackInv, CallInv, OwnInv, RunsCallback
<1>9. GenerationInv'
  BY DEF GenerationInv, CallInv, OwnInv, Young
<1>10. CellInv'
  BY DEF CellInv, CallInv, NestInv, OwnInv, GenerationInv, UseInv, ValueInv,
      Young, Past, Agree, Storing
<1>11. UseInv'
  BY DEF UseInv, CallInv, NestInv, OwnInv, GenerationInv, CellInv, Young, Past
<1>12. ValueInv'
  BY DEF ValueInv, CallInv, NestInv, OwnInv, GenerationInv, CellInv, UseInv,
      Young, Past, LastStored, Agree, Storing, Current
<1>13. FreeInv'
  BY DEF FreeInv, CallInv, NestInv, OwnInv, GenerationInv, CellInv,
      NestedUseInv, Young, LastStored, Agree, Storing
<1>14. QED
  BY <1>2, <1>3, <1>4, <1>5, <1>6, <1>7, <1>8, <1>9, <1>10, <1>11, <1>12,
      <1>13

(* local_generation finds the slot allocated. *)
LEMMA GenerationLiveStep ==
  ASSUME IndInv, NEW a \in Actors,
         pc[a] = "state",
         state[idx[a]] = "allocated",
         pc' = [pc EXCEPT ![a] = "after"],
         UNCHANGED <<state, generation, callback, cell, op, idx, arg, gen,
                      val, cb, allocs, tenancy, registered, stored, called,
                      witness, disturbed>>
  PROVE  IndInv'
<1> USE ActorFacts, StepKinds, KindFacts, LocalSlotsAssumption DEF IndInv
<1>1. /\ \A b \in Actors : pc'[b] = IF b = a THEN "after" ELSE pc[b]
  BY DEF TypeOK
<1> USE <1>1, Typing
<1>2. TypeOK'
  BY TypeFacts, NameFacts DEF TypeOK, CallInv
<1>3. CallInv'
  BY DEF CallInv
<1>4. NestInv'
  BY DEF NestInv
<1>5. OwnInv'
  BY DEF OwnInv, CallInv
<1>6. DisturbInv'
  BY DEF DisturbInv, CallInv, OwnInv
<1>7. NestedUseInv'
  BY DEF NestedUseInv, CallInv, NestInv, OwnInv
<1>8. CallbackInv'
  BY DEF CallbackInv, CallInv, OwnInv, RunsCallback
<1>9. GenerationInv'
  BY DEF GenerationInv, CallInv, OwnInv, Young
<1>10. CellInv'
  BY DEF CellInv, CallInv, NestInv, OwnInv, GenerationInv, UseInv, ValueInv,
      Young, Past, Agree, Storing
<1>11. UseInv'
  BY DEF UseInv, CallInv, NestInv, OwnInv, GenerationInv, CellInv, Young, Past
<1>12. ValueInv'
  BY DEF ValueInv, CallInv, NestInv, OwnInv, GenerationInv, CellInv, UseInv,
      Young, Past, LastStored, Agree, Storing, Current
<1>13. FreeInv'
  BY DEF FreeInv, CallInv, NestInv, OwnInv, GenerationInv, CellInv,
      NestedUseInv, Young, LastStored, Agree, Storing
<1>14. QED
  BY <1>2, <1>3, <1>4, <1>5, <1>6, <1>7, <1>8, <1>9, <1>10, <1>11, <1>12,
      <1>13

(* local_generation finds the slot unallocated. *)
LEMMA GenerationDeadStep ==
  ASSUME IndInv, NEW a \in Actors,
         pc[a] = "state",
         state[idx[a]] # "allocated",
         pc' = [pc EXCEPT ![a] = "refused"],
         UNCHANGED <<state, generation, callback, cell, op, idx, arg, gen,
                      val, cb, allocs, tenancy, registered, stored, called,
                      witness, disturbed>>
  PROVE  IndInv'
<1> USE ActorFacts, StepKinds, KindFacts, LocalSlotsAssumption DEF IndInv
<1>1. /\ \A b \in Actors : pc'[b] = IF b = a THEN "refused" ELSE pc[b]
  BY DEF TypeOK
<1> USE <1>1, Typing
<1>2. TypeOK'
  BY TypeFacts, NameFacts DEF TypeOK, CallInv
<1>3. CallInv'
  BY DEF CallInv
<1>4. NestInv'
  BY DEF NestInv
<1>5. OwnInv'
  BY DEF OwnInv, CallInv
<1>6. DisturbInv'
  BY DEF DisturbInv, CallInv, OwnInv
<1>7. NestedUseInv'
  BY DEF NestedUseInv, CallInv, NestInv, OwnInv
<1>8. CallbackInv'
  BY DEF CallbackInv, CallInv, OwnInv, RunsCallback
<1>9. GenerationInv'
  BY DEF GenerationInv, CallInv, OwnInv, Young
<1>10. CellInv'
  BY DEF CellInv, CallInv, NestInv, OwnInv, GenerationInv, UseInv, ValueInv,
      Young, Past, Agree, Storing
<1>11. UseInv'
  BY DEF UseInv, CallInv, NestInv, OwnInv, GenerationInv, CellInv, Young, Past
<1>12. ValueInv'
  BY DEF ValueInv, CallInv, NestInv, OwnInv, GenerationInv, CellInv, UseInv,
      Young, Past, LastStored, Agree, Storing, Current
<1>13. FreeInv'
  BY DEF FreeInv, CallInv, NestInv, OwnInv, GenerationInv, CellInv,
      NestedUseInv, Young, LastStored, Agree, Storing
<1>14. QED
  BY <1>2, <1>3, <1>4, <1>5, <1>6, <1>7, <1>8, <1>9, <1>10, <1>11, <1>12,
      <1>13

(* The generation changed meanwhile: local_generation starts again. *)
LEMMA GenerationRetryStep ==
  ASSUME IndInv, NEW a \in Actors,
         pc[a] = "after",
         generation[idx[a]] # gen[a],
         pc' = [pc EXCEPT ![a] = "before"],
         UNCHANGED <<state, generation, callback, cell, op, idx, arg, gen,
                      val, cb, allocs, tenancy, registered, stored, called,
                      witness, disturbed>>
  PROVE  IndInv'
<1> USE ActorFacts, StepKinds, KindFacts, LocalSlotsAssumption DEF IndInv
<1>1. /\ \A b \in Actors : pc'[b] = IF b = a THEN "before" ELSE pc[b]
  BY DEF TypeOK
<1> USE <1>1, Typing
<1>2. TypeOK'
  BY TypeFacts, NameFacts DEF TypeOK, CallInv
<1>3. CallInv'
  BY DEF CallInv
<1>4. NestInv'
  BY DEF NestInv
<1>5. OwnInv'
  BY DEF OwnInv, CallInv
<1>6. DisturbInv'
  BY DEF DisturbInv, CallInv, OwnInv
<1>7. NestedUseInv'
  BY DEF NestedUseInv, CallInv, NestInv, OwnInv
<1>8. CallbackInv'
  BY DEF CallbackInv, CallInv, OwnInv, RunsCallback
<1>9. GenerationInv'
  BY DEF GenerationInv, CallInv, OwnInv, Young
<1>10. CellInv'
  BY DEF CellInv, CallInv, NestInv, OwnInv, GenerationInv, UseInv, ValueInv,
      Young, Past, Agree, Storing
<1>11. UseInv'
  BY DEF UseInv, CallInv, NestInv, OwnInv, GenerationInv, CellInv, Young, Past
<1>12. ValueInv'
  BY DEF ValueInv, CallInv, NestInv, OwnInv, GenerationInv, CellInv, UseInv,
      Young, Past, LastStored, Agree, Storing, Current
<1>13. FreeInv'
  BY DEF FreeInv, CallInv, NestInv, OwnInv, GenerationInv, CellInv,
      NestedUseInv, Young, LastStored, Agree, Storing
<1>14. QED
  BY <1>2, <1>3, <1>4, <1>5, <1>6, <1>7, <1>8, <1>9, <1>10, <1>11, <1>12,
      <1>13

(* The generation is stable: local_get goes on. *)
LEMMA GenerationGetStep ==
  ASSUME IndInv, NEW a \in Actors,
         pc[a] = "after",
         generation[idx[a]] = gen[a],
         op[a] = "get",
         pc' = [pc EXCEPT ![a] = "get_value"],
         UNCHANGED <<state, generation, callback, cell, op, idx, arg, gen,
                      val, cb, allocs, tenancy, registered, stored, called,
                      witness, disturbed>>
  PROVE  IndInv'
<1> USE ActorFacts, StepKinds, KindFacts, LocalSlotsAssumption DEF IndInv
<1>1. /\ \A b \in Actors : pc'[b] = IF b = a THEN "get_value" ELSE pc[b]
  BY DEF TypeOK
<1> USE <1>1, Typing
<1>2. TypeOK'
  BY TypeFacts, NameFacts DEF TypeOK, CallInv
<1>3. CallInv'
  BY DEF CallInv
<1>4. NestInv'
  BY DEF NestInv
<1>5. OwnInv'
  BY DEF OwnInv, CallInv
<1>6. DisturbInv'
  BY DEF DisturbInv, CallInv, OwnInv
<1>7. NestedUseInv'
  BY DEF NestedUseInv, CallInv, NestInv, OwnInv
<1>8. CallbackInv'
  BY DEF CallbackInv, CallInv, OwnInv, RunsCallback
<1>9. GenerationInv'
  BY DEF GenerationInv, CallInv, OwnInv, Young
<1>10. CellInv'
  BY DEF CellInv, CallInv, NestInv, OwnInv, GenerationInv, UseInv, ValueInv,
      Young, Past, Agree, Storing
<1>11. UseInv'
  BY DEF UseInv, CallInv, NestInv, OwnInv, GenerationInv, CellInv, Young, Past
<1>12. ValueInv'
  BY DEF ValueInv, CallInv, NestInv, OwnInv, GenerationInv, CellInv, UseInv,
      Young, Past, LastStored, Agree, Storing, Current
<1>13. FreeInv'
  BY DEF FreeInv, CallInv, NestInv, OwnInv, GenerationInv, CellInv,
      NestedUseInv, Young, LastStored, Agree, Storing
<1>14. QED
  BY <1>2, <1>3, <1>4, <1>5, <1>6, <1>7, <1>8, <1>9, <1>10, <1>11, <1>12,
      <1>13

(* The generation is stable: local_set goes on. *)
LEMMA GenerationSetStep ==
  ASSUME IndInv, NEW a \in Actors,
         pc[a] = "after",
         generation[idx[a]] = gen[a],
         op[a] = "set",
         pc' = [pc EXCEPT ![a] = "set_value"],
         UNCHANGED <<state, generation, callback, cell, op, idx, arg, gen,
                      val, cb, allocs, tenancy, registered, stored, called,
                      witness, disturbed>>
  PROVE  IndInv'
<1> USE ActorFacts, StepKinds, KindFacts, LocalSlotsAssumption DEF IndInv
<1>1. /\ \A b \in Actors : pc'[b] = IF b = a THEN "set_value" ELSE pc[b]
  BY DEF TypeOK
<1> USE <1>1, Typing
<1>2. TypeOK'
  BY TypeFacts, NameFacts DEF TypeOK, CallInv
<1>3. CallInv'
  BY DEF CallInv
<1>4. NestInv'
  BY DEF NestInv
<1>5. OwnInv'
  BY DEF OwnInv, CallInv
<1>6. DisturbInv'
  BY DEF DisturbInv, CallInv, OwnInv
<1>7. NestedUseInv'
  BY DEF NestedUseInv, CallInv, NestInv, OwnInv
<1>8. CallbackInv'
  BY DEF CallbackInv, CallInv, OwnInv, RunsCallback
<1>9. GenerationInv'
  BY DEF GenerationInv, CallInv, OwnInv, Young
<1>10. CellInv'
  BY DEF CellInv, CallInv, NestInv, OwnInv, GenerationInv, UseInv, ValueInv,
      Young, Past, Agree, Storing
<1>11. UseInv'
  BY DEF UseInv, CallInv, NestInv, OwnInv, GenerationInv, CellInv, Young, Past
<1>12. ValueInv'
  BY DEF ValueInv, CallInv, NestInv, OwnInv, GenerationInv, CellInv, UseInv,
      Young, Past, LastStored, Agree, Storing, Current
<1>13. FreeInv'
  BY DEF FreeInv, CallInv, NestInv, OwnInv, GenerationInv, CellInv,
      NestedUseInv, Young, LastStored, Agree, Storing
<1>14. QED
  BY <1>2, <1>3, <1>4, <1>5, <1>6, <1>7, <1>8, <1>9, <1>10, <1>11, <1>12,
      <1>13

(* local_get reads the thread's own cell. *)
LEMMA GetValueStep ==
  ASSUME IndInv, NEW a \in Actors,
         pc[a] = "get_value",
         val' = [val EXCEPT ![a] = Current(a, gen[a])],
         pc' = [pc EXCEPT ![a] = "confirm"],
         UNCHANGED <<state, generation, callback, cell, op, idx, arg, gen, cb,
                      allocs, tenancy, registered, stored, called, witness,
                      disturbed>>
  PROVE  IndInv'
<1> USE ActorFacts, StepKinds, KindFacts, LocalSlotsAssumption DEF IndInv
<1>1. /\ \A b \in Actors :
            val'[b] = IF b = a THEN Current(a, gen[a])
                      ELSE val[b]
      /\ \A b \in Actors : pc'[b] = IF b = a THEN "confirm" ELSE pc[b]
  BY DEF TypeOK
<1> USE <1>1, Typing
<1>2. TypeOK'
  BY NameFacts, TypeFacts, CurrentType DEF TypeOK
<1>3. CallInv'
  BY DEF CallInv
<1>4. NestInv'
  BY DEF NestInv
<1>5. OwnInv'
  BY DEF OwnInv, CallInv
<1>6. DisturbInv'
  BY DEF DisturbInv, CallInv, OwnInv
<1>7. NestedUseInv'
  BY DEF NestedUseInv, CallInv, NestInv, OwnInv
<1>8. CallbackInv'
  BY DEF CallbackInv, CallInv, OwnInv, RunsCallback
<1>9. GenerationInv'
  BY DEF GenerationInv, CallInv, OwnInv, Young
<1>10. CellInv'
  BY DEF CellInv, CallInv, NestInv, OwnInv, GenerationInv, UseInv, ValueInv,
      Young, Past, Agree, Storing
<1>11. UseInv'
  BY DEF UseInv, CallInv, NestInv, OwnInv, GenerationInv, CellInv, Young, Past
<1>12. ValueInv'
  BY DEF ValueInv, CallInv, NestInv, OwnInv, GenerationInv, CellInv, UseInv,
      Young, Past, LastStored, Agree, Storing, Current
<1>13. FreeInv'
  BY DEF FreeInv, CallInv, NestInv, OwnInv, GenerationInv, CellInv,
      NestedUseInv, Young, LastStored, Agree, Storing
<1>14. QED
  BY <1>2, <1>3, <1>4, <1>5, <1>6, <1>7, <1>8, <1>9, <1>10, <1>11, <1>12,
      <1>13

(* local_set writes the thread's own cell. *)
LEMMA SetValueStep ==
  ASSUME IndInv, NEW a \in Actors,
         pc[a] = "set_value",
         cell' = [cell EXCEPT ![Thread(a)][idx[a]] = [value |-> arg[a], generation |-> gen[a]]],
         pc' = [pc EXCEPT ![a] = "confirm"],
         UNCHANGED <<state, generation, callback, op, idx, arg, gen, val, cb,
                      allocs, tenancy, registered, stored, called, witness,
                      disturbed>>
  PROVE  IndInv'
<1> USE ActorFacts, StepKinds, KindFacts, LocalSlotsAssumption DEF IndInv
<1>1. /\ \A t \in Threads, s \in Slots :
            cell'[t][s] = IF t = Thread(a) /\ s = idx[a] THEN [value |-> arg[a], generation |-> gen[a]]
                        ELSE cell[t][s]
      /\ \A b \in Actors : pc'[b] = IF b = a THEN "confirm" ELSE pc[b]
  BY DEF TypeOK
<1> USE <1>1, Typing
<1>2. TypeOK'
  BY TypeFacts, NameFacts DEF TypeOK, CallInv
<1>3. CallInv'
  BY DEF CallInv
<1>4. NestInv'
  BY DEF NestInv
<1>5. OwnInv'
  BY DEF OwnInv, CallInv
<1>6. DisturbInv'
  BY DEF DisturbInv, CallInv, OwnInv
<1>7. NestedUseInv'
  BY DEF NestedUseInv, CallInv, NestInv, OwnInv
<1>8. CallbackInv'
  BY DEF CallbackInv, CallInv, OwnInv, RunsCallback
<1>9. GenerationInv'
  BY DEF GenerationInv, CallInv, OwnInv, Young
<1>10. CellInv'
  BY DEF CellInv, CallInv, NestInv, OwnInv, GenerationInv, UseInv, ValueInv,
      Young, Past, Agree, Storing
<1>11. UseInv'
  BY DEF UseInv, CallInv, NestInv, OwnInv, GenerationInv, CellInv, Young, Past
<1>12. ValueInv'
  <2>0. \A b \in Actors \ {a} :
           Thread(b) = Thread(a) => pc[b] \in {"idle", "callback"}
    BY OneActive
  <2> SUFFICES ASSUME NEW b \in Actors, Young(idx[b])'
               PROVE  (/\ pc[b] \in Checking /\ op[b] = "set" =>
                             cell[Thread(b)][idx[b]] =
                                 [value |-> arg[b], generation |-> gen[b]]
                       /\ pc[b] = "confirm" /\ op[b] = "get" =>
                             val[b] = Current(b, gen[b])
                       /\ pc[b] = "recheck" /\ op[b] = "get" /\ gen[b] = witness[b] =>
                             val[b] = LastStored(Thread(b), idx[b], witness[b])
                       /\ pc[b] = "granted" /\ op[b] = "get" =>
                             val[b] = LastStored(Thread(b), idx[b], witness[b]))'
    BY DEF ValueInv
  <2>1. CASE b = a
    BY <2>1
       DEF ValueInv, Young, Current, LastStored, UseInv, CellInv, Agree,
           Storing, NestInv, GenerationInv, OwnInv, Past, CallInv
  <2>2. CASE b # a
    BY <2>0, <2>2 DEF ValueInv, Young, Current, LastStored, NestInv, CallInv
  <2>3. QED
    BY <2>1, <2>2
<1>13. FreeInv'
  <2>0. \A b \in Actors \ {a} :
           Thread(b) = Thread(a) => pc[b] \in {"idle", "callback"}
    BY OneActive
  <2> SUFFICES ASSUME NEW b \in Actors, Young(idx[b])'
               PROVE  (/\ pc[b] = "free_value" => Agree(Thread(b), idx[b])
                       /\ pc[b] \in Taken =>
                             val[b] = LastStored(Thread(b), idx[b], tenancy[idx[b]]))'
    BY DEF FreeInv
  <2>1. CASE b = a
    BY <2>1
       DEF FreeInv, Young, Agree, LastStored, CellInv, Storing, NestInv,
           GenerationInv, OwnInv, CallInv, Current
  <2>2. CASE b # a
    BY <2>0, <2>2
       DEF FreeInv, Young, Agree, LastStored, NestInv, CallInv, OwnInv,
           NestedUseInv
  <2>3. QED
    BY <2>1, <2>2
<1>14. QED
  BY <1>2, <1>3, <1>4, <1>5, <1>6, <1>7, <1>8, <1>9, <1>10, <1>11, <1>12,
      <1>13

(* The slot is still allocated after the cell was used. *)
LEMMA ConfirmLiveStep ==
  ASSUME IndInv, NEW a \in Actors,
         pc[a] = "confirm",
         state[idx[a]] = "allocated",
         witness' = [witness EXCEPT ![a] = tenancy[idx[a]]],
         pc' = [pc EXCEPT ![a] = "recheck"],
         UNCHANGED <<state, generation, callback, cell, op, idx, arg, gen,
                      val, cb, allocs, tenancy, registered, stored, called,
                      disturbed>>
  PROVE  IndInv'
<1> USE ActorFacts, StepKinds, KindFacts, LocalSlotsAssumption DEF IndInv
<1>1. /\ \A b \in Actors :
            witness'[b] = IF b = a THEN tenancy[idx[a]]
                          ELSE witness[b]
      /\ \A b \in Actors : pc'[b] = IF b = a THEN "recheck" ELSE pc[b]
  BY DEF TypeOK
<1> USE <1>1, Typing
<1>2. TypeOK'
  BY TypeFacts, NameFacts DEF TypeOK, CallInv
<1>3. CallInv'
  BY DEF CallInv
<1>4. NestInv'
  BY DEF NestInv
<1>5. OwnInv'
  BY DEF OwnInv, CallInv
<1>6. DisturbInv'
  BY DEF DisturbInv, CallInv, OwnInv
<1>7. NestedUseInv'
  BY DEF NestedUseInv, CallInv, NestInv, OwnInv
<1>8. CallbackInv'
  BY DEF CallbackInv, CallInv, OwnInv, RunsCallback
<1>9. GenerationInv'
  BY DEF GenerationInv, CallInv, OwnInv, Young
<1>10. CellInv'
  BY DEF CellInv, CallInv, NestInv, OwnInv, GenerationInv, UseInv, ValueInv,
      Young, Past, Agree, Storing
<1>11. UseInv'
  BY DEF UseInv, CallInv, NestInv, OwnInv, GenerationInv, CellInv, Young, Past
<1>12. ValueInv'
  <2>0. op[a] = "get" => ~Storing(Thread(a), idx[a])
    BY OneActive DEF Storing, CallInv
  <2> SUFFICES ASSUME NEW b \in Actors, Young(idx[b])'
               PROVE  (/\ pc[b] \in Checking /\ op[b] = "set" =>
                             cell[Thread(b)][idx[b]] =
                                 [value |-> arg[b], generation |-> gen[b]]
                       /\ pc[b] = "confirm" /\ op[b] = "get" =>
                             val[b] = Current(b, gen[b])
                       /\ pc[b] = "recheck" /\ op[b] = "get" /\ gen[b] = witness[b] =>
                             val[b] = LastStored(Thread(b), idx[b], witness[b])
                       /\ pc[b] = "granted" /\ op[b] = "get" =>
                             val[b] = LastStored(Thread(b), idx[b], witness[b]))'
    BY DEF ValueInv
  <2>1. CASE b = a
    BY <2>0, <2>1
       DEF ValueInv, Young, Current, LastStored, UseInv, CellInv, Agree,
           Storing, NestInv, GenerationInv, OwnInv, Past, CallInv
  <2>2. CASE b # a
    BY <2>2 DEF ValueInv, Young, Current, LastStored, NestInv, CallInv
  <2>3. QED
    BY <2>1, <2>2
<1>13. FreeInv'
  BY DEF FreeInv, CallInv, NestInv, OwnInv, GenerationInv, CellInv,
      NestedUseInv, Young, LastStored, Agree, Storing
<1>14. QED
  BY <1>2, <1>3, <1>4, <1>5, <1>6, <1>7, <1>8, <1>9, <1>10, <1>11, <1>12,
      <1>13

(* The slot is not allocated any more: local_get fails. *)
LEMMA ConfirmGetStep ==
  ASSUME IndInv, NEW a \in Actors,
         pc[a] = "confirm",
         state[idx[a]] # "allocated",
         op[a] = "get",
         pc' = [pc EXCEPT ![a] = "refused"],
         UNCHANGED <<state, generation, callback, cell, op, idx, arg, gen,
                      val, cb, allocs, tenancy, registered, stored, called,
                      witness, disturbed>>
  PROVE  IndInv'
<1> USE ActorFacts, StepKinds, KindFacts, LocalSlotsAssumption DEF IndInv
<1>1. /\ \A b \in Actors : pc'[b] = IF b = a THEN "refused" ELSE pc[b]
  BY DEF TypeOK
<1> USE <1>1, Typing
<1>2. TypeOK'
  BY TypeFacts, NameFacts DEF TypeOK, CallInv
<1>3. CallInv'
  BY DEF CallInv
<1>4. NestInv'
  BY DEF NestInv
<1>5. OwnInv'
  BY DEF OwnInv, CallInv
<1>6. DisturbInv'
  BY DEF DisturbInv, CallInv, OwnInv
<1>7. NestedUseInv'
  BY DEF NestedUseInv, CallInv, NestInv, OwnInv
<1>8. CallbackInv'
  BY DEF CallbackInv, CallInv, OwnInv, RunsCallback
<1>9. GenerationInv'
  BY DEF GenerationInv, CallInv, OwnInv, Young
<1>10. CellInv'
  BY DEF CellInv, CallInv, NestInv, OwnInv, GenerationInv, UseInv, ValueInv,
      Young, Past, Agree, Storing
<1>11. UseInv'
  BY DEF UseInv, CallInv, NestInv, OwnInv, GenerationInv, CellInv, Young, Past
<1>12. ValueInv'
  BY DEF ValueInv, CallInv, NestInv, OwnInv, GenerationInv, CellInv, UseInv,
      Young, Past, LastStored, Agree, Storing, Current
<1>13. FreeInv'
  BY DEF FreeInv, CallInv, NestInv, OwnInv, GenerationInv, CellInv,
      NestedUseInv, Young, LastStored, Agree, Storing
<1>14. QED
  BY <1>2, <1>3, <1>4, <1>5, <1>6, <1>7, <1>8, <1>9, <1>10, <1>11, <1>12,
      <1>13

(* The slot is not allocated any more: local_set withdraws its value. *)
LEMMA ConfirmSetStep ==
  ASSUME IndInv, NEW a \in Actors,
         pc[a] = "confirm",
         state[idx[a]] # "allocated",
         op[a] = "set",
         cell' = [cell EXCEPT ![Thread(a)][idx[a]] = EmptyCell],
         pc' = [pc EXCEPT ![a] = "refused"],
         UNCHANGED <<state, generation, callback, op, idx, arg, gen, val, cb,
                      allocs, tenancy, registered, stored, called, witness,
                      disturbed>>
  PROVE  IndInv'
<1> USE ActorFacts, StepKinds, KindFacts, LocalSlotsAssumption DEF IndInv
<1>1. /\ \A t \in Threads, s \in Slots :
            cell'[t][s] = IF t = Thread(a) /\ s = idx[a] THEN EmptyCell
                        ELSE cell[t][s]
      /\ \A b \in Actors : pc'[b] = IF b = a THEN "refused" ELSE pc[b]
  BY DEF TypeOK
<1> USE <1>1, Typing
<1>2. TypeOK'
  BY TypeFacts, NameFacts DEF TypeOK, CallInv
<1>3. CallInv'
  BY DEF CallInv
<1>4. NestInv'
  BY DEF NestInv
<1>5. OwnInv'
  BY DEF OwnInv, CallInv
<1>6. DisturbInv'
  BY DEF DisturbInv, CallInv, OwnInv
<1>7. NestedUseInv'
  BY DEF NestedUseInv, CallInv, NestInv, OwnInv
<1>8. CallbackInv'
  BY DEF CallbackInv, CallInv, OwnInv, RunsCallback
<1>9. GenerationInv'
  BY DEF GenerationInv, CallInv, OwnInv, Young
<1>10. CellInv'
  <2> SUFFICES ASSUME NEW t \in Threads, NEW s \in Slots, Young(s)'
               PROVE  /\ Past(cell[t][s].generation, s)'
                      /\ Past(stored[t][s].tenancy, s)'
                      /\ (state[s] = "allocated" /\ ~Storing(t, s) => Agree(t, s))'
    BY DEF CellInv
  <2>1. Young(s)
    BY DEF Young
  <2>2. Past(cell[t][s].generation, s)'
    BY <2>1 DEF EmptyCell, CellInv, Past
  <2>3. Past(stored[t][s].tenancy, s)'
    BY <2>1 DEF CellInv, Past
  <2>4. (state[s] = "allocated" /\ ~Storing(t, s) => Agree(t, s))'
    BY <2>1 DEF CellInv, Agree, Storing
  <2>5. QED
    BY <2>2, <2>3, <2>4
<1>11. UseInv'
  BY DEF UseInv, CallInv, NestInv, OwnInv, GenerationInv, CellInv, Young, Past
<1>12. ValueInv'
  <2>0. \A b \in Actors \ {a} :
           Thread(b) = Thread(a) => pc[b] \in {"idle", "callback"}
    BY OneActive
  <2> SUFFICES ASSUME NEW b \in Actors, Young(idx[b])'
               PROVE  (/\ pc[b] \in Checking /\ op[b] = "set" =>
                             cell[Thread(b)][idx[b]] =
                                 [value |-> arg[b], generation |-> gen[b]]
                       /\ pc[b] = "confirm" /\ op[b] = "get" =>
                             val[b] = Current(b, gen[b])
                       /\ pc[b] = "recheck" /\ op[b] = "get" /\ gen[b] = witness[b] =>
                             val[b] = LastStored(Thread(b), idx[b], witness[b])
                       /\ pc[b] = "granted" /\ op[b] = "get" =>
                             val[b] = LastStored(Thread(b), idx[b], witness[b]))'
    BY DEF ValueInv
  <2>1. CASE b = a
    BY <2>1
       DEF ValueInv, Young, Current, LastStored, UseInv, CellInv, Agree,
           Storing, NestInv, GenerationInv, OwnInv, Past, CallInv
  <2>2. CASE b # a
    BY <2>0, <2>2 DEF ValueInv, Young, Current, LastStored, NestInv, CallInv
  <2>3. QED
    BY <2>1, <2>2
<1>13. FreeInv'
  <2>0. \A b \in Actors \ {a} :
           Thread(b) = Thread(a) => pc[b] \in {"idle", "callback"}
    BY OneActive
  <2> SUFFICES ASSUME NEW b \in Actors, Young(idx[b])'
               PROVE  (/\ pc[b] = "free_value" => Agree(Thread(b), idx[b])
                       /\ pc[b] \in Taken =>
                             val[b] = LastStored(Thread(b), idx[b], tenancy[idx[b]]))'
    BY DEF FreeInv
  <2>1. CASE b = a
    BY <2>1
       DEF FreeInv, Young, Agree, LastStored, CellInv, Storing, NestInv,
           GenerationInv, OwnInv, CallInv, Current
  <2>2. CASE b # a
    BY <2>0, <2>2
       DEF FreeInv, Young, Agree, LastStored, NestInv, CallInv, OwnInv,
           NestedUseInv
  <2>3. QED
    BY <2>1, <2>2
<1>14. QED
  BY <1>2, <1>3, <1>4, <1>5, <1>6, <1>7, <1>8, <1>9, <1>10, <1>11, <1>12,
      <1>13

(* The generation is still the same: local_get succeeds. *)
LEMMA RecheckGetStep ==
  ASSUME IndInv, NEW a \in Actors,
         pc[a] = "recheck",
         generation[idx[a]] = gen[a],
         op[a] = "get",
         pc' = [pc EXCEPT ![a] = "granted"],
         UNCHANGED <<state, generation, callback, cell, op, idx, arg, gen,
                      val, cb, allocs, tenancy, registered, stored, called,
                      witness, disturbed>>
  PROVE  IndInv'
<1> USE ActorFacts, StepKinds, KindFacts, LocalSlotsAssumption DEF IndInv
<1>1. /\ \A b \in Actors : pc'[b] = IF b = a THEN "granted" ELSE pc[b]
  BY DEF TypeOK
<1> USE <1>1, Typing
<1>2. TypeOK'
  BY TypeFacts, NameFacts DEF TypeOK, CallInv
<1>3. CallInv'
  BY DEF CallInv
<1>4. NestInv'
  BY DEF NestInv
<1>5. OwnInv'
  BY DEF OwnInv, CallInv
<1>6. DisturbInv'
  BY DEF DisturbInv, CallInv, OwnInv
<1>7. NestedUseInv'
  BY DEF NestedUseInv, CallInv, NestInv, OwnInv
<1>8. CallbackInv'
  BY DEF CallbackInv, CallInv, OwnInv, RunsCallback
<1>9. GenerationInv'
  BY DEF GenerationInv, CallInv, OwnInv, Young
<1>10. CellInv'
  BY DEF CellInv, CallInv, NestInv, OwnInv, GenerationInv, UseInv, ValueInv,
      Young, Past, Agree, Storing
<1>11. UseInv'
  BY DEF UseInv, CallInv, NestInv, OwnInv, GenerationInv, CellInv, Young, Past
<1>12. ValueInv'
  <2>0. op[a] = "get" => ~Storing(Thread(a), idx[a])
    BY OneActive DEF Storing, CallInv
  <2> SUFFICES ASSUME NEW b \in Actors, Young(idx[b])'
               PROVE  (/\ pc[b] \in Checking /\ op[b] = "set" =>
                             cell[Thread(b)][idx[b]] =
                                 [value |-> arg[b], generation |-> gen[b]]
                       /\ pc[b] = "confirm" /\ op[b] = "get" =>
                             val[b] = Current(b, gen[b])
                       /\ pc[b] = "recheck" /\ op[b] = "get" /\ gen[b] = witness[b] =>
                             val[b] = LastStored(Thread(b), idx[b], witness[b])
                       /\ pc[b] = "granted" /\ op[b] = "get" =>
                             val[b] = LastStored(Thread(b), idx[b], witness[b]))'
    BY DEF ValueInv
  <2>1. CASE b = a
    <3>1. Young(idx[a])
      BY <2>1 DEF Young
    <3>2. gen[a] = witness[a]
      BY <3>1, RecheckAgrees
    <3>3. val[a] = LastStored(Thread(a), idx[a], witness[a])
      BY <3>1, <3>2 DEF ValueInv
    <3>4. QED
      BY <2>1, <3>3 DEF LastStored
  <2>2. CASE b # a
    BY <2>2 DEF ValueInv, Young, Current, LastStored, NestInv, CallInv
  <2>3. QED
    BY <2>1, <2>2
<1>13. FreeInv'
  BY DEF FreeInv, CallInv, NestInv, OwnInv, GenerationInv, CellInv,
      NestedUseInv, Young, LastStored, Agree, Storing
<1>14. QED
  BY <1>2, <1>3, <1>4, <1>5, <1>6, <1>7, <1>8, <1>9, <1>10, <1>11, <1>12,
      <1>13

(* The generation is still the same: local_set succeeds. *)
LEMMA RecheckSetStep ==
  ASSUME IndInv, NEW a \in Actors,
         pc[a] = "recheck",
         generation[idx[a]] = gen[a],
         op[a] = "set",
         stored' = [stored EXCEPT ![Thread(a)][idx[a]] = [value |-> arg[a], tenancy |-> witness[a]]],
         pc' = [pc EXCEPT ![a] = "granted"],
         UNCHANGED <<state, generation, callback, cell, op, idx, arg, gen,
                      val, cb, allocs, tenancy, registered, called, witness,
                      disturbed>>
  PROVE  IndInv'
<1> USE ActorFacts, StepKinds, KindFacts, LocalSlotsAssumption DEF IndInv
<1>1. /\ \A t \in Threads, s \in Slots :
            stored'[t][s] = IF t = Thread(a) /\ s = idx[a] THEN [value |-> arg[a], tenancy |-> witness[a]]
                        ELSE stored[t][s]
      /\ \A b \in Actors : pc'[b] = IF b = a THEN "granted" ELSE pc[b]
  BY DEF TypeOK
<1> USE <1>1, Typing
<1>2. TypeOK'
  BY TypeFacts, NameFacts DEF TypeOK, CallInv
<1>3. CallInv'
  BY DEF CallInv
<1>4. NestInv'
  BY DEF NestInv
<1>5. OwnInv'
  BY DEF OwnInv, CallInv
<1>6. DisturbInv'
  BY DEF DisturbInv, CallInv, OwnInv
<1>7. NestedUseInv'
  BY DEF NestedUseInv, CallInv, NestInv, OwnInv
<1>8. CallbackInv'
  BY DEF CallbackInv, CallInv, OwnInv, RunsCallback
<1>9. GenerationInv'
  BY DEF GenerationInv, CallInv, OwnInv, Young
<1>10. CellInv'
  <2> SUFFICES ASSUME NEW t \in Threads, NEW s \in Slots, Young(s)'
               PROVE  /\ Past(cell[t][s].generation, s)'
                      /\ Past(stored[t][s].tenancy, s)'
                      /\ (state[s] = "allocated" /\ ~Storing(t, s) => Agree(t, s))'
    BY DEF CellInv
  <2>1. Young(s)
    BY DEF Young
  <2>2. Past(cell[t][s].generation, s)'
    BY <2>1 DEF CellInv, Past
  <2>3. Past(stored[t][s].tenancy, s)'
    BY <2>1 DEF CellInv, Past, UseInv, Young, CallInv
  <2>4. ASSUME state[s] = "allocated", ~Storing(t, s)'
        PROVE  Agree(t, s)'
    <3>1. CASE t = Thread(a) /\ s = idx[a]
      <4>1. gen[a] = witness[a]
        BY <2>1, <3>1, RecheckAgrees
      <4>2. cell[t][s] = [value |-> arg[a], generation |-> gen[a]]
        BY <2>1, <3>1 DEF ValueInv
      <4>3. QED
        BY <3>1, <4>1, <4>2 DEF Agree
    <3>2. CASE ~(t = Thread(a) /\ s = idx[a])
      <4>1. ~Storing(t, s)
        BY <2>4, <3>2 DEF Storing
      <4>2. QED
        BY <2>1, <2>4, <3>2, <4>1 DEF CellInv, Agree
    <3>3. QED
      BY <3>1, <3>2
  <2>5. QED
    BY <2>2, <2>3, <2>4
<1>11. UseInv'
  <2>0. \A b \in Actors \ {a} :
           Thread(b) = Thread(a) => pc[b] \in {"idle", "callback"}
    BY OneActive
  <2> SUFFICES ASSUME NEW b \in Actors, (op[b] \in Accesses /\ Young(idx[b]))'
               PROVE  (/\ pc[b] = "state" => gen[b] <= tenancy[idx[b]]
                       /\ pc[b] \in Settled => Past(gen[b], idx[b]) /\ Past(1, idx[b])
                       /\ pc[b] \in Using =>
                             /\ gen[b] >= 1
                             /\ stored[Thread(b)][idx[b]].tenancy <= gen[b]
                       /\ pc[b] = "recheck" =>
                             Past(witness[b], idx[b]) /\ gen[b] <= witness[b])'
    BY DEF UseInv
  <2>1. CASE b = a
    BY <2>1 DEF UseInv, Young, Past, GenerationInv, OwnInv, CellInv
  <2>2. CASE b # a
    BY <2>0, <2>2 DEF UseInv, Young, Past, NestInv, CallInv
  <2>3. QED
    BY <2>1, <2>2
<1>12. ValueInv'
  <2>0. \A b \in Actors \ {a} :
           Thread(b) = Thread(a) => pc[b] \in {"idle", "callback"}
    BY OneActive
  <2> SUFFICES ASSUME NEW b \in Actors, Young(idx[b])'
               PROVE  (/\ pc[b] \in Checking /\ op[b] = "set" =>
                             cell[Thread(b)][idx[b]] =
                                 [value |-> arg[b], generation |-> gen[b]]
                       /\ pc[b] = "confirm" /\ op[b] = "get" =>
                             val[b] = Current(b, gen[b])
                       /\ pc[b] = "recheck" /\ op[b] = "get" /\ gen[b] = witness[b] =>
                             val[b] = LastStored(Thread(b), idx[b], witness[b])
                       /\ pc[b] = "granted" /\ op[b] = "get" =>
                             val[b] = LastStored(Thread(b), idx[b], witness[b]))'
    BY DEF ValueInv
  <2>1. CASE b = a
    BY <2>1
       DEF ValueInv, Young, Current, LastStored, UseInv, CellInv, Agree,
           Storing, NestInv, GenerationInv, OwnInv, Past, CallInv
  <2>2. CASE b # a
    BY <2>0, <2>2 DEF ValueInv, Young, Current, LastStored, NestInv, CallInv
  <2>3. QED
    BY <2>1, <2>2
<1>13. FreeInv'
  <2>0. \A b \in Actors \ {a} :
           Thread(b) = Thread(a) => pc[b] \in {"idle", "callback"}
    BY OneActive
  <2> SUFFICES ASSUME NEW b \in Actors, Young(idx[b])'
               PROVE  (/\ pc[b] = "free_value" => Agree(Thread(b), idx[b])
                       /\ pc[b] \in Taken =>
                             val[b] = LastStored(Thread(b), idx[b], tenancy[idx[b]]))'
    BY DEF FreeInv
  <2>1. CASE b = a
    BY <2>1
       DEF FreeInv, Young, Agree, LastStored, CellInv, Storing, NestInv,
           GenerationInv, OwnInv, CallInv, Current
  <2>2. CASE b # a
    BY <2>0, <2>2
       DEF FreeInv, Young, Agree, LastStored, NestInv, CallInv, OwnInv,
           NestedUseInv
  <2>3. QED
    BY <2>1, <2>2
<1>14. QED
  BY <1>2, <1>3, <1>4, <1>5, <1>6, <1>7, <1>8, <1>9, <1>10, <1>11, <1>12,
      <1>13

(* The generation is another one: local_get fails. *)
LEMMA RejectGetStep ==
  ASSUME IndInv, NEW a \in Actors,
         pc[a] = "recheck",
         generation[idx[a]] # gen[a],
         op[a] = "get",
         pc' = [pc EXCEPT ![a] = "refused"],
         UNCHANGED <<state, generation, callback, cell, op, idx, arg, gen,
                      val, cb, allocs, tenancy, registered, stored, called,
                      witness, disturbed>>
  PROVE  IndInv'
<1> USE ActorFacts, StepKinds, KindFacts, LocalSlotsAssumption DEF IndInv
<1>1. /\ \A b \in Actors : pc'[b] = IF b = a THEN "refused" ELSE pc[b]
  BY DEF TypeOK
<1> USE <1>1, Typing
<1>2. TypeOK'
  BY TypeFacts, NameFacts DEF TypeOK, CallInv
<1>3. CallInv'
  BY DEF CallInv
<1>4. NestInv'
  BY DEF NestInv
<1>5. OwnInv'
  BY DEF OwnInv, CallInv
<1>6. DisturbInv'
  BY DEF DisturbInv, CallInv, OwnInv
<1>7. NestedUseInv'
  BY DEF NestedUseInv, CallInv, NestInv, OwnInv
<1>8. CallbackInv'
  BY DEF CallbackInv, CallInv, OwnInv, RunsCallback
<1>9. GenerationInv'
  BY DEF GenerationInv, CallInv, OwnInv, Young
<1>10. CellInv'
  BY DEF CellInv, CallInv, NestInv, OwnInv, GenerationInv, UseInv, ValueInv,
      Young, Past, Agree, Storing
<1>11. UseInv'
  BY DEF UseInv, CallInv, NestInv, OwnInv, GenerationInv, CellInv, Young, Past
<1>12. ValueInv'
  BY DEF ValueInv, CallInv, NestInv, OwnInv, GenerationInv, CellInv, UseInv,
      Young, Past, LastStored, Agree, Storing, Current
<1>13. FreeInv'
  BY DEF FreeInv, CallInv, NestInv, OwnInv, GenerationInv, CellInv,
      NestedUseInv, Young, LastStored, Agree, Storing
<1>14. QED
  BY <1>2, <1>3, <1>4, <1>5, <1>6, <1>7, <1>8, <1>9, <1>10, <1>11, <1>12,
      <1>13

(* The generation is another one: local_set withdraws its value. *)
LEMMA RejectSetStep ==
  ASSUME IndInv, NEW a \in Actors,
         pc[a] = "recheck",
         generation[idx[a]] # gen[a],
         op[a] = "set",
         cell' = [cell EXCEPT ![Thread(a)][idx[a]] = EmptyCell],
         pc' = [pc EXCEPT ![a] = "refused"],
         UNCHANGED <<state, generation, callback, op, idx, arg, gen, val, cb,
                      allocs, tenancy, registered, stored, called, witness,
                      disturbed>>
  PROVE  IndInv'
<1> USE ActorFacts, StepKinds, KindFacts, LocalSlotsAssumption DEF IndInv
<1>1. /\ \A t \in Threads, s \in Slots :
            cell'[t][s] = IF t = Thread(a) /\ s = idx[a] THEN EmptyCell
                        ELSE cell[t][s]
      /\ \A b \in Actors : pc'[b] = IF b = a THEN "refused" ELSE pc[b]
  BY DEF TypeOK
<1> USE <1>1, Typing
<1>2. TypeOK'
  BY TypeFacts, NameFacts DEF TypeOK, CallInv
<1>3. CallInv'
  BY DEF CallInv
<1>4. NestInv'
  BY DEF NestInv
<1>5. OwnInv'
  BY DEF OwnInv, CallInv
<1>6. DisturbInv'
  BY DEF DisturbInv, CallInv, OwnInv
<1>7. NestedUseInv'
  BY DEF NestedUseInv, CallInv, NestInv, OwnInv
<1>8. CallbackInv'
  BY DEF CallbackInv, CallInv, OwnInv, RunsCallback
<1>9. GenerationInv'
  BY DEF GenerationInv, CallInv, OwnInv, Young
<1>10. CellInv'
  <2> SUFFICES ASSUME NEW t \in Threads, NEW s \in Slots, Young(s)'
               PROVE  /\ Past(cell[t][s].generation, s)'
                      /\ Past(stored[t][s].tenancy, s)'
                      /\ (state[s] = "allocated" /\ ~Storing(t, s) => Agree(t, s))'
    BY DEF CellInv
  <2>1. Young(s)
    BY DEF Young
  <2>2. Past(cell[t][s].generation, s)'
    BY <2>1 DEF EmptyCell, CellInv, Past
  <2>3. Past(stored[t][s].tenancy, s)'
    BY <2>1 DEF CellInv, Past
  <2>4. ASSUME state[s] = "allocated", ~Storing(t, s)'
        PROVE  Agree(t, s)'
    <3>1. CASE t = Thread(a) /\ s = idx[a]
      <4>1. generation[s] = tenancy[s] /\ tenancy[s] >= 1
        BY <2>1, <2>4 DEF GenerationInv, OwnInv
      <4>2. gen[a] <= tenancy[s] /\ stored[t][s].tenancy <= gen[a]
        BY <2>1, <3>1 DEF UseInv, Past
      <4>3. cell'[t][s].generation = 0
        BY <3>1 DEF EmptyCell
      <4>6. gen[a] \in Nat /\ tenancy[s] \in Nat /\ stored[t][s].tenancy \in Nat
        OBVIOUS
      <4>7. gen[a] # tenancy[s]
        BY <3>1, <4>1
      <4>4. stored[t][s].tenancy # tenancy[s]
        BY ONLY <4>2, <4>6, <4>7
      <4>5. QED
        BY <4>1, <4>3, <4>4 DEF Agree
    <3>2. CASE ~(t = Thread(a) /\ s = idx[a])
      <4>1. ~Storing(t, s)
        BY <2>4, <3>2 DEF Storing
      <4>2. QED
        BY <2>1, <2>4, <3>2, <4>1 DEF CellInv, Agree
    <3>3. QED
      BY <3>1, <3>2
  <2>5. QED
    BY <2>2, <2>3, <2>4
<1>11. UseInv'
  BY DEF UseInv, CallInv, NestInv, OwnInv, GenerationInv, CellInv, Young, Past
<1>12. ValueInv'
  <2>0. \A b \in Actors \ {a} :
           Thread(b) = Thread(a) => pc[b] \in {"idle", "callback"}
    BY OneActive
  <2> SUFFICES ASSUME NEW b \in Actors, Young(idx[b])'
               PROVE  (/\ pc[b] \in Checking /\ op[b] = "set" =>
                             cell[Thread(b)][idx[b]] =
                                 [value |-> arg[b], generation |-> gen[b]]
                       /\ pc[b] = "confirm" /\ op[b] = "get" =>
                             val[b] = Current(b, gen[b])
                       /\ pc[b] = "recheck" /\ op[b] = "get" /\ gen[b] = witness[b] =>
                             val[b] = LastStored(Thread(b), idx[b], witness[b])
                       /\ pc[b] = "granted" /\ op[b] = "get" =>
                             val[b] = LastStored(Thread(b), idx[b], witness[b]))'
    BY DEF ValueInv
  <2>1. CASE b = a
    BY <2>1
       DEF ValueInv, Young, Current, LastStored, UseInv, CellInv, Agree,
           Storing, NestInv, GenerationInv, OwnInv, Past, CallInv
  <2>2. CASE b # a
    BY <2>0, <2>2 DEF ValueInv, Young, Current, LastStored, NestInv, CallInv
  <2>3. QED
    BY <2>1, <2>2
<1>13. FreeInv'
  <2>0. \A b \in Actors \ {a} :
           Thread(b) = Thread(a) => pc[b] \in {"idle", "callback"}
    BY OneActive
  <2> SUFFICES ASSUME NEW b \in Actors, Young(idx[b])'
               PROVE  (/\ pc[b] = "free_value" => Agree(Thread(b), idx[b])
                       /\ pc[b] \in Taken =>
                             val[b] = LastStored(Thread(b), idx[b], tenancy[idx[b]]))'
    BY DEF FreeInv
  <2>1. CASE b = a
    BY <2>1
       DEF FreeInv, Young, Agree, LastStored, CellInv, Storing, NestInv,
           GenerationInv, OwnInv, CallInv, Current
  <2>2. CASE b # a
    BY <2>0, <2>2
       DEF FreeInv, Young, Agree, LastStored, NestInv, CallInv, OwnInv,
           NestedUseInv
  <2>3. QED
    BY <2>1, <2>2
<1>14. QED
  BY <1>2, <1>3, <1>4, <1>5, <1>6, <1>7, <1>8, <1>9, <1>10, <1>11, <1>12,
      <1>13

(* A call returns. *)
LEMMA ReturnStep ==
  ASSUME IndInv, NEW a \in Actors,
         pc[a] \in {"granted", "refused"},
         op' = [op EXCEPT ![a] = "none"],
         idx' = [idx EXCEPT ![a] = FirstSlot],
         arg' = [arg EXCEPT ![a] = Null],
         gen' = [gen EXCEPT ![a] = 0],
         val' = [val EXCEPT ![a] = Null],
         cb' = [cb EXCEPT ![a] = NoCallback],
         witness' = [witness EXCEPT ![a] = 0],
         disturbed' = [disturbed EXCEPT ![a] = FALSE],
         pc' = [pc EXCEPT ![a] = "idle"],
         UNCHANGED <<state, generation, callback, cell, allocs, tenancy,
                      registered, stored, called>>
  PROVE  IndInv'
<1> USE ActorFacts, StepKinds, KindFacts, LocalSlotsAssumption DEF IndInv
<1>1. /\ \A b \in Actors : op'[b] = IF b = a THEN "none" ELSE op[b]
      /\ \A b \in Actors : idx'[b] = IF b = a THEN FirstSlot ELSE idx[b]
      /\ \A b \in Actors : arg'[b] = IF b = a THEN Null ELSE arg[b]
      /\ \A b \in Actors : gen'[b] = IF b = a THEN 0 ELSE gen[b]
      /\ \A b \in Actors : val'[b] = IF b = a THEN Null ELSE val[b]
      /\ \A b \in Actors : cb'[b] = IF b = a THEN NoCallback ELSE cb[b]
      /\ \A b \in Actors : witness'[b] = IF b = a THEN 0 ELSE witness[b]
      /\ \A b \in Actors :
            disturbed'[b] = IF b = a THEN FALSE
                            ELSE disturbed[b]
      /\ \A b \in Actors : pc'[b] = IF b = a THEN "idle" ELSE pc[b]
  BY DEF TypeOK
<1> USE <1>1, Typing
<1>2. TypeOK'
  BY TypeFacts, NameFacts DEF TypeOK, CallInv
<1>3. CallInv'
  BY DEF CallInv
<1>4. NestInv'
  BY DEF NestInv
<1>5. OwnInv'
  BY DEF OwnInv, CallInv
<1>6. DisturbInv'
  BY DEF DisturbInv, CallInv, OwnInv
<1>7. NestedUseInv'
  BY DEF NestedUseInv, CallInv, NestInv, OwnInv
<1>8. CallbackInv'
  BY DEF CallbackInv, CallInv, OwnInv, RunsCallback
<1>9. GenerationInv'
  BY DEF GenerationInv, CallInv, OwnInv, Young
<1>10. CellInv'
  BY DEF CellInv, CallInv, NestInv, OwnInv, GenerationInv, UseInv, ValueInv,
      Young, Past, Agree, Storing
<1>11. UseInv'
  BY DEF UseInv, CallInv, NestInv, OwnInv, GenerationInv, CellInv, Young, Past
<1>12. ValueInv'
  BY DEF ValueInv, CallInv, NestInv, OwnInv, GenerationInv, CellInv, UseInv,
      Young, Past, LastStored, Agree, Storing, Current
<1>13. FreeInv'
  BY DEF FreeInv, CallInv, NestInv, OwnInv, GenerationInv, CellInv,
      NestedUseInv, Young, LastStored, Agree, Storing
<1>14. QED
  BY <1>2, <1>3, <1>4, <1>5, <1>6, <1>7, <1>8, <1>9, <1>10, <1>11, <1>12,
      <1>13

-----------------------------------------------------------------------------
(* The tables and cells start empty and nobody is in a call. *)
LEMMA InitInd == Init => IndInv
<1> SUFFICES ASSUME Init
             PROVE  IndInv
  OBVIOUS
<1> USE TypeFacts, StepKinds, LocalSlotsAssumption DEF Init
<1>1. TypeOK
  BY NameFacts DEF TypeOK
<1>2. CallInv /\ NestInv /\ OwnInv /\ DisturbInv /\ NestedUseInv
  BY DEF CallInv, NestInv, OwnInv, DisturbInv, NestedUseInv
<1>3. CallbackInv /\ GenerationInv
  BY DEF CallbackInv, GenerationInv, Young
<1>4. CellInv
  <2>1. \A t \in Threads, s \in Slots :
           cell[t][s] = EmptyCell /\ stored[t][s] = [value |-> Null, tenancy |-> 0]
    OBVIOUS
  <2>2. \A a \in Actors : pc[a] = "idle"
    OBVIOUS
  <2>3. \A s \in Slots : state[s] = "free" /\ tenancy[s] = 0
    OBVIOUS
  <2>4. QED
    BY <2>1, <2>2, <2>3 DEF CellInv, Past, EmptyCell
<1>5. UseInv /\ ValueInv /\ FreeInv
  BY DEF UseInv, ValueInv, FreeInv
<1>6. QED
  BY <1>1, <1>2, <1>3, <1>4, <1>5 DEF IndInv

(* A step that changes nothing keeps the invariant. *)
LEMMA StutterInd ==
  ASSUME IndInv, UNCHANGED vars
  PROVE  IndInv'
<1> USE DEF IndInv, vars, slotVars, callVars, ghostVars
<1>1. TypeOK'
  BY DEF TypeOK
<1>2. CallInv'
  BY DEF CallInv
<1>3. NestInv'
  BY DEF NestInv
<1>4. OwnInv'
  BY DEF OwnInv
<1>5. DisturbInv'
  BY DEF DisturbInv
<1>6. NestedUseInv'
  BY DEF NestedUseInv
<1>7. CallbackInv'
  BY DEF CallbackInv, RunsCallback
<1>8. GenerationInv'
  BY DEF GenerationInv, Young
<1>9. CellInv'
  BY DEF CellInv, Young, Past, Agree, Storing
<1>10. UseInv'
  BY DEF UseInv, Young, Past
<1>11. ValueInv'
  BY DEF ValueInv, Young, LastStored, Current
<1>12. FreeInv'
  BY DEF FreeInv, Young, LastStored, Agree
<1>13. QED
  BY <1>1, <1>2, <1>3, <1>4, <1>5, <1>6, <1>7, <1>8, <1>9, <1>10, <1>11, <1>12

(* Every step of a call keeps the invariant. *)
LEMMA StepInd ==
  ASSUME IndInv, NEW a \in Actors, Step(a)
  PROVE  IndInv'
<1> USE DEF Goto, slotVars, callVars, ghostVars
<1>1. CASE Alloc(a)
  <2>1. PICK f \in Addresses :
           Call(a, "alloc", FirstSlot, f)
    BY <1>1 DEF Alloc
  <2>2. QED
    BY <1>1, <2>1, AllocStep DEF Alloc, Call, MayCall
<1>2. CASE AllocTake(a)
  BY <1>2, AllocTakeStep DEF AllocTake
<1>3. CASE AllocNext(a)
  <2>1. CASE idx[a] + 1 \in Slots
    BY <1>3, <2>1, AllocSkipStep DEF AllocNext
  <2>2. CASE idx[a] + 1 \notin Slots
    BY <1>3, <2>2, AllocFailStep DEF AllocNext
  <2>3. QED
    BY <2>1, <2>2
<1>4. CASE AllocGeneration(a)
  <2>1. CASE NextGeneration(generation[idx[a]]) # 0
    BY <1>4, <2>1, AllocGenerationStep DEF AllocGeneration
  <2>2. CASE NextGeneration(generation[idx[a]]) = 0
    BY <1>4, <2>2, AllocWrapStep DEF AllocGeneration
  <2>3. QED
    BY <2>1, <2>2
<1>5. CASE AllocSkipZero(a)
  BY <1>5, AllocSkipZeroStep DEF AllocSkipZero
<1>6. CASE AllocCallback(a)
  BY <1>6, AllocCallbackStep DEF AllocCallback
<1>7. CASE AllocPublish(a)
  BY <1>7, AllocPublishStep DEF AllocPublish
<1>8. CASE Free(a)
  <2>1. PICK r \in Slots :
           Call(a, "free", r, Null)
    BY <1>8 DEF Free
  <2>2. QED
    BY <1>8, <2>1, FreeStep DEF Free, Call, MayCall
<1>9. CASE FreeClaim(a)
  BY <1>9, FreeClaimStep DEF FreeClaim, Disturb, Accesses
<1>10. CASE FreeReject(a)
  BY <1>10, FreeRejectStep DEF FreeReject
<1>11. CASE FreeValue(a)
  BY <1>11, FreeValueStep DEF FreeValue
<1>12. CASE FreeLoad(a)
  BY <1>12, FreeLoadStep DEF FreeLoad
<1>13. CASE FreeClear(a)
  <2>1. CASE RunsCallback(a)
    BY <1>13, <2>1, FreeRunsStep DEF FreeClear
  <2>2. CASE ~RunsCallback(a)
    BY <1>13, <2>2, FreeRunsNotStep DEF FreeClear
  <2>3. QED
    BY <2>1, <2>2
<1>14. CASE CallbackReturn(a)
  BY <1>14, CallbackReturnStep DEF CallbackReturn
<1>15. CASE FreeRelease(a)
  BY <1>15, FreeReleaseStep DEF FreeRelease
<1>16. CASE Get(a)
  <2>1. PICK r \in Slots :
           /\ Call(a, "get", r, Null)
           /\ disturbed' = [disturbed EXCEPT ![a] = (state[r] # "allocated")]
    BY <1>16 DEF Get
  <2>2. QED
    BY <1>16, <2>1, GetStep DEF Get, Call, MayCall
<1>17. CASE Set(a)
  <2>1. PICK r \in Slots, v \in Pointers :
           /\ Call(a, "set", r, v)
           /\ disturbed' = [disturbed EXCEPT ![a] = (state[r] # "allocated")]
    BY <1>17 DEF Set
  <2>2. QED
    BY <1>17, <2>1, SetStep DEF Set, Call, MayCall
<1>18. CASE GenerationBefore(a)
  BY <1>18, GenerationBeforeStep DEF GenerationBefore
<1>19. CASE GenerationState(a)
  <2>1. CASE state[idx[a]] = "allocated"
    BY <1>19, <2>1, GenerationLiveStep DEF GenerationState
  <2>2. CASE state[idx[a]] # "allocated"
    BY <1>19, <2>2, GenerationDeadStep DEF GenerationState
  <2>3. QED
    BY <2>1, <2>2
<1>20. CASE GenerationAfter(a)
  <2>1. op[a] = "get" \/ op[a] = "set"
    BY <1>20, StepKinds DEF GenerationAfter, IndInv, CallInv, Accesses
  <2>2. CASE generation[idx[a]] # gen[a]
    BY <1>20, <2>2, GenerationRetryStep DEF GenerationAfter
  <2>3. CASE generation[idx[a]] = gen[a] /\ op[a] = "get"
    BY <1>20, <2>3, GenerationGetStep DEF GenerationAfter
  <2>4. CASE generation[idx[a]] = gen[a] /\ op[a] = "set"
    BY <1>20, <2>4, GenerationSetStep DEF GenerationAfter
  <2>5. QED
    BY <2>1, <2>2, <2>3, <2>4
<1>21. CASE GetValue(a)
  BY <1>21, GetValueStep DEF GetValue
<1>22. CASE SetValue(a)
  BY <1>22, SetValueStep DEF SetValue
<1>23. CASE Confirm(a)
  <2>1. op[a] = "get" \/ op[a] = "set"
    BY <1>23, StepKinds DEF Confirm, IndInv, CallInv, Accesses
  <2>2. CASE state[idx[a]] = "allocated"
    BY <1>23, <2>2, ConfirmLiveStep DEF Confirm
  <2>3. CASE state[idx[a]] # "allocated" /\ op[a] = "get"
    BY <1>23, <2>3, ConfirmGetStep DEF Confirm, Withdraw
  <2>4. CASE state[idx[a]] # "allocated" /\ op[a] = "set"
    BY <1>23, <2>4, ConfirmSetStep DEF Confirm, Withdraw
  <2>5. QED
    BY <2>1, <2>2, <2>3, <2>4
<1>24. CASE Recheck(a)
  <2>1. op[a] = "get" \/ op[a] = "set"
    BY <1>24, StepKinds DEF Recheck, IndInv, CallInv, Accesses
  <2>2. CASE generation[idx[a]] = gen[a] /\ op[a] = "get"
    BY <1>24, <2>2, RecheckGetStep DEF Recheck
  <2>3. CASE generation[idx[a]] = gen[a] /\ op[a] = "set"
    BY <1>24, <2>3, RecheckSetStep DEF Recheck
  <2>4. CASE generation[idx[a]] # gen[a] /\ op[a] = "get"
    BY <1>24, <2>4, RejectGetStep DEF Recheck, Withdraw
  <2>5. CASE generation[idx[a]] # gen[a] /\ op[a] = "set"
    BY <1>24, <2>5, RejectSetStep DEF Recheck, Withdraw
  <2>6. QED
    BY <2>1, <2>2, <2>3, <2>4, <2>5
<1>25. CASE Return(a)
  BY <1>25, ReturnStep DEF Return
<1>26. QED
  BY <1>1, <1>2, <1>3, <1>4, <1>5, <1>6, <1>7, <1>8, <1>9, <1>10, <1>11,
      <1>12, <1>13, <1>14, <1>15, <1>16, <1>17, <1>18, <1>19, <1>20, <1>21,
      <1>22, <1>23, <1>24, <1>25 DEF Step

(* The invariant holds in every state the slots can reach. *)
THEOREM InductiveInvariant == Spec => []IndInv
<1>1. IndInv /\ [Next]_vars => IndInv'
  BY StepInd, StutterInd DEF Next
<1>2. QED
  BY InitInd, <1>1, PTL DEF Spec

-----------------------------------------------------------------------------
(* A slot between two states has one owner: whatever local_alloc and       *)
(* local_free interleave with, nested calls of an FLS callback included,   *)
(* the slot is in SL_SLOT_INITIALIZING exactly while one call owns it.     *)
THEOREM ConsistentSlots == Spec => []SlotsAreConsistent
<1>1. IndInv => OneOwner
  <2> SUFFICES ASSUME IndInv, NEW s \in Slots
               PROVE  /\ \A a, b \in Owners(s) : a = b
                      /\ state[s] = "initializing" <=> Owners(s) # {}
    BY DEF OneOwner
  <2>1. \A a : a \in Owners(s) <=> a \in Actors /\ idx[a] = s /\ pc[a] \in Owning
    BY DEF Owners, Owning, AllocOwning, FreeOwning
  <2>2. QED
    BY <2>1 DEF IndInv, OwnInv
<1>2. IndInv => SlotsAreConsistent
  BY <1>1 DEF IndInv, SlotsAreConsistent
<1>3. QED
  BY <1>2, InductiveInvariant, PTL

(* A get or set answers for the tenancy of the slot it was called in: a    *)
(* value is the thread's own last one of that tenancy, and a refusal means *)
(* that the slot was not allocated at some time during the call.           *)
THEOREM TruthfulAnswers == Spec => []AnswersAreTruthful
<1>1. IndInv => GetReturnsCurrentValue
  BY DEF IndInv, ValueInv, Young, LastStored, GetReturnsCurrentValue
<1>2. IndInv => RefusalIsJustified
  BY DEF IndInv, DisturbInv, Accesses, RefusalIsJustified
<1>3. IndInv => AnswersAreTruthful
  BY <1>1, <1>2 DEF AnswersAreTruthful
<1>4. QED
  BY <1>3, InductiveInvariant, PTL

(* FlsFree calls the callback that FlsAlloc registered for the tenancy it  *)
(* ends, once, on the value its thread stored in that tenancy, and calls   *)
(* nothing when either is missing.                                         *)
THEOREM ExactFlsCallback == Spec => []FlsCallbackIsExact
<1>1. IndInv => FlsCallbackIsExact
  <2> SUFFICES ASSUME IndInv, NEW a \in Actors,
                      pc[a] \in {"callback", "free_release"},
                      tenancy[idx[a]] < GenerationLimit
               PROVE  LET s    == idx[a]
                          last == stored[Thread(a)][s]
                          due  == /\ InvokeCallback
                                  /\ registered[s] # NoCallback
                                  /\ last.tenancy = tenancy[s]
                                  /\ last.value # Null
                      IN  /\ called[s] = IF due THEN 1 ELSE 0
                          /\ due => cb[a] = registered[s] /\ val[a] = last.value
    BY DEF FlsCallbackIsExact
  <2>1. pc[a] \in Decided /\ pc[a] \in Loaded /\ pc[a] \in Taken
    BY StepKinds
  <2>2. /\ cb[a] = registered[idx[a]]
        /\ called[idx[a]] = IF RunsCallback(a) THEN 1 ELSE 0
    BY <2>1 DEF IndInv, CallbackInv
  <2>3. val[a] = LastStored(Thread(a), idx[a], tenancy[idx[a]])
    BY <2>1 DEF IndInv, FreeInv, Young
  <2>4. QED
    BY <2>2, <2>3 DEF RunsCallback, LastStored
<1>2. QED
  BY <1>1, InductiveInvariant, PTL

----------------------------------------------------------------------------
(***************************************************************************)
(* Safety of the memory KERNEL32 hands out (GuestMemory), for every number *)
(* of threads, blocks and bytes.                                           *)
(***************************************************************************)
(* The block is as large as its header says, and every byte is zero, stale  *)
(* or the guest's.                                                          *)
HeapBlock ==
    /\ DOMAIN heap = {"live", "size", "bytes"}
    /\ heap.live \in BOOLEAN
    /\ heap.size \in Nat
    /\ heap.bytes \in Seq(0 .. 2)
    /\ view \in Seq(0 .. 3)
    /\ ~heap.live => view = <<>> /\ heap.size = 0

HeapInv == HeapBlock /\ HeapKeepsItsPromise

(* What a thread is doing with its block. *)
Moving  == {"link", "push", "release"}    \* it is allocated and not linked
Holding == {"push", "find", "unlink"}     \* the thread holds the lock
Carries(t, b) == step[t] \in Moving /\ block[t] = b
Linked == {list[i] : i \in 1 .. Len(list)}

(* A block is linked once, or one thread carries it, or it is not allocated. *)
BlockInv ==
    /\ list \in Seq(Blocks)
    /\ allocated \subseteq Blocks
    /\ DOMAIN step = GuestThreads
    /\ DOMAIN block = GuestThreads
    /\ \A i, j \in 1 .. Len(list) : list[i] = list[j] => i = j
    /\ \A t \in GuestThreads : step[t] \in Holding => lock = t
    /\ \A t \in GuestThreads : step[t] \in Moving => block[t] \in allocated \ Linked
    /\ \A t \in GuestThreads : step[t] = "unlink" => block[t] \in Linked
    /\ \A t, u \in GuestThreads :
          step[t] \in Moving /\ step[u] \in Moving /\ block[t] = block[u] => t = u
    /\ \A b \in allocated \ Linked : \E t \in GuestThreads : Carries(t, b)
    /\ Linked \subseteq allocated

MemoryInv == HeapInv /\ BlockInv

USE DEF Unlocked

LEMMA MemoryInitially ==
    ASSUME MemoryInit PROVE MemoryInv
<1>1. HeapInv
  BY DEF MemoryInit, HeapInv, HeapBlock, HeapKeepsItsPromise,
         NoBlock, Payload
<1>2. BlockInv
  BY DEF MemoryInit, BlockInv, Moving, Holding, Linked
<1>3. QED
  BY <1>1, <1>2 DEF MemoryInv

(* The heap. *)

LEMMA HeapAllocKeeps ==
    ASSUME HeapInv, NEW n \in Nat, NEW zero \in BOOLEAN, HeapAlloc(n, zero)
    PROVE  HeapInv'
<1> DEFINE size == Payload(n)
           fresh == Resized(<<>>, size)
           bytes == IF zero THEN Zeroed(fresh, 0) ELSE fresh
<1>1. size \in Nat /\ size >= n
  BY DEF Payload
<1>2. /\ fresh \in Seq(0 .. 2) /\ Len(fresh) = size
  BY <1>1 DEF Resized, Stale
<1>3. /\ bytes \in Seq(0 .. 2) /\ Len(bytes) = size
      /\ zero => \A i \in 1 .. n : bytes[i] = 0
  BY <1>1, <1>2 DEF Zeroed
<1>4. /\ heap' = [live |-> TRUE, size |-> n, bytes |-> bytes]
      /\ view' = [i \in 1 .. n |-> IF zero THEN 0 ELSE 3]
  BY DEF HeapAlloc, Unspecified
<1> HIDE DEF size, bytes
<1>5. view' \in Seq(0 .. 3) /\ Len(view') = n
  BY <1>4
<1>6. HeapBlock'
  BY <1>3, <1>4, <1>5 DEF HeapBlock
<1>7. HeapKeepsItsPromise'
  BY <1>1, <1>3, <1>4, <1>5 DEF HeapKeepsItsPromise, size, Unspecified
<1>8. QED
  BY <1>6, <1>7 DEF HeapInv

(* What a grown or shrunk block shows is what it showed, or new bytes. *)
LEMMA GrownView ==
    ASSUME HeapInv, NEW n \in Nat, NEW zero \in BOOLEAN
    PROVE  LET grown == Grown(n, zero)
           IN  /\ grown \in Seq(0 .. 3)
               /\ Len(grown) = n
               /\ \A i \in 1 .. n :
                     grown[i] = IF i <= heap.size THEN view[i]
                                ELSE IF zero THEN 0 ELSE 3
  BY DEF HeapInv, HeapBlock, HeapKeepsItsPromise, Grown,
         Unspecified

LEMMA HeapReAllocInPlaceKeeps ==
    ASSUME HeapInv, NEW n \in Nat, HeapReAllocInPlace(n)
    PROVE  HeapInv'
<1> DEFINE grown == Grown(n, FALSE)
<1>1. /\ heap.live /\ n <= heap.size
      /\ heap' = [heap EXCEPT !.size = n]
      /\ view' = grown
  BY DEF HeapReAllocInPlace
<1>2. /\ grown \in Seq(0 .. 3) /\ Len(grown) = n
      /\ \A i \in 1 .. n : grown[i] = view[i]
  <2>1. /\ grown \in Seq(0 .. 3) /\ Len(grown) = n
        /\ \A i \in 1 .. n :
              grown[i] = IF i <= heap.size THEN view[i] ELSE IF FALSE THEN 0 ELSE 3
    BY GrownView
  <2> HIDE DEF grown
  <2>2. QED
    BY <1>1, <2>1 DEF HeapInv, HeapBlock
<1> HIDE DEF grown
<1>3. HeapBlock'
  BY <1>1, <1>2 DEF HeapInv, HeapBlock
<1>4. HeapKeepsItsPromise'
  BY <1>1, <1>2 DEF HeapInv, HeapBlock, HeapKeepsItsPromise, Payload
<1>5. QED
  BY <1>3, <1>4 DEF HeapInv

LEMMA HeapReAllocKeeps ==
    ASSUME HeapInv, NEW n \in Nat, NEW zero \in BOOLEAN, HeapReAlloc(n, zero)
    PROVE  HeapInv'
<1> DEFINE size == Payload(n)
           moved == Resized(heap.bytes, size)
           bytes == IF zero /\ n > heap.size
                    THEN Zeroed(moved, heap.size) ELSE moved
           grown == Grown(n, zero)
<1>1. /\ heap.live
      /\ heap' = [heap EXCEPT !.size = n, !.bytes = bytes]
      /\ view' = grown
  BY DEF HeapReAlloc, ClearedFrom
<1>2. size \in Nat /\ size >= n
  BY DEF Payload
<1>3. /\ heap.bytes \in Seq(0 .. 2) /\ heap.size \in Nat
      /\ Len(heap.bytes) >= heap.size
  BY <1>1 DEF HeapInv, HeapBlock, HeapKeepsItsPromise, Payload
<1>4. /\ moved \in Seq(0 .. 2) /\ Len(moved) = size
      /\ \A i \in 1 .. n : i <= heap.size => moved[i] = heap.bytes[i]
  BY <1>2, <1>3 DEF Resized, Stale
<1> HIDE DEF moved
<1>5. /\ bytes \in Seq(0 .. 2) /\ Len(bytes) = size
      /\ \A i \in 1 .. n : /\ i <= heap.size => bytes[i] = heap.bytes[i]
                           /\ zero /\ i > heap.size => bytes[i] = 0
  BY <1>2, <1>3, <1>4 DEF Zeroed
<1>6. /\ grown \in Seq(0 .. 3) /\ Len(grown) = n
      /\ \A i \in 1 .. n : grown[i] = IF i <= heap.size THEN view[i]
                                      ELSE IF zero THEN 0 ELSE 3
  BY GrownView
<1> HIDE DEF bytes, grown
<1>7. HeapBlock'
  BY <1>1, <1>5, <1>6 DEF HeapInv, HeapBlock
<1>8. HeapKeepsItsPromise'
  <2>1. Len(heap'.bytes) = size /\ heap'.size = n /\ Len(view') = n
    BY <1>1, <1>5, <1>6 DEF HeapInv, HeapBlock
  <2>2. \A i \in 1 .. n : view'[i] \in {bytes[i], 3}
    BY <1>1, <1>3, <1>5, <1>6 DEF HeapInv, HeapBlock, HeapKeepsItsPromise,
                             Unspecified
  <2>3. QED
    BY <1>1, <1>7, <2>1, <2>2
       DEF HeapBlock, HeapKeepsItsPromise, Unspecified, size
<1>9. QED
  BY <1>7, <1>8 DEF HeapInv

LEMMA WriteKeeps ==
    ASSUME HeapInv, NEW i \in Nat \ {0}, Write(i)
    PROVE  HeapInv'
<1>1. /\ heap.live /\ i \in 1 .. Len(view) /\ i \in 1 .. Len(heap.bytes)
  BY DEF HeapInv, HeapBlock, HeapKeepsItsPromise, Write, Payload
<1>2. /\ heap'.live = heap.live /\ heap'.size = heap.size
      /\ DOMAIN heap' = DOMAIN heap
      /\ heap'.bytes = [heap.bytes EXCEPT ![i] = 1]
      /\ view' = [view EXCEPT ![i] = 1]
  BY DEF HeapInv, HeapBlock, Write
<1>3. /\ heap'.bytes \in Seq(0 .. 2) /\ Len(heap'.bytes) = Len(heap.bytes)
      /\ view' \in Seq(0 .. 3) /\ Len(view') = Len(view)
  BY <1>1, <1>2 DEF HeapInv, HeapBlock
<1>4. HeapBlock'
  BY <1>1, <1>2, <1>3 DEF HeapInv, HeapBlock
<1>5. HeapKeepsItsPromise'
  BY <1>1, <1>2, <1>3
     DEF HeapInv, HeapBlock, HeapKeepsItsPromise, Payload
<1>6. QED
  BY <1>4, <1>5 DEF HeapInv

LEMMA HeapFreeKeeps ==
    ASSUME HeapInv, HeapFree
    PROVE  HeapInv'
  BY DEF HeapInv, HeapBlock, HeapFree, NoBlock,
         HeapKeepsItsPromise

LEMMA HeapStepKeeps ==
    ASSUME HeapInv, HeapStep
    PROVE  HeapInv'
<1>1. /\ \A k \in 0 .. MaxSize : k \in Nat
      /\ \A k \in 1 .. MaxSize : k \in Nat \ {0}
  BY GuestMemoryAssumption
<1>2. CASE \E n \in 0 .. MaxSize, zero \in BOOLEAN :
              HeapAlloc(n, zero) \/ HeapReAlloc(n, zero)
  BY <1>1, <1>2, HeapAllocKeeps, HeapReAllocKeeps
<1>3. CASE \E n \in 0 .. MaxSize : HeapReAllocInPlace(n)
  BY <1>1, <1>3, HeapReAllocInPlaceKeeps
<1>4. CASE \E i \in 1 .. MaxSize : Write(i)
  BY <1>1, <1>4, WriteKeeps
<1>5. CASE HeapFree
  BY <1>5, HeapFreeKeeps
<1>6. QED
  BY <1>2, <1>3, <1>4, <1>5 DEF HeapStep

(* The environment blocks. *)

Environment == <<list, allocated, lock, step, block>>

(* What Go does to the thread's step, and to nobody else's. *)
LEMMA GoMoves ==
    ASSUME BlockInv, NEW t \in GuestThreads, NEW next, NEW b, Go(t, next, b)
    PROVE  /\ DOMAIN step' = GuestThreads /\ DOMAIN block' = GuestThreads
           /\ step'[t] = next /\ block'[t] = b
           /\ \A u \in GuestThreads \ {t} : step'[u] = step[u] /\ block'[u] = block[u]
  BY DEF BlockInv, Go

LEMMA GetBuildKeeps ==
    ASSUME BlockInv, NEW t \in GuestThreads, NEW b \in Blocks, GetBuild(t, b)
    PROVE  BlockInv'
<1>1. /\ step[t] = "idle" /\ b \notin allocated
      /\ allocated' = allocated \cup {b}
      /\ Go(t, "link", b)
      /\ list' = list /\ lock' = lock
  BY DEF GetBuild
<1>2. /\ DOMAIN step' = GuestThreads /\ DOMAIN block' = GuestThreads
      /\ step'[t] = "link" /\ block'[t] = b
      /\ \A u \in GuestThreads \ {t} : step'[u] = step[u] /\ block'[u] = block[u]
  BY <1>1, GoMoves
<1>3. Linked' = Linked /\ Linked \subseteq allocated
  BY <1>1 DEF Linked, BlockInv
<1>4. QED
  BY <1>1, <1>2, <1>3 DEF BlockInv, Moving, Holding, Carries

LEMMA GetFailsKeeps ==
    ASSUME BlockInv, NEW t \in GuestThreads, GetFails(t)
    PROVE  BlockInv'
<1>1. /\ step[t] = "link"
      /\ allocated' = allocated \ {block[t]}
      /\ Go(t, "idle", Nothing)
      /\ list' = list /\ lock' = lock
  BY DEF GetFails
<1>2. /\ DOMAIN step' = GuestThreads /\ DOMAIN block' = GuestThreads
      /\ step'[t] = "idle"
      /\ \A u \in GuestThreads \ {t} : step'[u] = step[u] /\ block'[u] = block[u]
  BY <1>1, GoMoves
<1>3. Linked' = Linked
  BY <1>1 DEF Linked
<1>4. QED
  BY <1>1, <1>2, <1>3 DEF BlockInv, Moving, Holding, Carries

LEMMA GetLockKeeps ==
    ASSUME BlockInv, NEW t \in GuestThreads, GetLock(t)
    PROVE  BlockInv'
<1>1. /\ step[t] = "link" /\ lock = "free" /\ lock' = t
      /\ allocated' = allocated
      /\ Go(t, "push", block[t])
      /\ list' = list
  BY DEF GetLock
<1>2. /\ DOMAIN step' = GuestThreads /\ DOMAIN block' = GuestThreads
      /\ step'[t] = "push" /\ block'[t] = block[t]
      /\ \A u \in GuestThreads \ {t} : step'[u] = step[u] /\ block'[u] = block[u]
  BY <1>1, GoMoves
<1>3. Linked' = Linked
  BY <1>1 DEF Linked
<1>4. \A u \in GuestThreads : step[u] \notin Holding
  BY <1>1, GuestMemoryAssumption DEF BlockInv
<1>5. QED
  BY <1>1, <1>2, <1>3, <1>4 DEF BlockInv, Moving, Holding, Carries

LEMMA GetPushKeeps ==
    ASSUME BlockInv, NEW t \in GuestThreads, GetPush(t)
    PROVE  BlockInv'
<1>1. /\ step[t] = "push" /\ lock' = "free"
      /\ allocated' = allocated
      /\ Go(t, "idle", Nothing)
      /\ list' = <<block[t]>> \o list
  BY DEF GetPush
<1>2. /\ DOMAIN step' = GuestThreads /\ DOMAIN block' = GuestThreads
      /\ step'[t] = "idle"
      /\ \A u \in GuestThreads \ {t} : step'[u] = step[u] /\ block'[u] = block[u]
  BY <1>1, GoMoves
<1>3. /\ block[t] \in allocated \ Linked /\ block[t] \in Blocks
      /\ list \in Seq(Blocks) /\ lock = t
  BY <1>1 DEF BlockInv, Moving, Holding
<1>4. /\ list' \in Seq(Blocks) /\ Len(list') = Len(list) + 1
      /\ \A i \in 1 .. Len(list') :
            list'[i] = IF i = 1 THEN block[t] ELSE list[i - 1]
  BY <1>1, <1>3
<1>5. Linked' = Linked \cup {block[t]}
  <2>1. \A i \in 1 .. Len(list') : list'[i] \in Linked \cup {block[t]}
    BY <1>3, <1>4 DEF Linked
  <2>2. \A i \in 1 .. Len(list) : i + 1 \in 1 .. Len(list') /\ list'[i + 1] = list[i]
    BY <1>3, <1>4
  <2>3. 1 \in 1 .. Len(list') /\ list'[1] = block[t]
    BY <1>3, <1>4
  <2>4. QED
    BY <2>1, <2>2, <2>3 DEF Linked
<1>6. \A i, j \in 1 .. Len(list') : list'[i] = list'[j] => i = j
  <2>1. \A i \in 1 .. Len(list) : list[i] # block[t]
    BY <1>3 DEF Linked
  <2>2. \A i, j \in 1 .. Len(list) : list[i] = list[j] => i = j
    BY DEF BlockInv
  <2> SUFFICES ASSUME NEW i \in 1 .. Len(list'), NEW j \in 1 .. Len(list'),
                      list'[i] = list'[j]
               PROVE  i = j
    OBVIOUS
  <2>3. Len(list) \in Nat
    BY <1>3
  <2>4. \A k \in 1 .. Len(list') : k = 1 \/ k - 1 \in 1 .. Len(list)
    BY <1>4, <2>3
  <2>5. CASE i = 1 /\ j # 1
    BY <1>4, <2>1, <2>4, <2>5
  <2>6. CASE i # 1 /\ j = 1
    BY <1>4, <2>1, <2>4, <2>6
  <2>7. CASE i # 1 /\ j # 1
    <3>1. i - 1 = j - 1
      BY <1>4, <2>2, <2>4, <2>7
    <3>2. QED
      BY <1>4, <2>3, <3>1
  <2>8. QED
    BY <2>5, <2>6, <2>7
<1>7. \A u \in GuestThreads \ {t} : step[u] \notin Holding
  BY <1>3 DEF BlockInv
<1>8. \A u \in GuestThreads : step'[u] \in Moving => block'[u] \in allocated' \ Linked'
  BY <1>1, <1>2, <1>5 DEF BlockInv, Moving
<1>9. \A b \in allocated' \ Linked' : \E u \in GuestThreads : Carries(u, b)'
  BY <1>1, <1>2, <1>5 DEF BlockInv, Moving, Carries
<1>10. QED
  BY <1>1, <1>2, <1>3, <1>4, <1>5, <1>6, <1>7, <1>8, <1>9
     DEF BlockInv, Moving, Holding

(* Steps that only move a thread that carries nothing. *)
LEMMA FreeBeginKeeps ==
    ASSUME BlockInv, NEW t \in GuestThreads, NEW b, FreeBegin(t, b)
    PROVE  BlockInv'
<1>1. /\ step[t] = "idle" /\ lock' = lock /\ allocated' = allocated /\ list' = list
      /\ Go(t, "lock", b)
  BY DEF FreeBegin
<1>2. /\ DOMAIN step' = GuestThreads /\ DOMAIN block' = GuestThreads
      /\ step'[t] = "lock"
      /\ \A u \in GuestThreads \ {t} : step'[u] = step[u] /\ block'[u] = block[u]
  BY <1>1, GoMoves
<1>3. Linked' = Linked
  BY <1>1 DEF Linked
<1>4. QED
  BY <1>1, <1>2, <1>3 DEF BlockInv, Moving, Holding, Carries

LEMMA FreeFailsKeeps ==
    ASSUME BlockInv, NEW t \in GuestThreads, FreeFails(t)
    PROVE  BlockInv'
<1>1. /\ step[t] = "lock" /\ lock' = lock /\ allocated' = allocated /\ list' = list
      /\ Go(t, "idle", Nothing)
  BY DEF FreeFails
<1>2. /\ DOMAIN step' = GuestThreads /\ DOMAIN block' = GuestThreads
      /\ step'[t] = "idle"
      /\ \A u \in GuestThreads \ {t} : step'[u] = step[u] /\ block'[u] = block[u]
  BY <1>1, GoMoves
<1>3. Linked' = Linked
  BY <1>1 DEF Linked
<1>4. QED
  BY <1>1, <1>2, <1>3 DEF BlockInv, Moving, Holding, Carries

LEMMA FreeLockKeeps ==
    ASSUME BlockInv, NEW t \in GuestThreads, FreeLock(t)
    PROVE  BlockInv'
<1>1. /\ step[t] = "lock" /\ lock = "free" /\ lock' = t
      /\ allocated' = allocated /\ list' = list
      /\ Go(t, "find", block[t])
  BY DEF FreeLock
<1>2. /\ DOMAIN step' = GuestThreads /\ DOMAIN block' = GuestThreads
      /\ step'[t] = "find"
      /\ \A u \in GuestThreads \ {t} : step'[u] = step[u] /\ block'[u] = block[u]
  BY <1>1, GoMoves
<1>3. Linked' = Linked
  BY <1>1 DEF Linked
<1>4. \A u \in GuestThreads : step[u] \notin Holding
  BY <1>1, GuestMemoryAssumption DEF BlockInv
<1>5. QED
  BY <1>1, <1>2, <1>3, <1>4 DEF BlockInv, Moving, Holding, Carries

LEMMA FreeFindKeeps ==
    ASSUME BlockInv, NEW t \in GuestThreads, FreeFind(t)
    PROVE  BlockInv'
<1> DEFINE found == \E i \in 1 .. Len(list) : list[i] = block[t]
           next == IF found THEN "unlink" ELSE "idle"
<1>1. /\ step[t] = "find" /\ allocated' = allocated /\ list' = list
      /\ IF found THEN Go(t, "unlink", block[t]) /\ lock' = lock
                  ELSE Go(t, "idle", Nothing) /\ lock' = "free"
  BY DEF FreeFind
<1>2. /\ DOMAIN step' = GuestThreads /\ DOMAIN block' = GuestThreads
      /\ step'[t] = next
      /\ found => block'[t] = block[t]
      /\ \A u \in GuestThreads \ {t} : step'[u] = step[u] /\ block'[u] = block[u]
  <2>1. CASE found
    BY <1>1, <2>1, GoMoves
  <2>2. CASE ~found
    BY <1>1, <2>2, GoMoves
  <2>3. QED
    BY <2>1, <2>2
<1>3. Linked' = Linked /\ (found <=> block[t] \in Linked)
  BY <1>1 DEF Linked
<1>4. lock = t /\ \A u \in GuestThreads \ {t} : step[u] \notin Holding
  BY <1>1 DEF BlockInv, Holding
<1> HIDE DEF found
<1>5. QED
  BY <1>1, <1>2, <1>3, <1>4 DEF BlockInv, Moving, Holding, Carries

LEMMA Joined ==
    ASSUME NEW S, NEW a \in Seq(S), NEW b \in Seq(S)
    PROVE  /\ a \o b \in Seq(S)
           /\ Len(a \o b) = Len(a) + Len(b)
           /\ \A k \in 1 .. Len(a) + Len(b) :
                 (a \o b)[k] = IF k <= Len(a) THEN a[k] ELSE b[k - Len(a)]
  OBVIOUS

(* Taking out the i-th entry leaves every other one, in order. *)
LEMMA RemovedAt ==
    ASSUME NEW S, NEW s \in Seq(S), NEW i \in 1 .. Len(s)
    PROVE  LET rest == RemoveAt(s, i)
           IN  /\ rest \in Seq(S)
               /\ Len(rest) = Len(s) - 1
               /\ \A k \in 1 .. Len(s) - 1 :
                     rest[k] = IF k < i THEN s[k] ELSE s[k + 1]
<1> DEFINE front == SubSeq(s, 1, i - 1)
           back == SubSeq(s, i + 1, Len(s))
<1>1. /\ front \in Seq(S) /\ Len(front) = i - 1
      /\ \A k \in 1 .. i - 1 : front[k] = s[k]
  OBVIOUS
<1>2. /\ back \in Seq(S) /\ Len(back) = Len(s) - i
      /\ \A k \in 1 .. Len(s) - i : back[k] = s[k + i]
  OBVIOUS
<1>3. RemoveAt(s, i) = front \o back
  BY DEF RemoveAt
<1> HIDE DEF front, back
<1>4. Len(s) \in Nat /\ i \in Nat
  OBVIOUS
<1>5. /\ front \o back \in Seq(S) /\ Len(front \o back) = Len(s) - 1
      /\ \A k \in 1 .. Len(s) - 1 :
            (front \o back)[k] = IF k <= i - 1 THEN front[k] ELSE back[k - (i - 1)]
  <2>1. Len(front) + Len(back) = Len(s) - 1
    BY <1>1, <1>2, <1>4
  <2>2. /\ front \o back \in Seq(S)
        /\ Len(front \o back) = Len(front) + Len(back)
        /\ \A k \in 1 .. Len(front) + Len(back) :
              (front \o back)[k] = IF k <= Len(front) THEN front[k]
                                    ELSE back[k - Len(front)]
    <3>1. front \in Seq(S) /\ back \in Seq(S)
      BY <1>1, <1>2
    <3>2. QED
      BY <3>1, Joined, Zenon
  <2>3. Len(front) = i - 1
    BY <1>1
  <2>4. QED
    BY <2>1, <2>2, <2>3
<1>6. ASSUME NEW k \in 1 .. Len(s) - 1
      PROVE  (front \o back)[k] = IF k < i THEN s[k] ELSE s[k + 1]
  <2>1. CASE k < i
    BY <1>1, <1>4, <1>5, <2>1
  <2>2. CASE ~(k < i)
    <3>1. k - (i - 1) \in 1 .. Len(s) - i /\ (k - (i - 1)) + i = k + 1
      BY <1>4, <2>2
    <3>2. QED
      BY <1>2, <1>4, <1>5, <2>2, <3>1
  <2>3. QED
    BY <2>1, <2>2
<1>7. QED
  BY <1>3, <1>5, <1>6

LEMMA FreeUnlinkKeeps ==
    ASSUME BlockInv, NEW t \in GuestThreads, FreeUnlink(t)
    PROVE  BlockInv'
<1>1. /\ step[t] = "unlink" /\ lock' = "free" /\ allocated' = allocated
      /\ Go(t, "release", block[t])
  BY DEF FreeUnlink
<1>2. /\ DOMAIN step' = GuestThreads /\ DOMAIN block' = GuestThreads
      /\ step'[t] = "release" /\ block'[t] = block[t]
      /\ \A u \in GuestThreads \ {t} : step'[u] = step[u] /\ block'[u] = block[u]
  BY <1>1, GoMoves
<1>3. /\ list \in Seq(Blocks) /\ block[t] \in Linked /\ lock = t
      /\ \A u \in GuestThreads \ {t} : step[u] \notin Holding
      /\ \A j, k \in 1 .. Len(list) : list[j] = list[k] => j = k
  BY <1>1 DEF BlockInv, Holding
<1>4. PICK i \in 1 .. Len(list) :
          list[i] = block[t] /\ list' = RemoveAt(list, i)
  <2>1. PICK i \in 1 .. Len(list) : list[i] = block[t]
    BY <1>3 DEF Linked
  <2>2. {k \in 1 .. Len(list) : list[k] = block[t]} = {i}
    BY <1>3, <2>1
  <2>3. Min({i}) = i
    <3>1. i \in Nat
      BY <1>3, <2>1
    <3>2. QED
      BY <3>1 DEF Min
  <2>4. SelectInSeq(list, LAMBDA b : b = block[t]) = i
    BY <2>2, <2>3 DEF SelectInSeq
  <2>5. QED
    BY <2>1, <2>4 DEF FreeUnlink, RemoveFirst
<1>5. /\ list' \in Seq(Blocks) /\ Len(list') = Len(list) - 1
      /\ \A k \in 1 .. Len(list) - 1 :
            list'[k] = IF k < i THEN list[k] ELSE list[k + 1]
  BY <1>4, <1>3, RemovedAt
<1> DEFINE From(k) == IF k < i THEN k ELSE k + 1
<1>6. \A k \in 1 .. Len(list') :
           From(k) \in 1 .. Len(list) /\ From(k) # i /\ list'[k] = list[From(k)]
  BY <1>4, <1>3, <1>5
<1>7. \A j, k \in 1 .. Len(list') : From(j) = From(k) => j = k
  BY <1>4
<1> HIDE DEF From
<1>8. Linked' = Linked \ {block[t]}
  <2>1. \A k \in 1 .. Len(list') : list'[k] \in Linked \ {block[t]}
    BY <1>4, <1>3, <1>6 DEF Linked
  <2>2. ASSUME NEW j \in 1 .. Len(list), list[j] # block[t]
        PROVE  \E k \in 1 .. Len(list') : list'[k] = list[j]
    <3>1. CASE j < i
      BY <1>4, <1>3, <1>5, <3>1
    <3>2. CASE j > i
      <4>1. j - 1 \in 1 .. Len(list') /\ list'[j - 1] = list[j]
        BY <1>4, <1>3, <1>5, <3>2
      <4>2. QED
        BY <4>1
    <3>3. QED
      BY <1>4, <2>2, <3>1, <3>2
  <2>3. \A b : b \in Linked' <=> \E k \in 1 .. Len(list') : list'[k] = b
    BY DEF Linked
  <2>4. \A b : b \in Linked <=> \E k \in 1 .. Len(list) : list[k] = b
    BY DEF Linked
  <2>5. ASSUME NEW b \in Linked' PROVE b \in Linked \ {block[t]}
    BY <2>1, <2>3
  <2>6. ASSUME NEW b \in Linked \ {block[t]} PROVE b \in Linked'
    BY <2>2, <2>3, <2>4
  <2>7. QED
    BY <2>5, <2>6
<1>9. \A j, k \in 1 .. Len(list') : list'[j] = list'[k] => j = k
  BY <1>3, <1>6, <1>7
<1>10. block[t] \in allocated /\ \A u \in GuestThreads : step[u] \in Moving => block[u] # block[t]
  BY <1>3 DEF BlockInv
<1>11. \A u \in GuestThreads : step'[u] \in Moving => block'[u] \in allocated' \ Linked'
  BY <1>1, <1>2, <1>8, <1>10 DEF BlockInv
<1>12. \A b \in allocated' \ Linked' : \E u \in GuestThreads : Carries(u, b)'
  <2> SUFFICES ASSUME NEW b \in allocated' \ Linked'
               PROVE  \E u \in GuestThreads : step'[u] \in Moving /\ block'[u] = b
    BY DEF Carries
  <2>1. CASE b = block[t]
    BY <1>2, <2>1 DEF Moving
  <2>2. CASE b # block[t]
    <3>1. PICK u \in GuestThreads : Carries(u, b)
      BY <1>1, <1>8, <2>2 DEF BlockInv
    <3>2. QED
      BY <1>1, <1>2, <3>1 DEF Carries, Moving
  <2>3. QED
    BY <2>1, <2>2
<1>13. \A u, v \in GuestThreads :
          step'[u] \in Moving /\ step'[v] \in Moving /\ block'[u] = block'[v] => u = v
  BY <1>2, <1>10 DEF BlockInv
<1>14. \A u \in GuestThreads : step'[u] \in Holding => lock' = u
  BY <1>2, <1>3 DEF Holding
<1>15. \A u \in GuestThreads : step'[u] = "unlink" => block'[u] \in Linked'
  BY <1>2, <1>3 DEF Holding
<1>16. QED
  BY <1>1, <1>2, <1>5, <1>8, <1>9, <1>11, <1>12, <1>13, <1>14, <1>15 DEF BlockInv

LEMMA FreeMemoryKeeps ==
    ASSUME BlockInv, NEW t \in GuestThreads, FreeMemory(t)
    PROVE  BlockInv'
<1>1. /\ step[t] = "release" /\ allocated' = allocated \ {block[t]}
      /\ Go(t, "idle", Nothing)
      /\ list' = list /\ lock' = lock
  BY DEF FreeMemory
<1>2. /\ DOMAIN step' = GuestThreads /\ DOMAIN block' = GuestThreads
      /\ step'[t] = "idle"
      /\ \A u \in GuestThreads \ {t} : step'[u] = step[u] /\ block'[u] = block[u]
  BY <1>1, GoMoves
<1>3. Linked' = Linked
  BY <1>1 DEF Linked
<1>4. QED
  BY <1>1, <1>2, <1>3 DEF BlockInv, Moving, Holding, Carries

(* A step of one part leaves the other alone. *)
LEMMA MemoryStep ==
    ASSUME MemoryInv, [MemoryNext]_memoryVars
    PROVE  MemoryInv'
<1>1. CASE HeapStep
  <2>1. HeapInv'
    BY <1>1, HeapStepKeeps DEF MemoryInv
  <2>2. UNCHANGED Environment
    BY <1>1 DEF HeapStep, environmentVars, Environment
  <2>3. BlockInv'
    BY <2>2 DEF MemoryInv, BlockInv, Environment, Linked, Carries
  <2>4. QED
    BY <2>1, <2>3 DEF MemoryInv
<1>2. CASE EnvironmentStep
  <2>1. heap' = heap /\ view' = view
    BY <1>2 DEF EnvironmentStep, heapVars
  <2>2. HeapInv'
    BY <2>1 DEF MemoryInv, HeapInv, HeapBlock, HeapKeepsItsPromise
  <2>3. PICK t \in GuestThreads :
            \/ \E b \in Blocks : GetBuild(t, b) \/ FreeBegin(t, b)
            \/ GetFails(t) \/ GetLock(t) \/ GetPush(t)
            \/ FreeFails(t) \/ FreeLock(t) \/ FreeFind(t)
            \/ FreeUnlink(t) \/ FreeMemory(t)
    BY <1>2 DEF EnvironmentStep
  <2>4. BlockInv'
    BY <2>3, GetBuildKeeps, GetFailsKeeps, GetLockKeeps, GetPushKeeps,
       FreeBeginKeeps, FreeFailsKeeps, FreeLockKeeps, FreeFindKeeps,
       FreeUnlinkKeeps, FreeMemoryKeeps DEF MemoryInv
  <2>5. QED
    BY <2>2, <2>4 DEF MemoryInv
<1>3. CASE UNCHANGED memoryVars
  <2>1. heap' = heap /\ view' = view /\ UNCHANGED Environment
    BY <1>3 DEF memoryVars, heapVars, environmentVars, Environment
  <2>2. HeapInv'
    BY <2>1 DEF MemoryInv, HeapInv, HeapBlock, HeapKeepsItsPromise
  <2>3. BlockInv'
    BY <2>1 DEF MemoryInv, BlockInv, Environment, Linked, Carries
  <2>4. QED
    BY <2>2, <2>3 DEF MemoryInv
<1>4. QED
  BY <1>1, <1>2, <1>3 DEF MemoryNext

(* After any series of heap calls and guest writes the block is as large as *)
(* the guest was told and holds what it was promised; however calls that    *)
(* get and free environment blocks interleave, each block is freed once,    *)
(* never while it is linked, and none is lost.                              *)
THEOREM SafeGuestMemory == MemorySpec => []GuestMemoryIsSafe
<1>1. MemoryInv => GuestMemoryIsSafe
  <2> SUFFICES ASSUME MemoryInv PROVE BlocksAreFreedOnce
    BY DEF MemoryInv, HeapInv, GuestMemoryIsSafe
  <2> DEFINE moving == {block[t] : t \in {u \in GuestThreads :
                                     step[u] \in {"link", "push", "release"}}}
  <2>1. allocated = Linked \cup moving /\ Linked \cap moving = {}
    BY DEF MemoryInv, BlockInv, Moving, Carries
  <2>2. \A t, u \in Releasing : t # u => block[t] # block[u]
    BY DEF MemoryInv, BlockInv, Moving, Releasing
  <2>3. QED
    BY <2>1, <2>2 DEF BlocksAreFreedOnce, Linked
<1>2. MemoryInit => MemoryInv
  BY MemoryInitially
<1>3. MemoryInv /\ [MemoryNext]_memoryVars => MemoryInv'
  BY MemoryStep
<1>4. QED
  BY <1>1, <1>2, <1>3, PTL DEF MemorySpec
=============================================================================
