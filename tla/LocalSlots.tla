----------------------------- MODULE LocalSlots -----------------------------
(***************************************************************************)
(* The TLS and FLS slots of KERNEL32 (src/src/kernel32.c, local_alloc to   *)
(* sl_kernel32_fls_set_value).  The slots are process-wide and lock-free;  *)
(* each thread has a value cell per slot that only it reads and writes.    *)
(* Every access of a slot's three atomics is a step of its own.            *)
(*                                                                         *)
(* An actor is a call in progress: <<t, 0>> is the call thread t makes,    *)
(* <<t, d + 1>> the call its FLS callback makes while <<t, d>> runs it.    *)
(***************************************************************************)
EXTENDS Integers, FiniteSets

CONSTANTS
    Threads,          \* host threads, one value array each
    MaxDepth,         \* bound: calls nested inside FLS callbacks
    SlotCount,        \* SL_LOCAL_SLOT_COUNT
    Values,           \* pointers the guest stores
    Null,             \* the NULL pointer
    Callbacks,        \* FLS callback addresses
    NoCallback,       \* callback address 0: TlsAlloc, or FlsAlloc(NULL)
    InvokeCallback,   \* TRUE for the FLS table, FALSE for the TLS table
    GenerationLimit,  \* a generation is an integer modulo this (2^64)
    MaxAllocs         \* bound: calls of TlsAlloc or FlsAlloc

ASSUME LocalSlotsAssumption ==
    /\ SlotCount \in Nat \ {0}
    /\ MaxDepth \in Nat
    /\ MaxAllocs \in Nat
    /\ GenerationLimit \in Nat /\ GenerationLimit > 1
    /\ Null \notin Values
    /\ NoCallback \notin Callbacks
    /\ InvokeCallback \in BOOLEAN

Slots  == 0 .. SlotCount - 1
Actors == Threads \X (0 .. MaxDepth)

Thread(a) == a[1]
Parent(a) == <<a[1], a[2] - 1>>
Child(a)  == <<a[1], a[2] + 1>>

Generations == 0 .. GenerationLimit - 1

VARIABLES
    state,        \* per slot: "free", "initializing", "allocated"
    generation,   \* per slot
    callback,     \* per slot: callback_address
    cell,         \* per thread and slot: [value, generation]
    pc, op,       \* per actor: the next step, and the call it belongs to
    idx, arg,     \* per actor: slot index and the value or callback passed
    gen, val, cb, \* per actor: locals generation, value, callback_address
    \* What happened, for the properties only:
    allocs,       \* calls of local_alloc so far
    tenancy,      \* per slot: how often it has been allocated
    registered,   \* per slot: the callback passed to its last FlsAlloc
    stored,       \* per thread and slot: last set that returned TRUE
    called,       \* per slot: callbacks run for the last tenancy
    witness,      \* per actor: tenancy when the call confirmed the slot
    disturbed     \* per actor: the slot was unallocated during the call

slotVars  == <<state, generation, callback>>
callVars  == <<pc, op, idx, arg, gen, val, cb>>
ghostVars == <<allocs, tenancy, registered, stored, called, witness, disturbed>>
vars == <<slotVars, cell, callVars, ghostVars>>

EmptyCell == [value |-> Null, generation |-> 0]

Pointers  == Values \cup {Null}
Addresses == Callbacks \cup {NoCallback}

States == {"free", "initializing", "allocated"}
Ops    == {"none", "alloc", "free", "get", "set"}
Steps  == {"idle", "alloc_cas", "alloc_generation", "alloc_skip_zero",
           "alloc_callback", "alloc_publish",
           "free_cas", "free_value", "free_load", "free_clear", "callback",
           "free_release",
           "before", "state", "after", "get_value", "set_value",
           "confirm", "recheck", "granted", "refused"}

TypeOK ==
    /\ state \in [Slots -> States]
    /\ generation \in [Slots -> Generations]
    /\ callback \in [Slots -> Addresses]
    /\ cell \in [Threads -> [Slots -> [value : Pointers, generation : Generations]]]
    /\ pc \in [Actors -> Steps]
    /\ op \in [Actors -> Ops]
    /\ idx \in [Actors -> Slots]
    /\ arg \in [Actors -> Pointers \cup Addresses]
    /\ gen \in [Actors -> Generations]
    /\ val \in [Actors -> Pointers]
    /\ cb \in [Actors -> Addresses]
    /\ allocs \in 0 .. MaxAllocs
    /\ tenancy \in [Slots -> Nat]
    /\ registered \in [Slots -> Addresses]
    /\ stored \in [Threads -> [Slots -> [value : Pointers, tenancy : Nat]]]
    /\ called \in [Slots -> Nat]
    /\ witness \in [Actors -> Nat]
    /\ disturbed \in [Actors -> BOOLEAN]

-----------------------------------------------------------------------------
(* The static slot tables and the zeroed value arrays.                     *)

FirstSlot == 0

Init ==
    /\ state = [s \in Slots |-> "free"]
    /\ generation = [s \in Slots |-> 0]
    /\ callback = [s \in Slots |-> NoCallback]
    /\ cell = [t \in Threads |-> [s \in Slots |-> EmptyCell]]
    /\ pc = [a \in Actors |-> "idle"]
    /\ op = [a \in Actors |-> "none"]
    /\ idx = [a \in Actors |-> FirstSlot]
    /\ arg = [a \in Actors |-> Null]
    /\ gen = [a \in Actors |-> 0]
    /\ val = [a \in Actors |-> Null]
    /\ cb = [a \in Actors |-> NoCallback]
    /\ allocs = 0
    /\ tenancy = [s \in Slots |-> 0]
    /\ registered = [s \in Slots |-> NoCallback]
    /\ stored = [t \in Threads |-> [s \in Slots |-> [value |-> Null, tenancy |-> 0]]]
    /\ called = [s \in Slots |-> 0]
    /\ witness = [a \in Actors |-> 0]
    /\ disturbed = [a \in Actors |-> FALSE]

Goto(a, step) == pc' = [pc EXCEPT ![a] = step]

\* A thread makes one call at a time; a nested call is made by the callback.
MayCall(a) ==
    /\ pc[a] = "idle"
    /\ Parent(a) \in Actors => pc[Parent(a)] = "callback"

Call(a, name, s, x) ==
    /\ MayCall(a)
    /\ op' = [op EXCEPT ![a] = name]
    /\ idx' = [idx EXCEPT ![a] = s]
    /\ arg' = [arg EXCEPT ![a] = x]

\* The call returns; its locals are gone.
Return(a) ==
    /\ pc[a] \in {"granted", "refused"}
    /\ Goto(a, "idle")
    /\ op' = [op EXCEPT ![a] = "none"]
    /\ idx' = [idx EXCEPT ![a] = FirstSlot]
    /\ arg' = [arg EXCEPT ![a] = Null]
    /\ gen' = [gen EXCEPT ![a] = 0]
    /\ val' = [val EXCEPT ![a] = Null]
    /\ cb' = [cb EXCEPT ![a] = NoCallback]
    /\ witness' = [witness EXCEPT ![a] = 0]
    /\ disturbed' = [disturbed EXCEPT ![a] = FALSE]
    /\ UNCHANGED <<slotVars, cell, allocs, tenancy, registered, stored, called>>

\* Slot s stops being allocated: every get or set on it is disturbed.
Disturb(s) ==
    disturbed' = [a \in Actors |->
                    \/ disturbed[a]
                    \/ op[a] \in {"get", "set"} /\ idx[a] = s]

-----------------------------------------------------------------------------
(* local_alloc: take the first free slot, number the tenancy, publish it.  *)

Alloc(a) ==
    /\ allocs < MaxAllocs
    /\ allocs' = allocs + 1
    /\ \E f \in Addresses : Call(a, "alloc", FirstSlot, f)
    /\ Goto(a, "alloc_cas")
    /\ UNCHANGED <<slotVars, cell, gen, val, cb, tenancy, registered, stored,
                   called, witness, disturbed>>

AllocTake(a) ==
    /\ pc[a] = "alloc_cas"
    /\ state[idx[a]] = "free"
    /\ state' = [state EXCEPT ![idx[a]] = "initializing"]
    /\ tenancy' = [tenancy EXCEPT ![idx[a]] = @ + 1]
    /\ registered' = [registered EXCEPT ![idx[a]] = arg[a]]
    /\ called' = [called EXCEPT ![idx[a]] = 0]
    /\ Goto(a, "alloc_generation")
    /\ UNCHANGED <<generation, callback, cell, op, idx, arg, gen, val, cb,
                   allocs, stored, witness, disturbed>>

\* The compare-exchange fails: next index, or out of indexes.
AllocNext(a) ==
    /\ pc[a] = "alloc_cas"
    /\ state[idx[a]] # "free"
    /\ IF idx[a] + 1 \in Slots
       THEN /\ idx' = [idx EXCEPT ![a] = @ + 1]
            /\ pc' = pc
       ELSE /\ idx' = idx
            /\ Goto(a, "refused")
    /\ UNCHANGED <<slotVars, cell, op, arg, gen, val, cb, ghostVars>>

NextGeneration(g) == (g + 1) % GenerationLimit

AllocGeneration(a) ==
    /\ pc[a] = "alloc_generation"
    /\ LET g == NextGeneration(generation[idx[a]]) IN
         /\ generation' = [generation EXCEPT ![idx[a]] = g]
         /\ Goto(a, IF g = 0 THEN "alloc_skip_zero" ELSE "alloc_callback")
    /\ UNCHANGED <<state, callback, cell, op, idx, arg, gen, val, cb, ghostVars>>

AllocSkipZero(a) ==
    /\ pc[a] = "alloc_skip_zero"
    /\ generation' = [generation EXCEPT ![idx[a]] = NextGeneration(@)]
    /\ Goto(a, "alloc_callback")
    /\ UNCHANGED <<state, callback, cell, op, idx, arg, gen, val, cb, ghostVars>>

AllocCallback(a) ==
    /\ pc[a] = "alloc_callback"
    /\ callback' = [callback EXCEPT ![idx[a]] = arg[a]]
    /\ Goto(a, "alloc_publish")
    /\ UNCHANGED <<state, generation, cell, op, idx, arg, gen, val, cb, ghostVars>>

AllocPublish(a) ==
    /\ pc[a] = "alloc_publish"
    /\ state' = [state EXCEPT ![idx[a]] = "allocated"]
    /\ Goto(a, "granted")
    /\ UNCHANGED <<generation, callback, cell, op, idx, arg, gen, val, cb, ghostVars>>

-----------------------------------------------------------------------------
(* local_free: claim the slot, take the own value and the callback, run    *)
(* the callback outside any lock, and only then give the slot back.        *)

Free(a) ==
    /\ \E s \in Slots : Call(a, "free", s, Null)
    /\ Goto(a, "free_cas")
    /\ UNCHANGED <<slotVars, cell, gen, val, cb, ghostVars>>

\* Mutant: the state is tested, not exchanged.
FreeWithoutClaim(a) ==
    /\ pc[a] = "free_cas"
    /\ state[idx[a]] = "allocated"
    /\ Goto(a, "free_value")
    /\ UNCHANGED <<slotVars, cell, op, idx, arg, gen, val, cb, ghostVars>>

FreeClaim(a) ==
    /\ pc[a] = "free_cas"
    /\ state[idx[a]] = "allocated"
    /\ state' = [state EXCEPT ![idx[a]] = "initializing"]
    /\ Disturb(idx[a])
    /\ Goto(a, "free_value")
    /\ UNCHANGED <<generation, callback, cell, op, idx, arg, gen, val, cb,
                   allocs, tenancy, registered, stored, called, witness>>

FreeReject(a) ==
    /\ pc[a] = "free_cas"
    /\ state[idx[a]] # "allocated"
    /\ Goto(a, "refused")
    /\ UNCHANGED <<slotVars, cell, op, idx, arg, gen, val, cb, ghostVars>>

\* Mutant: the generation of the value is not looked at.
AnyValue(a, g) == cell[Thread(a)][idx[a]].value

\* The own value, if it was set under generation g.
Current(a, g) ==
    LET c == cell[Thread(a)][idx[a]] IN
    IF c.generation = g THEN c.value ELSE Null

FreeValue(a) ==
    /\ pc[a] = "free_value"
    /\ gen' = [gen EXCEPT ![a] = generation[idx[a]]]
    /\ val' = [val EXCEPT ![a] = Current(a, generation[idx[a]])]
    /\ Goto(a, "free_load")
    /\ UNCHANGED <<slotVars, cell, op, idx, arg, cb, ghostVars>>

FreeLoad(a) ==
    /\ pc[a] = "free_load"
    /\ cb' = [cb EXCEPT ![a] = callback[idx[a]]]
    /\ cell' = [cell EXCEPT ![Thread(a)][idx[a]] = EmptyCell]
    /\ Goto(a, "free_clear")
    /\ UNCHANGED <<slotVars, op, idx, arg, gen, val, ghostVars>>

RunsCallback(a) == InvokeCallback /\ cb[a] # NoCallback /\ val[a] # Null

FreeClear(a) ==
    /\ pc[a] = "free_clear"
    /\ callback' = [callback EXCEPT ![idx[a]] = NoCallback]
    /\ IF RunsCallback(a)
       THEN /\ Goto(a, "callback")
            /\ called' = [called EXCEPT ![idx[a]] = @ + 1]
       ELSE /\ Goto(a, "free_release")
            /\ called' = called
    /\ UNCHANGED <<state, generation, cell, op, idx, arg, gen, val, cb,
                   allocs, tenancy, registered, stored, witness, disturbed>>

\* The guest callback returns, once the calls it made have returned.
CallbackReturn(a) ==
    /\ pc[a] = "callback"
    /\ Child(a) \in Actors => pc[Child(a)] = "idle"
    /\ Goto(a, "free_release")
    /\ UNCHANGED <<slotVars, cell, op, idx, arg, gen, val, cb, ghostVars>>

FreeRelease(a) ==
    /\ pc[a] = "free_release"
    /\ state' = [state EXCEPT ![idx[a]] = "free"]
    /\ Goto(a, "granted")
    /\ UNCHANGED <<generation, callback, cell, op, idx, arg, gen, val, cb, ghostVars>>

-----------------------------------------------------------------------------
(* local_generation, local_get and local_set: read a stable generation,    *)
(* use the own cell, and confirm that the slot was not freed meanwhile.    *)
(* An index past the table is refused before any state is read.            *)

Get(a) ==
    /\ \E s \in Slots :
         /\ Call(a, "get", s, Null)
         /\ disturbed' = [disturbed EXCEPT ![a] = state[s] # "allocated"]
    /\ Goto(a, "before")
    /\ UNCHANGED <<slotVars, cell, gen, val, cb, allocs, tenancy, registered,
                   stored, called, witness>>

Set(a) ==
    /\ \E s \in Slots, v \in Pointers :
         /\ Call(a, "set", s, v)
         /\ disturbed' = [disturbed EXCEPT ![a] = state[s] # "allocated"]
    /\ Goto(a, "before")
    /\ UNCHANGED <<slotVars, cell, gen, val, cb, allocs, tenancy, registered,
                   stored, called, witness>>

GenerationBefore(a) ==
    /\ pc[a] = "before"
    /\ gen' = [gen EXCEPT ![a] = generation[idx[a]]]
    /\ Goto(a, "state")
    /\ UNCHANGED <<slotVars, cell, op, idx, arg, val, cb, ghostVars>>

GenerationState(a) ==
    /\ pc[a] = "state"
    /\ Goto(a, IF state[idx[a]] = "allocated" THEN "after" ELSE "refused")
    /\ UNCHANGED <<slotVars, cell, op, idx, arg, gen, val, cb, ghostVars>>

GenerationAfter(a) ==
    /\ pc[a] = "after"
    /\ Goto(a, IF generation[idx[a]] # gen[a] THEN "before"
               ELSE IF op[a] = "get" THEN "get_value" ELSE "set_value")
    /\ UNCHANGED <<slotVars, cell, op, idx, arg, gen, val, cb, ghostVars>>

GetValue(a) ==
    /\ pc[a] = "get_value"
    /\ val' = [val EXCEPT ![a] = Current(a, gen[a])]
    /\ Goto(a, "confirm")
    /\ UNCHANGED <<slotVars, cell, op, idx, arg, gen, cb, ghostVars>>

SetValue(a) ==
    /\ pc[a] = "set_value"
    /\ cell' = [cell EXCEPT ![Thread(a)][idx[a]] =
                              [value |-> arg[a], generation |-> gen[a]]]
    /\ Goto(a, "confirm")
    /\ UNCHANGED <<slotVars, op, idx, arg, gen, val, cb, ghostVars>>

\* A failed set takes its value back; a failed get has nothing to undo.
Withdraw(a) ==
    IF op[a] = "set"
    THEN cell' = [cell EXCEPT ![Thread(a)][idx[a]] = EmptyCell]
    ELSE cell' = cell

Confirm(a) ==
    /\ pc[a] = "confirm"
    /\ IF state[idx[a]] = "allocated"
       THEN /\ Goto(a, "recheck")
            /\ witness' = [witness EXCEPT ![a] = tenancy[idx[a]]]
            /\ cell' = cell
       ELSE /\ Goto(a, "refused")
            /\ Withdraw(a)
            /\ witness' = witness
    /\ UNCHANGED <<slotVars, op, idx, arg, gen, val, cb, allocs, tenancy,
                   registered, stored, called, disturbed>>

Recheck(a) ==
    /\ pc[a] = "recheck"
    /\ IF generation[idx[a]] = gen[a]
       THEN /\ Goto(a, "granted")
            /\ cell' = cell
            /\ IF op[a] = "set"
               THEN stored' = [stored EXCEPT ![Thread(a)][idx[a]] =
                                 [value |-> arg[a], tenancy |-> witness[a]]]
               ELSE stored' = stored
       ELSE /\ Goto(a, "refused")
            /\ Withdraw(a)
            /\ stored' = stored
    /\ UNCHANGED <<slotVars, op, idx, arg, gen, val, cb, allocs, tenancy,
                   registered, called, witness, disturbed>>

-----------------------------------------------------------------------------
Step(a) ==
    \/ Alloc(a) \/ AllocTake(a) \/ AllocNext(a) \/ AllocGeneration(a)
    \/ AllocSkipZero(a) \/ AllocCallback(a) \/ AllocPublish(a)
    \/ Free(a) \/ FreeClaim(a) \/ FreeReject(a) \/ FreeValue(a) \/ FreeLoad(a)
    \/ FreeClear(a) \/ CallbackReturn(a) \/ FreeRelease(a)
    \/ Get(a) \/ Set(a) \/ GenerationBefore(a) \/ GenerationState(a)
    \/ GenerationAfter(a) \/ GetValue(a) \/ SetValue(a)
    \/ Confirm(a) \/ Recheck(a)
    \/ Return(a)

Next == \E a \in Actors : Step(a)

Spec == Init /\ [][Next]_vars

-----------------------------------------------------------------------------
(* Properties.  A generation repeats after GenerationLimit allocations of  *)
(* one slot; the properties speak of the tenancies before that.            *)

\* A get that succeeds returns what this thread last stored in the tenancy
\* of the slot that was live when the get confirmed it, and NULL if it has
\* stored nothing in that tenancy: never a value of an earlier tenancy, and
\* never a value that a failed set left behind.
GetReturnsCurrentValue ==
    \A a \in Actors :
        (pc[a] = "granted" /\ op[a] = "get" /\ tenancy[idx[a]] < GenerationLimit) =>
            LET last == stored[Thread(a)][idx[a]] IN
            val[a] = IF last.tenancy = witness[a] THEN last.value ELSE Null

\* local_generation, local_get and local_set refuse an index only if its
\* slot was not allocated at some time during the call.
RefusalIsJustified ==
    \A a \in Actors :
        (pc[a] = "refused" /\ op[a] \in {"get", "set"}) => disturbed[a]

\* A slot is in SL_SLOT_INITIALIZING exactly while one local_alloc or
\* local_free owns it, and never two.
Owners(s) ==
    {a \in Actors : /\ idx[a] = s
                    /\ pc[a] \in {"alloc_generation", "alloc_skip_zero",
                                  "alloc_callback", "alloc_publish",
                                  "free_value", "free_load", "free_clear",
                                  "callback", "free_release"}}

OneOwner ==
    \A s \in Slots :
        /\ \A a, b \in Owners(s) : a = b
        /\ state[s] = "initializing" <=> Owners(s) # {}

\* FlsFree runs the callback that FlsAlloc registered for this tenancy, on
\* the value this thread stored in this tenancy, exactly when there are both.
FlsCallbackIsExact ==
    \A a \in Actors :
        (pc[a] \in {"callback", "free_release"} /\ tenancy[idx[a]] < GenerationLimit) =>
            LET s    == idx[a]
                last == stored[Thread(a)][s]
                due  == /\ InvokeCallback
                        /\ registered[s] # NoCallback
                        /\ last.tenancy = tenancy[s]
                        /\ last.value # Null
            IN  /\ called[s] = IF due THEN 1 ELSE 0
                /\ due => cb[a] = registered[s] /\ val[a] = last.value

\* Whatever local_alloc and local_free interleave with, nested calls of an FLS
\* callback included, a slot between two states has one owner and every
\* generation stays in its width.
SlotsAreConsistent == TypeOK /\ OneOwner

\* Whatever other threads do to the slot, TlsGetValue and TlsSetValue answer
\* for the tenancy they were called in, or refuse with reason.
AnswersAreTruthful == GetReturnsCurrentValue /\ RefusalIsJustified
=============================================================================
