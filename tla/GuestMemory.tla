----------------------------- MODULE GuestMemory -----------------------------
(***************************************************************************)
(* Memory KERNEL32 hands to the guest: the process heap and the environment *)
(* blocks.  A heap block is malloc's memory behind a header that records    *)
(* the size asked for; environment blocks are kept on a list under a lock   *)
(* so that a block is freed once.  The two share nothing: a behaviour uses  *)
(* one of them.                                                             *)
(***************************************************************************)
EXTENDS Naturals, Sequences, SequencesExt

CONSTANTS GuestThreads,      \* guest threads
          Blocks,       \* addresses malloc may return for environment blocks
          MaxSize       \* bound: bytes of a heap block

ASSUME GuestMemoryAssumption ==
  /\ MaxSize \in Nat
  /\ "free" \notin GuestThreads      \* the mark of a lock nobody holds

VARIABLES part,         \* "heap" or "environment"
          \* the heap block:
          heap,         \* [live, size, bytes]: header.size and the payload
          view,         \* what the guest may rely on, per byte of its block
          \* the environment blocks:
          list,         \* sl_environment_blocks
          allocated,    \* blocks malloc gave out
          lock,         \* sl_environment_lock
          step, block   \* per thread: what it does next, and its block

heapVars == <<heap, view>>
environmentVars == <<list, allocated, lock, step, block>>
memoryVars == <<part, heapVars, environmentVars>>

Unlocked == "free"          \* nobody holds the lock
Nothing == "nothing"
Stale == 2               \* a byte left by earlier use; 0 is zero, 1 the guest's
Unspecified == 3         \* a byte the guest may not rely on

----------------------------------------------------------------------------
(* The heap.  realloc keeps the bytes both sizes have; what it adds holds    *)
(* anything.                                                                *)

Payload(size) == IF size = 0 THEN 1 ELSE size
Resized(bytes, n) ==
  [i \in 1 .. n |-> IF i <= Len(bytes) THEN bytes[i] ELSE Stale]
Zeroed(bytes, from) ==
  [i \in 1 .. Len(bytes) |-> IF i > from THEN 0 ELSE bytes[i]]
NoBlock == [live |-> FALSE, size |-> 0, bytes |-> <<>>]

HeapAlloc(size, zero) ==
  /\ ~heap.live
  /\ LET fresh == Resized(<<>>, Payload(size))
     IN  heap' = [live |-> TRUE, size |-> size,
                  bytes |-> IF zero THEN Zeroed(fresh, 0) ELSE fresh]
  /\ view' = [i \in 1 .. size |-> IF zero THEN 0 ELSE Unspecified]

HeapFree ==
  /\ heap.live
  /\ heap' = NoBlock
  /\ view' = <<>>

\* What a grown block shows: the old bytes, then zeroes or anything.
Grown(size, zero) ==
  [i \in 1 .. size |-> IF i <= Len(view) THEN view[i]
                       ELSE IF zero THEN 0 ELSE Unspecified]

\* Growth is cleared from the size on record, not from malloc's.
ClearedFrom == heap.size

HeapReAllocInPlace(size) ==
  /\ heap.live
  /\ size <= heap.size
  /\ heap' = [heap EXCEPT !.size = size]
  /\ view' = Grown(size, FALSE)

HeapReAlloc(size, zero) ==
  /\ heap.live
  /\ LET moved == Resized(heap.bytes, Payload(size))
     IN  heap' = [heap EXCEPT !.size = size,
                    !.bytes = IF zero /\ size > heap.size
                              THEN Zeroed(moved, ClearedFrom) ELSE moved]
  /\ view' = Grown(size, zero)

\* The guest writes a byte of its block.
Write(i) ==
  /\ heap.live /\ i <= Len(view)
  /\ heap' = [heap EXCEPT !.bytes[i] = 1]
  /\ view' = [view EXCEPT ![i] = 1]

HeapStep ==
  /\ part = "heap"
  /\ \/ \E n \in 0 .. MaxSize, z \in BOOLEAN : HeapAlloc(n, z) \/ HeapReAlloc(n, z)
     \/ \E n \in 0 .. MaxSize : HeapReAllocInPlace(n)
     \/ \E i \in 1 .. MaxSize : Write(i)
     \/ HeapFree
  /\ UNCHANGED <<part, environmentVars>>

----------------------------------------------------------------------------
(* Environment blocks. *)

Go(t, next, b) ==
  /\ step' = [step EXCEPT ![t] = next]
  /\ block' = [block EXCEPT ![t] = b]

\* GetEnvironmentStringsW up to the lock: the strings are sorted and
\* converted into a new block; a failure leaves no trace.
GetBuild(t, b) ==
  /\ step[t] = "idle" /\ b \notin allocated
  /\ allocated' = allocated \cup {b}
  /\ Go(t, "link", b)
  /\ UNCHANGED <<list, lock>>

\* The lock could not be made: the new block is freed again.
GetFails(t) ==
  /\ step[t] = "link"
  /\ allocated' = allocated \ {block[t]}
  /\ Go(t, "idle", Nothing)
  /\ UNCHANGED <<list, lock>>

GetLock(t) ==
  /\ step[t] = "link" /\ lock = Unlocked
  /\ lock' = t
  /\ Go(t, "push", block[t])
  /\ UNCHANGED <<list, allocated>>

GetPush(t) ==
  /\ step[t] = "push"
  /\ list' = <<block[t]>> \o list
  /\ lock' = Unlocked
  /\ Go(t, "idle", Nothing)
  /\ UNCHANGED allocated

\* FreeEnvironmentStringsW of any address, known to it or not.
FreeBegin(t, b) ==
  /\ step[t] = "idle"
  /\ Go(t, "lock", b)
  /\ UNCHANGED <<list, allocated, lock>>

FreeFails(t) ==
  /\ step[t] = "lock"
  /\ Go(t, "idle", Nothing)
  /\ UNCHANGED <<list, allocated, lock>>

\* The list is searched and changed without the lock.
FreeUnlocked(t) ==
  /\ step[t] = "lock"
  /\ Go(t, "find", block[t])
  /\ UNCHANGED <<list, allocated, lock>>

FreeLock(t) ==
  /\ step[t] = "lock" /\ lock = Unlocked
  /\ lock' = t
  /\ Go(t, "find", block[t])
  /\ UNCHANGED <<list, allocated>>

FreeFind(t) ==
  /\ step[t] = "find"
  /\ IF \E i \in 1 .. Len(list) : list[i] = block[t]
     THEN Go(t, "unlink", block[t]) /\ UNCHANGED lock
     ELSE Go(t, "idle", Nothing) /\ lock' = Unlocked
  /\ UNCHANGED <<list, allocated>>

\* The block is taken out of the list.
FreeUnlink(t) ==
  /\ step[t] = "unlink"
  /\ list' = RemoveFirst(list, block[t])
  /\ lock' = Unlocked
  /\ Go(t, "release", block[t])
  /\ UNCHANGED allocated

\* free() outside the lock.
FreeMemory(t) ==
  /\ step[t] = "release"
  /\ allocated' = allocated \ {block[t]}
  /\ Go(t, "idle", Nothing)
  /\ UNCHANGED <<list, lock>>

EnvironmentStep ==
  /\ part = "environment"
  /\ \E t \in GuestThreads :
       \/ \E b \in Blocks : GetBuild(t, b) \/ FreeBegin(t, b)
       \/ GetFails(t) \/ GetLock(t) \/ GetPush(t)
       \/ FreeFails(t) \/ FreeLock(t) \/ FreeFind(t) \/ FreeUnlink(t) \/ FreeMemory(t)
  /\ UNCHANGED <<part, heapVars>>

MemoryInit ==
  /\ part \in {"heap", "environment"}
  /\ heap = NoBlock /\ view = <<>>
  /\ list = <<>> /\ allocated = {} /\ lock = Unlocked
  /\ step = [t \in GuestThreads |-> "idle"]
  /\ block = [t \in GuestThreads |-> Nothing]

MemoryNext == HeapStep \/ EnvironmentStep
MemorySpec == MemoryInit /\ [][MemoryNext]_memoryVars

----------------------------------------------------------------------------
(* Properties. *)

\* After any series of HeapAlloc, HeapReAlloc, in place or not, and writes,
\* the block is as large as the guest was told and every byte it may rely on,
\* written or promised to be zero, is there.
HeapKeepsItsPromise ==
  /\ heap.size = Len(view)
  /\ heap.live => Len(heap.bytes) >= Payload(heap.size)
  /\ \A i \in 1 .. Len(view) : view[i] \in {heap.bytes[i], Unspecified}

Releasing == {t \in GuestThreads : step[t] = "release"}

\* However calls that get and free environment blocks interleave, and however
\* often an address is freed: every block on the list is allocated memory, no
\* block is freed twice or while it is on the list, and none is lost.
BlocksAreFreedOnce ==
  LET linked == {list[i] : i \in 1 .. Len(list)}
      moving == {block[t] : t \in {u \in GuestThreads :
                                     step[u] \in {"link", "push", "release"}}}
  IN  /\ allocated = linked \cup moving
      /\ linked \cap moving = {}
      /\ \A t, u \in Releasing : t # u => block[t] # block[u]

\* Memory given to the guest is as large and holds what HeapAlloc and
\* HeapReAlloc promise, and an environment block is given back once.
GuestMemoryIsSafe == HeapKeepsItsPromise /\ BlocksAreFreedOnce
=============================================================================
