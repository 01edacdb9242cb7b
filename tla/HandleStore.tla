----------------------------- MODULE HandleStore -----------------------------
(***************************************************************************)
(* What include/sadlayer/handle_table.h promises its callers, with no      *)
(* lock, no slot, no generation and no count.  Every handle names at most  *)
(* one object, ever; a close takes effect at one instant; an object is     *)
(* reclaimed exactly once, after its handle is closed and its last lease   *)
(* is returned.                                                            *)
(***************************************************************************)
CONSTANTS Threads, Objects, Handles, NoObject, Unused, Closed

VARIABLES
    names,   \* handle -> the object it names, Unused or Closed
    held,    \* thread -> the object it holds a lease on
    owner,   \* object -> who is responsible for it
    open     \* the store has not been shut down

vars == <<names, held, owner, open>>

TypeOK ==
    /\ names \in [Handles -> Objects \cup {Unused, Closed}]
    /\ held \in [Threads -> Objects \cup {NoObject}]
    /\ owner \in [Objects -> {"caller", "store", "reclaimed"}]
    /\ open \in BOOLEAN

Init ==
    /\ names = [h \in Handles |-> Unused]
    /\ held = [t \in Threads |-> NoObject]
    /\ owner = [o \in Objects |-> "caller"]
    /\ open = TRUE

(* A new handle is bound to an object the caller gives away. *)
Insert(h, o) ==
    /\ open
    /\ owner[o] = "caller"
    /\ owner' = [owner EXCEPT ![o] = "store"]
    /\ names[h] = Unused
    /\ names' = [names EXCEPT ![h] = o]
    /\ UNCHANGED <<held, open>>

Acquire(t, h) ==
    /\ open
    /\ held[t] = NoObject
    /\ names[h] \in Objects
    /\ held' = [held EXCEPT ![t] = names[h]]
    /\ UNCHANGED <<names, owner, open>>

Release(t) ==
    /\ held[t] # NoObject
    /\ held' = [held EXCEPT ![t] = NoObject]
    /\ UNCHANGED <<names, owner, open>>

Close(h) ==
    /\ open
    /\ names[h] \in Objects
    /\ names' = [names EXCEPT ![h] = Closed]
    /\ UNCHANGED <<held, owner, open>>

(* Shutting down closes every handle at one instant. *)
Shutdown ==
    /\ open
    /\ open' = FALSE
    /\ names' = [h \in Handles |-> IF names[h] \in Objects THEN Closed
                                                           ELSE names[h]]
    /\ UNCHANGED <<held, owner>>

(* The destructor runs: no handle names the object and no lease is on it. *)
Reclaim(o) ==
    /\ owner[o] = "store"
    /\ \A h \in Handles : names[h] # o
    /\ \A t \in Threads : held[t] # o
    /\ owner' = [owner EXCEPT ![o] = "reclaimed"]
    /\ UNCHANGED <<names, held, open>>

Next ==
    \/ \E h \in Handles, o \in Objects : Insert(h, o)
    \/ \E t \in Threads, h \in Handles : Acquire(t, h)
    \/ \E t \in Threads : Release(t)
    \/ \E h \in Handles : Close(h)
    \/ Shutdown
    \/ \E o \in Objects : Reclaim(o)

Spec == Init /\ [][Next]_vars

(* What cannot be used any more is reclaimed in the end. *)
Fairness == \A o \in Objects : WF_vars(Reclaim(o))
=============================================================================
