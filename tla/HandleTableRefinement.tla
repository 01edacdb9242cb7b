------------------------ MODULE HandleTableRefinement ------------------------
(***************************************************************************)
(* The handle table implements the abstract store of HandleStore.  Tokens  *)
(* are the handles; a token is bound while the slot it points to publishes *)
(* a record under the token's generation, and closed once it has been      *)
(* issued and is bound no more.  An object leaves the store when its       *)
(* destructor has returned.                                                *)
(***************************************************************************)
EXTENDS HandleTable

CONSTANTS Unused, Closed

ASSUME RefinementAssumption ==
    Unused \notin Objects /\ Closed \notin Objects /\ Unused # Closed

Bound(h) ==
    /\ Decodable(h)
    /\ slots[SlotIndex(h)].record # NoObject
    /\ slots[SlotIndex(h)].generation = h.generation

NamesBar ==
    [h \in Tokens |-> IF Bound(h) THEN slots[SlotIndex(h)].record
                      ELSE IF issued[h] # NoObject THEN Closed ELSE Unused]

OwnerBar ==
    [o \in Objects |-> CASE life[o] \in {"new", "private"} -> "caller"
                         [] life[o] \in {"live", "freed"} -> "store"
                         [] OTHER -> "reclaimed"]

Store == INSTANCE HandleStore
            WITH Handles <- Tokens, names <- NamesBar, held <- lease,
                 owner <- OwnerBar, open <- ~destroying

(* Every behaviour of the table is one of the abstract store: each call    *)
(* takes effect at one of its own steps, and an object is reclaimed only   *)
(* when the store allows it.                                               *)
ImplementsStore == Store!Spec

(* With the fairness of the threads the table also implements the store's   *)
(* fairness: every object that can be reclaimed is.                         *)
ImplementsFairStore == Store!Fairness
=============================================================================
