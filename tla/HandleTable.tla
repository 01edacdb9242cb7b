----------------------------- MODULE HandleTable -----------------------------
(***************************************************************************)
(* The typed handle table of one guest process: src/src/handle_table.c.    *)
(*                                                                         *)
(* A table is an array of slots guarded by a spin lock.  A slot publishes  *)
(* a reference-counted record (one per object), and the handle given to    *)
(* the guest is the slot's ordinal together with the slot's generation at  *)
(* the time of the insertion.  A tracker, which outlives the table,        *)
(* counts references (the table, every record, every activity) and         *)
(* external activities (leases, and closes still running a destructor) in  *)
(* the two halves of one atomic word.                                      *)
(*                                                                         *)
(* Any number of threads call the table.  A step is one access of shared   *)
(* memory: taking the lock, the reads a critical section decides on, its   *)
(* writes together with the unlock, and one step for every atomic          *)
(* decrement and for the destructor that run after the unlock.             *)
(*                                                                         *)
(* A record is identified with the object it owns.                         *)
(***************************************************************************)
EXTENDS Naturals, FiniteSets

CONSTANTS
    Threads,         \* host threads that call the table
    Objects,         \* file and search objects that callers may insert
    NoObject,        \* the null pointer
    NSlots,          \* SL_HANDLE_TABLE_CAPACITY
    MaxGeneration,   \* UINT32_MAX, the last generation of a slot
    MaxReferences,   \* UINT_MAX, the cap on the references of a record
    MaxTracker       \* UINT32_MAX, the cap on either half of the tracker

ASSUME HandleTableAssumption ==
    /\ IsFiniteSet(Threads)
    /\ IsFiniteSet(Objects)
    /\ NoObject \notin Objects
    /\ NSlots \in Nat
    /\ MaxGeneration \in Nat \ {0}
    /\ MaxReferences \in Nat \ {0}
    /\ MaxTracker \in Nat \ {0}

Slots == 0 .. NSlots - 1
Kinds == {"FILE", "SEARCH"}

(***************************************************************************)
(* A token is any 64-bit value a guest may pass as a handle, cut into the  *)
(* three fields the code reads.  The tag stands for the upper 16 bits      *)
(* being right.                                                            *)
(***************************************************************************)
Tokens == [tag : BOOLEAN, generation : 0 .. MaxGeneration,
           ordinal : 0 .. NSlots + 1]

EncodeHandle(s, g) == [tag |-> TRUE, generation |-> g, ordinal |-> s + 1]

Decodable(h) ==
    h.tag /\ h.ordinal # 0 /\ h.ordinal <= NSlots /\ h.generation # 0

SlotIndex(h) == h.ordinal - 1

NoToken == [tag |-> FALSE, generation |-> 0, ordinal |-> 0]

VARIABLES
    locked,      \* the spin lock of the table
    destroying,  \* set by sl_handle_table_destroy under the lock
    table,       \* life of the table's memory and of its tracker reference
    slots,       \* slot -> record, generation, retired
    pending,     \* the records sl_handle_table_destroy still has to release
    refs,        \* object -> references of its record
    kind,        \* object -> kind of its record
    life,        \* object -> how far its record and the object itself live
    tracker,     \* reference and activity halves, and whether it was freed
    pc,          \* thread -> where it is
    token,       \* thread -> handle argument of its operation
    want,        \* thread -> expected_kind argument
    ob,          \* thread -> local record pointer
    active,      \* thread -> owns an activity outside a lease
    lease,       \* thread -> object of its lease, or NoObject
    aborted,     \* some consistency check called abort()
    issued       \* history: token -> the object it was issued for

tableVars == <<locked, destroying, table, slots, pending>>
recordVars == <<refs, kind, life>>
localVars == <<pc, token, want, ob, active, lease>>
vars == <<locked, destroying, table, slots, pending, refs, kind, life,
          tracker, pc, token, want, ob, active, lease, aborted, issued>>

(***************************************************************************)
(* Program counters.  A thread in Touching is in, or on its way to, a      *)
(* critical section and so will read the table's memory.                   *)
(***************************************************************************)
Waiting == {"insert", "acquire", "close", "destroyTable", "prepareClone"}

Inside == {"insertScan", "insertPublish", "acquireCheck", "acquireGrant",
           "closeCheck", "closeInvalidate", "destroyCollect", "cloneCheck",
           "frozen"}

Outside == {"idle", "recordRelease", "destroyObject", "recordUntrack",
            "activityEnd", "releaseNext", "tableUntrack"}

Touching == Waiting \cup Inside

AfterLock == [insert       |-> "insertScan",
              acquire      |-> "acquireCheck",
              close        |-> "closeCheck",
              destroyTable |-> "destroyCollect",
              prepareClone |-> "cloneCheck"]

SlotType == [record : Objects \cup {NoObject},
             generation : 0 .. MaxGeneration, retired : BOOLEAN]

TrackerType == [refs : 0 .. MaxTracker, acts : 0 .. MaxTracker,
                freed : BOOLEAN]

TypeOK ==
    /\ locked \in BOOLEAN
    /\ destroying \in BOOLEAN
    /\ table \in {"open", "closing", "freed", "gone"}
    /\ slots \in [Slots -> SlotType]
    /\ pending \in SUBSET Objects
    /\ refs \in [Objects -> 0 .. MaxReferences]
    /\ kind \in [Objects -> Kinds]
    /\ life \in [Objects -> {"new", "private", "live", "freed",
                             "destroyed", "gone"}]
    /\ tracker \in TrackerType
    /\ pc \in [Threads -> Touching \cup Outside]
    /\ token \in [Threads -> Tokens]
    /\ want \in [Threads -> Kinds]
    /\ ob \in [Threads -> Objects \cup {NoObject}]
    /\ active \in [Threads -> BOOLEAN]
    /\ lease \in [Threads -> Objects \cup {NoObject}]
    /\ aborted \in BOOLEAN
    /\ issued \in [Tokens -> Objects \cup {NoObject}]

(* sl_handle_table_create *)
Init ==
    /\ locked = FALSE
    /\ destroying = FALSE
    /\ table = "open"
    /\ slots = [s \in Slots |-> [record |-> NoObject, generation |-> 1,
                                 retired |-> FALSE]]
    /\ pending = {}
    /\ refs = [o \in Objects |-> 0]
    /\ kind = [o \in Objects |-> "FILE"]
    /\ life = [o \in Objects |-> "new"]
    /\ tracker = [refs |-> 1, acts |-> 0, freed |-> FALSE]
    /\ pc = [t \in Threads |-> "idle"]
    /\ token = [t \in Threads |-> NoToken]
    /\ want = [t \in Threads |-> "FILE"]
    /\ ob = [t \in Threads |-> NoObject]
    /\ active = [t \in Threads |-> FALSE]
    /\ lease = [t \in Threads |-> NoObject]
    /\ aborted = FALSE
    /\ issued = [h \in Tokens |-> NoObject]

Goto(t, where) == pc' = [pc EXCEPT ![t] = where]

(* The arguments and locals of a call end with it. *)
Return(t) ==
    /\ Goto(t, "idle")
    /\ token' = [token EXCEPT ![t] = NoToken]
    /\ want' = [want EXCEPT ![t] = "FILE"]
    /\ ob' = [ob EXCEPT ![t] = NoObject]

-----------------------------------------------------------------------------
(***************************************************************************)
(* The lock: an exchange that is retried, with thrd_yield in between,      *)
(* until it finds the flag clear.                                          *)
(***************************************************************************)
TableLock(t) ==
    /\ pc[t] \in Waiting
    /\ ~locked
    /\ locked' = TRUE
    /\ Goto(t, AfterLock[pc[t]])
    /\ UNCHANGED <<destroying, table, slots, pending, recordVars, tracker,
                   token, want, ob, active, lease, aborted, issued>>

TableUnlock == locked' = FALSE

(***************************************************************************)
(* The tracker.  Its word is loaded and checked in one step and            *)
(* incremented in a later one: only the table lock keeps a second          *)
(* increment from coming between.                                          *)
(***************************************************************************)
CanRetain == tracker.refs # MaxTracker

CanBeginActivity == tracker.refs # MaxTracker /\ tracker.acts # MaxTracker

(* Mutant: a published record does not keep the tracker. *)
TrackerRetainMutant == UNCHANGED tracker

TrackerRetain == tracker' = [tracker EXCEPT !.refs = @ + 1]

TrackerActivityBegin ==
    tracker' = [tracker EXCEPT !.refs = @ + 1, !.acts = @ + 1]

(* tracker_drop: one fetch_sub, two consistency checks, and the last free. *)
TrackerDrop(acts) ==
    LET sane == /\ tracker.refs # 0
                /\ tracker.acts >= acts
                /\ tracker.refs = 1 => tracker.acts = acts
    IN  /\ aborted' = (aborted \/ ~sane)
        /\ tracker' = IF sane
                      THEN [refs  |-> tracker.refs - 1,
                            acts  |-> tracker.acts - acts,
                            freed |-> tracker.refs = 1]
                      ELSE tracker

TrackerRelease == TrackerDrop(0)

TrackerActivityEnd == TrackerDrop(1)

(* Mutant: the generation wraps around instead of retiring the slot. *)
InvalidateSlotMutant(slot) ==
    [slot EXCEPT !.record = NoObject,
                 !.generation = IF @ = MaxGeneration THEN 1 ELSE @ + 1]

(* invalidate_slot: the slot is retired once its generations are used up. *)
InvalidateSlot(slot) ==
    IF slot.generation = MaxGeneration
    THEN [record |-> NoObject, generation |-> 0, retired |-> TRUE]
    ELSE [slot EXCEPT !.record = NoObject, !.generation = @ + 1]

-----------------------------------------------------------------------------
(***************************************************************************)
(* sl_handle_table_insert                                                  *)
(***************************************************************************)

(* The record is allocated, with one reference, before the lock is taken;  *)
(* the caller owns the object, so no other call inserts it meanwhile.      *)
Insert(t, o, k) ==
    /\ pc[t] = "idle"
    /\ table = "open"
    /\ life[o] = "new"
    /\ life' = [life EXCEPT ![o] = "private"]
    /\ refs' = [refs EXCEPT ![o] = 1]
    /\ kind' = [kind EXCEPT ![o] = k]
    /\ ob' = [ob EXCEPT ![t] = o]
    /\ Goto(t, "insert")
    /\ UNCHANGED <<tableVars, tracker, token, want, active, lease, aborted,
                   issued>>

FreeSlots == {s \in Slots : slots[s].record = NoObject /\ ~slots[s].retired}

FirstFree == CHOOSE s \in FreeSlots : \A r \in FreeSlots : s <= r

CanInsert == ~destroying /\ FreeSlots # {} /\ CanRetain

(* A full table, a full tracker or a dying table: the record is freed and  *)
(* the caller keeps the object.                                            *)
InsertReject(t) ==
    /\ pc[t] = "insertScan"
    /\ ~CanInsert
    /\ TableUnlock
    /\ life' = [life EXCEPT ![ob[t]] = "new"]
    /\ refs' = [refs EXCEPT ![ob[t]] = 0]
    /\ kind' = [kind EXCEPT ![ob[t]] = "FILE"]
    /\ Return(t)
    /\ UNCHANGED <<destroying, table, slots, pending, tracker, active, lease,
                   aborted, issued>>

InsertScan(t) ==
    /\ pc[t] = "insertScan"
    /\ CanInsert
    /\ Goto(t, "insertPublish")
    /\ UNCHANGED <<tableVars, recordVars, tracker, token, want, ob, active,
                   lease, aborted, issued>>

InsertPublish(t) ==
    /\ pc[t] = "insertPublish"
    /\ TrackerRetain
    /\ slots' = [slots EXCEPT ![FirstFree].record = ob[t]]
    /\ issued' = [issued EXCEPT ![EncodeHandle(FirstFree,
                                     slots[FirstFree].generation)] = ob[t]]
    /\ life' = [life EXCEPT ![ob[t]] = "live"]
    /\ TableUnlock
    /\ Return(t)
    /\ UNCHANGED <<destroying, table, pending, refs, kind, active, lease,
                   aborted>>

-----------------------------------------------------------------------------
(***************************************************************************)
(* sl_handle_table_acquire.  A thread has at most one lease, as every      *)
(* caller in kernel32.c; a caller with more is modelled by more threads.   *)
(* A token that does not decode is refused before the table is touched.    *)
(***************************************************************************)
Acquire(t, h, k) ==
    /\ pc[t] = "idle"
    /\ table = "open"
    /\ lease[t] = NoObject
    /\ Decodable(h)
    /\ token' = [token EXCEPT ![t] = h]
    /\ want' = [want EXCEPT ![t] = k]
    /\ Goto(t, "acquire")
    /\ UNCHANGED <<tableVars, recordVars, tracker, ob, active, lease,
                   aborted, issued>>

SlotOf(t) == slots[SlotIndex(token[t])]

(* The handle names a published record of the expected kind. *)
Resolves(t) ==
    /\ ~destroying
    /\ SlotOf(t).record # NoObject
    /\ ~SlotOf(t).retired
    /\ SlotOf(t).generation = token[t].generation
    /\ kind[SlotOf(t).record] = want[t]

(* Mutant: the reference count of the record is not capped. *)
CanAcquireMutant(t) == Resolves(t) /\ CanBeginActivity

CanAcquire(t) ==
    Resolves(t) /\ refs[SlotOf(t).record] # MaxReferences /\ CanBeginActivity

AcquireReject(t) ==
    /\ pc[t] = "acquireCheck"
    /\ ~CanAcquire(t)
    /\ TableUnlock
    /\ Return(t)
    /\ UNCHANGED <<destroying, table, slots, pending, recordVars, tracker,
                   active, lease, aborted, issued>>

AcquireCheck(t) ==
    /\ pc[t] = "acquireCheck"
    /\ CanAcquire(t)
    /\ ob' = [ob EXCEPT ![t] = SlotOf(t).record]
    /\ Goto(t, "acquireGrant")
    /\ UNCHANGED <<tableVars, recordVars, tracker, token, want, active,
                   lease, aborted, issued>>

(* Mutant: the lease takes no reference on the record. *)
AcquireGrantMutant(t) ==
    /\ pc[t] = "acquireGrant"
    /\ TrackerActivityBegin
    /\ lease' = [lease EXCEPT ![t] = ob[t]]
    /\ TableUnlock
    /\ Return(t)
    /\ UNCHANGED <<destroying, table, slots, pending, recordVars, active,
                   aborted, issued>>

AcquireGrant(t) ==
    /\ pc[t] = "acquireGrant"
    /\ TrackerActivityBegin
    /\ refs' = [refs EXCEPT ![ob[t]] = @ + 1]
    /\ lease' = [lease EXCEPT ![t] = ob[t]]
    /\ TableUnlock
    /\ Return(t)
    /\ UNCHANGED <<destroying, table, slots, pending, kind, life, active,
                   aborted, issued>>

(* sl_handle_lease_release: the lease is cleared first, the activity it    *)
(* stood for ends last.  The table may be gone already.                    *)
LeaseRelease(t) ==
    /\ pc[t] = "idle"
    /\ lease[t] # NoObject
    /\ lease' = [lease EXCEPT ![t] = NoObject]
    /\ ob' = [ob EXCEPT ![t] = lease[t]]
    /\ active' = [active EXCEPT ![t] = TRUE]
    /\ Goto(t, "recordRelease")
    /\ UNCHANGED <<tableVars, recordVars, tracker, token, want, aborted,
                   issued>>

-----------------------------------------------------------------------------
(***************************************************************************)
(* sl_handle_table_close                                                   *)
(***************************************************************************)
Close(t, h, k) ==
    /\ pc[t] = "idle"
    /\ table = "open"
    /\ Decodable(h)
    /\ token' = [token EXCEPT ![t] = h]
    /\ want' = [want EXCEPT ![t] = k]
    /\ Goto(t, "close")
    /\ UNCHANGED <<tableVars, recordVars, tracker, ob, active, lease,
                   aborted, issued>>

CanClose(t) == Resolves(t) /\ CanBeginActivity

CloseReject(t) ==
    /\ pc[t] = "closeCheck"
    /\ ~CanClose(t)
    /\ TableUnlock
    /\ Return(t)
    /\ UNCHANGED <<destroying, table, slots, pending, recordVars, tracker,
                   active, lease, aborted, issued>>

CloseCheck(t) ==
    /\ pc[t] = "closeCheck"
    /\ CanClose(t)
    /\ ob' = [ob EXCEPT ![t] = SlotOf(t).record]
    /\ Goto(t, "closeInvalidate")
    /\ UNCHANGED <<tableVars, recordVars, tracker, token, want, active,
                   lease, aborted, issued>>

CloseInvalidate(t) ==
    /\ pc[t] = "closeInvalidate"
    /\ TrackerActivityBegin
    /\ active' = [active EXCEPT ![t] = TRUE]
    /\ slots' = [slots EXCEPT ![SlotIndex(token[t])] = InvalidateSlot(@)]
    /\ TableUnlock
    /\ Goto(t, "recordRelease")
    /\ UNCHANGED <<destroying, table, pending, recordVars, token, want, ob,
                   lease, aborted, issued>>

-----------------------------------------------------------------------------
(***************************************************************************)
(* record_release and what follows it.  A close or a lease release then    *)
(* ends its activity; sl_handle_table_destroy goes on to its next record.  *)
(***************************************************************************)
AfterRelease(t) == IF active[t] THEN "activityEnd" ELSE "releaseNext"

(* Mutant: the record is freed one reference too early. *)
EarlyRecordRelease(t) ==
    LET last == refs[ob[t]] <= 2
    IN  /\ pc[t] = "recordRelease"
        /\ refs' = [refs EXCEPT ![ob[t]] = 0]
        /\ life' = IF last THEN [life EXCEPT ![ob[t]] = "freed"] ELSE life
        /\ Goto(t, IF last THEN "destroyObject" ELSE AfterRelease(t))
        /\ UNCHANGED <<tableVars, kind, tracker, token, want, ob, active,
                       lease, aborted, issued>>

(* Mutant: the last reference goes without a call of the destructor. *)
LeakingRecordRelease(t) ==
    /\ pc[t] = "recordRelease"
    /\ refs' = [refs EXCEPT ![ob[t]] = IF @ = 0 THEN 0 ELSE @ - 1]
    /\ Goto(t, AfterRelease(t))
    /\ UNCHANGED <<tableVars, kind, life, tracker, token, want, ob, active,
                   lease, aborted, issued>>

RecordRelease(t) ==
    LET previous == refs[ob[t]]
    IN  /\ pc[t] = "recordRelease"
        /\ aborted' = (aborted \/ previous = 0)
        /\ refs' = [refs EXCEPT ![ob[t]] = IF @ = 0 THEN 0 ELSE @ - 1]
        /\ life' = IF previous = 1 THEN [life EXCEPT ![ob[t]] = "freed"]
                                   ELSE life
        /\ Goto(t, IF previous = 1 THEN "destroyObject" ELSE AfterRelease(t))
        /\ UNCHANGED <<tableVars, kind, tracker, token, want, ob, active,
                       lease, issued>>

(* The destroy callback: sl_file_destroy or sl_search_destroy. *)
DestroyObject(t) ==
    /\ pc[t] = "destroyObject"
    /\ life' = [life EXCEPT ![ob[t]] = "destroyed"]
    /\ Goto(t, "recordUntrack")
    /\ UNCHANGED <<tableVars, refs, kind, tracker, token, want, ob, active,
                   lease, aborted, issued>>

RecordUntrack(t) ==
    /\ pc[t] = "recordUntrack"
    /\ TrackerRelease
    /\ life' = [life EXCEPT ![ob[t]] = "gone"]
    /\ Goto(t, AfterRelease(t))
    /\ UNCHANGED <<tableVars, refs, kind, token, want, ob, active, lease,
                   issued>>

ActivityEnd(t) ==
    /\ pc[t] = "activityEnd"
    /\ TrackerActivityEnd
    /\ active' = [active EXCEPT ![t] = FALSE]
    /\ Return(t)
    /\ UNCHANGED <<tableVars, recordVars, lease, issued>>

-----------------------------------------------------------------------------
(***************************************************************************)
(* sl_handle_table_destroy.  The caller guarantees, as the header demands, *)
(* that no operation begins or waits on the table; leases and the tail of  *)
(* a close, which no longer touch the table, may still be around.          *)
(***************************************************************************)
DestroyTable(t) ==
    /\ pc[t] = "idle"
    /\ table = "open"
    /\ \A u \in Threads : pc[u] \notin Touching
    /\ table' = "closing"
    /\ Goto(t, "destroyTable")
    /\ UNCHANGED <<locked, destroying, slots, pending, recordVars, tracker,
                   token, want, ob, active, lease, aborted, issued>>

(* Mutant: the table is torn down with its lock held. *)
DestroyCollectMutant(t) ==
    /\ pc[t] = "destroyCollect"
    /\ destroying' = TRUE
    /\ pending' = {slots[s].record : s \in Slots} \ {NoObject}
    /\ slots' = [s \in Slots |-> IF slots[s].record = NoObject
                                 THEN slots[s] ELSE InvalidateSlot(slots[s])]
    /\ Goto(t, "releaseNext")
    /\ UNCHANGED <<locked, table, recordVars, tracker, token, want, ob,
                   active, lease, aborted, issued>>

DestroyCollect(t) ==
    /\ pc[t] = "destroyCollect"
    /\ destroying' = TRUE
    /\ pending' = {slots[s].record : s \in Slots} \ {NoObject}
    /\ slots' = [s \in Slots |-> IF slots[s].record = NoObject
                                 THEN slots[s] ELSE InvalidateSlot(slots[s])]
    /\ TableUnlock
    /\ Goto(t, "releaseNext")
    /\ UNCHANGED <<table, recordVars, tracker, token, want, ob, active,
                   lease, aborted, issued>>

ReleaseNext(t) ==
    /\ pc[t] = "releaseNext"
    /\ \E o \in pending : /\ ob' = [ob EXCEPT ![t] = o]
                          /\ pending' = pending \ {o}
    /\ Goto(t, "recordRelease")
    /\ UNCHANGED <<locked, destroying, table, slots, recordVars, tracker,
                   token, want, active, lease, aborted, issued>>

FreeTable(t) ==
    /\ pc[t] = "releaseNext"
    /\ pending = {}
    /\ table' = "freed"
    /\ Goto(t, "tableUntrack")
    /\ UNCHANGED <<locked, destroying, slots, pending, recordVars, tracker,
                   token, want, ob, active, lease, aborted, issued>>

TableUntrack(t) ==
    /\ pc[t] = "tableUntrack"
    /\ TrackerRelease
    /\ table' = "gone"
    /\ Return(t)
    /\ UNCHANGED <<locked, destroying, slots, pending, recordVars, active,
                   lease, issued>>

-----------------------------------------------------------------------------
(***************************************************************************)
(* sl_handle_table_prepare_clone and sl_handle_table_complete_clone.  The  *)
(* caller clones the process while it is frozen; the child's copy of the   *)
(* table is the state in which CompleteClone is taken.                     *)
(***************************************************************************)
PrepareClone(t) ==
    /\ pc[t] = "idle"
    /\ table = "open"
    /\ Goto(t, "prepareClone")
    /\ UNCHANGED <<tableVars, recordVars, tracker, token, want, ob, active,
                   lease, aborted, issued>>

(* Mutant: leases and running destructors do not stop a clone. *)
CanCloneMutant == ~destroying

CanClone == ~destroying /\ tracker.acts = 0

CloneReject(t) ==
    /\ pc[t] = "cloneCheck"
    /\ ~CanClone
    /\ TableUnlock
    /\ Return(t)
    /\ UNCHANGED <<destroying, table, slots, pending, recordVars, tracker,
                   active, lease, aborted, issued>>

CloneFreeze(t) ==
    /\ pc[t] = "cloneCheck"
    /\ CanClone
    /\ Goto(t, "frozen")
    /\ UNCHANGED <<tableVars, recordVars, tracker, token, want, ob, active,
                   lease, aborted, issued>>

CompleteClone(t) ==
    /\ pc[t] = "frozen"
    /\ TableUnlock
    /\ Return(t)
    /\ UNCHANGED <<destroying, table, slots, pending, recordVars, tracker,
                   active, lease, aborted, issued>>

-----------------------------------------------------------------------------
(* The steps of a call that has been made, the wait for the lock apart. *)
Continue(t) ==
    \/ InsertReject(t) \/ InsertScan(t) \/ InsertPublish(t)
    \/ AcquireReject(t) \/ AcquireCheck(t) \/ AcquireGrant(t)
    \/ CloseReject(t) \/ CloseCheck(t) \/ CloseInvalidate(t)
    \/ RecordRelease(t) \/ DestroyObject(t) \/ RecordUntrack(t)
    \/ ActivityEnd(t)
    \/ DestroyCollect(t) \/ ReleaseNext(t) \/ FreeTable(t) \/ TableUntrack(t)
    \/ CloneReject(t) \/ CloneFreeze(t) \/ CompleteClone(t)

Call(t) ==
    \/ \E o \in Objects, k \in Kinds : Insert(t, o, k)
    \/ \E h \in Tokens, k \in Kinds : Acquire(t, h, k) \/ Close(t, h, k)
    \/ LeaseRelease(t)
    \/ DestroyTable(t)
    \/ PrepareClone(t)

(* The process has destroyed its table and every lease was returned. *)
Terminated ==
    /\ table = "gone"
    /\ \A t \in Threads : pc[t] = "idle" /\ lease[t] = NoObject
    /\ UNCHANGED vars

Next == \/ \E t \in Threads : Call(t) \/ TableLock(t) \/ Continue(t)
        \/ Terminated

(***************************************************************************)
(* A thread that is past the lock goes on running: nothing in the code     *)
(* blocks there.  Nothing is assumed of threads that wait for the lock,    *)
(* for the spin lock may starve one, nor of callers, who may keep a lease  *)
(* for ever.                                                               *)
(***************************************************************************)
Fairness == \A t \in Threads : WF_vars(Continue(t))

Spec == Init /\ [][Next]_vars

FairSpec == Spec /\ Fairness

-----------------------------------------------------------------------------
(***************************************************************************)
(* Properties                                                              *)
(***************************************************************************)

(* The abort() calls of tracker_drop and record_release are unreachable:   *)
(* no reference or activity is ever given back twice.                      *)
NoAbort == ~aborted

(* "The borrowed object remains valid until the returned lease is          *)
(* released": neither the record nor the object behind a lease is gone,    *)
(* whoever closes the handle or destroys the table meanwhile.  The same    *)
(* holds of a record a slot publishes and of one a thread still has to     *)
(* release.                                                                *)
NoUseAfterFree ==
    /\ \A t \in Threads :
          /\ lease[t] # NoObject => life[lease[t]] = "live"
          /\ pc[t] = "recordRelease" => life[ob[t]] = "live"
    /\ \A s \in Slots :
          slots[s].record # NoObject => life[slots[s].record] = "live"

(* A record's count is the number of owners it has: the slot that          *)
(* publishes it, the leases on it, and the calls about to release it.      *)
Releasing(o) == {t \in Threads : pc[t] = "recordRelease" /\ ob[t] = o}
Borrowing(o) == {t \in Threads : lease[t] = o}
Publishing(o) == {s \in Slots : slots[s].record = o}
Inserting(o) ==
    {t \in Threads : /\ pc[t] \in {"insert", "insertScan", "insertPublish"}
                     /\ ob[t] = o}

RecordCountExact ==
    \A o \in Objects :
        refs[o] = Cardinality(Publishing(o)) + Cardinality(Borrowing(o))
                  + Cardinality(Releasing(o)) + Cardinality(Inserting(o))
                  + (IF o \in pending THEN 1 ELSE 0)

(* The tracker counts what keeps it: the table, every record up to the     *)
(* return of its destructor, and every activity.  It is freed with the     *)
(* last of them and never before.                                          *)
Borrowers == {t \in Threads : lease[t] # NoObject}
Workers == {t \in Threads : active[t]}
Tracked == {o \in Objects : life[o] \in {"live", "freed", "destroyed"}}

TrackerExact ==
    /\ tracker.acts = Cardinality(Borrowers) + Cardinality(Workers)
    /\ tracker.refs = tracker.acts + Cardinality(Tracked)
                      + (IF table = "gone" THEN 0 ELSE 1)
    /\ tracker.freed <=> tracker.refs = 0

(* While a thread has the table frozen for clone(), no lease is out, no    *)
(* call is between an invalidation and the end of its destructor, and      *)
(* every record is owned by its slot alone: the child, where the other     *)
(* threads do not exist, inherits counts that its own calls can bring to   *)
(* zero.                                                                   *)
CloneIsQuiescent ==
    (\E t \in Threads : pc[t] = "frozen") =>
        /\ \A u \in Threads : lease[u] = NoObject /\ ~active[u]
        /\ \A o \in Objects : life[o] \in {"new", "private", "live", "gone"}
        /\ \A s \in Slots :
              slots[s].record # NoObject => refs[slots[s].record] = 1
        /\ tracker.acts = 0

(* A token names one object for the whole life of the table: no insertion  *)
(* issues a token a second time, not even after the slot's generations     *)
(* have run out.                                                           *)
TokensAreNeverReissued ==
    [][\A h \in Tokens : issued[h] # NoObject => issued'[h] = issued[h]]_vars

(* A lease is on the object the token was issued for, never on a later     *)
(* tenant of the same slot.                                                *)
LeaseIsOnTheNamedObject ==
    [][\A t \in Threads :
          lease'[t] \notin {NoObject, lease[t]} =>
              lease'[t] = issued[token[t]]]_vars

(* The lock is always given back. *)
LockIsReleased == locked ~> ~locked

(* Both kinds of count are exact at every step, so that the consistency    *)
(* checks of tracker_drop and record_release, which abort, never fail.     *)
CountsExact == RecordCountExact /\ TrackerExact /\ NoAbort
=============================================================================
