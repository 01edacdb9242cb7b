-------------------------- MODULE HandleTableProofs --------------------------
(***************************************************************************)
(* Safety of the handle table for every number of threads, objects, slots  *)
(* and generations, and every cap on the counts; and, in the last section,  *)
(* that it implements the abstract store of HandleStore.                   *)
(***************************************************************************)
EXTENDS HandleTableRefinement, FiniteSetTheorems, WellFoundedInduction, TLAPS

InsertPcs == {"insert", "insertScan", "insertPublish"}
AcquirePcs == {"acquire", "acquireCheck", "acquireGrant"}
ClosePcs == {"close", "closeCheck", "closeInvalidate"}
DyingPcs == {"destroyObject", "recordUntrack"}
ReleasePcs == {"recordRelease"} \cup DyingPcs
ShutdownPcs == {"destroyTable", "destroyCollect", "releaseNext",
                "tableUntrack"}

(* The thread runs sl_handle_table_destroy. *)
Shutting(t) ==
    pc[t] \in ShutdownPcs \/ (pc[t] \in ReleasePcs /\ ~active[t])

(* Critical sections exclude each other. *)
LockInv ==
    /\ \A t, u \in Threads : pc[t] \in Inside /\ pc[u] \in Inside => t = u
    /\ \A t \in Threads : pc[t] \in Inside => locked

(* What a thread found under the lock still holds when it acts on it. *)
GrantInv ==
    \A t \in Threads :
        /\ pc[t] = "insertPublish" => CanInsert
        /\ pc[t] = "acquireGrant" =>
              CanAcquire(t) /\ ob[t] = SlotOf(t).record
        /\ pc[t] = "closeInvalidate" =>
              CanClose(t) /\ ob[t] = SlotOf(t).record
        /\ pc[t] = "frozen" => CanClone

(* A thread's locals fit the place it has reached. *)
CallInv ==
    \A t \in Threads :
        /\ pc[t] \in InsertPcs => ob[t] \in Objects /\ life[ob[t]] = "private"
        /\ pc[t] \in AcquirePcs \cup ClosePcs => Decodable(token[t])
        /\ pc[t] \in AcquirePcs => lease[t] = NoObject
        /\ pc[t] \in ReleasePcs => ob[t] \in Objects
        /\ pc[t] = "destroyObject" => life[ob[t]] = "freed"
        /\ pc[t] = "recordUntrack" => life[ob[t]] = "destroyed"
        /\ active[t] => pc[t] \in ReleasePcs \cup {"activityEnd"}
        /\ pc[t] = "activityEnd" => active[t]

(* A record that is private, or being torn down, belongs to one thread. *)
OwnerInv ==
    /\ \A t, u \in Threads :
          /\ pc[t] \in InsertPcs /\ pc[u] \in InsertPcs /\ ob[t] = ob[u]
                => t = u
          /\ pc[t] \in DyingPcs /\ pc[u] \in DyingPcs /\ ob[t] = ob[u]
                => t = u
    /\ \A o \in Objects :
          life[o] \in {"freed", "destroyed"} =>
              \E t \in Threads : pc[t] \in DyingPcs /\ ob[t] = o

(* One thread shuts the table down, and nobody else touches it then. *)
ShutdownInv ==
    /\ \A t, u \in Threads : Shutting(t) /\ Shutting(u) => t = u
    /\ \A t \in Threads :
          Shutting(t) =>
              /\ table = (IF pc[t] = "tableUntrack" THEN "freed"
                                                    ELSE "closing")
              /\ pc[t] \notin {"destroyTable", "destroyCollect"} <=> destroying
    /\ table # "open" =>
          \A t \in Threads : pc[t] \in Touching => Shutting(t)
    /\ table = "open" => ~destroying
    /\ destroying => \A s \in Slots : slots[s].record = NoObject
    /\ pending # {} => destroying

SlotInv ==
    /\ \A s, r \in Slots :
          slots[s].record = slots[r].record /\ slots[s].record # NoObject
              => s = r
    /\ \A s \in Slots :
          IF slots[s].retired THEN slots[s].record = NoObject
                              ELSE slots[s].generation # 0

(* Every owner of a record finds it alive. *)
LiveInv ==
    /\ NoUseAfterFree
    /\ \A o \in pending : life[o] = "live"

(* A token that was issued is bound to its object, or its generation has   *)
(* passed; what a slot publishes was issued under the slot's generation.   *)
TokenInv ==
    /\ \A h \in Tokens :
          issued[h] # NoObject =>
              /\ Decodable(h)
              /\ \/ slots[SlotIndex(h)].retired
                 \/ h.generation < slots[SlotIndex(h)].generation
                 \/ /\ h.generation = slots[SlotIndex(h)].generation
                    /\ slots[SlotIndex(h)].record = issued[h]
    /\ \A s \in Slots :
          slots[s].record # NoObject =>
              issued[EncodeHandle(s, slots[s].generation)] = slots[s].record

IndInv ==
    /\ TypeOK
    /\ NoAbort
    /\ LockInv
    /\ GrantInv
    /\ CallInv
    /\ OwnerInv
    /\ ShutdownInv
    /\ SlotInv
    /\ LiveInv
    /\ TokenInv
    /\ RecordCountExact
    /\ TrackerExact

-----------------------------------------------------------------------------
(* A nonempty set of naturals has a least element. *)
LEMMA SmallestExists ==
  ASSUME NEW S \in SUBSET Nat, S # {}
  PROVE  \E x \in S : \A y \in S : x <= y
<1> DEFINE R == OpToRel(<, Nat)
<1>1. IsWellFoundedOn(R, Nat)
  BY NatLessThanWellFounded
<1>2. \A x, y \in Nat : x < y => <<x, y>> \in R
  BY DEF OpToRel
<1> HIDE DEF R
<1>3. PICK x \in S : \A y \in S : ~ (<<y, x>> \in R)
  BY <1>1, WFMin
<1>4. \A y \in S : y \in Nat
  OBVIOUS
<1>5. \A y \in S : ~ (y < x)
  BY <1>2, <1>3, <1>4
<1>6. QED
  BY <1>4, <1>5

(* The slot sl_handle_table_insert chooses is a free one. *)
LEMMA FirstFreeIsFree ==
  ASSUME FreeSlots # {}
  PROVE  FirstFree \in FreeSlots
<1>1. FreeSlots \in SUBSET Nat
  BY HandleTableAssumption DEF FreeSlots, Slots
<1>2. QED
  BY <1>1, SmallestExists DEF FirstFree

(* decode_handle undoes encode_handle, and a token that decodes points into *)
(* the table.                                                              *)
LEMMA TokenTypes ==
  /\ NoToken \in Tokens
  /\ \A h \in Tokens : Decodable(h) => SlotIndex(h) \in Slots
  /\ \A s \in Slots, g \in 1 .. MaxGeneration :
        /\ EncodeHandle(s, g) \in Tokens
        /\ Decodable(EncodeHandle(s, g))
        /\ SlotIndex(EncodeHandle(s, g)) = s
BY HandleTableAssumption
   DEF NoToken, Tokens, Decodable, SlotIndex, Slots, EncodeHandle

(* What invalidate_slot leaves: an empty slot, retired or with the next    *)
(* generation.                                                             *)
LEMMA InvalidateType ==
  ASSUME NEW x \in SlotType
  PROVE  /\ InvalidateSlot(x) \in SlotType
         /\ InvalidateSlot(x).record = NoObject
         /\ x.generation = MaxGeneration =>
               InvalidateSlot(x).retired
         /\ x.generation # MaxGeneration =>
               /\ InvalidateSlot(x).generation = x.generation + 1
               /\ InvalidateSlot(x).retired = x.retired
<1> USE HandleTableAssumption
<1>1. CASE x.generation = MaxGeneration
  BY <1>1 DEF InvalidateSlot, SlotType
<1>2. CASE x.generation # MaxGeneration
  <2>1. InvalidateSlot(x) = [x EXCEPT !.record = NoObject, !.generation = x.generation + 1]
    BY <1>2 DEF InvalidateSlot
  <2>2. x.generation + 1 \in 0 .. MaxGeneration
    BY <1>2 DEF SlotType
  <2>3. QED
    BY <1>2, <2>1, <2>2 DEF SlotType
<1>3. QED
  BY <1>1, <1>2

(* y is slot x after invalidate_slot. *)
Spent(x, y) ==
    /\ y.record = NoObject
    /\ y.retired \/ (y.generation = x.generation + 1 /\ y.retired = x.retired)

(* invalidate_slot puts every token issued from the slot out of use. *)
LEMMA InvalidateSpends ==
  ASSUME NEW x \in SlotType
  PROVE  Spent(x, InvalidateSlot(x))
<1>1. CASE x.generation = MaxGeneration
  BY <1>1, InvalidateType DEF Spent
<1>2. CASE x.generation # MaxGeneration
  BY <1>2, InvalidateType DEF Spent
<1>3. QED
  BY <1>1, <1>2

(* Neither half of the tracker word overflows or underflows. *)
LEMMA TrackerTypes ==
  ASSUME tracker \in TrackerType
  PROVE  /\ CanRetain /\ TrackerRetain => tracker' \in TrackerType
         /\ CanBeginActivity /\ TrackerActivityBegin => tracker' \in TrackerType
         /\ \A acts \in {0, 1} : TrackerDrop(acts) =>
               tracker' \in TrackerType /\ aborted' \in BOOLEAN
<1>1. ASSUME CanRetain, TrackerRetain PROVE tracker' \in TrackerType
  BY <1>1, HandleTableAssumption DEF CanRetain, TrackerRetain, TrackerType
<1>2. ASSUME CanBeginActivity, TrackerActivityBegin
      PROVE  tracker' \in TrackerType
  <2>1. tracker' = [tracker EXCEPT !.refs = tracker.refs + 1,
                                   !.acts = tracker.acts + 1]
    BY <1>2 DEF TrackerActivityBegin
  <2>2. /\ tracker.refs + 1 \in 0 .. MaxTracker
        /\ tracker.acts + 1 \in 0 .. MaxTracker
    BY <1>2, HandleTableAssumption DEF CanBeginActivity, TrackerType
  <2>3. QED
    BY <2>1, <2>2 DEF TrackerType
<1>3. ASSUME NEW acts \in {0, 1}, TrackerDrop(acts)
      PROVE  tracker' \in TrackerType /\ aborted' \in BOOLEAN
  <2> DEFINE sane == /\ tracker.refs # 0
                     /\ tracker.acts >= acts
                     /\ tracker.refs = 1 => tracker.acts = acts
  <2>1. CASE sane
    BY <1>3, <2>1, HandleTableAssumption DEF TrackerDrop, TrackerType
  <2>2. CASE ~sane
    BY <1>3, <2>2 DEF TrackerDrop
  <2>3. aborted' \in BOOLEAN
    BY <1>3 DEF TrackerDrop
  <2>4. QED
    BY <2>1, <2>2, <2>3
<1>4. QED
  BY <1>1, <1>2, <1>3

(* A concurrent tracker_drop does not undo a check that an increment relies *)
(* on.                                                                     *)
LEMMA TrackerDropKeeps ==
  ASSUME tracker \in TrackerType, NEW acts \in {0, 1}, TrackerDrop(acts)
  PROVE  /\ CanRetain => CanRetain'
         /\ CanBeginActivity => CanBeginActivity'
         /\ tracker.acts = 0 => tracker'.acts = 0
<1> DEFINE sane == /\ tracker.refs # 0
                   /\ tracker.acts >= acts
                   /\ tracker.refs = 1 => tracker.acts = acts
<1>1. CASE sane
  BY <1>1, HandleTableAssumption
     DEF TrackerDrop, TrackerType, CanRetain, CanBeginActivity
<1>2. CASE ~sane
  BY <1>2 DEF TrackerDrop, CanRetain, CanBeginActivity
<1>3. QED
  BY <1>1, <1>2

(* Counting in a finite set. *)
LEMMA CardinalityFacts ==
  ASSUME NEW S, IsFiniteSet(S)
  PROVE  /\ Cardinality(S) \in Nat
         /\ (Cardinality(S) = 0) <=> (S = {})
         /\ \A x : x \notin S => Cardinality(S \cup {x}) = Cardinality(S) + 1
         /\ \A x \in S : Cardinality(S \ {x}) = Cardinality(S) - 1
         /\ \A x \in S : Cardinality(S) = 1 => S = {x}
<1>1. \A x \in S : Cardinality(S \ {x}) = Cardinality(S) - 1
  BY FS_RemoveElement
<1>2. \A x : IsFiniteSet(S \ {x})
  BY FS_RemoveElement
<1>3. \A T : IsFiniteSet(T) => (Cardinality(T) = 0 <=> T = {})
  BY FS_EmptySet
<1>4. ASSUME NEW x \in S, Cardinality(S) = 1
      PROVE  S \ {x} = {}
  <2>1. Cardinality(S \ {x}) = 0
    BY <1>1, <1>4
  <2>2. QED
    BY <2>1, <1>2, <1>3
<1>5. \A x : x \notin S => Cardinality(S \cup {x}) = Cardinality(S) + 1
  BY FS_AddElement
<1>6. Cardinality(S) \in Nat
  BY FS_CardinalityType
<1>7. QED
  BY <1>1, <1>3, <1>4, <1>5, <1>6

(* The sets the counts are compared with are finite. *)
LEMMA OwnersFinite ==
  /\ \A o : /\ IsFiniteSet(Releasing(o)) /\ IsFiniteSet(Borrowing(o))
            /\ IsFiniteSet(Publishing(o)) /\ IsFiniteSet(Inserting(o))
  /\ IsFiniteSet(Borrowers) /\ IsFiniteSet(Workers) /\ IsFiniteSet(Tracked)
<1>1. IsFiniteSet(Slots)
  BY FS_Interval, HandleTableAssumption DEF Slots
<1>2. /\ \A S \in SUBSET Slots : IsFiniteSet(S)
      /\ \A S \in SUBSET Threads : IsFiniteSet(S)
      /\ \A S \in SUBSET Objects : IsFiniteSet(S)
  BY <1>1, FS_Subset, HandleTableAssumption
<1>3. QED
  BY <1>2 DEF Releasing, Borrowing, Publishing, Inserting, Borrowers,
              Workers, Tracked

(* Their cardinalities are natural numbers. *)
LEMMA Counts ==
  ASSUME NEW o
  PROVE  /\ Cardinality(Releasing(o)) \in Nat
         /\ Cardinality(Borrowing(o)) \in Nat
         /\ Cardinality(Publishing(o)) \in Nat
         /\ Cardinality(Inserting(o)) \in Nat
         /\ Cardinality(Borrowers) \in Nat
         /\ Cardinality(Workers) \in Nat
         /\ Cardinality(Tracked) \in Nat
BY OwnersFinite, CardinalityFacts

(* A thread about to release a record finds a positive count, and if the   *)
(* count is one it is the only owner.                                      *)
LEMMA LastOwner ==
  ASSUME IndInv, NEW t \in Threads, pc[t] = "recordRelease"
  PROVE  /\ ob[t] \in Objects
         /\ refs[ob[t]] \in Nat \ {0}
         /\ refs[ob[t]] = 1 => /\ Releasing(ob[t]) = {t}
                               /\ Borrowing(ob[t]) = {}
                               /\ Publishing(ob[t]) = {}
                               /\ ob[t] \notin pending
<1> DEFINE o == ob[t]
<1>1. o \in Objects
  BY DEF IndInv, CallInv, ReleasePcs
<1>2. t \in Releasing(o)
  BY DEF Releasing
<1>3. Cardinality(Releasing(o)) # 0
  BY <1>2, OwnersFinite, CardinalityFacts
<1>4. refs[o] = Cardinality(Publishing(o)) + Cardinality(Borrowing(o))
                + Cardinality(Releasing(o)) + Cardinality(Inserting(o))
                + (IF o \in pending THEN 1 ELSE 0)
  BY <1>1 DEF IndInv, RecordCountExact
<1> HIDE DEF o
<1>5. refs[o] \in Nat \ {0}
  BY <1>3, <1>4, Counts
<1>6. ASSUME refs[o] = 1
      PROVE  /\ Cardinality(Releasing(o)) = 1 /\ Cardinality(Borrowing(o)) = 0
             /\ Cardinality(Publishing(o)) = 0 /\ o \notin pending
  BY <1>3, <1>4, <1>6, Counts
<1>7. ASSUME refs[o] = 1
      PROVE  /\ Releasing(o) = {t} /\ Borrowing(o) = {}
             /\ Publishing(o) = {} /\ o \notin pending
  BY <1>2, <1>6, <1>7, OwnersFinite, CardinalityFacts
<1>8. QED
  BY <1>1, <1>5, <1>7 DEF o

(* Every step keeps the types; the caps rest on what was checked under the *)
(* lock.                                                                   *)
LEMMA TypeStep == IndInv /\ [Next]_vars => TypeOK'
<1> SUFFICES ASSUME IndInv, [Next]_vars PROVE TypeOK'
  OBVIOUS
<1> USE HandleTableAssumption
       DEF IndInv, TypeOK, GrantInv, Inside, Waiting, Outside, Touching,
       tableVars, recordVars
<1>1. ASSUME NEW t \in Threads, NEW o \in Objects, NEW k \in Kinds, Insert(t, o,
             k)
      PROVE  TypeOK'
  BY <1>1 DEF Insert, Goto, Kinds
<1>2. ASSUME NEW t \in Threads, NEW h \in Tokens, NEW k \in Kinds, Acquire(t, h,
             k)
      PROVE  TypeOK'
  BY <1>2 DEF Acquire, Goto, Kinds
<1>3. ASSUME NEW t \in Threads, NEW h \in Tokens, NEW k \in Kinds, Close(t, h,
             k)
      PROVE  TypeOK'
  BY <1>3 DEF Close, Goto, Kinds
<1>4. ASSUME NEW t \in Threads, LeaseRelease(t) PROVE TypeOK'
  BY <1>4 DEF LeaseRelease, Goto
<1>5. ASSUME NEW t \in Threads, DestroyTable(t) PROVE TypeOK'
  BY <1>5 DEF DestroyTable, Goto
<1>6. ASSUME NEW t \in Threads, PrepareClone(t) PROVE TypeOK'
  BY <1>6 DEF PrepareClone, Goto
<1>7. ASSUME NEW t \in Threads, TableLock(t) PROVE TypeOK'
  BY <1>7 DEF TableLock, Goto, AfterLock, AfterLock
<1>8. ASSUME NEW t \in Threads, InsertReject(t) PROVE TypeOK'
  <2>1. ob[t] \in Objects
    BY <1>8 DEF InsertReject, CallInv, InsertPcs
  <2>2. refs' \in [Objects -> 0 .. MaxReferences]
    BY <1>8, <2>1 DEF InsertReject
  <2>3. kind' \in [Objects -> Kinds]
    BY <1>8, <2>1 DEF InsertReject, Kinds
  <2>4. QED
    BY <1>8, <2>2, <2>3, TokenTypes
       DEF InsertReject, Return, Goto, TableUnlock, Kinds
<1>9. ASSUME NEW t \in Threads, InsertScan(t) PROVE TypeOK'
  BY <1>9 DEF InsertScan, Goto
<1>10. ASSUME NEW t \in Threads, InsertPublish(t) PROVE TypeOK'
  <2>1. FirstFree \in Slots /\ slots[FirstFree] \in SlotType
    BY <1>10, FirstFreeIsFree DEF InsertPublish, CanInsert, FreeSlots
  <2>2. ob[t] \in Objects
    BY <1>10 DEF InsertPublish, CallInv, InsertPcs
  <2>3. tracker' \in TrackerType
    BY <1>10, TrackerTypes DEF InsertPublish, CanInsert
  <2>4. slots' \in [Slots -> SlotType]
    BY <1>10, <2>1, <2>2 DEF InsertPublish, SlotType
  <2>5. QED
    BY <1>10, <2>2, <2>3, <2>4, TokenTypes
       DEF InsertPublish, Return, Goto, TableUnlock, Kinds
<1>11. ASSUME NEW t \in Threads, AcquireReject(t) PROVE TypeOK'
  BY <1>11, TokenTypes DEF AcquireReject, Return, Goto, TableUnlock, Kinds
<1>12. ASSUME NEW t \in Threads, AcquireCheck(t) PROVE TypeOK'
  BY <1>12, TokenTypes
     DEF AcquireCheck, Goto, SlotOf, SlotType, CallInv, AcquirePcs, ClosePcs
<1>13. ASSUME NEW t \in Threads, AcquireGrant(t) PROVE TypeOK'
  <2>1. tracker' \in TrackerType
    BY <1>13, TrackerTypes DEF AcquireGrant, CanAcquire
  <2>2. CanAcquire(t) /\ ob[t] = SlotOf(t).record
    BY <1>13 DEF AcquireGrant
  <2>3. ob[t] \in Objects /\ refs[ob[t]] # MaxReferences
    BY <2>2 DEF CanAcquire, Resolves
  <2>4. refs[ob[t]] + 1 \in 0 .. MaxReferences
    BY <2>3
  <2>5. QED
    BY <1>13, <2>1, <2>3, <2>4, TokenTypes
       DEF AcquireGrant, Return, Goto, TableUnlock, Kinds
<1>14. ASSUME NEW t \in Threads, CloseReject(t) PROVE TypeOK'
  BY <1>14, TokenTypes DEF CloseReject, Return, Goto, TableUnlock, Kinds
<1>15. ASSUME NEW t \in Threads, CloseCheck(t) PROVE TypeOK'
  BY <1>15, TokenTypes
     DEF CloseCheck, Goto, SlotOf, SlotType, CallInv, AcquirePcs, ClosePcs
<1>16. ASSUME NEW t \in Threads, CloseInvalidate(t) PROVE TypeOK'
  BY <1>16, TokenTypes, TrackerTypes, InvalidateType
     DEF CloseInvalidate, Goto, TableUnlock, CanClose, CallInv, ClosePcs,
     AcquirePcs
<1>17. ASSUME NEW t \in Threads, RecordRelease(t) PROVE TypeOK'
  BY <1>17 DEF RecordRelease, Goto, AfterRelease, CallInv, ReleasePcs,
     DyingPcs
<1>18. ASSUME NEW t \in Threads, DestroyObject(t) PROVE TypeOK'
  BY <1>18 DEF DestroyObject, Goto
<1>19. ASSUME NEW t \in Threads, RecordUntrack(t) PROVE TypeOK'
  BY <1>19, TrackerTypes DEF RecordUntrack, Goto, AfterRelease, TrackerRelease
<1>20. ASSUME NEW t \in Threads, ActivityEnd(t) PROVE TypeOK'
  BY <1>20, TokenTypes, TrackerTypes
     DEF ActivityEnd, Return, Goto, TrackerActivityEnd, Kinds
<1>21. ASSUME NEW t \in Threads, DestroyCollect(t) PROVE TypeOK'
  <2>1. slots' \in [Slots -> SlotType]
    BY <1>21, InvalidateType DEF DestroyCollect
  <2>2. pending' \in SUBSET Objects
    BY <1>21 DEF DestroyCollect, SlotType
  <2>3. QED
    BY <1>21, <2>1, <2>2 DEF DestroyCollect, Goto, TableUnlock
<1>22. ASSUME NEW t \in Threads, ReleaseNext(t) PROVE TypeOK'
  BY <1>22 DEF ReleaseNext, Goto
<1>23. ASSUME NEW t \in Threads, FreeTable(t) PROVE TypeOK'
  BY <1>23 DEF FreeTable, Goto
<1>24. ASSUME NEW t \in Threads, TableUntrack(t) PROVE TypeOK'
  BY <1>24, TokenTypes, TrackerTypes
     DEF TableUntrack, Return, Goto, TrackerRelease, Kinds
<1>25. ASSUME NEW t \in Threads, CloneReject(t) PROVE TypeOK'
  BY <1>25, TokenTypes DEF CloneReject, Return, Goto, TableUnlock, Kinds
<1>26. ASSUME NEW t \in Threads, CloneFreeze(t) PROVE TypeOK'
  BY <1>26 DEF CloneFreeze, Goto
<1>27. ASSUME NEW t \in Threads, CompleteClone(t) PROVE TypeOK'
  BY <1>27, TokenTypes DEF CompleteClone, Return, Goto, TableUnlock, Kinds
<1>28. CASE UNCHANGED vars
  BY <1>28 DEF vars
<1>29. QED
  BY <1>1, <1>2, <1>3, <1>4, <1>5, <1>6, <1>7, <1>8, <1>9, <1>10, <1>11,
     <1>12, <1>13, <1>14, <1>15, <1>16, <1>17, <1>18, <1>19, <1>20, <1>21,
     <1>22, <1>23, <1>24, <1>25, <1>26, <1>27, <1>28
     DEF Next, Call, Continue, Terminated

(* Every step keeps the critical sections exclusive. *)
LEMMA LockStep == IndInv /\ [Next]_vars => LockInv'
<1> SUFFICES ASSUME IndInv, [Next]_vars PROVE LockInv'
  OBVIOUS
<1> USE DEF IndInv, TypeOK, LockInv, Inside, Waiting, Outside, Touching,
       tableVars, recordVars
<1>1. ASSUME NEW t \in Threads, NEW o \in Objects, NEW k \in Kinds, Insert(t, o,
             k)
      PROVE  LockInv'
  BY <1>1 DEF Insert, Goto
<1>2. ASSUME NEW t \in Threads, NEW h \in Tokens, NEW k \in Kinds, Acquire(t, h,
             k)
      PROVE  LockInv'
  BY <1>2 DEF Acquire, Goto
<1>3. ASSUME NEW t \in Threads, NEW h \in Tokens, NEW k \in Kinds, Close(t, h,
             k)
      PROVE  LockInv'
  BY <1>3 DEF Close, Goto
<1>4. ASSUME NEW t \in Threads, LeaseRelease(t) PROVE LockInv'
  BY <1>4 DEF LeaseRelease, Goto
<1>5. ASSUME NEW t \in Threads, DestroyTable(t) PROVE LockInv'
  BY <1>5 DEF DestroyTable, Goto
<1>6. ASSUME NEW t \in Threads, PrepareClone(t) PROVE LockInv'
  BY <1>6 DEF PrepareClone, Goto
<1>7. ASSUME NEW t \in Threads, TableLock(t) PROVE LockInv'
  BY <1>7 DEF TableLock, Goto, AfterLock
<1>8. ASSUME NEW t \in Threads, InsertReject(t) PROVE LockInv'
  BY <1>8 DEF InsertReject, Return, Goto, TableUnlock
<1>9. ASSUME NEW t \in Threads, InsertScan(t) PROVE LockInv'
  BY <1>9 DEF InsertScan, Goto
<1>10. ASSUME NEW t \in Threads, InsertPublish(t) PROVE LockInv'
  BY <1>10 DEF InsertPublish, Return, Goto, TableUnlock
<1>11. ASSUME NEW t \in Threads, AcquireReject(t) PROVE LockInv'
  BY <1>11 DEF AcquireReject, Return, Goto, TableUnlock
<1>12. ASSUME NEW t \in Threads, AcquireCheck(t) PROVE LockInv'
  BY <1>12 DEF AcquireCheck, Goto
<1>13. ASSUME NEW t \in Threads, AcquireGrant(t) PROVE LockInv'
  BY <1>13 DEF AcquireGrant, Return, Goto, TableUnlock
<1>14. ASSUME NEW t \in Threads, CloseReject(t) PROVE LockInv'
  BY <1>14 DEF CloseReject, Return, Goto, TableUnlock
<1>15. ASSUME NEW t \in Threads, CloseCheck(t) PROVE LockInv'
  BY <1>15 DEF CloseCheck, Goto
<1>16. ASSUME NEW t \in Threads, CloseInvalidate(t) PROVE LockInv'
  BY <1>16 DEF CloseInvalidate, Goto, TableUnlock
<1>17. ASSUME NEW t \in Threads, RecordRelease(t) PROVE LockInv'
  BY <1>17 DEF RecordRelease, Goto, AfterRelease
<1>18. ASSUME NEW t \in Threads, DestroyObject(t) PROVE LockInv'
  BY <1>18 DEF DestroyObject, Goto
<1>19. ASSUME NEW t \in Threads, RecordUntrack(t) PROVE LockInv'
  BY <1>19 DEF RecordUntrack, Goto, AfterRelease, TrackerRelease
<1>20. ASSUME NEW t \in Threads, ActivityEnd(t) PROVE LockInv'
  BY <1>20 DEF ActivityEnd, Return, Goto, TrackerActivityEnd
<1>21. ASSUME NEW t \in Threads, DestroyCollect(t) PROVE LockInv'
  BY <1>21 DEF DestroyCollect, Goto, TableUnlock
<1>22. ASSUME NEW t \in Threads, ReleaseNext(t) PROVE LockInv'
  BY <1>22 DEF ReleaseNext, Goto
<1>23. ASSUME NEW t \in Threads, FreeTable(t) PROVE LockInv'
  BY <1>23 DEF FreeTable, Goto
<1>24. ASSUME NEW t \in Threads, TableUntrack(t) PROVE LockInv'
  BY <1>24 DEF TableUntrack, Return, Goto, TrackerRelease
<1>25. ASSUME NEW t \in Threads, CloneReject(t) PROVE LockInv'
  BY <1>25 DEF CloneReject, Return, Goto, TableUnlock
<1>26. ASSUME NEW t \in Threads, CloneFreeze(t) PROVE LockInv'
  BY <1>26 DEF CloneFreeze, Goto
<1>27. ASSUME NEW t \in Threads, CompleteClone(t) PROVE LockInv'
  BY <1>27 DEF CompleteClone, Return, Goto, TableUnlock
<1>28. CASE UNCHANGED vars
  BY <1>28 DEF vars
<1>29. QED
  BY <1>1, <1>2, <1>3, <1>4, <1>5, <1>6, <1>7, <1>8, <1>9, <1>10, <1>11,
     <1>12, <1>13, <1>14, <1>15, <1>16, <1>17, <1>18, <1>19, <1>20, <1>21,
     <1>22, <1>23, <1>24, <1>25, <1>26, <1>27, <1>28
     DEF Next, Call, Continue, Terminated

(* Every step keeps a thread's locals in line with its place. *)
LEMMA CallStep == IndInv /\ [Next]_vars => CallInv'
<1> SUFFICES ASSUME IndInv, [Next]_vars PROVE CallInv'
  OBVIOUS
<1> USE DEF IndInv, TypeOK, CallInv, OwnerInv, LiveInv, NoUseAfterFree,
       InsertPcs, AcquirePcs, ClosePcs, DyingPcs, ReleasePcs, Inside,
       Waiting, Outside, Touching, tableVars, recordVars
<1>1. ASSUME NEW t \in Threads, NEW o \in Objects, NEW k \in Kinds, Insert(t, o,
             k)
      PROVE  CallInv'
  BY <1>1 DEF Insert, Goto
<1>2. ASSUME NEW t \in Threads, NEW h \in Tokens, NEW k \in Kinds, Acquire(t, h,
             k)
      PROVE  CallInv'
  BY <1>2 DEF Acquire, Goto
<1>3. ASSUME NEW t \in Threads, NEW h \in Tokens, NEW k \in Kinds, Close(t, h,
             k)
      PROVE  CallInv'
  BY <1>3 DEF Close, Goto
<1>4. ASSUME NEW t \in Threads, LeaseRelease(t) PROVE CallInv'
  BY <1>4 DEF LeaseRelease, Goto
<1>5. ASSUME NEW t \in Threads, DestroyTable(t) PROVE CallInv'
  BY <1>5 DEF DestroyTable, Goto
<1>6. ASSUME NEW t \in Threads, PrepareClone(t) PROVE CallInv'
  BY <1>6 DEF PrepareClone, Goto
<1>7. ASSUME NEW t \in Threads, TableLock(t) PROVE CallInv'
  BY <1>7 DEF TableLock, Goto, AfterLock
<1>8. ASSUME NEW t \in Threads, InsertReject(t) PROVE CallInv'
  BY <1>8 DEF InsertReject, Return, Goto, TableUnlock
<1>9. ASSUME NEW t \in Threads, InsertScan(t) PROVE CallInv'
  BY <1>9 DEF InsertScan, Goto
<1>10. ASSUME NEW t \in Threads, InsertPublish(t) PROVE CallInv'
  BY <1>10 DEF InsertPublish, Return, Goto, TableUnlock
<1>11. ASSUME NEW t \in Threads, AcquireReject(t) PROVE CallInv'
  BY <1>11 DEF AcquireReject, Return, Goto, TableUnlock
<1>12. ASSUME NEW t \in Threads, AcquireCheck(t) PROVE CallInv'
  BY <1>12 DEF AcquireCheck, Goto
<1>13. ASSUME NEW t \in Threads, AcquireGrant(t) PROVE CallInv'
  BY <1>13 DEF AcquireGrant, Return, Goto, TableUnlock
<1>14. ASSUME NEW t \in Threads, CloseReject(t) PROVE CallInv'
  BY <1>14 DEF CloseReject, Return, Goto, TableUnlock
<1>15. ASSUME NEW t \in Threads, CloseCheck(t) PROVE CallInv'
  BY <1>15 DEF CloseCheck, Goto
<1>16. ASSUME NEW t \in Threads, CloseInvalidate(t) PROVE CallInv'
  BY <1>16 DEF CloseInvalidate, Goto, TableUnlock, GrantInv, CanClose,
     Resolves
<1>17. ASSUME NEW t \in Threads, RecordRelease(t) PROVE CallInv'
  BY <1>17 DEF RecordRelease, Goto, AfterRelease
<1>18. ASSUME NEW t \in Threads, DestroyObject(t) PROVE CallInv'
  BY <1>18 DEF DestroyObject, Goto
<1>19. ASSUME NEW t \in Threads, RecordUntrack(t) PROVE CallInv'
  BY <1>19 DEF RecordUntrack, Goto, AfterRelease, TrackerRelease
<1>20. ASSUME NEW t \in Threads, ActivityEnd(t) PROVE CallInv'
  BY <1>20 DEF ActivityEnd, Return, Goto, TrackerActivityEnd
<1>21. ASSUME NEW t \in Threads, DestroyCollect(t) PROVE CallInv'
  BY <1>21 DEF DestroyCollect, Goto, TableUnlock
<1>22. ASSUME NEW t \in Threads, ReleaseNext(t) PROVE CallInv'
  BY <1>22 DEF ReleaseNext, Goto, ShutdownInv, Shutting, ShutdownPcs
<1>23. ASSUME NEW t \in Threads, FreeTable(t) PROVE CallInv'
  BY <1>23 DEF FreeTable, Goto
<1>24. ASSUME NEW t \in Threads, TableUntrack(t) PROVE CallInv'
  BY <1>24 DEF TableUntrack, Return, Goto, TrackerRelease
<1>25. ASSUME NEW t \in Threads, CloneReject(t) PROVE CallInv'
  BY <1>25 DEF CloneReject, Return, Goto, TableUnlock
<1>26. ASSUME NEW t \in Threads, CloneFreeze(t) PROVE CallInv'
  BY <1>26 DEF CloneFreeze, Goto
<1>27. ASSUME NEW t \in Threads, CompleteClone(t) PROVE CallInv'
  BY <1>27 DEF CompleteClone, Return, Goto, TableUnlock
<1>28. CASE UNCHANGED vars
  BY <1>28 DEF vars
<1>29. QED
  BY <1>1, <1>2, <1>3, <1>4, <1>5, <1>6, <1>7, <1>8, <1>9, <1>10, <1>11,
     <1>12, <1>13, <1>14, <1>15, <1>16, <1>17, <1>18, <1>19, <1>20, <1>21,
     <1>22, <1>23, <1>24, <1>25, <1>26, <1>27, <1>28
     DEF Next, Call, Continue, Terminated

(* Every step keeps private and dying records with one thread. *)
LEMMA OwnerStep == IndInv /\ [Next]_vars => OwnerInv'
<1> SUFFICES ASSUME IndInv, [Next]_vars PROVE OwnerInv'
  OBVIOUS
<1> USE DEF IndInv, TypeOK, CallInv, OwnerInv, LiveInv, NoUseAfterFree,
       InsertPcs, AcquirePcs, ClosePcs, DyingPcs, ReleasePcs, Inside,
       Waiting, Outside, Touching, tableVars, recordVars
<1>1. ASSUME NEW t \in Threads, NEW o \in Objects, NEW k \in Kinds, Insert(t, o,
             k)
      PROVE  OwnerInv'
  BY <1>1 DEF Insert, Goto
<1>2. ASSUME NEW t \in Threads, NEW h \in Tokens, NEW k \in Kinds, Acquire(t, h,
             k)
      PROVE  OwnerInv'
  BY <1>2 DEF Acquire, Goto
<1>3. ASSUME NEW t \in Threads, NEW h \in Tokens, NEW k \in Kinds, Close(t, h,
             k)
      PROVE  OwnerInv'
  BY <1>3 DEF Close, Goto
<1>4. ASSUME NEW t \in Threads, LeaseRelease(t) PROVE OwnerInv'
  BY <1>4 DEF LeaseRelease, Goto
<1>5. ASSUME NEW t \in Threads, DestroyTable(t) PROVE OwnerInv'
  BY <1>5 DEF DestroyTable, Goto
<1>6. ASSUME NEW t \in Threads, PrepareClone(t) PROVE OwnerInv'
  BY <1>6 DEF PrepareClone, Goto
<1>7. ASSUME NEW t \in Threads, TableLock(t) PROVE OwnerInv'
  BY <1>7 DEF TableLock, Goto, AfterLock
<1>8. ASSUME NEW t \in Threads, InsertReject(t) PROVE OwnerInv'
  BY <1>8 DEF InsertReject, Return, Goto, TableUnlock
<1>9. ASSUME NEW t \in Threads, InsertScan(t) PROVE OwnerInv'
  BY <1>9 DEF InsertScan, Goto
<1>10. ASSUME NEW t \in Threads, InsertPublish(t) PROVE OwnerInv'
  BY <1>10 DEF InsertPublish, Return, Goto, TableUnlock
<1>11. ASSUME NEW t \in Threads, AcquireReject(t) PROVE OwnerInv'
  BY <1>11 DEF AcquireReject, Return, Goto, TableUnlock
<1>12. ASSUME NEW t \in Threads, AcquireCheck(t) PROVE OwnerInv'
  BY <1>12 DEF AcquireCheck, Goto
<1>13. ASSUME NEW t \in Threads, AcquireGrant(t) PROVE OwnerInv'
  BY <1>13 DEF AcquireGrant, Return, Goto, TableUnlock
<1>14. ASSUME NEW t \in Threads, CloseReject(t) PROVE OwnerInv'
  BY <1>14 DEF CloseReject, Return, Goto, TableUnlock
<1>15. ASSUME NEW t \in Threads, CloseCheck(t) PROVE OwnerInv'
  BY <1>15 DEF CloseCheck, Goto
<1>16. ASSUME NEW t \in Threads, CloseInvalidate(t) PROVE OwnerInv'
  BY <1>16 DEF CloseInvalidate, Goto, TableUnlock
<1>17. ASSUME NEW t \in Threads, RecordRelease(t) PROVE OwnerInv'
  BY <1>17 DEF RecordRelease, Goto, AfterRelease
<1>18. ASSUME NEW t \in Threads, DestroyObject(t) PROVE OwnerInv'
  BY <1>18 DEF DestroyObject, Goto
<1>19. ASSUME NEW t \in Threads, RecordUntrack(t) PROVE OwnerInv'
  BY <1>19 DEF RecordUntrack, Goto, AfterRelease, TrackerRelease
<1>20. ASSUME NEW t \in Threads, ActivityEnd(t) PROVE OwnerInv'
  BY <1>20 DEF ActivityEnd, Return, Goto, TrackerActivityEnd
<1>21. ASSUME NEW t \in Threads, DestroyCollect(t) PROVE OwnerInv'
  BY <1>21 DEF DestroyCollect, Goto, TableUnlock
<1>22. ASSUME NEW t \in Threads, ReleaseNext(t) PROVE OwnerInv'
  BY <1>22 DEF ReleaseNext, Goto
<1>23. ASSUME NEW t \in Threads, FreeTable(t) PROVE OwnerInv'
  BY <1>23 DEF FreeTable, Goto
<1>24. ASSUME NEW t \in Threads, TableUntrack(t) PROVE OwnerInv'
  BY <1>24 DEF TableUntrack, Return, Goto, TrackerRelease
<1>25. ASSUME NEW t \in Threads, CloneReject(t) PROVE OwnerInv'
  BY <1>25 DEF CloneReject, Return, Goto, TableUnlock
<1>26. ASSUME NEW t \in Threads, CloneFreeze(t) PROVE OwnerInv'
  BY <1>26 DEF CloneFreeze, Goto
<1>27. ASSUME NEW t \in Threads, CompleteClone(t) PROVE OwnerInv'
  BY <1>27 DEF CompleteClone, Return, Goto, TableUnlock
<1>28. CASE UNCHANGED vars
  BY <1>28 DEF vars
<1>29. QED
  BY <1>1, <1>2, <1>3, <1>4, <1>5, <1>6, <1>7, <1>8, <1>9, <1>10, <1>11,
     <1>12, <1>13, <1>14, <1>15, <1>16, <1>17, <1>18, <1>19, <1>20, <1>21,
     <1>22, <1>23, <1>24, <1>25, <1>26, <1>27, <1>28
     DEF Next, Call, Continue, Terminated

(* Every step keeps the shutdown of the table to one thread. *)
LEMMA ShutdownStep == IndInv /\ [Next]_vars => ShutdownInv'
<1> SUFFICES ASSUME IndInv, [Next]_vars PROVE ShutdownInv'
  OBVIOUS
<1> USE DEF IndInv, TypeOK, CallInv, ShutdownInv, Shutting, ShutdownPcs,
       InsertPcs, AcquirePcs, ClosePcs, DyingPcs, ReleasePcs, Inside,
       Waiting, Outside, Touching, tableVars, recordVars
<1>1. ASSUME NEW t \in Threads, NEW o \in Objects, NEW k \in Kinds, Insert(t, o,
             k)
      PROVE  ShutdownInv'
  BY <1>1 DEF Insert, Goto
<1>2. ASSUME NEW t \in Threads, NEW h \in Tokens, NEW k \in Kinds, Acquire(t, h,
             k)
      PROVE  ShutdownInv'
  BY <1>2 DEF Acquire, Goto
<1>3. ASSUME NEW t \in Threads, NEW h \in Tokens, NEW k \in Kinds, Close(t, h,
             k)
      PROVE  ShutdownInv'
  BY <1>3 DEF Close, Goto
<1>4. ASSUME NEW t \in Threads, LeaseRelease(t) PROVE ShutdownInv'
  BY <1>4 DEF LeaseRelease, Goto
<1>5. ASSUME NEW t \in Threads, DestroyTable(t) PROVE ShutdownInv'
  BY <1>5 DEF DestroyTable, Goto
<1>6. ASSUME NEW t \in Threads, PrepareClone(t) PROVE ShutdownInv'
  BY <1>6 DEF PrepareClone, Goto
<1>7. ASSUME NEW t \in Threads, TableLock(t) PROVE ShutdownInv'
  BY <1>7 DEF TableLock, Goto, AfterLock
<1>8. ASSUME NEW t \in Threads, InsertReject(t) PROVE ShutdownInv'
  BY <1>8 DEF InsertReject, Return, Goto, TableUnlock
<1>9. ASSUME NEW t \in Threads, InsertScan(t) PROVE ShutdownInv'
  BY <1>9 DEF InsertScan, Goto
<1>10. ASSUME NEW t \in Threads, InsertPublish(t) PROVE ShutdownInv'
  BY <1>10 DEF InsertPublish, Return, Goto, TableUnlock
<1>11. ASSUME NEW t \in Threads, AcquireReject(t) PROVE ShutdownInv'
  BY <1>11 DEF AcquireReject, Return, Goto, TableUnlock
<1>12. ASSUME NEW t \in Threads, AcquireCheck(t) PROVE ShutdownInv'
  BY <1>12 DEF AcquireCheck, Goto
<1>13. ASSUME NEW t \in Threads, AcquireGrant(t) PROVE ShutdownInv'
  BY <1>13 DEF AcquireGrant, Return, Goto, TableUnlock
<1>14. ASSUME NEW t \in Threads, CloseReject(t) PROVE ShutdownInv'
  BY <1>14 DEF CloseReject, Return, Goto, TableUnlock
<1>15. ASSUME NEW t \in Threads, CloseCheck(t) PROVE ShutdownInv'
  BY <1>15 DEF CloseCheck, Goto
<1>16. ASSUME NEW t \in Threads, CloseInvalidate(t) PROVE ShutdownInv'
  BY <1>16, InvalidateType DEF CloseInvalidate, Goto, TableUnlock
<1>17. ASSUME NEW t \in Threads, RecordRelease(t) PROVE ShutdownInv'
  BY <1>17 DEF RecordRelease, Goto, AfterRelease
<1>18. ASSUME NEW t \in Threads, DestroyObject(t) PROVE ShutdownInv'
  BY <1>18 DEF DestroyObject, Goto
<1>19. ASSUME NEW t \in Threads, RecordUntrack(t) PROVE ShutdownInv'
  BY <1>19 DEF RecordUntrack, Goto, AfterRelease, TrackerRelease
<1>20. ASSUME NEW t \in Threads, ActivityEnd(t) PROVE ShutdownInv'
  BY <1>20 DEF ActivityEnd, Return, Goto, TrackerActivityEnd
<1>21. ASSUME NEW t \in Threads, DestroyCollect(t) PROVE ShutdownInv'
  BY <1>21, InvalidateType DEF DestroyCollect, Goto, TableUnlock
<1>22. ASSUME NEW t \in Threads, ReleaseNext(t) PROVE ShutdownInv'
  BY <1>22 DEF ReleaseNext, Goto
<1>23. ASSUME NEW t \in Threads, FreeTable(t) PROVE ShutdownInv'
  BY <1>23 DEF FreeTable, Goto
<1>24. ASSUME NEW t \in Threads, TableUntrack(t) PROVE ShutdownInv'
  BY <1>24 DEF TableUntrack, Return, Goto, TrackerRelease
<1>25. ASSUME NEW t \in Threads, CloneReject(t) PROVE ShutdownInv'
  BY <1>25 DEF CloneReject, Return, Goto, TableUnlock
<1>26. ASSUME NEW t \in Threads, CloneFreeze(t) PROVE ShutdownInv'
  BY <1>26 DEF CloneFreeze, Goto
<1>27. ASSUME NEW t \in Threads, CompleteClone(t) PROVE ShutdownInv'
  BY <1>27 DEF CompleteClone, Return, Goto, TableUnlock
<1>28. CASE UNCHANGED vars
  BY <1>28 DEF vars
<1>29. QED
  BY <1>1, <1>2, <1>3, <1>4, <1>5, <1>6, <1>7, <1>8, <1>9, <1>10, <1>11,
     <1>12, <1>13, <1>14, <1>15, <1>16, <1>17, <1>18, <1>19, <1>20, <1>21,
     <1>22, <1>23, <1>24, <1>25, <1>26, <1>27, <1>28
     DEF Next, Call, Continue, Terminated

(* No step publishes a record in two slots or in a retired one. *)
LEMMA SlotStep == IndInv /\ [Next]_vars => SlotInv'
<1> SUFFICES ASSUME IndInv, [Next]_vars PROVE SlotInv'
  OBVIOUS
<1> USE HandleTableAssumption
       DEF IndInv, TypeOK, SlotInv, Inside, Waiting, Outside, Touching,
       tableVars, recordVars
<1>1. ASSUME NEW t \in Threads, NEW o \in Objects, NEW k \in Kinds, Insert(t, o,
             k)
      PROVE  SlotInv'
  BY <1>1 DEF Insert, Goto
<1>2. ASSUME NEW t \in Threads, NEW h \in Tokens, NEW k \in Kinds, Acquire(t, h,
             k)
      PROVE  SlotInv'
  BY <1>2 DEF Acquire, Goto
<1>3. ASSUME NEW t \in Threads, NEW h \in Tokens, NEW k \in Kinds, Close(t, h,
             k)
      PROVE  SlotInv'
  BY <1>3 DEF Close, Goto
<1>4. ASSUME NEW t \in Threads, LeaseRelease(t) PROVE SlotInv'
  BY <1>4 DEF LeaseRelease, Goto
<1>5. ASSUME NEW t \in Threads, DestroyTable(t) PROVE SlotInv'
  BY <1>5 DEF DestroyTable, Goto
<1>6. ASSUME NEW t \in Threads, PrepareClone(t) PROVE SlotInv'
  BY <1>6 DEF PrepareClone, Goto
<1>7. ASSUME NEW t \in Threads, TableLock(t) PROVE SlotInv'
  BY <1>7 DEF TableLock, Goto, AfterLock
<1>8. ASSUME NEW t \in Threads, InsertReject(t) PROVE SlotInv'
  BY <1>8 DEF InsertReject, Return, Goto, TableUnlock
<1>9. ASSUME NEW t \in Threads, InsertScan(t) PROVE SlotInv'
  BY <1>9 DEF InsertScan, Goto
<1>10. ASSUME NEW t \in Threads, InsertPublish(t) PROVE SlotInv'
  BY <1>10, FirstFreeIsFree
     DEF InsertPublish, Return, Goto, TableUnlock, GrantInv, CanInsert,
     FreeSlots, CallInv, InsertPcs, LiveInv, NoUseAfterFree, SlotType
<1>11. ASSUME NEW t \in Threads, AcquireReject(t) PROVE SlotInv'
  BY <1>11 DEF AcquireReject, Return, Goto, TableUnlock
<1>12. ASSUME NEW t \in Threads, AcquireCheck(t) PROVE SlotInv'
  BY <1>12 DEF AcquireCheck, Goto
<1>13. ASSUME NEW t \in Threads, AcquireGrant(t) PROVE SlotInv'
  BY <1>13 DEF AcquireGrant, Return, Goto, TableUnlock
<1>14. ASSUME NEW t \in Threads, CloseReject(t) PROVE SlotInv'
  BY <1>14 DEF CloseReject, Return, Goto, TableUnlock
<1>15. ASSUME NEW t \in Threads, CloseCheck(t) PROVE SlotInv'
  BY <1>15 DEF CloseCheck, Goto
<1>16. ASSUME NEW t \in Threads, CloseInvalidate(t) PROVE SlotInv'
  BY <1>16, InvalidateType, TokenTypes
     DEF CloseInvalidate, Goto, TableUnlock, CallInv, ClosePcs, AcquirePcs,
     SlotType
<1>17. ASSUME NEW t \in Threads, RecordRelease(t) PROVE SlotInv'
  BY <1>17 DEF RecordRelease, Goto, AfterRelease
<1>18. ASSUME NEW t \in Threads, DestroyObject(t) PROVE SlotInv'
  BY <1>18 DEF DestroyObject, Goto
<1>19. ASSUME NEW t \in Threads, RecordUntrack(t) PROVE SlotInv'
  BY <1>19 DEF RecordUntrack, Goto, AfterRelease, TrackerRelease
<1>20. ASSUME NEW t \in Threads, ActivityEnd(t) PROVE SlotInv'
  BY <1>20 DEF ActivityEnd, Return, Goto, TrackerActivityEnd
<1>21. ASSUME NEW t \in Threads, DestroyCollect(t) PROVE SlotInv'
  BY <1>21, InvalidateType DEF DestroyCollect, Goto, TableUnlock, SlotType
<1>22. ASSUME NEW t \in Threads, ReleaseNext(t) PROVE SlotInv'
  BY <1>22 DEF ReleaseNext, Goto
<1>23. ASSUME NEW t \in Threads, FreeTable(t) PROVE SlotInv'
  BY <1>23 DEF FreeTable, Goto
<1>24. ASSUME NEW t \in Threads, TableUntrack(t) PROVE SlotInv'
  BY <1>24 DEF TableUntrack, Return, Goto, TrackerRelease
<1>25. ASSUME NEW t \in Threads, CloneReject(t) PROVE SlotInv'
  BY <1>25 DEF CloneReject, Return, Goto, TableUnlock
<1>26. ASSUME NEW t \in Threads, CloneFreeze(t) PROVE SlotInv'
  BY <1>26 DEF CloneFreeze, Goto
<1>27. ASSUME NEW t \in Threads, CompleteClone(t) PROVE SlotInv'
  BY <1>27 DEF CompleteClone, Return, Goto, TableUnlock
<1>28. CASE UNCHANGED vars
  BY <1>28 DEF vars
<1>29. QED
  BY <1>1, <1>2, <1>3, <1>4, <1>5, <1>6, <1>7, <1>8, <1>9, <1>10, <1>11,
     <1>12, <1>13, <1>14, <1>15, <1>16, <1>17, <1>18, <1>19, <1>20, <1>21,
     <1>22, <1>23, <1>24, <1>25, <1>26, <1>27, <1>28
     DEF Next, Call, Continue, Terminated

(* What was checked under the lock survives the steps of other threads. *)
LEMMA GrantStep == IndInv /\ [Next]_vars => GrantInv'
<1> SUFFICES ASSUME IndInv, [Next]_vars PROVE GrantInv'
  OBVIOUS
<1> USE HandleTableAssumption
       DEF IndInv, TypeOK, LockInv, GrantInv, CanInsert, CanRetain,
       FreeSlots, CanAcquire, CanClose, CanClone, Resolves, SlotOf,
       CanBeginActivity, Inside, Waiting, Outside, Touching, tableVars,
       recordVars
<1>1. ASSUME NEW t \in Threads, NEW o \in Objects, NEW k \in Kinds, Insert(t, o,
             k)
      PROVE  GrantInv'
  BY <1>1, TokenTypes
     DEF Insert, Goto, CallInv, AcquirePcs, ClosePcs, LiveInv, NoUseAfterFree
<1>2. ASSUME NEW t \in Threads, NEW h \in Tokens, NEW k \in Kinds, Acquire(t, h,
             k)
      PROVE  GrantInv'
  BY <1>2 DEF Acquire, Goto
<1>3. ASSUME NEW t \in Threads, NEW h \in Tokens, NEW k \in Kinds, Close(t, h,
             k)
      PROVE  GrantInv'
  BY <1>3 DEF Close, Goto
<1>4. ASSUME NEW t \in Threads, LeaseRelease(t) PROVE GrantInv'
  BY <1>4 DEF LeaseRelease, Goto
<1>5. ASSUME NEW t \in Threads, DestroyTable(t) PROVE GrantInv'
  BY <1>5 DEF DestroyTable, Goto
<1>6. ASSUME NEW t \in Threads, PrepareClone(t) PROVE GrantInv'
  BY <1>6 DEF PrepareClone, Goto
<1>7. ASSUME NEW t \in Threads, TableLock(t) PROVE GrantInv'
  BY <1>7 DEF TableLock, Goto, AfterLock
<1>8. ASSUME NEW t \in Threads, InsertReject(t) PROVE GrantInv'
  BY <1>8 DEF InsertReject, Return, Goto, TableUnlock
<1>9. ASSUME NEW t \in Threads, InsertScan(t) PROVE GrantInv'
  BY <1>9 DEF InsertScan, Goto
<1>10. ASSUME NEW t \in Threads, InsertPublish(t) PROVE GrantInv'
  BY <1>10 DEF InsertPublish, Return, Goto, TableUnlock, TrackerRetain
<1>11. ASSUME NEW t \in Threads, AcquireReject(t) PROVE GrantInv'
  BY <1>11 DEF AcquireReject, Return, Goto, TableUnlock
<1>12. ASSUME NEW t \in Threads, AcquireCheck(t) PROVE GrantInv'
  BY <1>12 DEF AcquireCheck, Goto
<1>13. ASSUME NEW t \in Threads, AcquireGrant(t) PROVE GrantInv'
  BY <1>13 DEF AcquireGrant, Return, Goto, TableUnlock, TrackerActivityBegin
<1>14. ASSUME NEW t \in Threads, CloseReject(t) PROVE GrantInv'
  BY <1>14 DEF CloseReject, Return, Goto, TableUnlock
<1>15. ASSUME NEW t \in Threads, CloseCheck(t) PROVE GrantInv'
  BY <1>15 DEF CloseCheck, Goto
<1>16. ASSUME NEW t \in Threads, CloseInvalidate(t) PROVE GrantInv'
  BY <1>16 DEF CloseInvalidate, Goto, TableUnlock, TrackerActivityBegin
<1>17. ASSUME NEW t \in Threads, RecordRelease(t) PROVE GrantInv'
  BY <1>17 DEF RecordRelease, Goto, AfterRelease
<1>18. ASSUME NEW t \in Threads, DestroyObject(t) PROVE GrantInv'
  BY <1>18 DEF DestroyObject, Goto
<1>19. ASSUME NEW t \in Threads, RecordUntrack(t) PROVE GrantInv'
  <2>1. /\ CanRetain => CanRetain'
        /\ CanBeginActivity => CanBeginActivity'
        /\ tracker.acts = 0 => tracker'.acts = 0
    BY <1>19, TrackerDropKeeps DEF RecordUntrack, TrackerRelease
  <2> HIDE DEF CanRetain, CanBeginActivity
  <2>2. QED
    BY <1>19, <2>1 DEF RecordUntrack, Goto, AfterRelease
<1>20. ASSUME NEW t \in Threads, ActivityEnd(t) PROVE GrantInv'
  <2>1. /\ CanRetain => CanRetain'
        /\ CanBeginActivity => CanBeginActivity'
        /\ tracker.acts = 0 => tracker'.acts = 0
    BY <1>20, TrackerDropKeeps DEF ActivityEnd, TrackerActivityEnd
  <2> HIDE DEF CanRetain, CanBeginActivity
  <2>2. QED
    BY <1>20, <2>1 DEF ActivityEnd, Return, Goto
<1>21. ASSUME NEW t \in Threads, DestroyCollect(t) PROVE GrantInv'
  BY <1>21 DEF DestroyCollect, Goto, TableUnlock
<1>22. ASSUME NEW t \in Threads, ReleaseNext(t) PROVE GrantInv'
  BY <1>22 DEF ReleaseNext, Goto
<1>23. ASSUME NEW t \in Threads, FreeTable(t) PROVE GrantInv'
  BY <1>23 DEF FreeTable, Goto
<1>24. ASSUME NEW t \in Threads, TableUntrack(t) PROVE GrantInv'
  <2>1. /\ CanRetain => CanRetain'
        /\ CanBeginActivity => CanBeginActivity'
        /\ tracker.acts = 0 => tracker'.acts = 0
    BY <1>24, TrackerDropKeeps DEF TableUntrack, TrackerRelease
  <2> HIDE DEF CanRetain, CanBeginActivity
  <2>2. QED
    BY <1>24, <2>1 DEF TableUntrack, Return, Goto
<1>25. ASSUME NEW t \in Threads, CloneReject(t) PROVE GrantInv'
  BY <1>25 DEF CloneReject, Return, Goto, TableUnlock
<1>26. ASSUME NEW t \in Threads, CloneFreeze(t) PROVE GrantInv'
  BY <1>26 DEF CloneFreeze, Goto
<1>27. ASSUME NEW t \in Threads, CompleteClone(t) PROVE GrantInv'
  BY <1>27 DEF CompleteClone, Return, Goto, TableUnlock
<1>28. CASE UNCHANGED vars
  BY <1>28 DEF vars
<1>29. QED
  BY <1>1, <1>2, <1>3, <1>4, <1>5, <1>6, <1>7, <1>8, <1>9, <1>10, <1>11,
     <1>12, <1>13, <1>14, <1>15, <1>16, <1>17, <1>18, <1>19, <1>20, <1>21,
     <1>22, <1>23, <1>24, <1>25, <1>26, <1>27, <1>28
     DEF Next, Call, Continue, Terminated

(* No step takes a record from one of its owners. *)
LEMMA LiveStep == IndInv /\ [Next]_vars => LiveInv'
<1> SUFFICES ASSUME IndInv, [Next]_vars PROVE LiveInv'
  OBVIOUS
<1> USE DEF IndInv, TypeOK, LiveInv, NoUseAfterFree, Inside, Waiting,
       Outside, Touching, tableVars, recordVars
<1>1. ASSUME NEW t \in Threads, NEW o \in Objects, NEW k \in Kinds, Insert(t, o,
             k)
      PROVE  LiveInv'
  BY <1>1 DEF Insert, Goto
<1>2. ASSUME NEW t \in Threads, NEW h \in Tokens, NEW k \in Kinds, Acquire(t, h,
             k)
      PROVE  LiveInv'
  BY <1>2 DEF Acquire, Goto
<1>3. ASSUME NEW t \in Threads, NEW h \in Tokens, NEW k \in Kinds, Close(t, h,
             k)
      PROVE  LiveInv'
  BY <1>3 DEF Close, Goto
<1>4. ASSUME NEW t \in Threads, LeaseRelease(t) PROVE LiveInv'
  BY <1>4 DEF LeaseRelease, Goto
<1>5. ASSUME NEW t \in Threads, DestroyTable(t) PROVE LiveInv'
  BY <1>5 DEF DestroyTable, Goto
<1>6. ASSUME NEW t \in Threads, PrepareClone(t) PROVE LiveInv'
  BY <1>6 DEF PrepareClone, Goto
<1>7. ASSUME NEW t \in Threads, TableLock(t) PROVE LiveInv'
  BY <1>7 DEF TableLock, Goto, AfterLock
<1>8. ASSUME NEW t \in Threads, InsertReject(t) PROVE LiveInv'
  BY <1>8 DEF InsertReject, Return, Goto, TableUnlock, CallInv, InsertPcs
<1>9. ASSUME NEW t \in Threads, InsertScan(t) PROVE LiveInv'
  BY <1>9 DEF InsertScan, Goto
<1>10. ASSUME NEW t \in Threads, InsertPublish(t) PROVE LiveInv'
  <2>1. FirstFree \in Slots /\ ob[t] \in Objects
    BY <1>10, FirstFreeIsFree
       DEF InsertPublish, GrantInv, CanInsert, FreeSlots, CallInv, InsertPcs
  <2>2. \A s \in Slots : slots'[s].record \in {ob[t], slots[s].record}
    BY <1>10, <2>1 DEF InsertPublish, SlotType
  <2>3. QED
    BY <1>10, <2>1, <2>2 DEF InsertPublish, Return, Goto
<1>11. ASSUME NEW t \in Threads, AcquireReject(t) PROVE LiveInv'
  BY <1>11 DEF AcquireReject, Return, Goto, TableUnlock
<1>12. ASSUME NEW t \in Threads, AcquireCheck(t) PROVE LiveInv'
  BY <1>12 DEF AcquireCheck, Goto
<1>13. ASSUME NEW t \in Threads, AcquireGrant(t) PROVE LiveInv'
  BY <1>13, TokenTypes
     DEF AcquireGrant, Return, Goto, TableUnlock, GrantInv, CanAcquire,
     Resolves, SlotOf, CallInv, AcquirePcs, ClosePcs
<1>14. ASSUME NEW t \in Threads, CloseReject(t) PROVE LiveInv'
  BY <1>14 DEF CloseReject, Return, Goto, TableUnlock
<1>15. ASSUME NEW t \in Threads, CloseCheck(t) PROVE LiveInv'
  BY <1>15 DEF CloseCheck, Goto
<1>16. ASSUME NEW t \in Threads, CloseInvalidate(t) PROVE LiveInv'
  <2>1. /\ ob[t] \in Objects /\ life[ob[t]] = "live"
        /\ SlotIndex(token[t]) \in Slots
    BY <1>16, TokenTypes
       DEF CloseInvalidate, GrantInv, CanClose, Resolves, SlotOf, CallInv,
           AcquirePcs, ClosePcs
  <2>2. \A s \in Slots : slots'[s].record \in {NoObject, slots[s].record}
    BY <1>16, <2>1, InvalidateType DEF CloseInvalidate
  <2>3. QED
    BY <1>16, <2>1, <2>2 DEF CloseInvalidate, Goto
<1>17. ASSUME NEW t \in Threads, RecordRelease(t) PROVE LiveInv'
  <2>1. CASE refs[ob[t]] = 1
    <3>1. /\ Releasing(ob[t]) = {t} /\ Borrowing(ob[t]) = {}
          /\ Publishing(ob[t]) = {} /\ ob[t] \notin pending
      BY <1>17, <2>1, LastOwner DEF RecordRelease
    <3>2. \A u \in Threads : lease[u] # ob[t]
      BY <3>1 DEF Borrowing
    <3>3. \A u \in Threads :
             u # t /\ pc[u] = "recordRelease" => ob[u] # ob[t]
      BY <3>1 DEF Releasing
    <3>4. \A s \in Slots : slots[s].record # ob[t]
      BY <3>1 DEF Publishing
    <3>5. QED
      BY <1>17, <2>1, <3>1, <3>2, <3>3, <3>4
         DEF RecordRelease, Goto, AfterRelease
  <2>2. CASE refs[ob[t]] # 1
    BY <1>17, <2>2 DEF RecordRelease, Goto, AfterRelease
  <2>3. QED
    BY <2>1, <2>2
<1>18. ASSUME NEW t \in Threads, DestroyObject(t) PROVE LiveInv'
  BY <1>18 DEF DestroyObject, Goto, CallInv
<1>19. ASSUME NEW t \in Threads, RecordUntrack(t) PROVE LiveInv'
  BY <1>19 DEF RecordUntrack, Goto, AfterRelease, TrackerRelease, CallInv
<1>20. ASSUME NEW t \in Threads, ActivityEnd(t) PROVE LiveInv'
  BY <1>20 DEF ActivityEnd, Return, Goto, TrackerActivityEnd
<1>21. ASSUME NEW t \in Threads, DestroyCollect(t) PROVE LiveInv'
  <2>1. \A s \in Slots : slots'[s].record = NoObject
    BY <1>21, InvalidateType DEF DestroyCollect
  <2>2. QED
    BY <1>21, <2>1 DEF DestroyCollect, Goto
<1>22. ASSUME NEW t \in Threads, ReleaseNext(t) PROVE LiveInv'
  BY <1>22 DEF ReleaseNext, Goto
<1>23. ASSUME NEW t \in Threads, FreeTable(t) PROVE LiveInv'
  BY <1>23 DEF FreeTable, Goto
<1>24. ASSUME NEW t \in Threads, TableUntrack(t) PROVE LiveInv'
  BY <1>24 DEF TableUntrack, Return, Goto, TrackerRelease
<1>25. ASSUME NEW t \in Threads, CloneReject(t) PROVE LiveInv'
  BY <1>25 DEF CloneReject, Return, Goto, TableUnlock
<1>26. ASSUME NEW t \in Threads, CloneFreeze(t) PROVE LiveInv'
  BY <1>26 DEF CloneFreeze, Goto
<1>27. ASSUME NEW t \in Threads, CompleteClone(t) PROVE LiveInv'
  BY <1>27 DEF CompleteClone, Return, Goto, TableUnlock
<1>28. CASE UNCHANGED vars
  BY <1>28 DEF vars
<1>29. QED
  BY <1>1, <1>2, <1>3, <1>4, <1>5, <1>6, <1>7, <1>8, <1>9, <1>10, <1>11,
     <1>12, <1>13, <1>14, <1>15, <1>16, <1>17, <1>18, <1>19, <1>20, <1>21,
     <1>22, <1>23, <1>24, <1>25, <1>26, <1>27, <1>28
     DEF Next, Call, Continue, Terminated

(* Every step keeps tokens bound to the object they were issued for, or    *)
(* spent.                                                                  *)
LEMMA TokenStep == IndInv /\ [Next]_vars => TokenInv'
<1> SUFFICES ASSUME IndInv, [Next]_vars PROVE TokenInv'
  OBVIOUS
<1> USE DEF IndInv, TypeOK, TokenInv, tableVars, recordVars
<1>1. ASSUME NEW t \in Threads, NEW o \in Objects, NEW k \in Kinds, Insert(t, o,
             k)
      PROVE  TokenInv'
  BY <1>1 DEF Insert
<1>2. ASSUME NEW t \in Threads, NEW h \in Tokens, NEW k \in Kinds, Acquire(t, h,
             k)
      PROVE  TokenInv'
  BY <1>2 DEF Acquire
<1>3. ASSUME NEW t \in Threads, NEW h \in Tokens, NEW k \in Kinds, Close(t, h,
             k)
      PROVE  TokenInv'
  BY <1>3 DEF Close
<1>4. ASSUME NEW t \in Threads, LeaseRelease(t) PROVE TokenInv'
  BY <1>4 DEF LeaseRelease
<1>5. ASSUME NEW t \in Threads, DestroyTable(t) PROVE TokenInv'
  BY <1>5 DEF DestroyTable
<1>6. ASSUME NEW t \in Threads, PrepareClone(t) PROVE TokenInv'
  BY <1>6 DEF PrepareClone
<1>7. ASSUME NEW t \in Threads, TableLock(t) PROVE TokenInv'
  BY <1>7 DEF TableLock
<1>8. ASSUME NEW t \in Threads, InsertReject(t) PROVE TokenInv'
  BY <1>8 DEF InsertReject
<1>9. ASSUME NEW t \in Threads, InsertScan(t) PROVE TokenInv'
  BY <1>9 DEF InsertScan
<1>10. ASSUME NEW t \in Threads, InsertPublish(t) PROVE TokenInv'
  <2> DEFINE s == FirstFree
             h == EncodeHandle(s, slots[s].generation)
  <2>1. /\ s \in Slots /\ slots[s].record = NoObject /\ ~slots[s].retired
    BY <1>10, FirstFreeIsFree
       DEF InsertPublish, GrantInv, CanInsert, FreeSlots
  <2>2. ob[t] \in Objects /\ ob[t] # NoObject
    BY <1>10, HandleTableAssumption DEF InsertPublish, CallInv, InsertPcs
  <2>3. slots[s].generation \in 1 .. MaxGeneration
    BY <2>1 DEF SlotInv, SlotType
  <2>4. h \in Tokens /\ Decodable(h) /\ SlotIndex(h) = s
    BY <2>1, <2>3, TokenTypes
  <2>5. h.generation = slots[s].generation
    BY DEF EncodeHandle
  <2>6. /\ slots' = [slots EXCEPT ![s].record = ob[t]]
        /\ issued' = [issued EXCEPT ![h] = ob[t]]
    BY <1>10 DEF InsertPublish
  <2> HIDE DEF h, s
  <2>7. \A r \in Slots : /\ slots'[r].generation = slots[r].generation
                         /\ slots'[r].retired = slots[r].retired
                         /\ slots'[r].record = IF r = s THEN ob[t]
                                                 ELSE slots[r].record
    BY <2>1, <2>6 DEF SlotType
  <2>8. ASSUME NEW x \in Tokens, issued'[x] # NoObject
        PROVE  /\ Decodable(x)
               /\ \/ slots'[SlotIndex(x)].retired
                  \/ x.generation < slots'[SlotIndex(x)].generation
                  \/ /\ x.generation = slots'[SlotIndex(x)].generation
                     /\ slots'[SlotIndex(x)].record = issued'[x]
    <3>1. CASE x = h
      BY <2>1, <2>4, <2>5, <2>6, <2>7, <3>1
    <3>2. CASE x # h
      <4>1. issued'[x] = issued[x]
        BY <2>6, <3>2
      <4>2. Decodable(x) /\ SlotIndex(x) \in Slots
        BY <2>8, <4>1, TokenTypes
      <4>3. QED
        BY <2>1, <2>7, <2>8, <4>1, <4>2
    <3>3. QED
      BY <3>1, <3>2
  <2>9. ASSUME NEW r \in Slots, slots'[r].record # NoObject
        PROVE  issued'[EncodeHandle(r, slots'[r].generation)]
                  = slots'[r].record
    <3>1. CASE r = s
      BY <2>1, <2>4, <2>6, <2>7, <3>1 DEF h
    <3>2. CASE r # s
      <4>1. slots[r].record # NoObject /\ slots[r].generation \in 1 .. MaxGeneration
        BY <2>7, <2>9, <3>2 DEF SlotInv, SlotType
      <4>2. /\ EncodeHandle(r, slots[r].generation) \in Tokens
            /\ EncodeHandle(r, slots[r].generation) # h
        BY <2>4, <3>2, <4>1, TokenTypes
      <4>3. QED
        BY <2>6, <2>7, <3>2, <4>1, <4>2
    <3>3. QED
      BY <3>1, <3>2
  <2>10. QED
    BY <2>8, <2>9
<1>11. ASSUME NEW t \in Threads, AcquireReject(t) PROVE TokenInv'
  BY <1>11 DEF AcquireReject
<1>12. ASSUME NEW t \in Threads, AcquireCheck(t) PROVE TokenInv'
  BY <1>12 DEF AcquireCheck
<1>13. ASSUME NEW t \in Threads, AcquireGrant(t) PROVE TokenInv'
  BY <1>13 DEF AcquireGrant
<1>14. ASSUME NEW t \in Threads, CloseReject(t) PROVE TokenInv'
  BY <1>14 DEF CloseReject
<1>15. ASSUME NEW t \in Threads, CloseCheck(t) PROVE TokenInv'
  BY <1>15 DEF CloseCheck
<1>16. ASSUME NEW t \in Threads, CloseInvalidate(t) PROVE TokenInv'
  <2>1. ASSUME NEW s \in Slots
        PROVE  slots'[s] = slots[s] \/ Spent(slots[s], slots'[s])
    <3>1. slots[s] \in SlotType
      OBVIOUS
    <3>2. slots'[s] = slots[s] \/ slots'[s] = InvalidateSlot(slots[s])
      BY <1>16, TokenTypes
         DEF CloseInvalidate, CallInv, AcquirePcs, ClosePcs
    <3>3. QED
      BY <3>1, <3>2, InvalidateSpends
  <2>2. ASSUME NEW x \in Tokens, issued'[x] # NoObject
        PROVE  /\ Decodable(x)
               /\ \/ slots'[SlotIndex(x)].retired
                  \/ x.generation < slots'[SlotIndex(x)].generation
                  \/ /\ x.generation = slots'[SlotIndex(x)].generation
                     /\ slots'[SlotIndex(x)].record = issued'[x]
    <3>1. /\ issued[x] # NoObject /\ issued'[x] = issued[x]
          /\ Decodable(x) /\ SlotIndex(x) \in Slots
          /\ x.generation \in 0 .. MaxGeneration
      BY <1>16, <2>2, TokenTypes DEF CloseInvalidate, Tokens
    <3>2. /\ slots[SlotIndex(x)].generation \in 0 .. MaxGeneration
          /\ \/ slots'[SlotIndex(x)] = slots[SlotIndex(x)]
             \/ Spent(slots[SlotIndex(x)], slots'[SlotIndex(x)])
      BY <2>1, <3>1 DEF SlotType
    <3>3. CASE slots'[SlotIndex(x)] = slots[SlotIndex(x)]
      BY <3>1, <3>3
    <3>4. CASE Spent(slots[SlotIndex(x)], slots'[SlotIndex(x)])
      BY <3>1, <3>2, <3>4 DEF Spent
    <3>5. QED
      BY <3>2, <3>3, <3>4
  <2>3. QED
    BY <1>16, <2>1, <2>2 DEF CloseInvalidate, Spent
<1>17. ASSUME NEW t \in Threads, RecordRelease(t) PROVE TokenInv'
  BY <1>17 DEF RecordRelease
<1>18. ASSUME NEW t \in Threads, DestroyObject(t) PROVE TokenInv'
  BY <1>18 DEF DestroyObject
<1>19. ASSUME NEW t \in Threads, RecordUntrack(t) PROVE TokenInv'
  BY <1>19 DEF RecordUntrack
<1>20. ASSUME NEW t \in Threads, ActivityEnd(t) PROVE TokenInv'
  BY <1>20 DEF ActivityEnd
<1>21. ASSUME NEW t \in Threads, DestroyCollect(t) PROVE TokenInv'
  <2>1. ASSUME NEW s \in Slots
        PROVE  slots'[s] = slots[s] \/ Spent(slots[s], slots'[s])
    <3>1. slots[s] \in SlotType
      OBVIOUS
    <3>2. slots'[s] = slots[s] \/ slots'[s] = InvalidateSlot(slots[s])
      BY <1>21
         DEF DestroyCollect
    <3>3. QED
      BY <3>1, <3>2, InvalidateSpends
  <2>2. ASSUME NEW x \in Tokens, issued'[x] # NoObject
        PROVE  /\ Decodable(x)
               /\ \/ slots'[SlotIndex(x)].retired
                  \/ x.generation < slots'[SlotIndex(x)].generation
                  \/ /\ x.generation = slots'[SlotIndex(x)].generation
                     /\ slots'[SlotIndex(x)].record = issued'[x]
    <3>1. /\ issued[x] # NoObject /\ issued'[x] = issued[x]
          /\ Decodable(x) /\ SlotIndex(x) \in Slots
          /\ x.generation \in 0 .. MaxGeneration
      BY <1>21, <2>2, TokenTypes DEF DestroyCollect, Tokens
    <3>2. /\ slots[SlotIndex(x)].generation \in 0 .. MaxGeneration
          /\ \/ slots'[SlotIndex(x)] = slots[SlotIndex(x)]
             \/ Spent(slots[SlotIndex(x)], slots'[SlotIndex(x)])
      BY <2>1, <3>1 DEF SlotType
    <3>3. CASE slots'[SlotIndex(x)] = slots[SlotIndex(x)]
      BY <3>1, <3>3
    <3>4. CASE Spent(slots[SlotIndex(x)], slots'[SlotIndex(x)])
      BY <3>1, <3>2, <3>4 DEF Spent
    <3>5. QED
      BY <3>2, <3>3, <3>4
  <2>3. QED
    BY <1>21, <2>1, <2>2 DEF DestroyCollect, Spent
<1>22. ASSUME NEW t \in Threads, ReleaseNext(t) PROVE TokenInv'
  BY <1>22 DEF ReleaseNext
<1>23. ASSUME NEW t \in Threads, FreeTable(t) PROVE TokenInv'
  BY <1>23 DEF FreeTable
<1>24. ASSUME NEW t \in Threads, TableUntrack(t) PROVE TokenInv'
  BY <1>24 DEF TableUntrack
<1>25. ASSUME NEW t \in Threads, CloneReject(t) PROVE TokenInv'
  BY <1>25 DEF CloneReject
<1>26. ASSUME NEW t \in Threads, CloneFreeze(t) PROVE TokenInv'
  BY <1>26 DEF CloneFreeze
<1>27. ASSUME NEW t \in Threads, CompleteClone(t) PROVE TokenInv'
  BY <1>27 DEF CompleteClone
<1>28. CASE UNCHANGED vars
  BY <1>28 DEF vars
<1>29. QED
  BY <1>1, <1>2, <1>3, <1>4, <1>5, <1>6, <1>7, <1>8, <1>9, <1>10, <1>11,
     <1>12, <1>13, <1>14, <1>15, <1>16, <1>17, <1>18, <1>19, <1>20, <1>21,
     <1>22, <1>23, <1>24, <1>25, <1>26, <1>27, <1>28
     DEF Next, Call, Continue, Terminated

(* A step leaves the owners of a record alone. *)
OwnersSame(o) ==
    /\ Releasing(o)' = Releasing(o)
    /\ Borrowing(o)' = Borrowing(o)
    /\ Publishing(o)' = Publishing(o)
    /\ Inserting(o)' = Inserting(o)

(* A step that changes no owner and no count keeps the counts exact. *)
LEMMA CountFrame ==
  ASSUME RecordCountExact, UNCHANGED <<refs, pending>>,
         \A o \in Objects : OwnersSame(o)
  PROVE  RecordCountExact'
BY DEF RecordCountExact, OwnersSame

(* A step that changes the owners of one record keeps the counts exact if it *)
(* does so for that record.                                                *)
LEMMA CountChange ==
  ASSUME RecordCountExact, NEW o \in Objects,
         \A x \in Objects \ {o} : /\ OwnersSame(x)
                                  /\ refs'[x] = refs[x]
                                  /\ x \in pending' <=> x \in pending,
         refs'[o] = Cardinality(Publishing(o)') + Cardinality(Borrowing(o)')
                    + Cardinality(Releasing(o)') + Cardinality(Inserting(o)')
                    + (IF o \in pending' THEN 1 ELSE 0)
  PROVE  RecordCountExact'
<1>1. ASSUME NEW x \in Objects \ {o}
      PROVE  refs'[x] = Cardinality(Publishing(x)') + Cardinality(Borrowing(x)')
                        + Cardinality(Releasing(x)') + Cardinality(Inserting(x)')
                        + (IF x \in pending' THEN 1 ELSE 0)
  <2>1. refs[x] = Cardinality(Publishing(x)) + Cardinality(Borrowing(x))
                  + Cardinality(Releasing(x)) + Cardinality(Inserting(x))
                  + (IF x \in pending THEN 1 ELSE 0)
    BY DEF RecordCountExact
  <2>2. /\ Releasing(x)' = Releasing(x) /\ Borrowing(x)' = Borrowing(x)
        /\ Publishing(x)' = Publishing(x) /\ Inserting(x)' = Inserting(x)
    BY DEF OwnersSame
  <2>3. refs'[x] = refs[x] /\ (x \in pending' <=> x \in pending)
    OBVIOUS
  <2>4. QED
    BY <2>1, <2>2, <2>3
<1>2. QED
  BY <1>1 DEF RecordCountExact

(* An object the caller still owns has no owner in the table. *)
LEMMA NoOwner ==
  ASSUME IndInv, NEW o \in Objects, life[o] \in {"new", "private"}
  PROVE  /\ Releasing(o) = {} /\ Borrowing(o) = {} /\ Publishing(o) = {}
         /\ o \notin pending
         /\ life[o] = "new" => Inserting(o) = {}
<1>1. o # NoObject
  BY HandleTableAssumption
<1>2. QED
  BY <1>1 DEF IndInv, CallInv, LiveInv, NoUseAfterFree, Releasing, Borrowing,
              Publishing, Inserting, InsertPcs

(* Every step keeps the references of every record exact. *)
LEMMA CountStep == IndInv /\ [Next]_vars => RecordCountExact'
<1> SUFFICES ASSUME IndInv, [Next]_vars PROVE RecordCountExact'
  OBVIOUS
<1> USE DEF IndInv, TypeOK, RecordCountExact, Inside, Waiting, Outside,
       Touching, tableVars, recordVars
<1>1. ASSUME NEW t \in Threads, NEW o \in Objects, NEW k \in Kinds, Insert(t, o,
             k)
      PROVE  RecordCountExact'
  <2>1. \A x \in Objects \ {o} : OwnersSame(x)
    BY <1>1
       DEF Insert, Goto, OwnersSame, Releasing, Borrowing, Publishing,
       Inserting
  <2>2. /\ Releasing(o)' = Releasing(o) /\ Borrowing(o)' = Borrowing(o)
        /\ Publishing(o)' = Publishing(o) /\ Inserting(o)' = Inserting(o) \cup {t}
    BY <1>1 DEF Insert, Goto, Releasing, Borrowing, Publishing, Inserting
  <2>3. /\ Releasing(o) = {} /\ Borrowing(o) = {} /\ Publishing(o) = {}
        /\ o \notin pending /\ Inserting(o) = {}
    BY <1>1, NoOwner DEF Insert
  <2>4. Cardinality({}) = 0 /\ Cardinality({t}) = 1
    BY FS_EmptySet, FS_Singleton
  <2>5. refs'[o] = 1 /\ pending' = pending
        /\ \A x \in Objects \ {o} : refs'[x] = refs[x]
    BY <1>1 DEF Insert
  <2>6. refs'[o] = Cardinality(Publishing(o)') + Cardinality(Borrowing(o)')
                   + Cardinality(Releasing(o)') + Cardinality(Inserting(o)')
                   + (IF o \in pending' THEN 1 ELSE 0)
    BY <2>2, <2>3, <2>4, <2>5
  <2>7. QED
    BY <2>1, <2>5, <2>6, CountChange
<1>2. ASSUME NEW t \in Threads, NEW h \in Tokens, NEW k \in Kinds, Acquire(t, h,
             k)
      PROVE  RecordCountExact'
  <2>1. \A o \in Objects : OwnersSame(o)
    BY <1>2
       DEF Acquire, Goto, OwnersSame, Releasing, Borrowing, Publishing,
       Inserting
  <2>2. QED
    BY <1>2, <2>1, CountFrame DEF Acquire
<1>3. ASSUME NEW t \in Threads, NEW h \in Tokens, NEW k \in Kinds, Close(t, h,
             k)
      PROVE  RecordCountExact'
  <2>1. \A o \in Objects : OwnersSame(o)
    BY <1>3
       DEF Close, Goto, OwnersSame, Releasing, Borrowing, Publishing,
       Inserting
  <2>2. QED
    BY <1>3, <2>1, CountFrame DEF Close
<1>4. ASSUME NEW t \in Threads, LeaseRelease(t) PROVE RecordCountExact'
  <2>a. PICK o \in Objects : o = lease[t]
    BY <1>4 DEF LeaseRelease
  <2>1. t \in Borrowing(o) /\ t \notin Releasing(o)
    BY <1>4, <2>a DEF LeaseRelease, Borrowing, Releasing
  <2>2. \A x \in Objects \ {o} : OwnersSame(x)
    BY <1>4, <2>a, HandleTableAssumption
       DEF LeaseRelease, Goto, OwnersSame, Releasing, Borrowing, Publishing, Inserting
  <2>3. /\ Releasing(o)' = Releasing(o) \cup {t}
        /\ Borrowing(o)' = Borrowing(o) \ {t}
        /\ Publishing(o)' = Publishing(o) /\ Inserting(o)' = Inserting(o)
    BY <1>4, <2>a, HandleTableAssumption
       DEF LeaseRelease, Goto, Releasing, Borrowing, Publishing, Inserting
  <2>4. UNCHANGED <<refs, pending>>
    BY <1>4 DEF LeaseRelease
  <2>b. Cardinality(Borrowing(o)') = Cardinality(Borrowing(o)) - 1
    BY <2>1, <2>3, OwnersFinite, CardinalityFacts
  <2>5. Cardinality(Releasing(o)') = Cardinality(Releasing(o)) + 1
    BY <2>1, <2>3, OwnersFinite, CardinalityFacts
  <2>6. refs'[o] = Cardinality(Publishing(o)') + Cardinality(Borrowing(o)')
                   + Cardinality(Releasing(o)') + Cardinality(Inserting(o)')
                   + (IF o \in pending' THEN 1 ELSE 0)
    BY <2>1, <2>3, <2>4, <2>b, <2>5, Counts
  <2>7. QED
    BY <2>2, <2>4, <2>6, CountChange
<1>5. ASSUME NEW t \in Threads, DestroyTable(t) PROVE RecordCountExact'
  <2>1. \A o \in Objects : OwnersSame(o)
    BY <1>5
       DEF DestroyTable, Goto, OwnersSame, Releasing, Borrowing, Publishing,
       Inserting
  <2>2. QED
    BY <1>5, <2>1, CountFrame DEF DestroyTable
<1>6. ASSUME NEW t \in Threads, PrepareClone(t) PROVE RecordCountExact'
  <2>1. \A o \in Objects : OwnersSame(o)
    BY <1>6
       DEF PrepareClone, Goto, OwnersSame, Releasing, Borrowing, Publishing,
       Inserting
  <2>2. QED
    BY <1>6, <2>1, CountFrame DEF PrepareClone
<1>7. ASSUME NEW t \in Threads, TableLock(t) PROVE RecordCountExact'
  <2>1. \A o \in Objects : OwnersSame(o)
    BY <1>7
       DEF TableLock, Goto, AfterLock, OwnersSame, Releasing, Borrowing,
       Publishing, Inserting
  <2>2. QED
    BY <1>7, <2>1, CountFrame DEF TableLock
<1>8. ASSUME NEW t \in Threads, InsertReject(t) PROVE RecordCountExact'
  <2>a. PICK o \in Objects : o = ob[t]
    BY <1>8 DEF InsertReject, CallInv, InsertPcs
  <2>1. life[o] = "private" /\ t \in Inserting(o)
    BY <1>8, <2>a DEF InsertReject, CallInv, InsertPcs, Inserting
  <2>2. Inserting(o) = {t}
    BY <1>8, <2>a, <2>1 DEF InsertReject, OwnerInv, InsertPcs, Inserting
  <2>3. /\ Releasing(o) = {} /\ Borrowing(o) = {} /\ Publishing(o) = {}
        /\ o \notin pending
    BY <2>1, NoOwner
  <2>4. \A x \in Objects \ {o} : OwnersSame(x)
    BY <1>8, <2>a
       DEF InsertReject, Return, Goto, OwnersSame, Releasing, Borrowing,
       Publishing, Inserting
  <2>5. /\ Releasing(o)' = {} /\ Borrowing(o)' = {}
        /\ Publishing(o)' = {} /\ Inserting(o)' = {}
    BY <1>8, <2>a, <2>2, <2>3
       DEF InsertReject, Return, Goto, Releasing, Borrowing, Publishing,
       Inserting
  <2>6. refs'[o] = 0 /\ pending' = pending
        /\ \A x \in Objects \ {o} : refs'[x] = refs[x]
    BY <1>8, <2>a DEF InsertReject
  <2>7. Cardinality({}) = 0
    BY FS_EmptySet
  <2>8. refs'[o] = Cardinality(Publishing(o)') + Cardinality(Borrowing(o)')
                   + Cardinality(Releasing(o)') + Cardinality(Inserting(o)')
                   + (IF o \in pending' THEN 1 ELSE 0)
    BY <2>3, <2>5, <2>6, <2>7
  <2>9. QED
    BY <2>4, <2>6, <2>8, CountChange
<1>9. ASSUME NEW t \in Threads, InsertScan(t) PROVE RecordCountExact'
  <2>1. \A o \in Objects : OwnersSame(o)
    BY <1>9
       DEF InsertScan, Goto, OwnersSame, Releasing, Borrowing, Publishing,
       Inserting
  <2>2. QED
    BY <1>9, <2>1, CountFrame DEF InsertScan
<1>10. ASSUME NEW t \in Threads, InsertPublish(t) PROVE RecordCountExact'
  <2>a. PICK o \in Objects : o = ob[t]
    BY <1>10 DEF InsertPublish, CallInv, InsertPcs
  <2>b. PICK s \in Slots : s = FirstFree /\ slots[s].record = NoObject
    BY <1>10, FirstFreeIsFree
       DEF InsertPublish, GrantInv, CanInsert, FreeSlots
  <2>1. t \in Inserting(o)
    BY <1>10, <2>a DEF InsertPublish, Inserting
  <2>2. t \notin Releasing(o)
    BY <1>10 DEF InsertPublish, Releasing
  <2>3. o # NoObject /\ s \notin Publishing(o)
    BY <2>b, HandleTableAssumption DEF Publishing
  <2>4. \A r \in Slots : slots'[r].record = IF r = s THEN o
                                            ELSE slots[r].record
    BY <1>10, <2>a, <2>b DEF InsertPublish, SlotType
  <2>5. \A x \in Objects \ {o} : OwnersSame(x)
    BY <1>10, <2>a, <2>b, <2>4, HandleTableAssumption
       DEF InsertPublish, Return, Goto, OwnersSame, Releasing, Borrowing, Publishing, Inserting
  <2>6. /\ Releasing(o)' = Releasing(o) /\ Borrowing(o)' = Borrowing(o)
        /\ Publishing(o)' = Publishing(o) \cup {s}
        /\ Inserting(o)' = Inserting(o) \ {t}
    BY <1>10, <2>a, <2>b, <2>4, <2>2
       DEF InsertPublish, Return, Goto, Releasing, Borrowing, Publishing,
       Inserting
  <2>7. UNCHANGED <<refs, pending>>
    BY <1>10 DEF InsertPublish
  <2>8. /\ Cardinality(Publishing(o)') = Cardinality(Publishing(o)) + 1
        /\ Cardinality(Inserting(o)') = Cardinality(Inserting(o)) - 1
    BY <2>1, <2>3, <2>6, OwnersFinite, CardinalityFacts
  <2>9. refs'[o] = Cardinality(Publishing(o)') + Cardinality(Borrowing(o)')
                   + Cardinality(Releasing(o)') + Cardinality(Inserting(o)')
                   + (IF o \in pending' THEN 1 ELSE 0)
    BY <2>6, <2>7, <2>8, Counts
  <2>10. QED
    BY <2>5, <2>7, <2>9, CountChange
<1>11. ASSUME NEW t \in Threads, AcquireReject(t) PROVE RecordCountExact'
  <2>1. \A o \in Objects : OwnersSame(o)
    BY <1>11
       DEF AcquireReject, Return, Goto, OwnersSame, Releasing, Borrowing,
       Publishing, Inserting
  <2>2. QED
    BY <1>11, <2>1, CountFrame DEF AcquireReject
<1>12. ASSUME NEW t \in Threads, AcquireCheck(t) PROVE RecordCountExact'
  <2>1. \A o \in Objects : OwnersSame(o)
    BY <1>12
       DEF AcquireCheck, Goto, OwnersSame, Releasing, Borrowing, Publishing,
       Inserting
  <2>2. QED
    BY <1>12, <2>1, CountFrame DEF AcquireCheck
<1>13. ASSUME NEW t \in Threads, AcquireGrant(t) PROVE RecordCountExact'
  <2>a. PICK o \in Objects : o = ob[t]
    BY <1>13 DEF AcquireGrant, GrantInv, CanAcquire, Resolves
  <2>1. refs[o] \in Nat /\ t \notin Borrowing(o)
    BY <1>13, HandleTableAssumption
       DEF AcquireGrant, CallInv, AcquirePcs, Borrowing
  <2>2. \A x \in Objects \ {o} : OwnersSame(x)
    BY <1>13, <2>a, HandleTableAssumption
       DEF AcquireGrant, Return, Goto, OwnersSame, CallInv, AcquirePcs, Releasing, Borrowing, Publishing, Inserting
  <2>3. /\ Releasing(o)' = Releasing(o)
        /\ Borrowing(o)' = Borrowing(o) \cup {t}
        /\ Publishing(o)' = Publishing(o) /\ Inserting(o)' = Inserting(o)
    BY <1>13, <2>a
       DEF AcquireGrant, Return, Goto, Releasing, Borrowing, Publishing,
       Inserting
  <2>4. /\ refs'[o] = refs[o] + 1 /\ pending' = pending
        /\ \A x \in Objects \ {o} : refs'[x] = refs[x]
    BY <1>13, <2>a DEF AcquireGrant
  <2>5. Cardinality(Borrowing(o)') = Cardinality(Borrowing(o)) + 1
    BY <2>1, <2>3, OwnersFinite, CardinalityFacts
  <2>6. refs'[o] = Cardinality(Publishing(o)') + Cardinality(Borrowing(o)')
                   + Cardinality(Releasing(o)') + Cardinality(Inserting(o)')
                   + (IF o \in pending' THEN 1 ELSE 0)
    BY <2>1, <2>3, <2>4, <2>5, Counts
  <2>7. QED
    BY <2>2, <2>4, <2>6, CountChange
<1>14. ASSUME NEW t \in Threads, CloseReject(t) PROVE RecordCountExact'
  <2>1. \A o \in Objects : OwnersSame(o)
    BY <1>14
       DEF CloseReject, Return, Goto, OwnersSame, Releasing, Borrowing,
       Publishing, Inserting
  <2>2. QED
    BY <1>14, <2>1, CountFrame DEF CloseReject
<1>15. ASSUME NEW t \in Threads, CloseCheck(t) PROVE RecordCountExact'
  <2>1. \A o \in Objects : OwnersSame(o)
    BY <1>15
       DEF CloseCheck, Goto, OwnersSame, Releasing, Borrowing, Publishing,
       Inserting
  <2>2. QED
    BY <1>15, <2>1, CountFrame DEF CloseCheck
<1>16. ASSUME NEW t \in Threads, CloseInvalidate(t) PROVE RecordCountExact'
  <2>1. PICK s \in Slots : s = SlotIndex(token[t])
    BY <1>16, TokenTypes DEF CloseInvalidate, CallInv, AcquirePcs, ClosePcs
  <2>a. PICK o \in Objects : o = ob[t] /\ slots[s].record = o
    BY <1>16, <2>1 DEF CloseInvalidate, GrantInv, CanClose, Resolves, SlotOf
  <2>2. t \notin Releasing(o)
    BY <1>16 DEF CloseInvalidate, Releasing
  <2>3. s \in Publishing(o)
    BY <2>a DEF Publishing
  <2>4. \A r \in Slots : slots'[r].record = IF r = s THEN NoObject
                                            ELSE slots[r].record
    BY <1>16, <2>1, InvalidateType DEF CloseInvalidate
  <2>5. \A x \in Objects \ {o} : OwnersSame(x)
    BY <1>16, <2>1, <2>a, <2>4, HandleTableAssumption
       DEF CloseInvalidate, Goto, OwnersSame, Releasing, Borrowing, Publishing, Inserting
  <2>6. /\ Releasing(o)' = Releasing(o) \cup {t}
        /\ Borrowing(o)' = Borrowing(o)
        /\ Publishing(o)' = Publishing(o) \ {s}
        /\ Inserting(o)' = Inserting(o)
    BY <1>16, <2>1, <2>a, <2>4, HandleTableAssumption
       DEF CloseInvalidate, Goto, Releasing, Borrowing, Publishing, Inserting
  <2>7. UNCHANGED <<refs, pending>>
    BY <1>16 DEF CloseInvalidate
  <2>8. /\ Cardinality(Publishing(o)') = Cardinality(Publishing(o)) - 1
        /\ Cardinality(Releasing(o)') = Cardinality(Releasing(o)) + 1
    BY <2>2, <2>3, <2>6, OwnersFinite, CardinalityFacts
  <2>9. refs'[o] = Cardinality(Publishing(o)') + Cardinality(Borrowing(o)')
                   + Cardinality(Releasing(o)') + Cardinality(Inserting(o)')
                   + (IF o \in pending' THEN 1 ELSE 0)
    BY <2>6, <2>7, <2>8, Counts
  <2>10. QED
    BY <2>5, <2>7, <2>9, CountChange
<1>17. ASSUME NEW t \in Threads, RecordRelease(t) PROVE RecordCountExact'
  <2>a. PICK o \in Objects : o = ob[t]
    BY <1>17, LastOwner DEF RecordRelease
  <2>1. refs[o] \in Nat \ {0} /\ t \in Releasing(o)
    BY <1>17, <2>a, LastOwner DEF RecordRelease, Releasing
  <2>2. \A x \in Objects \ {o} : OwnersSame(x)
    BY <1>17, <2>a
       DEF RecordRelease, Goto, AfterRelease, OwnersSame, Releasing,
       Borrowing, Publishing, Inserting
  <2>3. /\ Releasing(o)' = Releasing(o) \ {t}
        /\ Borrowing(o)' = Borrowing(o)
        /\ Publishing(o)' = Publishing(o) /\ Inserting(o)' = Inserting(o)
    BY <1>17, <2>a
       DEF RecordRelease, Goto, AfterRelease, Releasing, Borrowing,
       Publishing, Inserting
  <2>4. /\ refs'[o] = refs[o] - 1 /\ pending' = pending
        /\ \A x \in Objects \ {o} : refs'[x] = refs[x]
    BY <1>17, <2>a, <2>1 DEF RecordRelease
  <2>5. Cardinality(Releasing(o)') = Cardinality(Releasing(o)) - 1
    BY <2>1, <2>3, OwnersFinite, CardinalityFacts
  <2>6. refs'[o] = Cardinality(Publishing(o)') + Cardinality(Borrowing(o)')
                   + Cardinality(Releasing(o)') + Cardinality(Inserting(o)')
                   + (IF o \in pending' THEN 1 ELSE 0)
    BY <2>1, <2>3, <2>4, <2>5, Counts
  <2>7. QED
    BY <2>2, <2>4, <2>6, CountChange
<1>18. ASSUME NEW t \in Threads, DestroyObject(t) PROVE RecordCountExact'
  <2>1. \A o \in Objects : OwnersSame(o)
    BY <1>18
       DEF DestroyObject, Goto, OwnersSame, Releasing, Borrowing, Publishing,
       Inserting
  <2>2. QED
    BY <1>18, <2>1, CountFrame DEF DestroyObject
<1>19. ASSUME NEW t \in Threads, RecordUntrack(t) PROVE RecordCountExact'
  <2>1. \A o \in Objects : OwnersSame(o)
    BY <1>19
       DEF RecordUntrack, Goto, AfterRelease, OwnersSame, Releasing,
       Borrowing, Publishing, Inserting
  <2>2. QED
    BY <1>19, <2>1, CountFrame DEF RecordUntrack
<1>20. ASSUME NEW t \in Threads, ActivityEnd(t) PROVE RecordCountExact'
  <2>1. \A o \in Objects : OwnersSame(o)
    BY <1>20
       DEF ActivityEnd, Return, Goto, OwnersSame, Releasing, Borrowing,
       Publishing, Inserting
  <2>2. QED
    BY <1>20, <2>1, CountFrame DEF ActivityEnd
<1>21. ASSUME NEW t \in Threads, DestroyCollect(t) PROVE RecordCountExact'
  <2>1. pending = {}
    BY <1>21 DEF DestroyCollect, ShutdownInv, Shutting, ShutdownPcs
  <2>2. \A s \in Slots : slots'[s].record = NoObject
    BY <1>21, InvalidateType DEF DestroyCollect
  <2>3. ASSUME NEW o \in Objects
        PROVE  /\ Releasing(o)' = Releasing(o) /\ Borrowing(o)' = Borrowing(o)
               /\ Publishing(o)' = {} /\ Inserting(o)' = Inserting(o)
    BY <1>21, <2>2, HandleTableAssumption
       DEF DestroyCollect, Goto, Releasing, Borrowing, Publishing, Inserting
  <2>4. ASSUME NEW o \in Objects
        PROVE  Cardinality(Publishing(o)) = IF o \in pending' THEN 1 ELSE 0
    <3>1. o \in pending' <=> \E s \in Slots : slots[s].record = o
      BY <1>21, HandleTableAssumption DEF DestroyCollect
    <3>2. CASE o \in pending'
      <4>1. PICK s \in Slots : slots[s].record = o
        BY <3>1, <3>2
      <4>2. Publishing(o) = {s}
        BY <4>1, HandleTableAssumption DEF Publishing, SlotInv
      <4>3. QED
        BY <3>2, <4>2, FS_Singleton
    <3>3. CASE o \notin pending'
      <4>1. Publishing(o) = {}
        BY <3>1, <3>3 DEF Publishing
      <4>2. QED
        BY <3>3, <4>1, FS_EmptySet
    <3>4. QED
      BY <3>2, <3>3
  <2>5. refs' = refs
    BY <1>21 DEF DestroyCollect
  <2>6. ASSUME NEW o \in Objects
        PROVE  refs'[o] = Cardinality(Publishing(o)') + Cardinality(Borrowing(o)')
                          + Cardinality(Releasing(o)') + Cardinality(Inserting(o)')
                          + (IF o \in pending' THEN 1 ELSE 0)
    <3>1. refs[o] = Cardinality(Publishing(o)) + Cardinality(Borrowing(o))
                    + Cardinality(Releasing(o)) + Cardinality(Inserting(o))
      BY <2>1, Counts
    <3>2. Cardinality(Publishing(o)') = 0
      BY <2>3, FS_EmptySet
    <3>3. QED
      BY <2>3, <2>4, <2>5, <3>1, <3>2, Counts
  <2>7. QED
    BY <2>6
<1>22. ASSUME NEW t \in Threads, ReleaseNext(t) PROVE RecordCountExact'
  <2>1. PICK o \in pending : /\ ob' = [ob EXCEPT ![t] = o]
                              /\ pending' = pending \ {o}
    BY <1>22 DEF ReleaseNext
  <2>2. o \in Objects /\ t \notin Releasing(o)
    BY <1>22, <2>1 DEF ReleaseNext, Releasing
  <2>3. \A x \in Objects \ {o} : OwnersSame(x)
    BY <1>22, <2>1
       DEF ReleaseNext, Goto, OwnersSame, Releasing, Borrowing, Publishing,
       Inserting
  <2>4. /\ Releasing(o)' = Releasing(o) \cup {t}
        /\ Borrowing(o)' = Borrowing(o)
        /\ Publishing(o)' = Publishing(o) /\ Inserting(o)' = Inserting(o)
    BY <1>22, <2>1
       DEF ReleaseNext, Goto, Releasing, Borrowing, Publishing, Inserting
  <2>5. Cardinality(Releasing(o)') = Cardinality(Releasing(o)) + 1
    BY <2>2, <2>4, OwnersFinite, CardinalityFacts
  <2>6. refs' = refs
    BY <1>22 DEF ReleaseNext
  <2>7. refs'[o] = Cardinality(Publishing(o)') + Cardinality(Borrowing(o)')
                   + Cardinality(Releasing(o)') + Cardinality(Inserting(o)')
                   + (IF o \in pending' THEN 1 ELSE 0)
    BY <2>1, <2>4, <2>5, <2>6, Counts
  <2>8. QED
    BY <2>1, <2>2, <2>3, <2>6, <2>7, CountChange
<1>23. ASSUME NEW t \in Threads, FreeTable(t) PROVE RecordCountExact'
  <2>1. \A o \in Objects : OwnersSame(o)
    BY <1>23
       DEF FreeTable, Goto, OwnersSame, Releasing, Borrowing, Publishing,
       Inserting
  <2>2. QED
    BY <1>23, <2>1, CountFrame DEF FreeTable
<1>24. ASSUME NEW t \in Threads, TableUntrack(t) PROVE RecordCountExact'
  <2>1. \A o \in Objects : OwnersSame(o)
    BY <1>24
       DEF TableUntrack, Return, Goto, OwnersSame, Releasing, Borrowing,
       Publishing, Inserting
  <2>2. QED
    BY <1>24, <2>1, CountFrame DEF TableUntrack
<1>25. ASSUME NEW t \in Threads, CloneReject(t) PROVE RecordCountExact'
  <2>1. \A o \in Objects : OwnersSame(o)
    BY <1>25
       DEF CloneReject, Return, Goto, OwnersSame, Releasing, Borrowing,
       Publishing, Inserting
  <2>2. QED
    BY <1>25, <2>1, CountFrame DEF CloneReject
<1>26. ASSUME NEW t \in Threads, CloneFreeze(t) PROVE RecordCountExact'
  <2>1. \A o \in Objects : OwnersSame(o)
    BY <1>26
       DEF CloneFreeze, Goto, OwnersSame, Releasing, Borrowing, Publishing,
       Inserting
  <2>2. QED
    BY <1>26, <2>1, CountFrame DEF CloneFreeze
<1>27. ASSUME NEW t \in Threads, CompleteClone(t) PROVE RecordCountExact'
  <2>1. \A o \in Objects : OwnersSame(o)
    BY <1>27
       DEF CompleteClone, Return, Goto, OwnersSame, Releasing, Borrowing,
       Publishing, Inserting
  <2>2. QED
    BY <1>27, <2>1, CountFrame DEF CompleteClone
<1>28. CASE UNCHANGED vars
  <2>1. \A o \in Objects : OwnersSame(o)
    BY <1>28 DEF vars, OwnersSame, Releasing, Borrowing, Publishing, Inserting
  <2>2. QED
    BY <1>28, <2>1, CountFrame DEF vars
<1>29. QED
  BY <1>1, <1>2, <1>3, <1>4, <1>5, <1>6, <1>7, <1>8, <1>9, <1>10, <1>11,
     <1>12, <1>13, <1>14, <1>15, <1>16, <1>17, <1>18, <1>19, <1>20, <1>21,
     <1>22, <1>23, <1>24, <1>25, <1>26, <1>27, <1>28
     DEF Next, Call, Continue, Terminated

(* A step that leaves the tracker's holders alone keeps it exact. *)
LEMMA TrackerFrame ==
  ASSUME TrackerExact, tracker' = tracker, table' = "gone" <=> table = "gone",
         Borrowers' = Borrowers, Workers' = Workers, Tracked' = Tracked
  PROVE  TrackerExact'
BY DEF TrackerExact

(* tracker_drop, when its consistency checks succeed. *)
LEMMA SaneDrop ==
  ASSUME tracker \in TrackerType, aborted \in BOOLEAN,
         NEW acts \in {0, 1}, TrackerDrop(acts), tracker.refs # 0,
         tracker.acts >= acts,
         tracker.refs = 1 => tracker.acts = acts
  PROVE  /\ aborted' = aborted
         /\ tracker'.refs = tracker.refs - 1
         /\ tracker'.acts = tracker.acts - acts
         /\ tracker'.freed <=> tracker'.refs = 0
<1>1. tracker' = [refs  |-> tracker.refs - 1,
                  acts  |-> tracker.acts - acts,
                  freed |-> tracker.refs = 1]
  BY DEF TrackerDrop
<1>2. aborted' = aborted
  BY DEF TrackerDrop
<1>3. tracker.refs \in Nat
  BY HandleTableAssumption DEF TrackerType
<1>4. /\ tracker'.refs = tracker.refs - 1
      /\ tracker'.acts = tracker.acts - acts
      /\ tracker'.freed = (tracker.refs = 1)
  BY <1>1
<1>5. tracker.refs = 1 <=> tracker.refs - 1 = 0
  BY <1>3
<1>6. tracker'.freed <=> tracker'.refs = 0
  BY <1>4, <1>5
<1>7. QED
  BY <1>2, <1>4, <1>6

(* The arithmetic content of TrackerExact. *)
LEMMA TrackerCounts ==
  ASSUME IndInv
  PROVE  /\ tracker.refs \in Nat /\ tracker.acts \in Nat
         /\ Cardinality(Borrowers) \in Nat
         /\ Cardinality(Workers) \in Nat
         /\ Cardinality(Tracked) \in Nat
         /\ tracker.acts = Cardinality(Borrowers) + Cardinality(Workers)
         /\ tracker.refs = tracker.acts + Cardinality(Tracked)
                           + (IF table = "gone" THEN 0 ELSE 1)
<1>1. tracker.refs \in Nat /\ tracker.acts \in Nat
  BY HandleTableAssumption DEF IndInv, TypeOK, TrackerType
<1>2. QED
  BY <1>1, Counts DEF IndInv, TrackerExact

(* Every step keeps the tracker exact and passes its consistency checks. *)
LEMMA TrackerStep == IndInv /\ [Next]_vars => TrackerExact' /\ NoAbort'
<1> SUFFICES ASSUME IndInv, [Next]_vars PROVE TrackerExact' /\ NoAbort'
  OBVIOUS
<1> USE DEF IndInv, TypeOK, Inside, Waiting, Outside, Touching, tableVars,
       recordVars
<1>1. ASSUME NEW t \in Threads, NEW o \in Objects, NEW k \in Kinds, Insert(t, o,
             k)
      PROVE  TrackerExact' /\ NoAbort'
  <2>1. Borrowers' = Borrowers /\ Workers' = Workers /\ Tracked' = Tracked
    BY <1>1 DEF Insert, Borrowers, Workers, Tracked
  <2>2. TrackerExact'
    BY <1>1, <2>1, TrackerFrame DEF Insert
  <2>3. QED
    BY <1>1, <2>2 DEF Insert, NoAbort
<1>2. ASSUME NEW t \in Threads, NEW h \in Tokens, NEW k \in Kinds, Acquire(t, h,
             k)
      PROVE  TrackerExact' /\ NoAbort'
  <2>1. Borrowers' = Borrowers /\ Workers' = Workers /\ Tracked' = Tracked
    BY <1>2 DEF Acquire, Borrowers, Workers, Tracked
  <2>2. TrackerExact'
    BY <1>2, <2>1, TrackerFrame DEF Acquire
  <2>3. QED
    BY <1>2, <2>2 DEF Acquire, NoAbort
<1>3. ASSUME NEW t \in Threads, NEW h \in Tokens, NEW k \in Kinds, Close(t, h,
             k)
      PROVE  TrackerExact' /\ NoAbort'
  <2>1. Borrowers' = Borrowers /\ Workers' = Workers /\ Tracked' = Tracked
    BY <1>3 DEF Close, Borrowers, Workers, Tracked
  <2>2. TrackerExact'
    BY <1>3, <2>1, TrackerFrame DEF Close
  <2>3. QED
    BY <1>3, <2>2 DEF Close, NoAbort
<1>4. ASSUME NEW t \in Threads, LeaseRelease(t)
      PROVE  TrackerExact' /\ NoAbort'
  <2>1. t \in Borrowers /\ t \notin Workers
    BY <1>4
       DEF LeaseRelease, CallInv, ReleasePcs, DyingPcs, Borrowers, Workers
  <2>2. /\ Workers' = Workers \cup {t} /\ Borrowers' = Borrowers \ {t}
        /\ Tracked' = Tracked
    BY <1>4, <2>1 DEF LeaseRelease, Borrowers, Workers, Tracked
  <2>3. Cardinality(Workers') = Cardinality(Workers) + 1
    BY <2>1, <2>2, OwnersFinite, CardinalityFacts
  <2>4. Cardinality(Borrowers') = Cardinality(Borrowers) - 1
    BY <2>1, <2>2, OwnersFinite, CardinalityFacts
  <2>5. tracker' = tracker /\ table' = table /\ aborted' = aborted
    BY <1>4 DEF LeaseRelease
  <2>6. QED
    BY <2>2, <2>3, <2>4, <2>5, TrackerCounts DEF TrackerExact, NoAbort
<1>5. ASSUME NEW t \in Threads, DestroyTable(t)
      PROVE  TrackerExact' /\ NoAbort'
  <2>1. table # "gone" /\ table' # "gone"
    BY <1>5 DEF DestroyTable, ShutdownInv, Shutting, ShutdownPcs
  <2>2. Borrowers' = Borrowers /\ Workers' = Workers /\ Tracked' = Tracked
    BY <1>5 DEF DestroyTable, Borrowers, Workers, Tracked
  <2>3. TrackerExact'
    BY <1>5, <2>1, <2>2, TrackerFrame DEF DestroyTable
  <2>4. QED
    BY <1>5, <2>3 DEF DestroyTable, NoAbort
<1>6. ASSUME NEW t \in Threads, PrepareClone(t)
      PROVE  TrackerExact' /\ NoAbort'
  <2>1. Borrowers' = Borrowers /\ Workers' = Workers /\ Tracked' = Tracked
    BY <1>6 DEF PrepareClone, Borrowers, Workers, Tracked
  <2>2. TrackerExact'
    BY <1>6, <2>1, TrackerFrame DEF PrepareClone
  <2>3. QED
    BY <1>6, <2>2 DEF PrepareClone, NoAbort
<1>7. ASSUME NEW t \in Threads, TableLock(t) PROVE TrackerExact' /\ NoAbort'
  <2>1. Borrowers' = Borrowers /\ Workers' = Workers /\ Tracked' = Tracked
    BY <1>7 DEF TableLock, Borrowers, Workers, Tracked
  <2>2. TrackerExact'
    BY <1>7, <2>1, TrackerFrame DEF TableLock
  <2>3. QED
    BY <1>7, <2>2 DEF TableLock, NoAbort
<1>8. ASSUME NEW t \in Threads, InsertReject(t)
      PROVE  TrackerExact' /\ NoAbort'
  <2>1. Borrowers' = Borrowers /\ Workers' = Workers /\ Tracked' = Tracked
    BY <1>8 DEF InsertReject, CallInv, InsertPcs, Borrowers, Workers, Tracked
  <2>2. TrackerExact'
    BY <1>8, <2>1, TrackerFrame DEF InsertReject
  <2>3. QED
    BY <1>8, <2>2 DEF InsertReject, NoAbort
<1>9. ASSUME NEW t \in Threads, InsertScan(t) PROVE TrackerExact' /\ NoAbort'
  <2>1. Borrowers' = Borrowers /\ Workers' = Workers /\ Tracked' = Tracked
    BY <1>9 DEF InsertScan, Borrowers, Workers, Tracked
  <2>2. TrackerExact'
    BY <1>9, <2>1, TrackerFrame DEF InsertScan
  <2>3. QED
    BY <1>9, <2>2 DEF InsertScan, NoAbort
<1>10. ASSUME NEW t \in Threads, InsertPublish(t)
       PROVE  TrackerExact' /\ NoAbort'
  <2>1. PICK o \in Objects : o = ob[t] /\ o \notin Tracked
    BY <1>10 DEF InsertPublish, CallInv, InsertPcs, Tracked
  <2>2. /\ Borrowers' = Borrowers /\ Workers' = Workers
        /\ Tracked' = Tracked \cup {o}
    BY <1>10, <2>1 DEF InsertPublish, Borrowers, Workers, Tracked
  <2>3. Cardinality(Tracked') = Cardinality(Tracked) + 1
    BY <2>1, <2>2, OwnersFinite, CardinalityFacts
  <2>4. /\ tracker'.refs = tracker.refs + 1 /\ tracker'.acts = tracker.acts
        /\ tracker'.freed = tracker.freed
    BY <1>10 DEF InsertPublish, TrackerRetain, TrackerType
  <2>5. table' = table /\ table # "gone" /\ aborted' = aborted
    BY <1>10
       DEF InsertPublish, ShutdownInv, Shutting, ShutdownPcs, ReleasePcs,
                DyingPcs
  <2>6. QED
    BY <2>2, <2>3, <2>4, <2>5, TrackerCounts DEF TrackerExact, NoAbort
<1>11. ASSUME NEW t \in Threads, AcquireReject(t)
       PROVE  TrackerExact' /\ NoAbort'
  <2>1. Borrowers' = Borrowers /\ Workers' = Workers /\ Tracked' = Tracked
    BY <1>11 DEF AcquireReject, Borrowers, Workers, Tracked
  <2>2. TrackerExact'
    BY <1>11, <2>1, TrackerFrame DEF AcquireReject
  <2>3. QED
    BY <1>11, <2>2 DEF AcquireReject, NoAbort
<1>12. ASSUME NEW t \in Threads, AcquireCheck(t)
       PROVE  TrackerExact' /\ NoAbort'
  <2>1. Borrowers' = Borrowers /\ Workers' = Workers /\ Tracked' = Tracked
    BY <1>12 DEF AcquireCheck, Borrowers, Workers, Tracked
  <2>2. TrackerExact'
    BY <1>12, <2>1, TrackerFrame DEF AcquireCheck
  <2>3. QED
    BY <1>12, <2>2 DEF AcquireCheck, NoAbort
<1>13. ASSUME NEW t \in Threads, AcquireGrant(t)
       PROVE  TrackerExact' /\ NoAbort'
  <2>1. t \notin Borrowers /\ ob[t] # NoObject
    BY <1>13 DEF AcquireGrant, CallInv, AcquirePcs, Borrowers, GrantInv,
                CanAcquire, Resolves
  <2>2. /\ Borrowers' = Borrowers \cup {t} /\ Workers' = Workers
        /\ Tracked' = Tracked
    BY <1>13, <2>1 DEF AcquireGrant, Borrowers, Workers, Tracked
  <2>3. Cardinality(Borrowers') = Cardinality(Borrowers) + 1
    BY <2>1, <2>2, OwnersFinite, CardinalityFacts
  <2>4. /\ tracker'.refs = tracker.refs + 1 /\ tracker'.acts = tracker.acts + 1
        /\ tracker'.freed = tracker.freed
    BY <1>13 DEF AcquireGrant, TrackerActivityBegin, TrackerType
  <2>5. table' = table /\ table # "gone" /\ aborted' = aborted
    BY <1>13 DEF AcquireGrant, ShutdownInv, Shutting, ShutdownPcs, ReleasePcs,
                DyingPcs
  <2>6. QED
    BY <2>2, <2>3, <2>4, <2>5, TrackerCounts DEF TrackerExact, NoAbort
<1>14. ASSUME NEW t \in Threads, CloseReject(t)
       PROVE  TrackerExact' /\ NoAbort'
  <2>1. Borrowers' = Borrowers /\ Workers' = Workers /\ Tracked' = Tracked
    BY <1>14 DEF CloseReject, Borrowers, Workers, Tracked
  <2>2. TrackerExact'
    BY <1>14, <2>1, TrackerFrame DEF CloseReject
  <2>3. QED
    BY <1>14, <2>2 DEF CloseReject, NoAbort
<1>15. ASSUME NEW t \in Threads, CloseCheck(t) PROVE TrackerExact' /\ NoAbort'
  <2>1. Borrowers' = Borrowers /\ Workers' = Workers /\ Tracked' = Tracked
    BY <1>15 DEF CloseCheck, Borrowers, Workers, Tracked
  <2>2. TrackerExact'
    BY <1>15, <2>1, TrackerFrame DEF CloseCheck
  <2>3. QED
    BY <1>15, <2>2 DEF CloseCheck, NoAbort
<1>16. ASSUME NEW t \in Threads, CloseInvalidate(t)
       PROVE  TrackerExact' /\ NoAbort'
  <2>1. t \notin Workers
    BY <1>16 DEF CloseInvalidate, CallInv, ReleasePcs, DyingPcs, Workers
  <2>2. /\ Workers' = Workers \cup {t} /\ Borrowers' = Borrowers
        /\ Tracked' = Tracked
    BY <1>16, <2>1 DEF CloseInvalidate, Borrowers, Workers, Tracked
  <2>3. Cardinality(Workers') = Cardinality(Workers) + 1
    BY <2>1, <2>2, OwnersFinite, CardinalityFacts
  <2>4. /\ tracker'.refs = tracker.refs + 1 /\ tracker'.acts = tracker.acts + 1
        /\ tracker'.freed = tracker.freed
    BY <1>16 DEF CloseInvalidate, TrackerActivityBegin, TrackerType
  <2>5. table' = table /\ table # "gone" /\ aborted' = aborted
    BY <1>16 DEF CloseInvalidate, ShutdownInv, Shutting, ShutdownPcs,
                ReleasePcs, DyingPcs
  <2>6. QED
    BY <2>2, <2>3, <2>4, <2>5, TrackerCounts DEF TrackerExact, NoAbort
<1>17. ASSUME NEW t \in Threads, RecordRelease(t)
       PROVE  TrackerExact' /\ NoAbort'
  <2>1. ob[t] \in Objects /\ refs[ob[t]] # 0 /\ life[ob[t]] = "live"
    BY <1>17, LastOwner DEF RecordRelease, LiveInv, NoUseAfterFree
  <2>2. Borrowers' = Borrowers /\ Workers' = Workers /\ Tracked' = Tracked
    BY <1>17, <2>1 DEF RecordRelease, Borrowers, Workers, Tracked
  <2>3. TrackerExact'
    BY <1>17, <2>2, TrackerFrame DEF RecordRelease
  <2>4. QED
    BY <1>17, <2>1, <2>3 DEF RecordRelease, NoAbort
<1>18. ASSUME NEW t \in Threads, DestroyObject(t)
       PROVE  TrackerExact' /\ NoAbort'
  <2>1. Borrowers' = Borrowers /\ Workers' = Workers /\ Tracked' = Tracked
    BY <1>18
       DEF DestroyObject, CallInv, ReleasePcs, DyingPcs, Borrowers, Workers,
       Tracked
  <2>2. TrackerExact'
    BY <1>18, <2>1, TrackerFrame DEF DestroyObject
  <2>3. QED
    BY <1>18, <2>2 DEF DestroyObject, NoAbort
<1>19. ASSUME NEW t \in Threads, RecordUntrack(t)
       PROVE  TrackerExact' /\ NoAbort'
  <2>1. PICK o \in Objects : o = ob[t] /\ o \in Tracked
    BY <1>19 DEF RecordUntrack, CallInv, ReleasePcs, DyingPcs, Tracked
  <2>2. /\ Borrowers' = Borrowers /\ Workers' = Workers
        /\ Tracked' = Tracked \ {o}
    BY <1>19, <2>1 DEF RecordUntrack, Borrowers, Workers, Tracked
  <2>3. Cardinality(Tracked') = Cardinality(Tracked) - 1
    BY <2>1, <2>2, OwnersFinite, CardinalityFacts
  <2>4. Cardinality(Tracked) # 0
    BY <2>1, OwnersFinite, CardinalityFacts
  <2>5. tracker.refs # 0 /\ (tracker.refs = 1 => tracker.acts = 0)
    BY <2>4, TrackerCounts
  <2>6. /\ aborted' = aborted
        /\ tracker'.refs = tracker.refs - 1 /\ tracker'.acts = tracker.acts
        /\ tracker'.freed <=> tracker'.refs = 0
    BY <1>19, <2>5, SaneDrop, TrackerCounts DEF RecordUntrack, TrackerRelease
  <2>7. table' = table
    BY <1>19 DEF RecordUntrack
  <2>8. QED
    BY <2>2, <2>3, <2>6, <2>7, TrackerCounts DEF TrackerExact, NoAbort
<1>20. ASSUME NEW t \in Threads, ActivityEnd(t)
       PROVE  TrackerExact' /\ NoAbort'
  <2>1. t \in Workers
    BY <1>20 DEF ActivityEnd, CallInv, Workers
  <2>2. /\ Borrowers' = Borrowers /\ Workers' = Workers \ {t}
        /\ Tracked' = Tracked
    BY <1>20, <2>1 DEF ActivityEnd, Borrowers, Workers, Tracked
  <2>3. Cardinality(Workers') = Cardinality(Workers) - 1
    BY <2>1, <2>2, OwnersFinite, CardinalityFacts
  <2>4. Cardinality(Workers) # 0
    BY <2>1, OwnersFinite, CardinalityFacts
  <2>5. /\ tracker.refs # 0 /\ tracker.acts >= 1
        /\ (tracker.refs = 1 => tracker.acts = 1)
    BY <2>4, TrackerCounts
  <2>6. /\ aborted' = aborted
        /\ tracker'.refs = tracker.refs - 1
        /\ tracker'.acts = tracker.acts - 1
        /\ tracker'.freed <=> tracker'.refs = 0
    BY <1>20, <2>5, SaneDrop DEF ActivityEnd, TrackerActivityEnd
  <2>7. table' = table
    BY <1>20 DEF ActivityEnd
  <2>8. QED
    BY <2>2, <2>3, <2>6, <2>7, TrackerCounts DEF TrackerExact, NoAbort
<1>21. ASSUME NEW t \in Threads, DestroyCollect(t)
       PROVE  TrackerExact' /\ NoAbort'
  <2>1. Borrowers' = Borrowers /\ Workers' = Workers /\ Tracked' = Tracked
    BY <1>21 DEF DestroyCollect, Borrowers, Workers, Tracked
  <2>2. TrackerExact'
    BY <1>21, <2>1, TrackerFrame DEF DestroyCollect
  <2>3. QED
    BY <1>21, <2>2 DEF DestroyCollect, NoAbort
<1>22. ASSUME NEW t \in Threads, ReleaseNext(t)
       PROVE  TrackerExact' /\ NoAbort'
  <2>1. Borrowers' = Borrowers /\ Workers' = Workers /\ Tracked' = Tracked
    BY <1>22 DEF ReleaseNext, Borrowers, Workers, Tracked
  <2>2. TrackerExact'
    BY <1>22, <2>1, TrackerFrame DEF ReleaseNext
  <2>3. QED
    BY <1>22, <2>2 DEF ReleaseNext, NoAbort
<1>23. ASSUME NEW t \in Threads, FreeTable(t) PROVE TrackerExact' /\ NoAbort'
  <2>1. table # "gone" /\ table' # "gone"
    BY <1>23 DEF FreeTable, ShutdownInv, Shutting, ShutdownPcs
  <2>2. Borrowers' = Borrowers /\ Workers' = Workers /\ Tracked' = Tracked
    BY <1>23 DEF FreeTable, Borrowers, Workers, Tracked
  <2>3. TrackerExact'
    BY <1>23, <2>1, <2>2, TrackerFrame DEF FreeTable
  <2>4. QED
    BY <1>23, <2>3 DEF FreeTable, NoAbort
<1>24. ASSUME NEW t \in Threads, TableUntrack(t)
       PROVE  TrackerExact' /\ NoAbort'
  <2>1. table = "freed" /\ table' = "gone"
    BY <1>24 DEF TableUntrack, ShutdownInv, Shutting, ShutdownPcs
  <2>2. Borrowers' = Borrowers /\ Workers' = Workers /\ Tracked' = Tracked
    BY <1>24 DEF TableUntrack, Borrowers, Workers, Tracked
  <2>3. tracker.refs # 0 /\ (tracker.refs = 1 => tracker.acts = 0)
    BY <2>1, TrackerCounts
  <2>4. /\ aborted' = aborted
        /\ tracker'.refs = tracker.refs - 1 /\ tracker'.acts = tracker.acts
        /\ tracker'.freed <=> tracker'.refs = 0
    BY <1>24, <2>3, SaneDrop, TrackerCounts DEF TableUntrack, TrackerRelease
  <2>5. QED
    BY <2>1, <2>2, <2>4, TrackerCounts DEF TrackerExact, NoAbort
<1>25. ASSUME NEW t \in Threads, CloneReject(t)
       PROVE  TrackerExact' /\ NoAbort'
  <2>1. Borrowers' = Borrowers /\ Workers' = Workers /\ Tracked' = Tracked
    BY <1>25 DEF CloneReject, Borrowers, Workers, Tracked
  <2>2. TrackerExact'
    BY <1>25, <2>1, TrackerFrame DEF CloneReject
  <2>3. QED
    BY <1>25, <2>2 DEF CloneReject, NoAbort
<1>26. ASSUME NEW t \in Threads, CloneFreeze(t)
       PROVE  TrackerExact' /\ NoAbort'
  <2>1. Borrowers' = Borrowers /\ Workers' = Workers /\ Tracked' = Tracked
    BY <1>26 DEF CloneFreeze, Borrowers, Workers, Tracked
  <2>2. TrackerExact'
    BY <1>26, <2>1, TrackerFrame DEF CloneFreeze
  <2>3. QED
    BY <1>26, <2>2 DEF CloneFreeze, NoAbort
<1>27. ASSUME NEW t \in Threads, CompleteClone(t)
       PROVE  TrackerExact' /\ NoAbort'
  <2>1. Borrowers' = Borrowers /\ Workers' = Workers /\ Tracked' = Tracked
    BY <1>27 DEF CompleteClone, Borrowers, Workers, Tracked
  <2>2. TrackerExact'
    BY <1>27, <2>1, TrackerFrame DEF CompleteClone
  <2>3. QED
    BY <1>27, <2>2 DEF CompleteClone, NoAbort
<1>28. CASE UNCHANGED vars
  <2>1. Borrowers' = Borrowers /\ Workers' = Workers /\ Tracked' = Tracked
    BY <1>28 DEF vars, Borrowers, Workers, Tracked
  <2>2. TrackerExact'
    BY <1>28, <2>1, TrackerFrame DEF vars
  <2>3. QED
    BY <1>28, <2>2 DEF vars, NoAbort
<1>29. QED
  BY <1>1, <1>2, <1>3, <1>4, <1>5, <1>6, <1>7, <1>8, <1>9, <1>10, <1>11,
     <1>12, <1>13, <1>14, <1>15, <1>16, <1>17, <1>18, <1>19, <1>20, <1>21,
     <1>22, <1>23, <1>24, <1>25, <1>26, <1>27, <1>28
     DEF Next, Call, Continue, Terminated

-----------------------------------------------------------------------------
(* The table sl_handle_table_create returns satisfies the invariant. *)
LEMMA InitInv == Init => IndInv
<1> SUFFICES ASSUME Init PROVE IndInv
  OBVIOUS
<1>1. TypeOK
  <2>1. slots \in [Slots -> SlotType] /\ tracker \in TrackerType
    BY HandleTableAssumption DEF Init, SlotType, TrackerType
  <2>2. /\ kind \in [Objects -> Kinds] /\ want \in [Threads -> Kinds]
        /\ refs \in [Objects -> 0 .. MaxReferences]
        /\ token \in [Threads -> Tokens]
    BY HandleTableAssumption, TokenTypes DEF Init, Kinds
  <2>3. QED
    BY <2>1, <2>2 DEF Init, TypeOK, Touching, Outside
<1>2. NoAbort /\ LockInv /\ GrantInv
  BY DEF Init, NoAbort, LockInv, GrantInv, Inside
<1>3. CallInv /\ OwnerInv /\ ShutdownInv
  BY DEF Init, CallInv, OwnerInv, ShutdownInv, InsertPcs, AcquirePcs,
         ClosePcs, ReleasePcs, DyingPcs, ShutdownPcs, Shutting
<1>4. SlotInv /\ LiveInv
  BY DEF Init, SlotInv, LiveInv, NoUseAfterFree
<1>5. TokenInv
  BY DEF Init, TokenInv
<1>6. RecordCountExact
  <2>1. ASSUME NEW o \in Objects
        PROVE  /\ Releasing(o) = {} /\ Borrowing(o) = {}
               /\ Publishing(o) = {} /\ Inserting(o) = {}
    BY HandleTableAssumption
       DEF Init, Releasing, Borrowing, Publishing, Inserting
  <2>2. Cardinality({}) = 0
    BY FS_EmptySet
  <2>3. \A o \in Objects : refs[o] = 0 /\ o \notin pending
    BY DEF Init
  <2>4. QED
    BY <2>1, <2>2, <2>3 DEF RecordCountExact
<1>7. TrackerExact
  <2>1. Borrowers = {} /\ Workers = {} /\ Tracked = {}
    BY DEF Init, Borrowers, Workers, Tracked
  <2>2. QED
    BY <2>1, FS_EmptySet DEF Init, TrackerExact
<1>8. QED
  BY <1>1, <1>2, <1>3, <1>4, <1>5, <1>6, <1>7 DEF IndInv

(* IndInv is an invariant of the handle table. *)
THEOREM Invariance == Spec => []IndInv
<1>1. IndInv /\ [Next]_vars => IndInv'
  BY TypeStep, LockStep, CallStep, OwnerStep, ShutdownStep, SlotStep,
     GrantStep, LiveStep, TokenStep, CountStep, TrackerStep DEF IndInv
<1>2. QED
  BY InitInv, <1>1, PTL DEF Spec

(* The variables of the handle table keep their types; in particular no    *)
(* reference count passes its cap, although each is checked in one step    *)
(* and incremented in another.                                             *)
THEOREM TypeCorrect == Spec => []TypeOK
<1>1. IndInv => TypeOK
  BY DEF IndInv
<1>2. QED
  BY Invariance, <1>1, PTL

(* Whatever threads do, the object behind a lease is alive, and so is the  *)
(* record of every slot and of every pending release.                      *)
THEOREM LeasedObjectsAreAlive == Spec => []NoUseAfterFree
<1>1. IndInv => NoUseAfterFree
  BY DEF IndInv, LiveInv
<1>2. QED
  BY Invariance, <1>1, PTL

(* The reference count of every record is the number of its owners, the    *)
(* tracker counts the table, the records and the activities and is freed   *)
(* with the last of them, and no abort() of handle_table.c is reachable.   *)
THEOREM CountsAreExact == Spec => []CountsExact
<1>1. IndInv => CountsExact
  BY DEF IndInv, CountsExact
<1>2. QED
  BY Invariance, <1>1, PTL

(* The table a clone() copies is quiescent. *)
LEMMA Quiescence == IndInv => CloneIsQuiescent
<1> SUFFICES ASSUME IndInv, NEW t \in Threads, pc[t] = "frozen"
             PROVE  /\ \A u \in Threads : lease[u] = NoObject /\ ~active[u]
                    /\ \A o \in Objects :
                          life[o] \in {"new", "private", "live", "gone"}
                    /\ \A s \in Slots :
                          slots[s].record # NoObject =>
                              refs[slots[s].record] = 1
                    /\ tracker.acts = 0
  BY DEF CloneIsQuiescent
<1>1. tracker.acts = 0 /\ ~destroying
  BY DEF IndInv, GrantInv, CanClone
<1>2. Cardinality(Borrowers) = 0 /\ Cardinality(Workers) = 0
  BY <1>1, TrackerCounts
<1>3. Borrowers = {} /\ Workers = {}
  BY <1>2, OwnersFinite, CardinalityFacts
<1>4. \A u \in Threads : lease[u] = NoObject /\ ~active[u]
  BY <1>3 DEF Borrowers, Workers
<1>5. pending = {}
  BY <1>1 DEF IndInv, ShutdownInv
<1>6. \A u \in Threads : pc[u] \notin ReleasePcs
  <2>1. ASSUME NEW u \in Threads, pc[u] \in ReleasePcs PROVE FALSE
    <3>1. Shutting(u)
      BY <1>4, <2>1 DEF Shutting
    <3>2. pc[u] \notin {"destroyTable", "destroyCollect"}
      BY <2>1 DEF ReleasePcs, DyingPcs
    <3>3. QED
      BY <1>1, <3>1, <3>2 DEF IndInv, ShutdownInv
  <2>2. QED
    BY <2>1
<1>7. \A o \in Objects : life[o] \in {"new", "private", "live", "gone"}
  <2>1. \A o \in Objects : life[o] \notin {"freed", "destroyed"}
    BY <1>6 DEF IndInv, OwnerInv, ReleasePcs
  <2>2. QED
    BY <2>1 DEF IndInv, TypeOK
<1>8. ASSUME NEW s \in Slots, slots[s].record # NoObject
      PROVE  refs[slots[s].record] = 1
  <2> DEFINE o == slots[s].record
  <2>1. o \in Objects /\ life[o] = "live"
    BY <1>8 DEF IndInv, TypeOK, SlotType, LiveInv, NoUseAfterFree
  <2>2. Publishing(o) = {s}
    BY <1>8 DEF IndInv, SlotInv, Publishing
  <2>3. Borrowing(o) = {} /\ Releasing(o) = {}
    BY <1>4, <1>6, <1>8 DEF Borrowing, Releasing, ReleasePcs
  <2>4. Inserting(o) = {}
    BY <2>1 DEF IndInv, CallInv, InsertPcs, Inserting
  <2> HIDE DEF o
  <2>5. refs[o] = Cardinality(Publishing(o)) + Cardinality(Borrowing(o))
                  + Cardinality(Releasing(o)) + Cardinality(Inserting(o))
                  + (IF o \in pending THEN 1 ELSE 0)
    BY <2>1 DEF IndInv, RecordCountExact
  <2>6. Cardinality({}) = 0 /\ Cardinality({s}) = 1
    BY FS_EmptySet, FS_Singleton
  <2>7. refs[o] = 1
    BY <1>5, <2>2, <2>3, <2>4, <2>5, <2>6
  <2>8. QED
    BY <2>7 DEF o
<1>9. QED
  BY <1>1, <1>4, <1>7, <1>8

(* While prepare_clone has the table frozen, no lease, close or destructor *)
(* is in flight and every published record has the one reference of its    *)
(* slot.                                                                   *)
THEOREM CloneSafety == Spec => []CloneIsQuiescent
BY Invariance, Quiescence, PTL

-----------------------------------------------------------------------------
(* The slot an insertion takes is empty and its next token was never       *)
(* issued.                                                                 *)
LEMMA FreshToken ==
  ASSUME IndInv, NEW t \in Threads, InsertPublish(t)
  PROVE  LET h == EncodeHandle(FirstFree, slots[FirstFree].generation)
         IN  h \in Tokens /\ issued[h] = NoObject
<1> DEFINE s == FirstFree
           h == EncodeHandle(s, slots[s].generation)
<1>1. s \in Slots /\ slots[s].record = NoObject /\ ~slots[s].retired
  BY FirstFreeIsFree
     DEF IndInv, InsertPublish, GrantInv, CanInsert, FreeSlots
<1>2. slots[s].generation \in 1 .. MaxGeneration
  BY <1>1 DEF IndInv, TypeOK, SlotInv, SlotType
<1>3. h \in Tokens /\ SlotIndex(h) = s
  BY <1>1, <1>2, TokenTypes
<1>4. h.generation = slots[s].generation
  BY DEF EncodeHandle
<1> HIDE DEF h, s
<1>5. issued[h] = NoObject
  BY <1>1, <1>2, <1>3, <1>4 DEF IndInv, TokenInv
<1>6. QED
  BY <1>3, <1>5 DEF h, s

(* A token keeps the object it was issued for: an insertion never issues   *)
(* it again.                                                               *)
THEOREM TokensStayUnique == Spec => TokensAreNeverReissued
<1> DEFINE A == \A h \in Tokens :
                   issued[h] # NoObject => issued'[h] = issued[h]
<1>1. IndInv /\ [Next]_vars => [A]_vars
  <2> SUFFICES ASSUME IndInv, Next PROVE A
    OBVIOUS
  <2>1. ASSUME NEW t \in Threads, InsertPublish(t) PROVE A
    <3>1. issued \in [Tokens -> Objects \cup {NoObject}]
      BY DEF IndInv, TypeOK
    <3>2. QED
      BY <2>1, <3>1, FreshToken DEF InsertPublish
  <2>2. ASSUME ~ \E t \in Threads : InsertPublish(t) PROVE issued' = issued
    BY <2>2 DEF Next, Call, Continue, Terminated, vars, Insert, Acquire,
       Close, LeaseRelease, DestroyTable, PrepareClone, TableLock,
       InsertReject, InsertScan, AcquireReject, AcquireCheck, AcquireGrant,
       CloseReject, CloseCheck, CloseInvalidate, RecordRelease,
       DestroyObject, RecordUntrack, ActivityEnd, DestroyCollect,
       ReleaseNext, FreeTable, TableUntrack, CloneReject, CloneFreeze,
       CompleteClone
  <2>3. QED
    BY <2>1, <2>2
<1>2. QED
  BY Invariance, <1>1, PTL DEF Spec, TokensAreNeverReissued

(* A token that decodes is the encoding of its own fields. *)
LEMMA EncodeDecoded ==
  ASSUME NEW h \in Tokens, Decodable(h)
  PROVE  h = EncodeHandle(SlotIndex(h), h.generation)
BY HandleTableAssumption DEF Tokens, Decodable, EncodeHandle, SlotIndex

(* An acquire is granted on the object its token was issued for. *)
LEMMA GrantIsNamed ==
  ASSUME IndInv, NEW t \in Threads, AcquireGrant(t)
  PROVE  /\ Decodable(token[t]) /\ SlotIndex(token[t]) \in Slots
         /\ SlotOf(t).record = ob[t] /\ ob[t] \in Objects
         /\ SlotOf(t).generation = token[t].generation
         /\ issued[token[t]] = ob[t]
<1>1. token[t] \in Tokens /\ Decodable(token[t])
  BY DEF IndInv, TypeOK, CallInv, AcquirePcs, ClosePcs, AcquireGrant
<1>2. SlotIndex(token[t]) \in Slots
  BY <1>1, TokenTypes
<1>3. /\ SlotOf(t).record = ob[t] /\ ob[t] # NoObject
      /\ SlotOf(t).generation = token[t].generation
  BY DEF IndInv, GrantInv, CanAcquire, Resolves, AcquireGrant
<1>4. ob[t] \in Objects
  BY <1>3 DEF IndInv, TypeOK
<1>5. issued[EncodeHandle(SlotIndex(token[t]), token[t].generation)] = ob[t]
  BY <1>2, <1>3 DEF IndInv, TokenInv, SlotOf
<1>6. QED
  BY <1>1, <1>2, <1>3, <1>4, <1>5, EncodeDecoded

(* A lease is always on the object its token was issued for. *)
THEOREM LeasesAreNamed == Spec => LeaseIsOnTheNamedObject
<1> DEFINE A == \A t \in Threads : lease'[t] \notin {NoObject, lease[t]} =>
                                      lease'[t] = issued[token[t]]
<1>1. IndInv /\ [Next]_vars => [A]_vars
  <2> SUFFICES ASSUME IndInv, Next PROVE A
    OBVIOUS
  <2>1. lease \in [Threads -> Objects \cup {NoObject}]
    BY DEF IndInv, TypeOK
  <2>2. ASSUME NEW t \in Threads, AcquireGrant(t) PROVE A
    BY <2>1, <2>2, GrantIsNamed DEF AcquireGrant
  <2>3. ASSUME NEW t \in Threads, LeaseRelease(t) PROVE A
    BY <2>1, <2>3 DEF LeaseRelease
  <2>4. ASSUME ~ \E t \in Threads : AcquireGrant(t) \/ LeaseRelease(t)
        PROVE  lease' = lease
    BY <2>4 DEF Next, Call, Continue, Terminated, vars, Insert, Acquire,
       Close, DestroyTable, PrepareClone, TableLock, InsertReject,
       InsertScan, InsertPublish, AcquireReject, AcquireCheck, CloseReject,
       CloseCheck, CloseInvalidate, RecordRelease, DestroyObject,
       RecordUntrack, ActivityEnd, DestroyCollect, ReleaseNext, FreeTable,
       TableUntrack, CloneReject, CloneFreeze, CompleteClone
  <2>5. QED
    BY <2>2, <2>3, <2>4
<1>2. QED
  BY Invariance, <1>1, PTL DEF Spec, LeaseIsOnTheNamedObject

-----------------------------------------------------------------------------
(* The handle table implements the abstract store.                        *)

(* Under the invariant a bound token is an issued one, and a token that    *)
(* was issued is bound to its object or bound no more.                     *)
LEMMA BoundIsIssued ==
  ASSUME IndInv, NEW h \in Tokens, Bound(h)
  PROVE  /\ SlotIndex(h) \in Slots
         /\ slots[SlotIndex(h)].record \in Objects
         /\ issued[h] = slots[SlotIndex(h)].record
<1>1. Decodable(h) /\ SlotIndex(h) \in Slots
  BY TokenTypes DEF Bound
<1>2. slots[SlotIndex(h)].record \in Objects
  BY <1>1 DEF Bound, IndInv, TypeOK, SlotType
<1>3. issued[EncodeHandle(SlotIndex(h), h.generation)]
         = slots[SlotIndex(h)].record
  BY <1>1 DEF Bound, IndInv, TokenInv
<1>4. QED
  BY <1>1, <1>2, <1>3, EncodeDecoded

(* A step that leaves slots, tokens, leases, the destroying flag and the   *)
(* owners of objects alone is a stutter of the store.                      *)
LEMMA StoreStutter ==
  ASSUME UNCHANGED <<slots, issued, lease, destroying>>, OwnerBar' = OwnerBar
  PROVE  UNCHANGED Store!vars
<1>1. NamesBar' = NamesBar
  BY DEF NamesBar, Bound
<1>2. QED
  BY <1>1 DEF Store!vars

(* A fresh table is an empty store. *)
LEMMA StoreInit == Init => Store!Init
<1> SUFFICES ASSUME Init PROVE Store!Init
  OBVIOUS
<1>1. NamesBar = [h \in Tokens |-> Unused]
  <2>1. ASSUME NEW h \in Tokens PROVE ~Bound(h) /\ issued[h] = NoObject
    BY TokenTypes DEF Init, Bound
  <2>2. QED
    BY <2>1 DEF NamesBar
<1>2. OwnerBar = [o \in Objects |-> "caller"]
  BY DEF Init, OwnerBar
<1>3. QED
  BY <1>1, <1>2 DEF Init, Store!Init

(* Publishing a record binds a token that was never used. *)
LEMMA PublishIsInsert ==
  ASSUME IndInv, NEW t \in Threads, InsertPublish(t)
  PROVE  \E h \in Tokens, o \in Objects : Store!Insert(h, o)
<1>1. PICK o \in Objects : o = ob[t] /\ life[o] = "private"
  BY DEF InsertPublish, IndInv, CallInv, InsertPcs
<1>2. PICK s \in Slots : /\ s = FirstFree /\ slots[s].record = NoObject
                         /\ ~slots[s].retired
  BY FirstFreeIsFree
     DEF InsertPublish, IndInv, GrantInv, CanInsert, FreeSlots
<1>3. slots \in [Slots -> SlotType] /\ issued \in [Tokens -> Objects \cup {NoObject}]
  BY DEF IndInv, TypeOK
<1>4. PICK g \in 1 .. MaxGeneration : g = slots[s].generation
  BY <1>2, <1>3 DEF IndInv, SlotInv, SlotType
<1>5. PICK h \in Tokens : h = EncodeHandle(s, g)
  BY TokenTypes
<1>6. Decodable(h) /\ SlotIndex(h) = s /\ h.generation = g
  BY <1>5, TokenTypes DEF EncodeHandle
<1>7. issued[h] = NoObject
  BY <1>2, <1>4, <1>5, FreshToken
<1>8. /\ slots' = [slots EXCEPT ![s].record = o]
      /\ issued' = [issued EXCEPT ![h] = o]
      /\ UNCHANGED <<destroying, lease>>
      /\ life' = [life EXCEPT ![o] = "live"]
  BY <1>1, <1>2, <1>4, <1>5 DEF InsertPublish
<1>9. o # NoObject /\ ~destroying
  BY HandleTableAssumption DEF InsertPublish, IndInv, GrantInv, CanInsert
<1>10. NamesBar[h] = Unused
  BY <1>2, <1>6, <1>7 DEF NamesBar, Bound
<1>11. NamesBar' = [NamesBar EXCEPT ![h] = o]
  <2>1. \A r \in Slots : /\ slots'[r].generation = slots[r].generation
                         /\ slots'[r].record = IF r = s THEN o
                                               ELSE slots[r].record
    BY <1>2, <1>3, <1>8 DEF SlotType
  <2>2. NamesBar'[h] = o
    BY <1>4, <1>6, <1>9, <2>1 DEF NamesBar, Bound
  <2>3. ASSUME NEW x \in Tokens, x # h PROVE NamesBar'[x] = NamesBar[x]
    <3>1. issued'[x] = issued[x]
      BY <1>3, <1>8, <2>3
    <3>2. ASSUME Decodable(x), SlotIndex(x) = s
          PROVE  x.generation # g
      BY <1>5, <2>3, <3>2, EncodeDecoded
    <3>3. (Bound(x)' <=> Bound(x)) /\
          (Bound(x) => slots'[SlotIndex(x)].record = slots[SlotIndex(x)].record)
      BY <1>2, <1>4, <2>1, <3>2, TokenTypes DEF Bound
    <3>4. QED
      BY <3>1, <3>3 DEF NamesBar
  <2>4. NamesBar = [x \in Tokens |-> NamesBar[x]]
        /\ NamesBar' = [x \in Tokens |-> NamesBar'[x]]
    BY DEF NamesBar
  <2>5. QED
    BY <2>2, <2>3, <2>4
<1>12. OwnerBar[o] = "caller" /\ OwnerBar' = [OwnerBar EXCEPT ![o] = "store"]
  BY <1>1, <1>8 DEF OwnerBar, IndInv, TypeOK
<1>13. Store!Insert(h, o)
  BY <1>8, <1>9, <1>10, <1>11, <1>12 DEF Store!Insert
<1>14. QED
  BY <1>13

(* A granted acquire borrows the object its token names. *)
LEMMA GrantIsAcquire ==
  ASSUME IndInv, NEW t \in Threads, AcquireGrant(t)
  PROVE  \E h \in Tokens : Store!Acquire(t, h)
<1>1. PICK h \in Tokens : h = token[t]
  BY DEF IndInv, TypeOK
<1>2. /\ Decodable(h) /\ SlotIndex(h) \in Slots /\ ob[t] \in Objects
      /\ slots[SlotIndex(h)].record = ob[t]
      /\ slots[SlotIndex(h)].generation = h.generation
  BY <1>1, GrantIsNamed DEF SlotOf
<1>3. NamesBar[h] = ob[t]
  BY <1>2, HandleTableAssumption DEF NamesBar, Bound
<1>4. lease[t] = NoObject /\ ~destroying
  BY DEF IndInv, CallInv, AcquirePcs, GrantInv, CanAcquire, Resolves,
         AcquireGrant
<1>5. NamesBar' = NamesBar /\ OwnerBar' = OwnerBar
  BY DEF AcquireGrant, NamesBar, Bound, OwnerBar
<1>6. lease' = [lease EXCEPT ![t] = ob[t]] /\ destroying' = destroying
  BY DEF AcquireGrant
<1>7. Store!Acquire(t, h)
  BY <1>2, <1>3, <1>4, <1>5, <1>6 DEF Store!Acquire
<1>8. QED
  BY <1>7

(* A lease release returns the object. *)
LEMMA ReleaseIsRelease ==
  ASSUME NEW t \in Threads, LeaseRelease(t)
  PROVE  Store!Release(t)
<1>1. NamesBar' = NamesBar /\ OwnerBar' = OwnerBar
  BY DEF LeaseRelease, tableVars, recordVars, NamesBar, Bound, OwnerBar
<1>2. QED
  BY <1>1 DEF LeaseRelease, tableVars, Store!Release

(* Invalidating slots closes the tokens bound to them, and nothing else. *)
LEMMA SpentIsClosed ==
  ASSUME IndInv, NEW D \in SUBSET Slots, issued' = issued,
         \A s \in D : slots[s].record # NoObject
                      /\ Spent(slots[s], slots'[s]),
         \A s \in Slots \ D : slots'[s] = slots[s]
  PROVE  NamesBar' = [h \in Tokens |->
                         IF Bound(h) /\ SlotIndex(h) \in D THEN Closed
                         ELSE NamesBar[h]]
<1>1. ASSUME NEW h \in Tokens
      PROVE  NamesBar'[h] = IF Bound(h) /\ SlotIndex(h) \in D THEN Closed
                            ELSE NamesBar[h]
  <2>1. CASE Decodable(h) /\ SlotIndex(h) \in D
    <3>1. slots'[SlotIndex(h)].record = NoObject
      BY <2>1 DEF Spent
    <3>2. ~ Bound(h)'
      BY <3>1 DEF Bound
    <3>3. CASE Bound(h)
      BY <3>2, <3>3, <2>1, BoundIsIssued, HandleTableAssumption DEF NamesBar
    <3>4. CASE ~Bound(h)
      BY <3>2, <3>4 DEF NamesBar
    <3>5. QED
      BY <3>3, <3>4
  <2>2. CASE ~ (Decodable(h) /\ SlotIndex(h) \in D)
    <3>1. Decodable(h) => slots'[SlotIndex(h)] = slots[SlotIndex(h)]
      BY <2>2, TokenTypes
    <3>2. QED
      BY <2>2, <3>1 DEF NamesBar, Bound
  <2>3. QED
    BY <2>1, <2>2
<1>2. NamesBar' = [h \in Tokens |-> NamesBar'[h]]
  BY DEF NamesBar
<1>3. QED
  BY <1>1, <1>2

(* A close takes effect when it invalidates the slot. *)
LEMMA InvalidateIsClose ==
  ASSUME IndInv, NEW t \in Threads, CloseInvalidate(t)
  PROVE  \E h \in Tokens : Store!Close(h)
<1>1. PICK h \in Tokens : h = token[t] /\ Decodable(h)
  BY DEF IndInv, TypeOK, CallInv, AcquirePcs, ClosePcs, CloseInvalidate
<1>2. PICK s \in Slots : s = SlotIndex(h)
  BY <1>1, TokenTypes
<1>3. /\ slots[s].record # NoObject /\ ~destroying
      /\ slots[s].generation = h.generation
  BY <1>1, <1>2 DEF IndInv, GrantInv, CanClose, Resolves, SlotOf,
                    CloseInvalidate
<1>4. Bound(h) /\ NamesBar[h] \in Objects
  BY <1>1, <1>2, <1>3, BoundIsIssued DEF Bound, NamesBar
<1>5. slots' = [slots EXCEPT ![s] = InvalidateSlot(@)] /\ issued' = issued
  BY <1>1, <1>2 DEF CloseInvalidate
<1>6. slots \in [Slots -> SlotType]
  BY DEF IndInv, TypeOK
<1>7. NamesBar' = [x \in Tokens |->
                      IF Bound(x) /\ SlotIndex(x) \in {s} THEN Closed
                      ELSE NamesBar[x]]
  BY <1>3, <1>5, <1>6, SpentIsClosed, InvalidateSpends
<1>8. \A x \in Tokens : Bound(x) /\ SlotIndex(x) = s => x = h
  <2>1. ASSUME NEW x \in Tokens, Bound(x), SlotIndex(x) = s PROVE x = h
    <3>1. Decodable(x) /\ x.generation = h.generation
      BY <1>3, <2>1 DEF Bound
    <3>2. QED
      BY <1>1, <1>2, <2>1, <3>1, EncodeDecoded
  <2>2. QED
    BY <2>1
<1>9. NamesBar' = [NamesBar EXCEPT ![h] = Closed]
  BY <1>2, <1>4, <1>7, <1>8 DEF NamesBar
<1>10. UNCHANGED <<lease, destroying>> /\ OwnerBar' = OwnerBar
  BY DEF CloseInvalidate, recordVars, OwnerBar
<1>11. Store!Close(h)
  BY <1>3, <1>4, <1>9, <1>10 DEF Store!Close
<1>12. QED
  BY <1>11

(* The destruction of the table closes every token at once. *)
LEMMA CollectIsShutdown ==
  ASSUME IndInv, NEW t \in Threads, DestroyCollect(t)
  PROVE  Store!Shutdown
<1>1. ~destroying
  BY DEF DestroyCollect, IndInv, ShutdownInv, Shutting, ShutdownPcs
<1>2. PICK D \in SUBSET Slots : D = {s \in Slots : slots[s].record # NoObject}
  OBVIOUS
<1>3. slots \in [Slots -> SlotType]
  BY DEF IndInv, TypeOK
<1>4. /\ \A s \in D : slots[s].record # NoObject
                      /\ slots'[s] = InvalidateSlot(slots[s])
      /\ \A s \in Slots \ D : slots'[s] = slots[s]
      /\ issued' = issued
  BY <1>2 DEF DestroyCollect
<1>5. \A s \in D : Spent(slots[s], slots'[s])
  BY <1>3, <1>4, InvalidateSpends
<1>6. NamesBar' = [h \in Tokens |->
                      IF Bound(h) /\ SlotIndex(h) \in D THEN Closed
                      ELSE NamesBar[h]]
  BY <1>4, <1>5, SpentIsClosed
<1>7. \A h \in Tokens : Bound(h) /\ SlotIndex(h) \in D
                           <=> NamesBar[h] \in Objects
  <2>1. ASSUME NEW h \in Tokens, Bound(h)
        PROVE  SlotIndex(h) \in D /\ NamesBar[h] \in Objects
    BY <1>2, <2>1, BoundIsIssued, HandleTableAssumption DEF NamesBar
  <2>2. ASSUME NEW h \in Tokens, ~Bound(h) PROVE NamesBar[h] \notin Objects
    BY <2>2, RefinementAssumption DEF NamesBar
  <2>3. QED
    BY <2>1, <2>2
<1>8. NamesBar' = [h \in Tokens |-> IF NamesBar[h] \in Objects THEN Closed
                                                            ELSE NamesBar[h]]
  BY <1>6, <1>7
<1>9. lease' = lease /\ OwnerBar' = OwnerBar /\ destroying' = TRUE
  BY DEF DestroyCollect, recordVars, OwnerBar
<1>10. QED
  BY <1>1, <1>8, <1>9 DEF Store!Shutdown

(* The destructor runs only on what the store may reclaim. *)
LEMMA DestroyIsReclaim ==
  ASSUME IndInv, NEW t \in Threads, DestroyObject(t)
  PROVE  \E o \in Objects : Store!Reclaim(o)
<1>1. PICK o \in Objects : o = ob[t] /\ life[o] = "freed"
  BY DEF DestroyObject, IndInv, CallInv, ReleasePcs, DyingPcs
<1>2. life' = [life EXCEPT ![o] = "destroyed"]
  BY <1>1 DEF DestroyObject
<1>3. /\ \A u \in Threads : lease[u] # o
      /\ \A s \in Slots : slots[s].record # o
  BY <1>1, HandleTableAssumption DEF IndInv, LiveInv, NoUseAfterFree
<1>4. \A h \in Tokens : NamesBar[h] # o
  BY <1>3, BoundIsIssued, RefinementAssumption DEF NamesBar
<1>5. OwnerBar[o] = "store" /\ OwnerBar' = [OwnerBar EXCEPT ![o] = "reclaimed"]
  BY <1>1, <1>2 DEF OwnerBar, IndInv, TypeOK
<1>6. NamesBar' = NamesBar /\ UNCHANGED <<lease, destroying>>
  BY DEF DestroyObject, tableVars, NamesBar, Bound
<1>7. Store!Reclaim(o)
  BY <1>3, <1>4, <1>5, <1>6 DEF Store!Reclaim
<1>8. QED
  BY <1>7

(* No other step is visible in the store: each leaves slots, tokens and    *)
(* leases alone, and moves an object only within one owner's states.       *)
LEMMA OtherStepsStutter ==
  ASSUME IndInv, NEW t \in Threads,
         \/ \E o \in Objects, k \in Kinds : Insert(t, o, k)
         \/ \E h \in Tokens, k \in Kinds : Acquire(t, h, k) \/ Close(t, h, k)
         \/ DestroyTable(t) \/ PrepareClone(t) \/ TableLock(t)
         \/ InsertReject(t) \/ InsertScan(t)
         \/ AcquireReject(t) \/ AcquireCheck(t)
         \/ CloseReject(t) \/ CloseCheck(t)
         \/ RecordRelease(t) \/ RecordUntrack(t) \/ ActivityEnd(t)
         \/ ReleaseNext(t) \/ FreeTable(t) \/ TableUntrack(t)
         \/ CloneReject(t) \/ CloneFreeze(t) \/ CompleteClone(t)
  PROVE  UNCHANGED Store!vars
<1>1. UNCHANGED <<slots, issued, lease, destroying>>
  BY DEF tableVars, Insert, Acquire, Close, DestroyTable, PrepareClone,
         TableLock, InsertReject, InsertScan, AcquireReject, AcquireCheck,
         CloseReject, CloseCheck, RecordRelease, RecordUntrack, ActivityEnd,
         ReleaseNext, FreeTable, TableUntrack, CloneReject, CloneFreeze,
         CompleteClone
<1>2. OwnerBar' = OwnerBar
  <2>1. ASSUME NEW o \in Objects, NEW k \in Kinds, Insert(t, o, k)
        PROVE  OwnerBar' = OwnerBar
    BY <2>1 DEF Insert, OwnerBar, IndInv, TypeOK
  <2>2. CASE InsertReject(t)
    BY <2>2 DEF InsertReject, OwnerBar, IndInv, TypeOK, CallInv, InsertPcs
  <2>3. CASE RecordRelease(t)
    <3>1. ob[t] \in Objects /\ life[ob[t]] = "live"
      BY <2>3, LastOwner DEF RecordRelease, IndInv, LiveInv, NoUseAfterFree
    <3>2. QED
      BY <2>3, <3>1 DEF RecordRelease, OwnerBar, IndInv, TypeOK
  <2>4. CASE RecordUntrack(t)
    BY <2>4 DEF RecordUntrack, OwnerBar, IndInv, TypeOK, CallInv, ReleasePcs,
                DyingPcs
  <2>5. ASSUME ~ \E o \in Objects, k \in Kinds : Insert(t, o, k),
               ~InsertReject(t), ~RecordRelease(t), ~RecordUntrack(t)
        PROVE  life' = life
    BY <2>5 DEF recordVars, Acquire, Close, DestroyTable, PrepareClone,
       TableLock, InsertScan, AcquireReject, AcquireCheck, CloseReject,
       CloseCheck, ActivityEnd, ReleaseNext, FreeTable, TableUntrack,
       CloneReject, CloneFreeze, CompleteClone
  <2>6. QED
    BY <2>1, <2>2, <2>3, <2>4, <2>5 DEF OwnerBar
<1>3. QED
  BY <1>1, <1>2, StoreStutter

(* Every step of the table is a step of the abstract store or a stutter,   *)
(* so that whatever handle_table.h promises holds of every interleaving.   *)
THEOREM Refinement == Spec => ImplementsStore
<1>1. IndInv /\ [Next]_vars => [Store!Next]_(Store!vars)
  <2> SUFFICES ASSUME IndInv, [Next]_vars
               PROVE  Store!Next \/ UNCHANGED Store!vars
    OBVIOUS
  <2>1. CASE UNCHANGED vars
    BY <2>1, StoreStutter DEF vars, OwnerBar
  <2>2. ASSUME NEW t \in Threads, Call(t) \/ TableLock(t) \/ Continue(t)
        PROVE  Store!Next \/ UNCHANGED Store!vars
    <3>1. CASE InsertPublish(t)
      BY <3>1, PublishIsInsert DEF Store!Next
    <3>2. CASE AcquireGrant(t)
      BY <3>2, GrantIsAcquire DEF Store!Next
    <3>3. CASE LeaseRelease(t)
      BY <3>3, ReleaseIsRelease DEF Store!Next
    <3>4. CASE CloseInvalidate(t)
      BY <3>4, InvalidateIsClose DEF Store!Next
    <3>5. CASE DestroyCollect(t)
      BY <3>5, CollectIsShutdown DEF Store!Next
    <3>6. CASE DestroyObject(t)
      BY <3>6, DestroyIsReclaim DEF Store!Next
    <3>7. QED
      BY <2>2, <3>1, <3>2, <3>3, <3>4, <3>5, <3>6, OtherStepsStutter
         DEF Call, Continue
  <2>3. QED
    BY <2>1, <2>2 DEF Next, Terminated
<1>2. QED
  BY Invariance, StoreInit, <1>1, PTL DEF Spec, ImplementsStore, Store!Spec
=============================================================================
