------------------------------- MODULE Search -------------------------------
(***************************************************************************)
(* Directory searches: sl_win32_search_open, _next and _destroy of         *)
(* src/src/search.c under FindFirstFileExW, FindNextFileW and FindClose of *)
(* src/src/kernel32.c.  Several threads share a search handle; each holds  *)
(* a lease while it advances the search under its spin lock.  Other        *)
(* processes create and remove entries of the directory meanwhile.         *)
(*                                                                         *)
(* The path is opened by SearchPath and names are matched by               *)
(* WildcardMatch; here a pattern is the set of names it matches.  The      *)
(* handle table appears as HandleStore has it: a handle is open or closed, *)
(* and an object without a handle and a lease is reclaimed.                *)
(***************************************************************************)
EXTENDS Naturals, Sequences

CONSTANTS Threads, Searches,
          Entries,         \* directory entries, "." included
          Directories,     \* entry -> what getdents64 and fstatat say of it
          InitialEntries,  \* entries of the directory at the start
          Patterns,        \* sets of entries a pattern matches
          BufferRecords,   \* records that fit the getdents64 buffer
          NoSearch, NoEntry

Kinds == {"dot", "directory", "file", "unnamed", "unterminated", "truncated"}

ASSUME SearchAssumption ==
    /\ Directories \subseteq [Entries -> Kinds]
    /\ InitialEntries \subseteq Entries
    /\ Patterns \subseteq SUBSET Entries
    /\ BufferRecords \in Nat \ {0}
    /\ NoSearch \notin Searches
    /\ NoEntry \notin Entries

VARIABLES
    kind,      \* entry -> its kind, one of Directories
    present,   \* the entries now in the directory
    created,   \* every entry there ever was
    search,    \* search -> the sl_win32_search
    handle,    \* search -> "none", "open" or "closed"
    lease,     \* thread -> the search it uses
    pc,        \* thread -> where it is
    entry,     \* thread -> the record it looks at
    status,    \* thread -> result of search_next_locked
    reported,  \* search -> entries callers were given, with their counts
    failed     \* search -> entries a caller was given an I/O error for

directory == <<kind, present, created>>
vars == <<directory, search, handle, lease, pc, entry, status, reported, failed>>

IsLive(s) == search[s].life = "live"

\* What getdents64 may leave in the buffer.
Buffers == UNION {[1 .. n -> Entries] : n \in 0 .. BufferRecords}

SearchType ==
    [life : {"unused", "live", "destroyed"},
     pattern : Patterns \cup {{}}, directoriesOnly : BOOLEAN, exhausted : BOOLEAN,
     locked : BOOLEAN, offset : 0 .. BufferRecords,
     buffer : Buffers,
     read : SUBSET Entries,    \* what the kernel's directory offset is behind
     atOpen : SUBSET Entries,  \* ghost: the directory when it was opened
     ended : BOOLEAN]          \* ghost: a call has returned NO_MATCH

NewSearch(life, pattern, directoriesOnly) ==
    [life |-> life, pattern |-> pattern, directoriesOnly |-> directoriesOnly,
     exhausted |-> FALSE, locked |-> FALSE, offset |-> 0, buffer |-> <<>>,
     read |-> {}, atOpen |-> present, ended |-> FALSE]

TypeOK ==
    /\ kind \in Directories
    /\ present \subseteq created /\ created \subseteq Entries
    /\ search \in [Searches -> SearchType]
    /\ \A s \in Searches : search[s].offset <= Len(search[s].buffer)
    /\ handle \in [Searches -> {"none", "open", "closed"}]
    /\ lease \in [Threads -> Searches \cup {NoSearch}]
    /\ pc \in [Threads -> {"idle", "lock", "loop", "record", "stat", "unlock",
                           "release", "insert"}]
    /\ entry \in [Threads -> Entries \cup {NoEntry}]
    /\ status \in [Threads -> {"OK", "NO_MATCH", "IO"}]
    /\ reported \in [Searches -> [Entries -> Nat]]
    /\ failed \in [Searches -> SUBSET Entries]

Init ==
    /\ kind \in Directories
    /\ present = InitialEntries
    /\ created = InitialEntries
    /\ search = [s \in Searches |-> NewSearch("unused", {}, FALSE)]
    /\ handle = [s \in Searches |-> "none"]
    /\ lease = [t \in Threads |-> NoSearch]
    /\ pc = [t \in Threads |-> "idle"]
    /\ entry = [t \in Threads |-> NoEntry]
    /\ status = [t \in Threads |-> "OK"]
    /\ reported = [s \in Searches |-> [e \in Entries |-> 0]]
    /\ failed = [s \in Searches |-> {}]

Goto(t, where) == pc' = [pc EXCEPT ![t] = where]

-----------------------------------------------------------------------------
(* search_next_locked, by thread t on the search it holds *)

Holds(t) == search[lease[t]]

\* A call of FindNextFileW has the lock; FindFirstFileExW needs none.
IsOpening(t) == handle[lease[t]] = "none"

\* Where the function returns to, with its result.
ReturnFromNext(t, result) ==
    /\ status' = [status EXCEPT ![t] = result]
    /\ entry' = [entry EXCEPT ![t] = NoEntry]
    /\ Goto(t, IF IsOpening(t) THEN "insert" ELSE "unlock")

NextAfterExhaustion(t) ==
    /\ pc[t] = "loop"
    /\ Holds(t).exhausted
    /\ search' = [search EXCEPT ![lease[t]].ended = TRUE]
    /\ ReturnFromNext(t, "NO_MATCH")
    /\ UNCHANGED <<directory, handle, lease, reported, failed>>

IsEmpty(s) == search[s].offset = Len(search[s].buffer)

SeqsOf(S, n) ==
    {f \in UNION {[1 .. k -> S] : k \in 1 .. n} :
        \A i, j \in DOMAIN f : f[i] = f[j] => i = j}

\* The kernel hands out every entry that stays, once; of one that comes or
\* goes during the search it may hand out any.
GetDents(t) ==
    /\ pc[t] = "loop"
    /\ ~Holds(t).exhausted
    /\ IsEmpty(lease[t])
    /\ \E records \in SeqsOf(present \ Holds(t).read, BufferRecords) :
        search' = [search EXCEPT
            ![lease[t]] = [@ EXCEPT !.buffer = records, !.offset = 0,
                !.read = Holds(t).read \cup {records[i] : i \in DOMAIN records}]]
    /\ UNCHANGED <<directory, handle, lease, pc, entry, status, reported, failed>>

GetDentsFails(t) ==
    /\ pc[t] = "loop"
    /\ ~Holds(t).exhausted
    /\ IsEmpty(lease[t])
    /\ ReturnFromNext(t, "IO")
    /\ UNCHANGED <<directory, search, handle, lease, reported, failed>>

AtEnd(s) == search[s].atOpen \cap present \subseteq search[s].read

EndOfDirectory(t) ==
    /\ pc[t] = "loop"
    /\ ~Holds(t).exhausted
    /\ IsEmpty(lease[t])
    /\ AtEnd(lease[t])
    /\ search' = [search EXCEPT ![lease[t]] =
                     [@ EXCEPT !.exhausted = TRUE, !.ended = TRUE]]
    /\ ReturnFromNext(t, "NO_MATCH")
    /\ UNCHANGED <<directory, handle, lease, reported, failed>>

\* The record at the offset; one that does not fit the rest of the buffer
\* is an error and stays where it is.
ReadRecord(t) ==
    /\ pc[t] = "loop"
    /\ ~Holds(t).exhausted
    /\ ~IsEmpty(lease[t])
    /\ LET record == Holds(t).buffer[Holds(t).offset + 1]
       IN  IF kind[record] = "truncated"
           THEN ReturnFromNext(t, "IO")
           ELSE /\ entry' = [entry EXCEPT ![t] = record]
                /\ Goto(t, "record")
                /\ UNCHANGED status
    /\ UNCHANGED <<directory, search, handle, lease, reported, failed>>

\* The rest of the buffer is dropped with the record.
AdvanceOffsetMutant(t) ==
    /\ pc[t] = "record"
    /\ search' = [search EXCEPT ![lease[t]].offset = Len(Holds(t).buffer)]
    /\ \/ /\ kind[entry[t]] = "unterminated"
          /\ ReturnFromNext(t, "IO")
       \/ /\ kind[entry[t]] = "dot"
          /\ Goto(t, "loop")
          /\ UNCHANGED <<entry, status>>
       \/ /\ kind[entry[t]] \notin {"unterminated", "dot"}
          /\ Goto(t, "stat")
          /\ UNCHANGED <<entry, status>>
    /\ UNCHANGED <<directory, handle, lease, reported, failed>>

\* The offset moves behind the record, whose name is checked.
AdvanceOffset(t) ==
    /\ pc[t] = "record"
    /\ search' = [search EXCEPT ![lease[t]].offset = @ + 1]
    /\ \/ /\ kind[entry[t]] = "unterminated"
          /\ ReturnFromNext(t, "IO")
       \/ /\ kind[entry[t]] = "dot"
          /\ Goto(t, "loop")
          /\ UNCHANGED <<entry, status>>
       \/ /\ kind[entry[t]] \notin {"unterminated", "dot"}
          /\ Goto(t, "stat")
          /\ UNCHANGED <<entry, status>>
    /\ UNCHANGED <<directory, handle, lease, reported, failed>>

\* fill_find_data: the name converts and fits, matches, and has the kind.
IsWanted(s, e) ==
    /\ kind[e] # "unnamed"
    /\ e \in search[s].pattern
    /\ search[s].directoriesOnly => kind[e] = "directory"

StatFinds(t) ==
    /\ pc[t] = "stat"
    /\ entry[t] \in present
    /\ IF IsWanted(lease[t], entry[t])
       THEN /\ status' = [status EXCEPT ![t] = "OK"]
            /\ Goto(t, IF IsOpening(t) THEN "insert" ELSE "unlock")
       ELSE /\ Goto(t, "loop")
            /\ UNCHANGED status
    /\ UNCHANGED <<directory, search, handle, lease, entry, reported, failed>>

\* ENOENT: the entry is gone since getdents64.
StatFindsNothing(t) ==
    /\ pc[t] = "stat"
    /\ entry[t] \notin present
    /\ Goto(t, "loop")
    /\ UNCHANGED <<directory, search, handle, lease, entry, status, reported, failed>>

StatFails(t) ==
    /\ pc[t] = "stat"
    /\ failed' = [failed EXCEPT ![lease[t]] = @ \cup {entry[t]}]
    /\ ReturnFromNext(t, "IO")
    /\ UNCHANGED <<directory, search, handle, lease, reported>>

SearchNextLocked(t) ==
    \/ NextAfterExhaustion(t) \/ GetDents(t) \/ GetDentsFails(t)
    \/ EndOfDirectory(t) \/ ReadRecord(t) \/ AdvanceOffset(t)
    \/ StatFinds(t) \/ StatFindsNothing(t) \/ StatFails(t)

\* The caller's WIN32_FIND_DATAW is written on success only.
GiveResult(t) ==
    reported' = IF status[t] = "OK"
                THEN [reported EXCEPT ![lease[t]][entry[t]] = @ + 1]
                ELSE reported

Return(t) ==
    /\ lease' = [lease EXCEPT ![t] = NoSearch]
    /\ entry' = [entry EXCEPT ![t] = NoEntry]
    /\ status' = [status EXCEPT ![t] = "OK"]
    /\ Goto(t, "idle")

-----------------------------------------------------------------------------
(* FindFirstFileExW *)

FindFirst(t, s, pattern, directoriesOnly) ==
    /\ pc[t] = "idle"
    /\ search[s].life = "unused"
    /\ search' = [search EXCEPT ![s] = NewSearch("live", pattern, directoriesOnly)]
    /\ lease' = [lease EXCEPT ![t] = s]
    /\ Goto(t, "loop")
    /\ UNCHANGED <<directory, handle, entry, status, reported, failed>>

Destroy(s) == search' = [search EXCEPT ![s] = NewSearch("destroyed", {}, FALSE)]

\* A search without a result or a handle is forgotten.
PublishMutant(t) ==
    /\ pc[t] = "insert"
    /\ \/ /\ status[t] = "OK"
          /\ handle' = [handle EXCEPT ![lease[t]] = "open"]
          /\ GiveResult(t)
       \/ UNCHANGED <<handle, reported>>
    /\ Return(t)
    /\ UNCHANGED <<directory, search, failed>>

\* The handle is made before the caller sees the first result; without a
\* result, or if the table is full or out of memory, the search is destroyed.
Publish(t) ==
    /\ pc[t] = "insert"
    /\ \/ /\ status[t] = "OK"
          /\ handle' = [handle EXCEPT ![lease[t]] = "open"]
          /\ GiveResult(t)
          /\ UNCHANGED search
       \/ /\ Destroy(lease[t])
          /\ UNCHANGED <<handle, reported>>
    /\ Return(t)
    /\ UNCHANGED <<directory, failed>>

-----------------------------------------------------------------------------
(* FindNextFileW *)

FindNext(t, s) ==
    /\ pc[t] = "idle"
    /\ handle[s] = "open"
    /\ lease' = [lease EXCEPT ![t] = s]
    /\ Goto(t, "lock")
    /\ UNCHANGED <<directory, search, handle, entry, status, reported, failed>>

SearchLock(t) ==
    /\ pc[t] = "lock"
    /\ ~Holds(t).locked
    /\ search' = [search EXCEPT ![lease[t]].locked = TRUE]
    /\ Goto(t, "loop")
    /\ UNCHANGED <<directory, handle, lease, entry, status, reported, failed>>

\* An error leaves without unlocking.
SearchUnlockMutant(t) ==
    /\ pc[t] = "unlock"
    /\ search' = [search EXCEPT ![lease[t]].locked = (status[t] = "IO")]
    /\ Goto(t, "release")
    /\ UNCHANGED <<directory, handle, lease, entry, status, reported, failed>>

SearchUnlock(t) ==
    /\ pc[t] = "unlock"
    /\ search' = [search EXCEPT ![lease[t]].locked = FALSE]
    /\ Goto(t, "release")
    /\ UNCHANGED <<directory, handle, lease, entry, status, reported, failed>>

\* The lease goes back, then the caller gets its result.
ReleaseAndReturn(t) ==
    /\ pc[t] = "release"
    /\ GiveResult(t)
    /\ Return(t)
    /\ UNCHANGED <<directory, search, handle, failed>>

-----------------------------------------------------------------------------

FindClose(t, s) ==
    /\ pc[t] = "idle"
    /\ handle[s] = "open"
    /\ handle' = [handle EXCEPT ![s] = "closed"]
    /\ UNCHANGED <<directory, search, lease, pc, entry, status, reported, failed>>

\* The handle table destroys what nobody can use any more.
CanReclaim(s) ==
    /\ IsLive(s)
    /\ handle[s] = "closed"
    /\ \A t \in Threads : lease[t] # s

Reclaim(s) ==
    /\ CanReclaim(s)
    /\ Destroy(s)
    /\ UNCHANGED <<directory, handle, lease, pc, entry, status, reported, failed>>

\* Other host processes.
CreateEntry(e) ==
    /\ e \notin created
    /\ present' = present \cup {e}
    /\ created' = created \cup {e}
    /\ UNCHANGED <<kind, search, handle, lease, pc, entry, status, reported, failed>>

RemoveEntry(e) ==
    /\ e \in present
    /\ kind[e] # "dot"
    /\ present' = present \ {e}
    /\ UNCHANGED <<kind, created, search, handle, lease, pc, entry, status, reported, failed>>

Step(t) ==
    \/ SearchNextLocked(t)
    \/ SearchLock(t) \/ SearchUnlock(t) \/ ReleaseAndReturn(t)
    \/ Publish(t)

Next ==
    \/ \E t \in Threads : Step(t)
    \/ \E t \in Threads, s \in Searches :
        \/ FindNext(t, s)
        \/ FindClose(t, s)
        \/ \E pattern \in Patterns, only \in BOOLEAN : FindFirst(t, s, pattern, only)
    \/ \E s \in Searches : Reclaim(s)
    \/ \E e \in Entries : CreateEntry(e) \/ RemoveEntry(e)

Spec == Init /\ [][Next]_vars

\* A thread inside a call is run by the host; what it calls next is its own.
FairSpec ==
    /\ Spec
    /\ \A t \in Threads : WF_vars(Step(t))
    /\ \A s \in Searches : WF_vars(Reclaim(s))

-----------------------------------------------------------------------------

(* FindClose may run while another thread is inside FindNextFileW: the     *)
(* search it uses, its buffer and its descriptor stay until its lease is   *)
(* back.                                                                   *)
UsedSearchIsLive == \A t \in Threads : lease[t] # NoSearch => IsLive(lease[t])

(* However many threads share one search handle, search_next_locked hands  *)
(* out every directory record at most once.                                *)
ReportedAtMostOnce ==
    \A s \in Searches, e \in Entries : reported[s][e] <= 1

(* When search_next_locked has seen the end of the directory and no call   *)
(* is under way, callers were given every entry that was there all along   *)
(* and is wanted, as a result or as an error.                              *)
ExhaustedSearchIsComplete ==
    \A s \in Searches :
        IsLive(s) /\ search[s].exhausted /\ (\A t \in Threads : lease[t] # s) =>
            \A e \in search[s].atOpen \cap present :
                IsWanted(s, e) /\ kind[e] \in {"directory", "file"} =>
                    reported[s][e] = 1 \/ e \in failed[s]

(* ERROR_NO_MORE_FILES is final: once some call of search_next_locked has  *)
(* found no match, no thread reads another record of that search, even if  *)
(* the directory grows.                                                    *)
NoMoreFilesIsFinal ==
    \A t \in Threads : pc[t] \in {"record", "stat"} => ~Holds(t).ended

(* A search, with its descriptor, belongs to the call that opens it or to  *)
(* the handle table: no failed FindFirstFileExW leaves one behind.         *)
SearchesAreOwned ==
    \A s \in Searches :
        IsLive(s) /\ handle[s] = "none" => \E t \in Threads : lease[t] = s

(* Every search whose handle is closed is destroyed, because every call    *)
(* that uses it ends: the lock of search_next is always given back.        *)
ClosedSearchIsDestroyed ==
    \A s \in Searches : handle[s] = "closed" ~> search[s].life = "destroyed"

(* A search lives exactly as long as somebody may use it: FindClose does   *)
(* not destroy it under a FindNextFileW, and a failed FindFirstFileExW     *)
(* leaves none behind.                                                     *)
SearchesAreSafe == TypeOK /\ UsedSearchIsLive /\ SearchesAreOwned

(* Threads that share a search get every entry that stays once: none is    *)
(* handed out twice, none is lost between two calls, and the end is the    *)
(* end.                                                                    *)
EnumerationIsExact ==
    ReportedAtMostOnce /\ ExhaustedSearchIsComplete /\ NoMoreFilesIsFinal
=============================================================================
