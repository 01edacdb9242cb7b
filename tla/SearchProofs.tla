---------------------------- MODULE SearchProofs ----------------------------
(***************************************************************************)
(* Safety of the directory searches for every number of threads, searches  *)
(* and entries, every size of the getdents64 buffer and every pattern.     *)
(***************************************************************************)
EXTENDS Search, SearchPath, WildcardMatch,
        SequenceTheorems, WellFoundedInduction, TLAPS

(* Steps of a call, by what the call has to do with its search. *)
Iterating  == {"loop", "record", "stat", "unlock", "insert"}
Reading    == {"record", "stat"}
Shared     == {"lock", "unlock", "release"}
Delivering == {"unlock", "insert", "release"}

(* What a call has to do with the search it holds. *)
CallInv ==
    \A t \in Threads :
        /\ pc[t] = "idle" <=> lease[t] = NoSearch
        /\ pc[t] # "idle" => IsLive(lease[t])
        /\ pc[t] \in Shared => handle[lease[t]] # "none"
        /\ pc[t] = "insert" => handle[lease[t]] = "none"
        /\ pc[t] \in Iterating => handle[lease[t]] = "none" \/ Holds(t).locked
        /\ pc[t] \in Reading => ~Holds(t).exhausted /\ entry[t] # NoEntry
        /\ pc[t] = "record" => /\ ~IsEmpty(lease[t])
                               /\ entry[t] = Holds(t).buffer[Holds(t).offset + 1]
        /\ pc[t] \in Delivering /\ status[t] = "OK" => entry[t] # NoEntry

(* One thread at a time is inside search_next_locked of a search, and only *)
(* the thread that opens a search knows it before it has a handle.         *)
ExclusionInv ==
    \A t, u \in Threads :
        lease[t] = lease[u] /\ pc[t] # "idle" =>
            /\ pc[t] \in Iterating /\ pc[u] \in Iterating => t = u
            /\ handle[lease[t]] = "none" => t = u

HandleInv ==
    \A s \in Searches :
        /\ handle[s] = "open" => IsLive(s)
        /\ search[s].life = "unused" => handle[s] = "none"
        /\ IsLive(s) /\ handle[s] = "none" => \E t \in Threads : lease[t] = s

(* Entry e of search s is in the buffer, behind the offset. *)
Pending(s, e) ==
    \E i \in 1 .. Len(search[s].buffer) :
        i > search[s].offset /\ search[s].buffer[i] = e

(* Thread t has taken its entry from the buffer and may hand it out. *)
InFlight(t) ==
    \/ pc[t] = "stat"
    \/ pc[t] \in Delivering /\ status[t] = "OK"

(* The buffer holds each record once, and the end is seen after all of it. *)
BufferInv ==
    \A s \in Searches :
        /\ search[s].atOpen \subseteq created
        /\ search[s].read \subseteq created
        /\ search[s].ended => search[s].exhausted
        /\ search[s].exhausted => IsEmpty(s) /\ AtEnd(s)
        /\ \A i \in 1 .. Len(search[s].buffer) :
              /\ search[s].buffer[i] \in search[s].read
              /\ \A j \in 1 .. Len(search[s].buffer) :
                    search[s].buffer[i] = search[s].buffer[j] => i = j

(* A record is in one place: in the buffer, with one thread, or reported. *)
OnceInv ==
    /\ \A s \in Searches, e \in Entries :
          /\ reported[s][e] <= 1
          /\ search[s].life = "unused" => reported[s][e] = 0
          /\ IsLive(s) /\ reported[s][e] # 0 =>
                e \in search[s].read /\ ~Pending(s, e)
    /\ \A t \in Threads :
          InFlight(t) => /\ entry[t] \in Holds(t).read
                         /\ ~Pending(lease[t], entry[t])
                         /\ reported[lease[t]][entry[t]] = 0
    /\ \A t, u \in Threads :
          InFlight(t) /\ InFlight(u) /\ lease[t] = lease[u] /\ entry[t] = entry[u]
              => t = u

(* No record that stays and is wanted is lost on its way to a caller. *)
CompleteInv ==
    \A s \in Searches, e \in Entries :
        (/\ IsLive(s)
         /\ e \in search[s].read \cap present
         /\ IsWanted(s, e)
         /\ kind[e] \in {"directory", "file"})
        => \/ Pending(s, e)
           \/ reported[s][e] # 0
           \/ e \in failed[s]
           \/ \E t \in Threads : lease[t] = s /\ InFlight(t) /\ entry[t] = e

IndInv ==
    /\ TypeOK
    /\ CallInv
    /\ ExclusionInv
    /\ HandleInv
    /\ BufferInv
    /\ OnceInv
    /\ CompleteInv

-----------------------------------------------------------------------------
(* The fields of a search, with their types. *)
LEMMA Typing ==
  ASSUME TypeOK
  PROVE  /\ \A s \in Searches :
               /\ Len(search[s].buffer) \in Nat
               /\ Len(search[s].buffer) <= BufferRecords
               /\ search[s].offset \in Nat
               /\ search[s].offset <= Len(search[s].buffer)
               /\ search[s].read \subseteq Entries
               /\ \A i \in 1 .. Len(search[s].buffer) :
                     search[s].buffer[i] \in Entries
         /\ \A s \in Searches, e \in Entries : reported[s][e] \in Nat
         /\ \A t \in Threads : lease[t] # NoSearch => lease[t] \in Searches
         /\ \A t \in Threads : entry[t] # NoEntry => entry[t] \in Entries
         /\ present \subseteq created /\ created \subseteq Entries
<1>1. ASSUME NEW s \in Searches
      PROVE  /\ Len(search[s].buffer) \in Nat
             /\ Len(search[s].buffer) <= BufferRecords
             /\ search[s].offset \in Nat
             /\ search[s].offset <= Len(search[s].buffer)
             /\ search[s].read \subseteq Entries
             /\ \A i \in 1 .. Len(search[s].buffer) :
                   search[s].buffer[i] \in Entries
  <2>1. /\ search[s].offset \in 0 .. BufferRecords
        /\ search[s].buffer \in Buffers
        /\ search[s].read \subseteq Entries
        /\ search[s].offset <= Len(search[s].buffer)
    BY DEF TypeOK, SearchType
  <2>2. PICK n \in 0 .. BufferRecords : search[s].buffer \in [1 .. n -> Entries]
    BY <2>1 DEF Buffers
  <2>3. Len(search[s].buffer) = n
    BY <2>2, SearchAssumption
  <2>4. QED
    BY <2>1, <2>2, <2>3, SearchAssumption
<1>2. QED
  BY <1>1, SearchAssumption DEF TypeOK

(* What one call of getdents64 hands out. *)
LEMMA SeqsFacts ==
  ASSUME NEW R \in SUBSET Entries, NEW f \in SeqsOf(R, BufferRecords)
  PROVE  /\ f \in Buffers
         /\ {f[i] : i \in DOMAIN f} \subseteq R
         /\ Len(f) \in Nat /\ DOMAIN f = 1 .. Len(f)
         /\ \A i, j \in 1 .. Len(f) : f[i] = f[j] => i = j
<1>1. PICK n \in 1 .. BufferRecords : f \in [1 .. n -> R]
  BY DEF SeqsOf
<1>2. f \in [1 .. n -> Entries]
  BY <1>1
<1>3. Len(f) = n
  BY <1>1, SearchAssumption
<1>4. f \in Buffers
  BY <1>2, SearchAssumption DEF Buffers
<1>5. QED
  BY <1>1, <1>3, <1>4, SearchAssumption DEF SeqsOf

(* The changes of a search keep its type. *)
LEMMA LockedType ==
  ASSUME NEW r \in SearchType, NEW b \in BOOLEAN
  PROVE  [r EXCEPT !.locked = b] \in SearchType
BY DEF SearchType

(* A call has returned NO_MATCH. *)
LEMMA EndedType ==
  ASSUME NEW r \in SearchType
  PROVE  [r EXCEPT !.ended = TRUE] \in SearchType
BY DEF SearchType

(* The end of the directory. *)
LEMMA ExhaustedType ==
  ASSUME NEW r \in SearchType
  PROVE  [r EXCEPT !.exhausted = TRUE, !.ended = TRUE] \in SearchType
BY DEF SearchType

(* One record on. *)
LEMMA OffsetType ==
  ASSUME NEW r \in SearchType, r.offset < Len(r.buffer), Len(r.buffer) <= BufferRecords,
         Len(r.buffer) \in Nat
  PROVE  [r EXCEPT !.offset = r.offset + 1] \in SearchType
BY SearchAssumption DEF SearchType

(* A new buffer. *)
LEMMA BufferType ==
  ASSUME NEW r \in SearchType, NEW f \in Buffers, NEW R \in SUBSET Entries
  PROVE  [r EXCEPT !.buffer = f, !.offset = 0, !.read = R] \in SearchType
<1>1. 0 \in 0 .. BufferRecords
  BY SearchAssumption
<1>2. QED
  BY <1>1 DEF SearchType

(* A search that is opened or destroyed. *)
LEMMA NewType ==
  ASSUME NEW b \in BOOLEAN, NEW p \in Patterns \cup {{}},
         NEW life \in {"unused", "live", "destroyed"}, present \subseteq Entries
  PROVE  NewSearch(life, p, b) \in SearchType
<1>1. <<>> \in Buffers
  BY SearchAssumption DEF Buffers
<1>2. QED
  BY <1>1, SearchAssumption DEF SearchType, NewSearch

(* Which steps are of which kind. *)
LEMMA StepKinds ==
  /\ "idle" \notin Iterating \cup Reading \cup Shared \cup Delivering
  /\ "lock" \in Shared
  /\ "lock" \notin Iterating \cup Reading \cup Delivering
  /\ "loop" \in Iterating
  /\ "loop" \notin Reading \cup Shared \cup Delivering
  /\ "record" \in Iterating \cap Reading
  /\ "record" \notin Shared \cup Delivering
  /\ "stat" \in Iterating \cap Reading
  /\ "stat" \notin Shared \cup Delivering
  /\ "unlock" \in Iterating \cap Shared \cap Delivering
  /\ "unlock" \notin Reading
  /\ "release" \in Shared \cap Delivering
  /\ "release" \notin Iterating \cup Reading
  /\ "insert" \in Iterating \cap Delivering
  /\ "insert" \notin Reading \cup Shared
BY DEF Iterating, Reading, Shared, Delivering

(* A step that reads a record is inside search_next_locked. *)
LEMMA KindFacts == Reading \subseteq Iterating
BY DEF Reading, Iterating


(* search_next_locked returns NO_MATCH again. *)
LEMMA NextAfterExhaustionStep ==
  ASSUME IndInv, NEW t \in Threads, NEW l \in Searches,
         lease[t] = l,
         pc[t] = "loop",
         search[l].exhausted,
         search' = [search EXCEPT ![l].ended = TRUE],
         status' = [status EXCEPT ![t] = "NO_MATCH"],
         entry' = [entry EXCEPT ![t] = NoEntry],
         pc' = [pc EXCEPT ![t] = (IF handle[l] = "none" THEN "insert" ELSE "unlock")],
         UNCHANGED <<kind, present, created, handle, lease, reported, failed>>
  PROVE  IndInv'
<1> USE StepKinds, KindFacts, SearchAssumption DEF IndInv
<1>1. /\ \A s \in Searches :
            /\ search'[s].life = search[s].life
            /\ search'[s].pattern = search[s].pattern
            /\ search'[s].directoriesOnly = search[s].directoriesOnly
            /\ search'[s].exhausted = search[s].exhausted
            /\ search'[s].locked = search[s].locked
            /\ search'[s].offset = search[s].offset
            /\ search'[s].buffer = search[s].buffer
            /\ search'[s].read = search[s].read
            /\ search'[s].atOpen = search[s].atOpen
            /\ search'[s].ended <=> s = l \/ search[s].ended
      /\ \A u \in Threads :
            status'[u] = IF u = t THEN "NO_MATCH"
                         ELSE status[u]
      /\ \A u \in Threads : entry'[u] = IF u = t THEN NoEntry ELSE entry[u]
      /\ \A u \in Threads :
            pc'[u] = IF u = t THEN (IF handle[l] = "none" THEN "insert" ELSE "unlock")
                     ELSE pc[u]
  BY DEF TypeOK, SearchType
<1> USE <1>1, Typing
<1>2. TypeOK'
  <2>1. [search[l] EXCEPT !.ended = TRUE] \in SearchType
    BY EndedType DEF TypeOK
  <2>2. search' = [search EXCEPT ![l] = [search[l] EXCEPT !.ended = TRUE]]
    BY DEF TypeOK
  <2>3. search' \in [Searches -> SearchType]
    BY <2>1, <2>2 DEF TypeOK
  <2>4. \A s \in Searches : search'[s].offset <= Len(search'[s].buffer)
    BY DEF TypeOK
  <2>5. QED
    BY <2>3, <2>4 DEF TypeOK, CallInv
<1>3. CallInv'
  BY DEF CallInv, ExclusionInv, HandleInv, Holds, IsLive, IsEmpty
<1>4. ExclusionInv'
  BY DEF ExclusionInv, CallInv, HandleInv, Holds, IsLive
<1>5. HandleInv'
  BY DEF HandleInv, CallInv, ExclusionInv, IsLive
<1>6. BufferInv'
  BY DEF BufferInv, IsEmpty, AtEnd, CallInv, Holds
<1>7. OnceInv'
  BY DEF OnceInv, CallInv, ExclusionInv, HandleInv, BufferInv, IsLive, Holds,
      Pending, InFlight, IsEmpty
<1>8. CompleteInv'
  BY DEF CompleteInv, CallInv, ExclusionInv, HandleInv, BufferInv, OnceInv,
      IsLive, Holds, Pending, InFlight, IsEmpty, IsWanted
<1>9. QED
  BY <1>2, <1>3, <1>4, <1>5, <1>6, <1>7, <1>8

(* getdents64 fills the empty buffer. *)
LEMMA GetDentsStep ==
  ASSUME IndInv, NEW t \in Threads, NEW l \in Searches, NEW records \in Buffers, NEW R \in SUBSET Entries,
         lease[t] = l,
         pc[t] = "loop",
         ~search[l].exhausted,
         IsEmpty(l),
         R \subseteq present \ search[l].read,
         Len(records) \in Nat,
         \A i \in 1 .. Len(records) : records[i] \in R,
         \A i, j \in 1 .. Len(records) : records[i] = records[j] => i = j,
         \A e \in R : \E i \in 1 .. Len(records) : records[i] = e,
         search' = [search EXCEPT ![l] =
                      [@ EXCEPT !.buffer = records, !.offset = 0, !.read = search[l].read \cup R]],
         UNCHANGED <<kind, present, created, handle, lease, pc, entry, status,
                      reported, failed>>
  PROVE  IndInv'
<1> USE StepKinds, KindFacts, SearchAssumption DEF IndInv
<1>1. /\ \A s \in Searches :
            /\ search'[s].life = search[s].life
            /\ search'[s].pattern = search[s].pattern
            /\ search'[s].directoriesOnly = search[s].directoriesOnly
            /\ search'[s].exhausted = search[s].exhausted
            /\ search'[s].locked = search[s].locked
            /\ search'[s].offset = IF s = l THEN 0 ELSE search[s].offset
            /\ search'[s].buffer = IF s = l THEN records ELSE search[s].buffer
            /\ search'[s].read = IF s = l THEN search[l].read \cup R ELSE search[s].read
            /\ search'[s].atOpen = search[s].atOpen
            /\ search'[s].ended = search[s].ended
  BY DEF TypeOK, SearchType
<1> USE <1>1, Typing
<1>2. TypeOK'
  <2>1. search[l].read \cup R \in SUBSET Entries
    OBVIOUS
  <2>2. [search[l] EXCEPT !.buffer = records, !.offset = 0,
                          !.read = search[l].read \cup R] \in SearchType
    BY <2>1, BufferType DEF TypeOK
  <2>3. search' \in [Searches -> SearchType]
    BY <2>2 DEF TypeOK
  <2>4. \A s \in Searches : search'[s].offset <= Len(search'[s].buffer)
    BY DEF TypeOK
  <2>5. QED
    BY <2>3, <2>4 DEF TypeOK
<1>3. CallInv'
  BY DEF CallInv, ExclusionInv, HandleInv, Holds, IsLive, IsEmpty
<1>4. ExclusionInv'
  BY DEF ExclusionInv, CallInv, HandleInv, Holds, IsLive
<1>5. HandleInv'
  BY DEF HandleInv, CallInv, ExclusionInv, IsLive
<1>6. BufferInv'
  <2> SUFFICES ASSUME NEW s \in Searches
               PROVE  (/\ search[s].atOpen \subseteq created
                       /\ search[s].read \subseteq created
                       /\ search[s].ended => search[s].exhausted
                       /\ search[s].exhausted => IsEmpty(s) /\ AtEnd(s)
                       /\ \A i \in 1 .. Len(search[s].buffer) :
                             /\ search[s].buffer[i] \in search[s].read
                             /\ \A j \in 1 .. Len(search[s].buffer) :
                                   search[s].buffer[i] = search[s].buffer[j] => i = j)'
    BY DEF BufferInv
  <2>1. CASE s = l
    BY <2>1 DEF BufferInv
  <2>2. CASE s # l
    BY <2>2 DEF BufferInv, IsEmpty, AtEnd
  <2>3. QED
    BY <2>1, <2>2
<1>7. OnceInv'
  <2>1. \A s \in Searches \ {l}, e \in Entries : Pending(s, e)' <=> Pending(s, e)
    BY DEF Pending
  <2>2. \A e \in Entries : e \in search[l].read => ~Pending(l, e)'
    BY DEF Pending
  <2>3. \A u \in Threads : InFlight(u)' <=> InFlight(u)
    BY DEF InFlight
  <2>4. QED
    BY <2>1, <2>2, <2>3 DEF OnceInv, IsLive, Holds, CallInv, InFlight
<1>8. CompleteInv'
  BY DEF CompleteInv, CallInv, ExclusionInv, HandleInv, BufferInv, OnceInv,
      IsLive, Holds, Pending, InFlight, IsEmpty, IsWanted
<1>9. QED
  BY <1>2, <1>3, <1>4, <1>5, <1>6, <1>7, <1>8

(* getdents64 fails. *)
LEMMA GetDentsFailsStep ==
  ASSUME IndInv, NEW t \in Threads, NEW l \in Searches,
         lease[t] = l,
         pc[t] = "loop",
         ~search[l].exhausted,
         status' = [status EXCEPT ![t] = "IO"],
         entry' = [entry EXCEPT ![t] = NoEntry],
         pc' = [pc EXCEPT ![t] = (IF handle[l] = "none" THEN "insert" ELSE "unlock")],
         UNCHANGED <<kind, present, created, search, handle, lease, reported,
                      failed>>
  PROVE  IndInv'
<1> USE StepKinds, KindFacts, SearchAssumption DEF IndInv
<1>1. /\ \A u \in Threads : status'[u] = IF u = t THEN "IO" ELSE status[u]
      /\ \A u \in Threads : entry'[u] = IF u = t THEN NoEntry ELSE entry[u]
      /\ \A u \in Threads :
            pc'[u] = IF u = t THEN (IF handle[l] = "none" THEN "insert" ELSE "unlock")
                     ELSE pc[u]
  BY DEF TypeOK, SearchType
<1> USE <1>1, Typing
<1>2. TypeOK'
  BY DEF TypeOK, SearchType, CallInv
<1>3. CallInv'
  BY DEF CallInv, ExclusionInv, HandleInv, Holds, IsLive, IsEmpty
<1>4. ExclusionInv'
  BY DEF ExclusionInv, CallInv, HandleInv, Holds, IsLive
<1>5. HandleInv'
  BY DEF HandleInv, CallInv, ExclusionInv, IsLive
<1>6. BufferInv'
  BY DEF BufferInv, IsEmpty, AtEnd, CallInv, Holds
<1>7. OnceInv'
  BY DEF OnceInv, CallInv, ExclusionInv, HandleInv, BufferInv, IsLive, Holds,
      Pending, InFlight, IsEmpty
<1>8. CompleteInv'
  BY DEF CompleteInv, CallInv, ExclusionInv, HandleInv, BufferInv, OnceInv,
      IsLive, Holds, Pending, InFlight, IsEmpty, IsWanted
<1>9. QED
  BY <1>2, <1>3, <1>4, <1>5, <1>6, <1>7, <1>8

(* getdents64 reports the end of the directory. *)
LEMMA EndOfDirectoryStep ==
  ASSUME IndInv, NEW t \in Threads, NEW l \in Searches,
         lease[t] = l,
         pc[t] = "loop",
         ~search[l].exhausted,
         IsEmpty(l),
         AtEnd(l),
         search' = [search EXCEPT ![l] =
                      [@ EXCEPT !.exhausted = TRUE, !.ended = TRUE]],
         status' = [status EXCEPT ![t] = "NO_MATCH"],
         entry' = [entry EXCEPT ![t] = NoEntry],
         pc' = [pc EXCEPT ![t] = (IF handle[l] = "none" THEN "insert" ELSE "unlock")],
         UNCHANGED <<kind, present, created, handle, lease, reported, failed>>
  PROVE  IndInv'
<1> USE StepKinds, KindFacts, SearchAssumption DEF IndInv
<1>1. /\ \A s \in Searches :
            /\ search'[s].life = search[s].life
            /\ search'[s].pattern = search[s].pattern
            /\ search'[s].directoriesOnly = search[s].directoriesOnly
            /\ search'[s].exhausted <=> s = l \/ search[s].exhausted
            /\ search'[s].locked = search[s].locked
            /\ search'[s].offset = search[s].offset
            /\ search'[s].buffer = search[s].buffer
            /\ search'[s].read = search[s].read
            /\ search'[s].atOpen = search[s].atOpen
            /\ search'[s].ended <=> s = l \/ search[s].ended
      /\ \A u \in Threads :
            status'[u] = IF u = t THEN "NO_MATCH"
                         ELSE status[u]
      /\ \A u \in Threads : entry'[u] = IF u = t THEN NoEntry ELSE entry[u]
      /\ \A u \in Threads :
            pc'[u] = IF u = t THEN (IF handle[l] = "none" THEN "insert" ELSE "unlock")
                     ELSE pc[u]
  BY DEF TypeOK, SearchType
<1> USE <1>1, Typing
<1>2. TypeOK'
  <2>1. [search[l] EXCEPT !.exhausted = TRUE, !.ended = TRUE] \in SearchType
    BY ExhaustedType DEF TypeOK
  <2>2. search' = [search EXCEPT ![l] = [search[l] EXCEPT !.exhausted = TRUE, !.ended = TRUE]]
    BY DEF TypeOK
  <2>3. search' \in [Searches -> SearchType]
    BY <2>1, <2>2 DEF TypeOK
  <2>4. \A s \in Searches : search'[s].offset <= Len(search'[s].buffer)
    BY DEF TypeOK
  <2>5. QED
    BY <2>3, <2>4 DEF TypeOK, CallInv
<1>3. CallInv'
  <2> SUFFICES ASSUME NEW u \in Threads
               PROVE  (/\ pc[u] = "idle" <=> lease[u] = NoSearch
                       /\ pc[u] # "idle" => IsLive(lease[u])
                       /\ pc[u] \in Shared => handle[lease[u]] # "none"
                       /\ pc[u] = "insert" => handle[lease[u]] = "none"
                       /\ pc[u] \in Iterating =>
                             handle[lease[u]] = "none" \/ Holds(u).locked
                       /\ pc[u] \in Reading =>
                             ~Holds(u).exhausted /\ entry[u] # NoEntry
                       /\ pc[u] = "record" =>
                             /\ ~IsEmpty(lease[u])
                             /\ entry[u] = Holds(u).buffer[Holds(u).offset + 1]
                       /\ pc[u] \in Delivering /\ status[u] = "OK" =>
                             entry[u] # NoEntry)'
    BY DEF CallInv
  <2>1. CASE u = t
    BY <2>1 DEF CallInv, ExclusionInv, IsLive, Holds, IsEmpty
  <2>2. CASE u # t
    <3>1. CASE lease[u] = l
      <4>1. pc[u] \notin Iterating
        BY <2>2, <3>1 DEF ExclusionInv, CallInv
      <4>2. pc[u] \notin Reading /\ pc[u] # "record"
        BY <4>1
      <4>3. QED
        BY <2>2, <3>1, <4>1, <4>2 DEF CallInv, IsLive
    <3>2. CASE lease[u] # l
      BY <2>2, <3>2 DEF CallInv, IsLive, Holds, IsEmpty
    <3>3. QED
      BY <3>1, <3>2
  <2>3. QED
    BY <2>1, <2>2
<1>4. ExclusionInv'
  BY DEF ExclusionInv, CallInv, HandleInv, Holds, IsLive
<1>5. HandleInv'
  BY DEF HandleInv, CallInv, ExclusionInv, IsLive
<1>6. BufferInv'
  BY DEF BufferInv, IsEmpty, AtEnd, CallInv, Holds
<1>7. OnceInv'
  BY DEF OnceInv, CallInv, ExclusionInv, HandleInv, BufferInv, IsLive, Holds,
      Pending, InFlight, IsEmpty
<1>8. CompleteInv'
  BY DEF CompleteInv, CallInv, ExclusionInv, HandleInv, BufferInv, OnceInv,
      IsLive, Holds, Pending, InFlight, IsEmpty, IsWanted
<1>9. QED
  BY <1>2, <1>3, <1>4, <1>5, <1>6, <1>7, <1>8

(* The record does not fit the rest of the buffer. *)
LEMMA ReadTruncatedStep ==
  ASSUME IndInv, NEW t \in Threads, NEW l \in Searches,
         lease[t] = l,
         pc[t] = "loop",
         ~search[l].exhausted,
         status' = [status EXCEPT ![t] = "IO"],
         entry' = [entry EXCEPT ![t] = NoEntry],
         pc' = [pc EXCEPT ![t] = (IF handle[l] = "none" THEN "insert" ELSE "unlock")],
         UNCHANGED <<kind, present, created, search, handle, lease, reported,
                      failed>>
  PROVE  IndInv'
<1> USE StepKinds, KindFacts, SearchAssumption DEF IndInv
<1>1. /\ \A u \in Threads : status'[u] = IF u = t THEN "IO" ELSE status[u]
      /\ \A u \in Threads : entry'[u] = IF u = t THEN NoEntry ELSE entry[u]
      /\ \A u \in Threads :
            pc'[u] = IF u = t THEN (IF handle[l] = "none" THEN "insert" ELSE "unlock")
                     ELSE pc[u]
  BY DEF TypeOK, SearchType
<1> USE <1>1, Typing
<1>2. TypeOK'
  BY DEF TypeOK, SearchType, CallInv
<1>3. CallInv'
  BY DEF CallInv, ExclusionInv, HandleInv, Holds, IsLive, IsEmpty
<1>4. ExclusionInv'
  BY DEF ExclusionInv, CallInv, HandleInv, Holds, IsLive
<1>5. HandleInv'
  BY DEF HandleInv, CallInv, ExclusionInv, IsLive
<1>6. BufferInv'
  BY DEF BufferInv, IsEmpty, AtEnd, CallInv, Holds
<1>7. OnceInv'
  BY DEF OnceInv, CallInv, ExclusionInv, HandleInv, BufferInv, IsLive, Holds,
      Pending, InFlight, IsEmpty
<1>8. CompleteInv'
  BY DEF CompleteInv, CallInv, ExclusionInv, HandleInv, BufferInv, OnceInv,
      IsLive, Holds, Pending, InFlight, IsEmpty, IsWanted
<1>9. QED
  BY <1>2, <1>3, <1>4, <1>5, <1>6, <1>7, <1>8

(* search_next_locked looks at the record at the offset. *)
LEMMA ReadRecordStep ==
  ASSUME IndInv, NEW t \in Threads, NEW l \in Searches,
         lease[t] = l,
         pc[t] = "loop",
         ~search[l].exhausted,
         ~IsEmpty(l),
         pc' = [pc EXCEPT ![t] = "record"],
         entry' = [entry EXCEPT ![t] = search[l].buffer[search[l].offset + 1]],
         UNCHANGED <<kind, present, created, search, handle, lease, status,
                      reported, failed>>
  PROVE  IndInv'
<1> USE StepKinds, KindFacts, SearchAssumption DEF IndInv
<1>1. /\ \A u \in Threads : pc'[u] = IF u = t THEN "record" ELSE pc[u]
      /\ \A u \in Threads :
            entry'[u] = IF u = t THEN search[l].buffer[search[l].offset + 1]
                        ELSE entry[u]
  BY DEF TypeOK, SearchType
<1> USE <1>1, Typing
<1>2. TypeOK'
  <2>1. search[l].buffer[search[l].offset + 1] \in Entries
    BY DEF IsEmpty
  <2>2. QED
    BY <2>1 DEF TypeOK
<1>3. CallInv'
  BY DEF CallInv, ExclusionInv, HandleInv, Holds, IsLive, IsEmpty
<1>4. ExclusionInv'
  BY DEF ExclusionInv, CallInv, HandleInv, Holds, IsLive
<1>5. HandleInv'
  BY DEF HandleInv, CallInv, ExclusionInv, IsLive
<1>6. BufferInv'
  BY DEF BufferInv, IsEmpty, AtEnd, CallInv, Holds
<1>7. OnceInv'
  BY DEF OnceInv, CallInv, ExclusionInv, HandleInv, BufferInv, IsLive, Holds,
      Pending, InFlight, IsEmpty
<1>8. CompleteInv'
  BY DEF CompleteInv, CallInv, ExclusionInv, HandleInv, BufferInv, OnceInv,
      IsLive, Holds, Pending, InFlight, IsEmpty, IsWanted
<1>9. QED
  BY <1>2, <1>3, <1>4, <1>5, <1>6, <1>7, <1>8

(* The record has no name in its bounds. *)
LEMMA AdvanceUnterminatedStep ==
  ASSUME IndInv, NEW t \in Threads, NEW l \in Searches,
         lease[t] = l,
         pc[t] = "record",
         kind[entry[t]] = "unterminated",
         search[l].offset < Len(search[l].buffer),
         entry[t] \in Entries,
         entry[t] = search[l].buffer[search[l].offset + 1],
         search' = [search EXCEPT ![l].offset = @ + 1],
         status' = [status EXCEPT ![t] = "IO"],
         entry' = [entry EXCEPT ![t] = NoEntry],
         pc' = [pc EXCEPT ![t] = (IF handle[l] = "none" THEN "insert" ELSE "unlock")],
         UNCHANGED <<kind, present, created, handle, lease, reported, failed>>
  PROVE  IndInv'
<1> USE StepKinds, KindFacts, SearchAssumption DEF IndInv
<1>1. /\ \A s \in Searches :
            /\ search'[s].life = search[s].life
            /\ search'[s].pattern = search[s].pattern
            /\ search'[s].directoriesOnly = search[s].directoriesOnly
            /\ search'[s].exhausted = search[s].exhausted
            /\ search'[s].locked = search[s].locked
            /\ search'[s].offset = IF s = l THEN search[l].offset + 1 ELSE search[s].offset
            /\ search'[s].buffer = search[s].buffer
            /\ search'[s].read = search[s].read
            /\ search'[s].atOpen = search[s].atOpen
            /\ search'[s].ended = search[s].ended
      /\ \A u \in Threads : status'[u] = IF u = t THEN "IO" ELSE status[u]
      /\ \A u \in Threads : entry'[u] = IF u = t THEN NoEntry ELSE entry[u]
      /\ \A u \in Threads :
            pc'[u] = IF u = t THEN (IF handle[l] = "none" THEN "insert" ELSE "unlock")
                     ELSE pc[u]
  BY DEF TypeOK, SearchType
<1> USE <1>1, Typing
<1>2. TypeOK'
  <2>1. [search[l] EXCEPT !.offset = search[l].offset + 1] \in SearchType
    BY OffsetType DEF TypeOK, CallInv, IsEmpty, Holds
  <2>2. search' = [search EXCEPT ![l] = [search[l] EXCEPT !.offset = search[l].offset + 1]]
    BY DEF TypeOK
  <2>3. search' \in [Searches -> SearchType]
    BY <2>1, <2>2 DEF TypeOK
  <2>4. \A s \in Searches : search'[s].offset <= Len(search'[s].buffer)
    BY DEF TypeOK, CallInv, IsEmpty, Holds
  <2>5. QED
    BY <2>3, <2>4 DEF TypeOK, CallInv
<1>3. CallInv'
  BY DEF CallInv, ExclusionInv, HandleInv, Holds, IsLive, IsEmpty
<1>4. ExclusionInv'
  BY DEF ExclusionInv, CallInv, HandleInv, Holds, IsLive
<1>5. HandleInv'
  BY DEF HandleInv, CallInv, ExclusionInv, IsLive
<1>6. BufferInv'
  BY DEF BufferInv, IsEmpty, AtEnd, CallInv, Holds
<1>7. OnceInv'
  BY DEF OnceInv, CallInv, ExclusionInv, HandleInv, BufferInv, IsLive, Holds,
      Pending, InFlight, IsEmpty
<1>8. CompleteInv'
  BY DEF CompleteInv, CallInv, ExclusionInv, HandleInv, BufferInv, OnceInv,
      IsLive, Holds, Pending, InFlight, IsEmpty, IsWanted
<1>9. QED
  BY <1>2, <1>3, <1>4, <1>5, <1>6, <1>7, <1>8

(* The record is one of the directory itself. *)
LEMMA AdvanceDotStep ==
  ASSUME IndInv, NEW t \in Threads, NEW l \in Searches,
         lease[t] = l,
         pc[t] = "record",
         kind[entry[t]] = "dot",
         search[l].offset < Len(search[l].buffer),
         entry[t] \in Entries,
         entry[t] = search[l].buffer[search[l].offset + 1],
         search' = [search EXCEPT ![l].offset = @ + 1],
         pc' = [pc EXCEPT ![t] = "loop"],
         UNCHANGED <<kind, present, created, handle, lease, entry, status,
                      reported, failed>>
  PROVE  IndInv'
<1> USE StepKinds, KindFacts, SearchAssumption DEF IndInv
<1>1. /\ \A s \in Searches :
            /\ search'[s].life = search[s].life
            /\ search'[s].pattern = search[s].pattern
            /\ search'[s].directoriesOnly = search[s].directoriesOnly
            /\ search'[s].exhausted = search[s].exhausted
            /\ search'[s].locked = search[s].locked
            /\ search'[s].offset = IF s = l THEN search[l].offset + 1 ELSE search[s].offset
            /\ search'[s].buffer = search[s].buffer
            /\ search'[s].read = search[s].read
            /\ search'[s].atOpen = search[s].atOpen
            /\ search'[s].ended = search[s].ended
      /\ \A u \in Threads : pc'[u] = IF u = t THEN "loop" ELSE pc[u]
  BY DEF TypeOK, SearchType
<1> USE <1>1, Typing
<1>2. TypeOK'
  <2>1. [search[l] EXCEPT !.offset = search[l].offset + 1] \in SearchType
    BY OffsetType DEF TypeOK, CallInv, IsEmpty, Holds
  <2>2. search' = [search EXCEPT ![l] = [search[l] EXCEPT !.offset = search[l].offset + 1]]
    BY DEF TypeOK
  <2>3. search' \in [Searches -> SearchType]
    BY <2>1, <2>2 DEF TypeOK
  <2>4. \A s \in Searches : search'[s].offset <= Len(search'[s].buffer)
    BY DEF TypeOK, CallInv, IsEmpty, Holds
  <2>5. QED
    BY <2>3, <2>4 DEF TypeOK, CallInv
<1>3. CallInv'
  BY DEF CallInv, ExclusionInv, HandleInv, Holds, IsLive, IsEmpty
<1>4. ExclusionInv'
  BY DEF ExclusionInv, CallInv, HandleInv, Holds, IsLive
<1>5. HandleInv'
  BY DEF HandleInv, CallInv, ExclusionInv, IsLive
<1>6. BufferInv'
  BY DEF BufferInv, IsEmpty, AtEnd, CallInv, Holds
<1>7. OnceInv'
  BY DEF OnceInv, CallInv, ExclusionInv, HandleInv, BufferInv, IsLive, Holds,
      Pending, InFlight, IsEmpty
<1>8. CompleteInv'
  BY DEF CompleteInv, CallInv, ExclusionInv, HandleInv, BufferInv, OnceInv,
      IsLive, Holds, Pending, InFlight, IsEmpty, IsWanted
<1>9. QED
  BY <1>2, <1>3, <1>4, <1>5, <1>6, <1>7, <1>8

(* The offset moves behind a record with a name. *)
LEMMA AdvanceNamedStep ==
  ASSUME IndInv, NEW t \in Threads, NEW l \in Searches,
         lease[t] = l,
         pc[t] = "record",
         search[l].offset < Len(search[l].buffer),
         entry[t] \in Entries,
         entry[t] = search[l].buffer[search[l].offset + 1],
         search' = [search EXCEPT ![l].offset = @ + 1],
         pc' = [pc EXCEPT ![t] = "stat"],
         UNCHANGED <<kind, present, created, handle, lease, entry, status,
                      reported, failed>>
  PROVE  IndInv'
<1> USE StepKinds, KindFacts, SearchAssumption DEF IndInv
<1>1. /\ \A s \in Searches :
            /\ search'[s].life = search[s].life
            /\ search'[s].pattern = search[s].pattern
            /\ search'[s].directoriesOnly = search[s].directoriesOnly
            /\ search'[s].exhausted = search[s].exhausted
            /\ search'[s].locked = search[s].locked
            /\ search'[s].offset = IF s = l THEN search[l].offset + 1 ELSE search[s].offset
            /\ search'[s].buffer = search[s].buffer
            /\ search'[s].read = search[s].read
            /\ search'[s].atOpen = search[s].atOpen
            /\ search'[s].ended = search[s].ended
      /\ \A u \in Threads : pc'[u] = IF u = t THEN "stat" ELSE pc[u]
  BY DEF TypeOK, SearchType
<1> USE <1>1, Typing
<1>2. TypeOK'
  <2>1. [search[l] EXCEPT !.offset = search[l].offset + 1] \in SearchType
    BY OffsetType DEF TypeOK, CallInv, IsEmpty, Holds
  <2>2. search' = [search EXCEPT ![l] = [search[l] EXCEPT !.offset = search[l].offset + 1]]
    BY DEF TypeOK
  <2>3. search' \in [Searches -> SearchType]
    BY <2>1, <2>2 DEF TypeOK
  <2>4. \A s \in Searches : search'[s].offset <= Len(search'[s].buffer)
    BY DEF TypeOK, CallInv, IsEmpty, Holds
  <2>5. QED
    BY <2>3, <2>4 DEF TypeOK, CallInv
<1>3. CallInv'
  BY DEF CallInv, ExclusionInv, HandleInv, Holds, IsLive, IsEmpty
<1>4. ExclusionInv'
  BY DEF ExclusionInv, CallInv, HandleInv, Holds, IsLive
<1>5. HandleInv'
  BY DEF HandleInv, CallInv, ExclusionInv, IsLive
<1>6. BufferInv'
  BY DEF BufferInv, IsEmpty, AtEnd, CallInv, Holds
<1>7. OnceInv'
  <2>1. \A s \in Searches, e \in Entries : Pending(s, e)' => Pending(s, e)
    BY DEF Pending
  <2>2. Pending(l, entry[t]) /\ entry[t] \in search[l].read
    BY DEF Pending, BufferInv
  <2>3. ~Pending(l, entry[t])'
    BY DEF Pending, BufferInv
  <2>4. InFlight(t)' /\ \A u \in Threads \ {t} : InFlight(u)' <=> InFlight(u)
    BY DEF InFlight
  <2>5. reported[l][entry[t]] = 0
    BY <2>2 DEF OnceInv, CallInv
  <2>6. \A u \in Threads \ {t} : ~(InFlight(u) /\ lease[u] = l /\ entry[u] = entry[t])
    BY <2>2 DEF OnceInv
  <2>7. QED
    BY <2>1, <2>2, <2>3, <2>4, <2>5, <2>6
       DEF OnceInv, IsLive, Holds, CallInv, InFlight
<1>8. CompleteInv'
  BY DEF CompleteInv, CallInv, ExclusionInv, HandleInv, BufferInv, OnceInv,
      IsLive, Holds, Pending, InFlight, IsEmpty, IsWanted
<1>9. QED
  BY <1>2, <1>3, <1>4, <1>5, <1>6, <1>7, <1>8

(* The entry is there and wanted: the call has a result. *)
LEMMA StatWantedStep ==
  ASSUME IndInv, NEW t \in Threads, NEW l \in Searches,
         lease[t] = l,
         pc[t] = "stat",
         entry[t] \in present,
         pc' = [pc EXCEPT ![t] = (IF handle[l] = "none" THEN "insert" ELSE "unlock")],
         status' = [status EXCEPT ![t] = "OK"],
         UNCHANGED <<kind, present, created, search, handle, lease, entry,
                      reported, failed>>
  PROVE  IndInv'
<1> USE StepKinds, KindFacts, SearchAssumption DEF IndInv
<1>1. /\ \A u \in Threads :
            pc'[u] = IF u = t THEN (IF handle[l] = "none" THEN "insert" ELSE "unlock")
                     ELSE pc[u]
      /\ \A u \in Threads : status'[u] = IF u = t THEN "OK" ELSE status[u]
  BY DEF TypeOK, SearchType
<1> USE <1>1, Typing
<1>2. TypeOK'
  BY DEF TypeOK, SearchType, CallInv
<1>3. CallInv'
  BY DEF CallInv, ExclusionInv, HandleInv, Holds, IsLive, IsEmpty
<1>4. ExclusionInv'
  BY DEF ExclusionInv, CallInv, HandleInv, Holds, IsLive
<1>5. HandleInv'
  BY DEF HandleInv, CallInv, ExclusionInv, IsLive
<1>6. BufferInv'
  BY DEF BufferInv, IsEmpty, AtEnd, CallInv, Holds
<1>7. OnceInv'
  BY DEF OnceInv, CallInv, ExclusionInv, HandleInv, BufferInv, IsLive, Holds,
      Pending, InFlight, IsEmpty
<1>8. CompleteInv'
  BY DEF CompleteInv, CallInv, ExclusionInv, HandleInv, BufferInv, OnceInv,
      IsLive, Holds, Pending, InFlight, IsEmpty, IsWanted
<1>9. QED
  BY <1>2, <1>3, <1>4, <1>5, <1>6, <1>7, <1>8

(* The entry is gone, or not one that was asked for. *)
LEMMA StatUnwantedStep ==
  ASSUME IndInv, NEW t \in Threads, NEW l \in Searches,
         lease[t] = l,
         pc[t] = "stat",
         entry[t] \notin present \/ ~IsWanted(l, entry[t]),
         pc' = [pc EXCEPT ![t] = "loop"],
         UNCHANGED <<kind, present, created, search, handle, lease, entry,
                      status, reported, failed>>
  PROVE  IndInv'
<1> USE StepKinds, KindFacts, SearchAssumption DEF IndInv
<1>1. /\ \A u \in Threads : pc'[u] = IF u = t THEN "loop" ELSE pc[u]
  BY DEF TypeOK, SearchType
<1> USE <1>1, Typing
<1>2. TypeOK'
  BY DEF TypeOK, SearchType, CallInv
<1>3. CallInv'
  BY DEF CallInv, ExclusionInv, HandleInv, Holds, IsLive, IsEmpty
<1>4. ExclusionInv'
  BY DEF ExclusionInv, CallInv, HandleInv, Holds, IsLive
<1>5. HandleInv'
  BY DEF HandleInv, CallInv, ExclusionInv, IsLive
<1>6. BufferInv'
  BY DEF BufferInv, IsEmpty, AtEnd, CallInv, Holds
<1>7. OnceInv'
  BY DEF OnceInv, CallInv, ExclusionInv, HandleInv, BufferInv, IsLive, Holds,
      Pending, InFlight, IsEmpty
<1>8. CompleteInv'
  BY DEF CompleteInv, CallInv, ExclusionInv, HandleInv, BufferInv, OnceInv,
      IsLive, Holds, Pending, InFlight, IsEmpty, IsWanted
<1>9. QED
  BY <1>2, <1>3, <1>4, <1>5, <1>6, <1>7, <1>8

(* fstatat fails: the caller gets an error for the entry. *)
LEMMA StatFailsStep ==
  ASSUME IndInv, NEW t \in Threads, NEW l \in Searches,
         lease[t] = l,
         pc[t] = "stat",
         status' = [status EXCEPT ![t] = "IO"],
         entry' = [entry EXCEPT ![t] = NoEntry],
         pc' = [pc EXCEPT ![t] = (IF handle[l] = "none" THEN "insert" ELSE "unlock")],
         failed' = [failed EXCEPT ![l] = failed[l] \cup {entry[t]}],
         UNCHANGED <<kind, present, created, search, handle, lease, reported>>
  PROVE  IndInv'
<1> USE StepKinds, KindFacts, SearchAssumption DEF IndInv
<1>1. /\ \A u \in Threads : status'[u] = IF u = t THEN "IO" ELSE status[u]
      /\ \A u \in Threads : entry'[u] = IF u = t THEN NoEntry ELSE entry[u]
      /\ \A u \in Threads :
            pc'[u] = IF u = t THEN (IF handle[l] = "none" THEN "insert" ELSE "unlock")
                     ELSE pc[u]
      /\ \A s \in Searches :
            failed'[s] = IF s = l THEN failed[l] \cup {entry[t]} ELSE failed[s]
  BY DEF TypeOK, SearchType
<1> USE <1>1, Typing
<1>2. TypeOK'
  BY DEF TypeOK, SearchType, CallInv
<1>3. CallInv'
  BY DEF CallInv, ExclusionInv, HandleInv, Holds, IsLive, IsEmpty
<1>4. ExclusionInv'
  BY DEF ExclusionInv, CallInv, HandleInv, Holds, IsLive
<1>5. HandleInv'
  BY DEF HandleInv, CallInv, ExclusionInv, IsLive
<1>6. BufferInv'
  BY DEF BufferInv, IsEmpty, AtEnd, CallInv, Holds
<1>7. OnceInv'
  BY DEF OnceInv, CallInv, ExclusionInv, HandleInv, BufferInv, IsLive, Holds,
      Pending, InFlight, IsEmpty
<1>8. CompleteInv'
  BY DEF CompleteInv, CallInv, ExclusionInv, HandleInv, BufferInv, OnceInv,
      IsLive, Holds, Pending, InFlight, IsEmpty, IsWanted
<1>9. QED
  BY <1>2, <1>3, <1>4, <1>5, <1>6, <1>7, <1>8

(* FindFirstFileExW opens a search. *)
LEMMA FindFirstStep ==
  ASSUME IndInv, NEW t \in Threads, NEW l \in Searches, NEW new \in SearchType,
         pc[t] = "idle",
         search[l].life = "unused",
         new.life = "live",
         new.exhausted = FALSE,
         new.locked = FALSE,
         new.offset = 0,
         new.buffer = <<>>,
         new.read = {},
         new.atOpen = present,
         new.ended = FALSE,
         search' = [search EXCEPT ![l] = new],
         pc' = [pc EXCEPT ![t] = "loop"],
         lease' = [lease EXCEPT ![t] = l],
         UNCHANGED <<kind, present, created, handle, entry, status, reported,
                      failed>>
  PROVE  IndInv'
<1> USE StepKinds, KindFacts, SearchAssumption DEF IndInv
<1>1. /\ \A s \in Searches : search'[s] = IF s = l THEN new ELSE search[s]
      /\ \A u \in Threads : pc'[u] = IF u = t THEN "loop" ELSE pc[u]
      /\ \A u \in Threads : lease'[u] = IF u = t THEN l ELSE lease[u]
  BY DEF TypeOK, SearchType
<1> USE <1>1, Typing
<1>2. TypeOK'
  BY DEF TypeOK, SearchType, CallInv
<1>3. CallInv'
  BY DEF CallInv, ExclusionInv, HandleInv, Holds, IsLive, IsEmpty
<1>4. ExclusionInv'
  BY DEF ExclusionInv, CallInv, HandleInv, Holds, IsLive
<1>5. HandleInv'
  BY DEF HandleInv, CallInv, ExclusionInv, IsLive
<1>6. BufferInv'
  BY DEF BufferInv, IsEmpty, AtEnd, CallInv, Holds
<1>7. OnceInv'
  BY DEF OnceInv, CallInv, ExclusionInv, HandleInv, BufferInv, IsLive, Holds,
      Pending, InFlight, IsEmpty
<1>8. CompleteInv'
  BY DEF CompleteInv, CallInv, ExclusionInv, HandleInv, BufferInv, OnceInv,
      IsLive, Holds, Pending, InFlight, IsEmpty, IsWanted
<1>9. QED
  BY <1>2, <1>3, <1>4, <1>5, <1>6, <1>7, <1>8

(* FindFirstFileExW makes the handle and gives the first result. *)
LEMMA PublishOpenStep ==
  ASSUME IndInv, NEW t \in Threads, NEW l \in Searches,
         lease[t] = l,
         pc[t] = "insert",
         status[t] = "OK",
         pc' = [pc EXCEPT ![t] = "idle"],
         handle' = [handle EXCEPT ![l] = "open"],
         reported' = [reported EXCEPT ![l][entry[t]] = @ + 1],
         lease' = [lease EXCEPT ![t] = NoSearch],
         entry' = [entry EXCEPT ![t] = NoEntry],
         status' = [status EXCEPT ![t] = "OK"],
         UNCHANGED <<kind, present, created, search, failed>>
  PROVE  IndInv'
<1> USE StepKinds, KindFacts, SearchAssumption DEF IndInv
<1>1. /\ \A u \in Threads : pc'[u] = IF u = t THEN "idle" ELSE pc[u]
      /\ \A s \in Searches : handle'[s] = IF s = l THEN "open" ELSE handle[s]
      /\ \A s \in Searches, e \in Entries :
            reported'[s][e] = IF s = l /\ e = entry[t] THEN reported[s][e] + 1
                              ELSE reported[s][e]
      /\ \A u \in Threads : lease'[u] = IF u = t THEN NoSearch ELSE lease[u]
      /\ \A u \in Threads : entry'[u] = IF u = t THEN NoEntry ELSE entry[u]
      /\ \A u \in Threads : status'[u] = IF u = t THEN "OK" ELSE status[u]
  BY DEF TypeOK, SearchType
<1> USE <1>1, Typing
<1>2. TypeOK'
  BY DEF TypeOK, SearchType, CallInv
<1>3. CallInv'
  BY DEF CallInv, ExclusionInv, HandleInv, Holds, IsLive, IsEmpty
<1>4. ExclusionInv'
  BY DEF ExclusionInv, CallInv, HandleInv, Holds, IsLive
<1>5. HandleInv'
  BY DEF HandleInv, CallInv, ExclusionInv, IsLive
<1>6. BufferInv'
  BY DEF BufferInv, IsEmpty, AtEnd, CallInv, Holds
<1>7. OnceInv'
  BY DEF OnceInv, CallInv, ExclusionInv, HandleInv, BufferInv, IsLive, Holds,
      Pending, InFlight, IsEmpty
<1>8. CompleteInv'
  BY DEF CompleteInv, CallInv, ExclusionInv, HandleInv, BufferInv, OnceInv,
      IsLive, Holds, Pending, InFlight, IsEmpty, IsWanted
<1>9. QED
  BY <1>2, <1>3, <1>4, <1>5, <1>6, <1>7, <1>8

(* FindFirstFileExW destroys a search without a result or a handle. *)
LEMMA PublishDestroyStep ==
  ASSUME IndInv, NEW t \in Threads, NEW l \in Searches, NEW new \in SearchType,
         lease[t] = l,
         pc[t] = "insert",
         new.life = "destroyed",
         new.exhausted = FALSE,
         new.locked = FALSE,
         new.offset = 0,
         new.buffer = <<>>,
         new.read = {},
         new.atOpen = present,
         new.ended = FALSE,
         search' = [search EXCEPT ![l] = new],
         pc' = [pc EXCEPT ![t] = "idle"],
         lease' = [lease EXCEPT ![t] = NoSearch],
         entry' = [entry EXCEPT ![t] = NoEntry],
         status' = [status EXCEPT ![t] = "OK"],
         UNCHANGED <<kind, present, created, handle, reported, failed>>
  PROVE  IndInv'
<1> USE StepKinds, KindFacts, SearchAssumption DEF IndInv
<1>1. /\ \A s \in Searches : search'[s] = IF s = l THEN new ELSE search[s]
      /\ \A u \in Threads : pc'[u] = IF u = t THEN "idle" ELSE pc[u]
      /\ \A u \in Threads : lease'[u] = IF u = t THEN NoSearch ELSE lease[u]
      /\ \A u \in Threads : entry'[u] = IF u = t THEN NoEntry ELSE entry[u]
      /\ \A u \in Threads : status'[u] = IF u = t THEN "OK" ELSE status[u]
  BY DEF TypeOK, SearchType
<1> USE <1>1, Typing
<1>2. TypeOK'
  BY DEF TypeOK, SearchType, CallInv
<1>3. CallInv'
  BY DEF CallInv, ExclusionInv, HandleInv, Holds, IsLive, IsEmpty
<1>4. ExclusionInv'
  BY DEF ExclusionInv, CallInv, HandleInv, Holds, IsLive
<1>5. HandleInv'
  BY DEF HandleInv, CallInv, ExclusionInv, IsLive
<1>6. BufferInv'
  BY DEF BufferInv, IsEmpty, AtEnd, CallInv, Holds
<1>7. OnceInv'
  BY DEF OnceInv, CallInv, ExclusionInv, HandleInv, BufferInv, IsLive, Holds,
      Pending, InFlight, IsEmpty
<1>8. CompleteInv'
  BY DEF CompleteInv, CallInv, ExclusionInv, HandleInv, BufferInv, OnceInv,
      IsLive, Holds, Pending, InFlight, IsEmpty, IsWanted
<1>9. QED
  BY <1>2, <1>3, <1>4, <1>5, <1>6, <1>7, <1>8

(* FindNextFileW leases the search of an open handle. *)
LEMMA FindNextStep ==
  ASSUME IndInv, NEW t \in Threads, NEW l \in Searches,
         pc[t] = "idle",
         handle[l] = "open",
         pc' = [pc EXCEPT ![t] = "lock"],
         lease' = [lease EXCEPT ![t] = l],
         UNCHANGED <<kind, present, created, search, handle, entry, status,
                      reported, failed>>
  PROVE  IndInv'
<1> USE StepKinds, KindFacts, SearchAssumption DEF IndInv
<1>1. /\ \A u \in Threads : pc'[u] = IF u = t THEN "lock" ELSE pc[u]
      /\ \A u \in Threads : lease'[u] = IF u = t THEN l ELSE lease[u]
  BY DEF TypeOK, SearchType
<1> USE <1>1, Typing
<1>2. TypeOK'
  BY DEF TypeOK, SearchType, CallInv
<1>3. CallInv'
  BY DEF CallInv, ExclusionInv, HandleInv, Holds, IsLive, IsEmpty
<1>4. ExclusionInv'
  BY DEF ExclusionInv, CallInv, HandleInv, Holds, IsLive
<1>5. HandleInv'
  BY DEF HandleInv, CallInv, ExclusionInv, IsLive
<1>6. BufferInv'
  BY DEF BufferInv, IsEmpty, AtEnd, CallInv, Holds
<1>7. OnceInv'
  BY DEF OnceInv, CallInv, ExclusionInv, HandleInv, BufferInv, IsLive, Holds,
      Pending, InFlight, IsEmpty
<1>8. CompleteInv'
  BY DEF CompleteInv, CallInv, ExclusionInv, HandleInv, BufferInv, OnceInv,
      IsLive, Holds, Pending, InFlight, IsEmpty, IsWanted
<1>9. QED
  BY <1>2, <1>3, <1>4, <1>5, <1>6, <1>7, <1>8

(* FindNextFileW takes the lock of the search. *)
LEMMA SearchLockStep ==
  ASSUME IndInv, NEW t \in Threads, NEW l \in Searches,
         lease[t] = l,
         pc[t] = "lock",
         ~search[l].locked,
         search' = [search EXCEPT ![l].locked = TRUE],
         pc' = [pc EXCEPT ![t] = "loop"],
         UNCHANGED <<kind, present, created, handle, lease, entry, status,
                      reported, failed>>
  PROVE  IndInv'
<1> USE StepKinds, KindFacts, SearchAssumption DEF IndInv
<1>1. /\ \A s \in Searches :
            /\ search'[s].life = search[s].life
            /\ search'[s].pattern = search[s].pattern
            /\ search'[s].directoriesOnly = search[s].directoriesOnly
            /\ search'[s].exhausted = search[s].exhausted
            /\ search'[s].locked <=> s = l \/ search[s].locked
            /\ search'[s].offset = search[s].offset
            /\ search'[s].buffer = search[s].buffer
            /\ search'[s].read = search[s].read
            /\ search'[s].atOpen = search[s].atOpen
            /\ search'[s].ended = search[s].ended
      /\ \A u \in Threads : pc'[u] = IF u = t THEN "loop" ELSE pc[u]
  BY DEF TypeOK, SearchType
<1> USE <1>1, Typing
<1>2. TypeOK'
  <2>1. [search[l] EXCEPT !.locked = TRUE] \in SearchType
    BY LockedType DEF TypeOK
  <2>2. search' = [search EXCEPT ![l] = [search[l] EXCEPT !.locked = TRUE]]
    BY DEF TypeOK
  <2>3. search' \in [Searches -> SearchType]
    BY <2>1, <2>2 DEF TypeOK
  <2>4. \A s \in Searches : search'[s].offset <= Len(search'[s].buffer)
    BY DEF TypeOK
  <2>5. QED
    BY <2>3, <2>4 DEF TypeOK, CallInv
<1>3. CallInv'
  <2> SUFFICES ASSUME NEW u \in Threads
               PROVE  (/\ pc[u] = "idle" <=> lease[u] = NoSearch
                       /\ pc[u] # "idle" => IsLive(lease[u])
                       /\ pc[u] \in Shared => handle[lease[u]] # "none"
                       /\ pc[u] = "insert" => handle[lease[u]] = "none"
                       /\ pc[u] \in Iterating =>
                             handle[lease[u]] = "none" \/ Holds(u).locked
                       /\ pc[u] \in Reading =>
                             ~Holds(u).exhausted /\ entry[u] # NoEntry
                       /\ pc[u] = "record" =>
                             /\ ~IsEmpty(lease[u])
                             /\ entry[u] = Holds(u).buffer[Holds(u).offset + 1]
                       /\ pc[u] \in Delivering /\ status[u] = "OK" =>
                             entry[u] # NoEntry)'
    BY DEF CallInv
  <2>1. CASE u = t
    BY <2>1 DEF CallInv, IsLive, Holds
  <2>2. CASE u # t
    BY <2>2 DEF CallInv, ExclusionInv, IsLive, Holds, IsEmpty
  <2>3. QED
    BY <2>1, <2>2
<1>4. ExclusionInv'
  BY DEF ExclusionInv, CallInv, HandleInv, Holds, IsLive
<1>5. HandleInv'
  BY DEF HandleInv, CallInv, ExclusionInv, IsLive
<1>6. BufferInv'
  BY DEF BufferInv, IsEmpty, AtEnd, CallInv, Holds
<1>7. OnceInv'
  BY DEF OnceInv, CallInv, ExclusionInv, HandleInv, BufferInv, IsLive, Holds,
      Pending, InFlight, IsEmpty
<1>8. CompleteInv'
  BY DEF CompleteInv, CallInv, ExclusionInv, HandleInv, BufferInv, OnceInv,
      IsLive, Holds, Pending, InFlight, IsEmpty, IsWanted
<1>9. QED
  BY <1>2, <1>3, <1>4, <1>5, <1>6, <1>7, <1>8

(* FindNextFileW gives the lock back. *)
LEMMA SearchUnlockStep ==
  ASSUME IndInv, NEW t \in Threads, NEW l \in Searches,
         lease[t] = l,
         pc[t] = "unlock",
         search' = [search EXCEPT ![l].locked = FALSE],
         pc' = [pc EXCEPT ![t] = "release"],
         UNCHANGED <<kind, present, created, handle, lease, entry, status,
                      reported, failed>>
  PROVE  IndInv'
<1> USE StepKinds, KindFacts, SearchAssumption DEF IndInv
<1>1. /\ \A s \in Searches :
            /\ search'[s].life = search[s].life
            /\ search'[s].pattern = search[s].pattern
            /\ search'[s].directoriesOnly = search[s].directoriesOnly
            /\ search'[s].exhausted = search[s].exhausted
            /\ search'[s].locked <=> s # l /\ search[s].locked
            /\ search'[s].offset = search[s].offset
            /\ search'[s].buffer = search[s].buffer
            /\ search'[s].read = search[s].read
            /\ search'[s].atOpen = search[s].atOpen
            /\ search'[s].ended = search[s].ended
      /\ \A u \in Threads : pc'[u] = IF u = t THEN "release" ELSE pc[u]
  BY DEF TypeOK, SearchType
<1> USE <1>1, Typing
<1>2. TypeOK'
  <2>1. [search[l] EXCEPT !.locked = FALSE] \in SearchType
    BY LockedType DEF TypeOK
  <2>2. search' = [search EXCEPT ![l] = [search[l] EXCEPT !.locked = FALSE]]
    BY DEF TypeOK
  <2>3. search' \in [Searches -> SearchType]
    BY <2>1, <2>2 DEF TypeOK
  <2>4. \A s \in Searches : search'[s].offset <= Len(search'[s].buffer)
    BY DEF TypeOK
  <2>5. QED
    BY <2>3, <2>4 DEF TypeOK, CallInv
<1>3. CallInv'
  BY DEF CallInv, ExclusionInv, HandleInv, Holds, IsLive, IsEmpty
<1>4. ExclusionInv'
  BY DEF ExclusionInv, CallInv, HandleInv, Holds, IsLive
<1>5. HandleInv'
  BY DEF HandleInv, CallInv, ExclusionInv, IsLive
<1>6. BufferInv'
  BY DEF BufferInv, IsEmpty, AtEnd, CallInv, Holds
<1>7. OnceInv'
  BY DEF OnceInv, CallInv, ExclusionInv, HandleInv, BufferInv, IsLive, Holds,
      Pending, InFlight, IsEmpty
<1>8. CompleteInv'
  BY DEF CompleteInv, CallInv, ExclusionInv, HandleInv, BufferInv, OnceInv,
      IsLive, Holds, Pending, InFlight, IsEmpty, IsWanted
<1>9. QED
  BY <1>2, <1>3, <1>4, <1>5, <1>6, <1>7, <1>8

(* FindNextFileW returns with a result. *)
LEMMA ReleaseResultStep ==
  ASSUME IndInv, NEW t \in Threads, NEW l \in Searches,
         lease[t] = l,
         pc[t] = "release",
         status[t] = "OK",
         pc' = [pc EXCEPT ![t] = "idle"],
         reported' = [reported EXCEPT ![l][entry[t]] = @ + 1],
         lease' = [lease EXCEPT ![t] = NoSearch],
         entry' = [entry EXCEPT ![t] = NoEntry],
         status' = [status EXCEPT ![t] = "OK"],
         UNCHANGED <<kind, present, created, search, handle, failed>>
  PROVE  IndInv'
<1> USE StepKinds, KindFacts, SearchAssumption DEF IndInv
<1>1. /\ \A u \in Threads : pc'[u] = IF u = t THEN "idle" ELSE pc[u]
      /\ \A s \in Searches, e \in Entries :
            reported'[s][e] = IF s = l /\ e = entry[t] THEN reported[s][e] + 1
                              ELSE reported[s][e]
      /\ \A u \in Threads : lease'[u] = IF u = t THEN NoSearch ELSE lease[u]
      /\ \A u \in Threads : entry'[u] = IF u = t THEN NoEntry ELSE entry[u]
      /\ \A u \in Threads : status'[u] = IF u = t THEN "OK" ELSE status[u]
  BY DEF TypeOK, SearchType
<1> USE <1>1, Typing
<1>2. TypeOK'
  BY DEF TypeOK, SearchType, CallInv
<1>3. CallInv'
  BY DEF CallInv, ExclusionInv, HandleInv, Holds, IsLive, IsEmpty
<1>4. ExclusionInv'
  BY DEF ExclusionInv, CallInv, HandleInv, Holds, IsLive
<1>5. HandleInv'
  BY DEF HandleInv, CallInv, ExclusionInv, IsLive
<1>6. BufferInv'
  BY DEF BufferInv, IsEmpty, AtEnd, CallInv, Holds
<1>7. OnceInv'
  BY DEF OnceInv, CallInv, ExclusionInv, HandleInv, BufferInv, IsLive, Holds,
      Pending, InFlight, IsEmpty
<1>8. CompleteInv'
  BY DEF CompleteInv, CallInv, ExclusionInv, HandleInv, BufferInv, OnceInv,
      IsLive, Holds, Pending, InFlight, IsEmpty, IsWanted
<1>9. QED
  BY <1>2, <1>3, <1>4, <1>5, <1>6, <1>7, <1>8

(* FindNextFileW returns without a result. *)
LEMMA ReleaseErrorStep ==
  ASSUME IndInv, NEW t \in Threads, NEW l \in Searches,
         lease[t] = l,
         pc[t] = "release",
         status[t] # "OK",
         pc' = [pc EXCEPT ![t] = "idle"],
         lease' = [lease EXCEPT ![t] = NoSearch],
         entry' = [entry EXCEPT ![t] = NoEntry],
         status' = [status EXCEPT ![t] = "OK"],
         UNCHANGED <<kind, present, created, search, handle, reported,
                      failed>>
  PROVE  IndInv'
<1> USE StepKinds, KindFacts, SearchAssumption DEF IndInv
<1>1. /\ \A u \in Threads : pc'[u] = IF u = t THEN "idle" ELSE pc[u]
      /\ \A u \in Threads : lease'[u] = IF u = t THEN NoSearch ELSE lease[u]
      /\ \A u \in Threads : entry'[u] = IF u = t THEN NoEntry ELSE entry[u]
      /\ \A u \in Threads : status'[u] = IF u = t THEN "OK" ELSE status[u]
  BY DEF TypeOK, SearchType
<1> USE <1>1, Typing
<1>2. TypeOK'
  BY DEF TypeOK, SearchType, CallInv
<1>3. CallInv'
  BY DEF CallInv, ExclusionInv, HandleInv, Holds, IsLive, IsEmpty
<1>4. ExclusionInv'
  BY DEF ExclusionInv, CallInv, HandleInv, Holds, IsLive
<1>5. HandleInv'
  BY DEF HandleInv, CallInv, ExclusionInv, IsLive
<1>6. BufferInv'
  BY DEF BufferInv, IsEmpty, AtEnd, CallInv, Holds
<1>7. OnceInv'
  BY DEF OnceInv, CallInv, ExclusionInv, HandleInv, BufferInv, IsLive, Holds,
      Pending, InFlight, IsEmpty
<1>8. CompleteInv'
  BY DEF CompleteInv, CallInv, ExclusionInv, HandleInv, BufferInv, OnceInv,
      IsLive, Holds, Pending, InFlight, IsEmpty, IsWanted
<1>9. QED
  BY <1>2, <1>3, <1>4, <1>5, <1>6, <1>7, <1>8

(* FindClose closes the handle. *)
LEMMA FindCloseStep ==
  ASSUME IndInv, NEW l \in Searches,
         handle[l] = "open",
         handle' = [handle EXCEPT ![l] = "closed"],
         UNCHANGED <<kind, present, created, search, lease, pc, entry, status,
                      reported, failed>>
  PROVE  IndInv'
<1> USE StepKinds, KindFacts, SearchAssumption DEF IndInv
<1>1. /\ \A s \in Searches :
            handle'[s] = IF s = l THEN "closed"
                         ELSE handle[s]
  BY DEF TypeOK, SearchType
<1> USE <1>1, Typing
<1>2. TypeOK'
  BY DEF TypeOK, SearchType, CallInv
<1>3. CallInv'
  BY DEF CallInv, ExclusionInv, HandleInv, Holds, IsLive, IsEmpty
<1>4. ExclusionInv'
  BY DEF ExclusionInv, CallInv, HandleInv, Holds, IsLive
<1>5. HandleInv'
  BY DEF HandleInv, CallInv, ExclusionInv, IsLive
<1>6. BufferInv'
  BY DEF BufferInv, IsEmpty, AtEnd, CallInv, Holds
<1>7. OnceInv'
  BY DEF OnceInv, CallInv, ExclusionInv, HandleInv, BufferInv, IsLive, Holds,
      Pending, InFlight, IsEmpty
<1>8. CompleteInv'
  BY DEF CompleteInv, CallInv, ExclusionInv, HandleInv, BufferInv, OnceInv,
      IsLive, Holds, Pending, InFlight, IsEmpty, IsWanted
<1>9. QED
  BY <1>2, <1>3, <1>4, <1>5, <1>6, <1>7, <1>8

(* The handle table destroys a search nobody can use. *)
LEMMA ReclaimStep ==
  ASSUME IndInv, NEW l \in Searches, NEW new \in SearchType,
         IsLive(l),
         handle[l] = "closed",
         \A u \in Threads : lease[u] # l,
         new.life = "destroyed",
         new.exhausted = FALSE,
         new.locked = FALSE,
         new.offset = 0,
         new.buffer = <<>>,
         new.read = {},
         new.atOpen = present,
         new.ended = FALSE,
         search' = [search EXCEPT ![l] = new],
         UNCHANGED <<kind, present, created, handle, lease, pc, entry, status,
                      reported, failed>>
  PROVE  IndInv'
<1> USE StepKinds, KindFacts, SearchAssumption DEF IndInv
<1>1. /\ \A s \in Searches : search'[s] = IF s = l THEN new ELSE search[s]
  BY DEF TypeOK, SearchType
<1> USE <1>1, Typing
<1>2. TypeOK'
  BY DEF TypeOK, SearchType, CallInv
<1>3. CallInv'
  BY DEF CallInv, ExclusionInv, HandleInv, Holds, IsLive, IsEmpty
<1>4. ExclusionInv'
  BY DEF ExclusionInv, CallInv, HandleInv, Holds, IsLive
<1>5. HandleInv'
  BY DEF HandleInv, CallInv, ExclusionInv, IsLive
<1>6. BufferInv'
  BY DEF BufferInv, IsEmpty, AtEnd, CallInv, Holds
<1>7. OnceInv'
  BY DEF OnceInv, CallInv, ExclusionInv, HandleInv, BufferInv, IsLive, Holds,
      Pending, InFlight, IsEmpty
<1>8. CompleteInv'
  BY DEF CompleteInv, CallInv, ExclusionInv, HandleInv, BufferInv, OnceInv,
      IsLive, Holds, Pending, InFlight, IsEmpty, IsWanted
<1>9. QED
  BY <1>2, <1>3, <1>4, <1>5, <1>6, <1>7, <1>8

(* Another process creates an entry. *)
LEMMA CreateEntryStep ==
  ASSUME IndInv, NEW x \in Entries,
         x \notin created,
         present' = present \cup {x},
         created' = created \cup {x},
         UNCHANGED <<kind, search, handle, lease, pc, entry, status, reported,
                      failed>>
  PROVE  IndInv'
<1> USE StepKinds, KindFacts, SearchAssumption DEF IndInv
<1> USE Typing
<1>1. TypeOK'
  BY DEF TypeOK, SearchType, CallInv
<1>2. CallInv'
  BY DEF CallInv, ExclusionInv, HandleInv, Holds, IsLive, IsEmpty
<1>3. ExclusionInv'
  BY DEF ExclusionInv, CallInv, HandleInv, Holds, IsLive
<1>4. HandleInv'
  BY DEF HandleInv, CallInv, ExclusionInv, IsLive
<1>5. BufferInv'
  BY DEF BufferInv, IsEmpty, AtEnd, CallInv, Holds
<1>6. OnceInv'
  BY DEF OnceInv, CallInv, ExclusionInv, HandleInv, BufferInv, IsLive, Holds,
      Pending, InFlight, IsEmpty
<1>7. CompleteInv'
  BY DEF CompleteInv, CallInv, ExclusionInv, HandleInv, BufferInv, OnceInv,
      IsLive, Holds, Pending, InFlight, IsEmpty, IsWanted
<1>8. QED
  BY <1>1, <1>2, <1>3, <1>4, <1>5, <1>6, <1>7

(* Another process removes an entry. *)
LEMMA RemoveEntryStep ==
  ASSUME IndInv, NEW x \in Entries,
         x \in present,
         present' = present \ {x},
         UNCHANGED <<kind, created, search, handle, lease, pc, entry, status,
                      reported, failed>>
  PROVE  IndInv'
<1> USE StepKinds, KindFacts, SearchAssumption DEF IndInv
<1> USE Typing
<1>1. TypeOK'
  BY DEF TypeOK, SearchType, CallInv
<1>2. CallInv'
  BY DEF CallInv, ExclusionInv, HandleInv, Holds, IsLive, IsEmpty
<1>3. ExclusionInv'
  BY DEF ExclusionInv, CallInv, HandleInv, Holds, IsLive
<1>4. HandleInv'
  BY DEF HandleInv, CallInv, ExclusionInv, IsLive
<1>5. BufferInv'
  BY DEF BufferInv, IsEmpty, AtEnd, CallInv, Holds
<1>6. OnceInv'
  BY DEF OnceInv, CallInv, ExclusionInv, HandleInv, BufferInv, IsLive, Holds,
      Pending, InFlight, IsEmpty
<1>7. CompleteInv'
  BY DEF CompleteInv, CallInv, ExclusionInv, HandleInv, BufferInv, OnceInv,
      IsLive, Holds, Pending, InFlight, IsEmpty, IsWanted
<1>8. QED
  BY <1>1, <1>2, <1>3, <1>4, <1>5, <1>6, <1>7

-----------------------------------------------------------------------------
(* No search is open at the start. *)
LEMMA InitInd == Init => IndInv
<1> SUFFICES ASSUME Init
             PROVE  IndInv
  OBVIOUS
<1> USE StepKinds, SearchAssumption
<1>1. NewSearch("unused", {}, FALSE) \in SearchType
  BY NewType DEF Init
<1>2. PICK new \in SearchType :
         /\ search = [s \in Searches |-> new]
         /\ new.life = "unused"
         /\ new.exhausted = FALSE
         /\ new.offset = 0
         /\ new.buffer = <<>>
         /\ new.read = {}
         /\ new.atOpen = present
         /\ new.ended = FALSE
  BY <1>1 DEF Init, NewSearch
<1>3. /\ kind \in Directories
      /\ present = InitialEntries /\ created = InitialEntries
      /\ handle = [s \in Searches |-> "none"]
      /\ lease = [t \in Threads |-> NoSearch]
      /\ pc = [t \in Threads |-> "idle"]
      /\ entry = [t \in Threads |-> NoEntry]
      /\ status = [t \in Threads |-> "OK"]
      /\ reported = [s \in Searches |-> [e \in Entries |-> 0]]
      /\ failed = [s \in Searches |-> {}]
  BY DEF Init
<1>4. TypeOK
  BY <1>2, <1>3 DEF TypeOK
<1>5. CallInv /\ ExclusionInv /\ HandleInv
  BY <1>2, <1>3 DEF CallInv, ExclusionInv, HandleInv, IsLive
<1>6. BufferInv
  BY <1>2, <1>3 DEF BufferInv
<1>7. OnceInv /\ CompleteInv
  BY <1>2, <1>3 DEF OnceInv, CompleteInv, InFlight, IsLive
<1>8. QED
  BY <1>4, <1>5, <1>6, <1>7 DEF IndInv

(* A step that changes nothing keeps the invariant. *)
LEMMA StutterInd ==
  ASSUME IndInv, UNCHANGED vars
  PROVE  IndInv'
<1> USE DEF IndInv, vars, directory
<1>1. TypeOK' /\ CallInv' /\ ExclusionInv' /\ HandleInv'
  BY DEF TypeOK, CallInv, ExclusionInv, HandleInv, IsLive, Holds, IsEmpty
<1>2. BufferInv'
  BY DEF BufferInv, IsEmpty, AtEnd
<1>3. OnceInv' /\ CompleteInv'
  BY DEF OnceInv, CompleteInv, InFlight, IsLive, Holds, Pending, IsWanted
<1>4. QED
  BY <1>1, <1>2, <1>3

(* A thread inside a call holds a search. *)
LEMMA HeldSearch ==
  ASSUME IndInv, NEW t \in Threads, pc[t] # "idle"
  PROVE  lease[t] \in Searches
BY Typing DEF IndInv, CallInv

(* A search that is opened starts from nothing. *)
LEMMA OpenedFields ==
  ASSUME TypeOK, NEW l \in Searches, NEW p \in Patterns, NEW b \in BOOLEAN,
         search' = [search EXCEPT ![l] = NewSearch("live", p, b)]
  PROVE  \E new \in SearchType :
            /\ search' = [search EXCEPT ![l] = new]
            /\ new.life = "live"
            /\ new.exhausted = FALSE
            /\ new.locked = FALSE
            /\ new.offset = 0
            /\ new.buffer = <<>>
            /\ new.read = {}
            /\ new.atOpen = present
            /\ new.ended = FALSE
<1>1. NewSearch("live", p, b) \in SearchType
  BY NewType, Typing
<1>2. QED
  BY <1>1 DEF NewSearch

(* A search that is destroyed keeps nothing. *)
LEMMA DestroyedFields ==
  ASSUME TypeOK, NEW l \in Searches, Destroy(l)
  PROVE  \E new \in SearchType :
            /\ search' = [search EXCEPT ![l] = new]
            /\ new.life = "destroyed"
            /\ new.exhausted = FALSE
            /\ new.locked = FALSE
            /\ new.offset = 0
            /\ new.buffer = <<>>
            /\ new.read = {}
            /\ new.atOpen = present
            /\ new.ended = FALSE
<1>1. NewSearch("destroyed", {}, FALSE) \in SearchType
  BY NewType, Typing
<1>2. QED
  BY <1>1 DEF Destroy, NewSearch

(* Every step of a call keeps the invariant. *)
LEMMA StepInd ==
  ASSUME IndInv, NEW t \in Threads, Step(t)
  PROVE  IndInv'
<1> USE DEF Goto, directory
<1>1. pc[t] # "idle"
  BY DEF Step, SearchNextLocked, NextAfterExhaustion, GetDents, GetDentsFails,
         EndOfDirectory, ReadRecord, AdvanceOffset, StatFinds,
         StatFindsNothing, StatFails, SearchLock, SearchUnlock,
         ReleaseAndReturn, Publish
<1>2. PICK l \in Searches : lease[t] = l
  BY <1>1, HeldSearch
<1> USE <1>2 DEF Holds, IsOpening
<1>3. CASE NextAfterExhaustion(t)
  BY <1>3, NextAfterExhaustionStep DEF NextAfterExhaustion, ReturnFromNext
<1>4. CASE GetDents(t)
  <2>1. present \ search[l].read \in SUBSET Entries
    BY Typing DEF IndInv
  <2>2. PICK records \in SeqsOf(present \ search[l].read, BufferRecords) :
           search' = [search EXCEPT
             ![l] = [@ EXCEPT !.buffer = records, !.offset = 0,
                      !.read = search[l].read \cup {records[i] : i \in DOMAIN records}]]
    BY <1>4 DEF GetDents
  <2>3. /\ records \in Buffers
        /\ {records[i] : i \in DOMAIN records} \subseteq present \ search[l].read
        /\ Len(records) \in Nat /\ DOMAIN records = 1 .. Len(records)
        /\ \A i, j \in 1 .. Len(records) : records[i] = records[j] => i = j
    BY <2>1, SeqsFacts
  <2>4. PICK R \in SUBSET Entries : R = {records[i] : i \in DOMAIN records}
    BY <2>1, <2>3
  <2>5. /\ R \subseteq present \ search[l].read
        /\ \A i \in 1 .. Len(records) : records[i] \in R
        /\ \A e \in R : \E i \in 1 .. Len(records) : records[i] = e
    BY <2>3, <2>4
  <2>6. search' = [search EXCEPT ![l] = [@ EXCEPT !.buffer = records, !.offset = 0,
                                                  !.read = search[l].read \cup R]]
    BY <2>2, <2>4
  <2>7. /\ pc[t] = "loop" /\ ~search[l].exhausted /\ IsEmpty(l)
        /\ UNCHANGED <<kind, present, created, handle, lease, pc, entry, status,
                       reported, failed>>
    BY <1>4 DEF GetDents
  <2>8. QED
    BY <2>3, <2>5, <2>6, <2>7, GetDentsStep
<1>5. CASE GetDentsFails(t)
  BY <1>5, GetDentsFailsStep DEF GetDentsFails, ReturnFromNext
<1>6. CASE EndOfDirectory(t)
  BY <1>6, EndOfDirectoryStep DEF EndOfDirectory, ReturnFromNext
<1>7. CASE ReadRecord(t)
  BY <1>7, ReadTruncatedStep, ReadRecordStep DEF ReadRecord, ReturnFromNext
<1>8. CASE AdvanceOffset(t)
  <2>1. /\ search[l].offset < Len(search[l].buffer)
        /\ entry[t] \in Entries
        /\ entry[t] = search[l].buffer[search[l].offset + 1]
    BY <1>8, Typing DEF IndInv, AdvanceOffset, CallInv, IsEmpty
  <2>2. CASE kind[entry[t]] = "unterminated"
    BY <1>8, <2>1, <2>2, AdvanceUnterminatedStep
       DEF AdvanceOffset, ReturnFromNext
  <2>3. CASE kind[entry[t]] = "dot"
    BY <1>8, <2>1, <2>3, AdvanceDotStep DEF AdvanceOffset
  <2>4. CASE kind[entry[t]] \notin {"unterminated", "dot"}
    BY <1>8, <2>1, <2>4, AdvanceNamedStep DEF AdvanceOffset
  <2>5. QED
    BY <2>2, <2>3, <2>4
<1>9. CASE StatFinds(t)
  BY <1>9, StatWantedStep, StatUnwantedStep DEF StatFinds
<1>10. CASE StatFindsNothing(t)
  BY <1>10, StatUnwantedStep DEF StatFindsNothing
<1>11. CASE StatFails(t)
  BY <1>11, StatFailsStep DEF StatFails, ReturnFromNext
<1>12. CASE SearchLock(t)
  BY <1>12, SearchLockStep DEF SearchLock
<1>13. CASE SearchUnlock(t)
  BY <1>13, SearchUnlockStep DEF SearchUnlock
<1>14. CASE ReleaseAndReturn(t)
  BY <1>14, ReleaseResultStep, ReleaseErrorStep
     DEF ReleaseAndReturn, GiveResult, Return
<1>15. CASE Publish(t)
  <2>1. CASE Destroy(l) /\ UNCHANGED <<handle, reported>>
    <3>1. PICK new \in SearchType :
             /\ search' = [search EXCEPT ![l] = new]
             /\ new.life = "destroyed"
             /\ new.exhausted = FALSE
             /\ new.locked = FALSE
             /\ new.offset = 0
             /\ new.buffer = <<>>
             /\ new.read = {}
             /\ new.atOpen = present
             /\ new.ended = FALSE
      BY <2>1, DestroyedFields DEF IndInv
    <3>2. QED
      BY <1>15, <2>1, <3>1, PublishDestroyStep DEF Publish, Return
  <2>2. CASE /\ status[t] = "OK" /\ GiveResult(t) /\ UNCHANGED search
             /\ handle' = [handle EXCEPT ![l] = "open"]
    BY <1>15, <2>2, PublishOpenStep DEF Publish, GiveResult, Return
  <2>3. QED
    BY <1>15, <2>1, <2>2 DEF Publish
<1>16. QED
  BY <1>3, <1>4, <1>5, <1>6, <1>7, <1>8, <1>9, <1>10, <1>11, <1>12, <1>13,
     <1>14, <1>15 DEF Step, SearchNextLocked

(* Every step keeps the invariant. *)
LEMMA NextInd ==
  ASSUME IndInv, Next
  PROVE  IndInv'
<1> USE DEF Goto, directory
<1>1. ASSUME NEW t \in Threads, Step(t)
      PROVE  IndInv'
  BY <1>1, StepInd
<1>2. ASSUME NEW t \in Threads, NEW l \in Searches, FindNext(t, l)
      PROVE  IndInv'
  BY <1>2, FindNextStep DEF FindNext
<1>3. ASSUME NEW t \in Threads, NEW l \in Searches, FindClose(t, l)
      PROVE  IndInv'
  BY <1>3, FindCloseStep DEF FindClose
<1>4. ASSUME NEW t \in Threads, NEW l \in Searches, NEW wanted \in Patterns,
             NEW only \in BOOLEAN, FindFirst(t, l, wanted, only)
      PROVE  IndInv'
  <2>1. PICK new \in SearchType :
           /\ search' = [search EXCEPT ![l] = new]
           /\ new.life = "live"
           /\ new.exhausted = FALSE
           /\ new.locked = FALSE
           /\ new.offset = 0
           /\ new.buffer = <<>>
           /\ new.read = {}
           /\ new.atOpen = present
           /\ new.ended = FALSE
    BY <1>4, OpenedFields DEF IndInv, FindFirst
  <2>2. QED
    BY <1>4, <2>1, FindFirstStep DEF FindFirst
<1>5. ASSUME NEW l \in Searches, Reclaim(l)
      PROVE  IndInv'
  <2>1. PICK new \in SearchType :
           /\ search' = [search EXCEPT ![l] = new]
           /\ new.life = "destroyed"
           /\ new.exhausted = FALSE
           /\ new.locked = FALSE
           /\ new.offset = 0
           /\ new.buffer = <<>>
           /\ new.read = {}
           /\ new.atOpen = present
           /\ new.ended = FALSE
    BY <1>5, DestroyedFields DEF IndInv, Reclaim
  <2>2. QED
    BY <1>5, <2>1, ReclaimStep DEF Reclaim, CanReclaim
<1>6. ASSUME NEW x \in Entries, CreateEntry(x)
      PROVE  IndInv'
  BY <1>6, CreateEntryStep DEF CreateEntry
<1>7. ASSUME NEW x \in Entries, RemoveEntry(x)
      PROVE  IndInv'
  BY <1>7, RemoveEntryStep DEF RemoveEntry
<1>8. QED
  BY <1>1, <1>2, <1>3, <1>4, <1>5, <1>6, <1>7 DEF Next

(* The invariant holds in every state the searches can reach. *)
THEOREM InductiveInvariant == Spec => []IndInv
<1>1. IndInv /\ [Next]_vars => IndInv'
  BY NextInd, StutterInd
<1>2. QED
  BY InitInd, <1>1, PTL DEF Spec

-----------------------------------------------------------------------------
(* A search lives exactly as long as somebody may use it: FindClose never  *)
(* destroys it under a FindNextFileW of another thread, and a failed       *)
(* FindFirstFileExW leaves none behind.                                    *)
THEOREM SafeSearches == Spec => []SearchesAreSafe
<1>1. IndInv => SearchesAreSafe
  BY DEF IndInv, CallInv, HandleInv, SearchesAreSafe, UsedSearchIsLive,
         SearchesAreOwned
<1>2. QED
  BY <1>1, InductiveInvariant, PTL

(* Threads that share a search get every entry that stays exactly once: no *)
(* record is handed out twice or lost between two calls, and after         *)
(* ERROR_NO_MORE_FILES no thread reads another one.                        *)
THEOREM ExactEnumeration == Spec => []EnumerationIsExact
<1>1. IndInv => ReportedAtMostOnce
  BY DEF IndInv, OnceInv, ReportedAtMostOnce
<1>2. IndInv => ExhaustedSearchIsComplete
  <2> SUFFICES ASSUME IndInv, NEW s \in Searches, IsLive(s), search[s].exhausted,
                      \A t \in Threads : lease[t] # s,
                      NEW e \in search[s].atOpen \cap present, IsWanted(s, e),
                      kind[e] \in {"directory", "file"}
               PROVE  reported[s][e] = 1 \/ e \in failed[s]
    BY DEF ExhaustedSearchIsComplete
  <2>1. e \in search[s].read /\ e \in Entries
    BY Typing DEF IndInv, BufferInv, AtEnd
  <2>2. ~Pending(s, e)
    BY Typing DEF IndInv, BufferInv, IsEmpty, Pending
  <2>3. reported[s][e] # 0 \/ e \in failed[s]
    BY <2>1, <2>2 DEF IndInv, CompleteInv
  <2>4. QED
    BY <2>1, <2>3, Typing DEF IndInv, OnceInv
<1>3. IndInv => NoMoreFilesIsFinal
  BY StepKinds, HeldSearch
     DEF IndInv, CallInv, BufferInv, Holds, NoMoreFilesIsFinal
<1>4. IndInv => EnumerationIsExact
  BY <1>1, <1>2, <1>3 DEF EnumerationIsExact
<1>5. QED
  BY <1>4, InductiveInvariant, PTL

----------------------------------------------------------------------------
(***************************************************************************)
(* Safety of the walk to the directory of a pattern (SearchPath), for every *)
(* tree of directories, every path and every number of moves.              *)
(***************************************************************************)
LEMMA SmallestExists ==
  ASSUME NEW S \in SUBSET Nat, S # {}
  PROVE  \E x \in S : \A y \in S : x <= y
<1>1. PICK x \in S : \A y \in S : <<y, x>> \notin OpToRel(<, Nat)
  BY NatLessThanWellFounded, WFMin
<1>2. \A y \in S : ~(y < x)
  BY <1>1 DEF OpToRel
<1>3. QED
  BY <1>2

(* Induction over the naturals, for a set. *)
LEMMA Induction ==
  ASSUME NEW S, 0 \in S, \A n \in Nat : n \in S => n + 1 \in S
  PROVE  \A n \in Nat : n \in S
<1> DEFINE Bad == Nat \ S
<1> SUFFICES ASSUME Bad # {} PROVE FALSE
  OBVIOUS
<1>1. PICK m \in Bad : \A k \in Bad : m <= k
  BY SmallestExists
<1>2. m \in Nat /\ m # 0
  OBVIOUS
<1>3. m - 1 \in Nat /\ (m - 1) + 1 = m
  BY <1>2
<1>4. m - 1 \in S
  BY <1>1, <1>3
<1>5. QED
  BY <1>3, <1>4

(* f carries x through n steps of a loop: g says what step k makes of it.  *)
Carries(n, x, g, f) == f[0] = x /\ \A k \in 1 .. n : f[k] = g[<<k, f[k - 1]>>]

LEMMA Iteration ==
  ASSUME NEW n \in Nat, NEW S, NEW x \in S, NEW g \in [(1 .. n) \X S -> S]
  PROVE  \E f \in [0 .. n -> S] : Carries(n, x, g, f)
<1> DEFINE Runs(m, f) == f[0] = x /\ \A k \in 1 .. m : f[k] = g[<<k, f[k - 1]>>]
           Done == {m \in Nat : m <= n => \E f \in [0 .. m -> S] : Runs(m, f)}
<1>1. 0 \in Done
  <2>1. [k \in 0 .. 0 |-> x] \in [0 .. 0 -> S] /\ Runs(0, [k \in 0 .. 0 |-> x])
    OBVIOUS
  <2>2. QED
    BY <2>1
<1>2. ASSUME NEW m \in Nat, m \in Done PROVE m + 1 \in Done
  <2> SUFFICES ASSUME m + 1 <= n
               PROVE  \E f \in [0 .. m + 1 -> S] : Runs(m + 1, f)
    OBVIOUS
  <2>1. PICK f \in [0 .. m -> S] : Runs(m, f)
    BY <1>2
  <2> DEFINE next == g[<<m + 1, f[m]>>]
             h == [k \in 0 .. m + 1 |-> IF k <= m THEN f[k] ELSE next]
  <2>2. next \in S
    OBVIOUS
  <2>3. h \in [0 .. m + 1 -> S]
    BY <2>2
  <2>4. h[0] = x
    BY <2>1
  <2>5. ASSUME NEW k \in 1 .. m + 1 PROVE h[k] = g[<<k, h[k - 1]>>]
    <3>1. CASE k <= m
      <4>1. h[k] = f[k] /\ h[k - 1] = f[k - 1]
        BY <3>1
      <4>2. f[k] = g[<<k, f[k - 1]>>]
        BY <2>1, <3>1
      <4>3. QED
        BY <4>1, <4>2
    <3>2. CASE k = m + 1
      <4>1. ~(m + 1 <= m) /\ (m + 1) - 1 = m /\ m <= m
        OBVIOUS
      <4>2. h[m + 1] = next /\ h[m] = f[m]
        BY <4>1
      <4>3. QED
        BY <3>2, <4>1, <4>2
    <3>3. QED
      BY <3>1, <3>2
  <2>6. QED
    BY <2>3, <2>4, <2>5
<1> HIDE DEF Done
<1>3. n \in Done
  BY <1>1, <1>2, Induction
<1>4. QED
  BY <1>3 DEF Done, Carries

LEMMA FrontIs ==
    ASSUME NEW S, NEW s \in Seq(S), s # <<>>
    PROVE  /\ Len(s) \in Nat \ {0}
           /\ Front(s) \in Seq(S)
           /\ Len(Front(s)) = Len(s) - 1
           /\ \A j \in 1 .. Len(s) - 1 : s[j] = Front(s)[j]
<1>1. Len(s) \in Nat \ {0}
  BY EmptySeq
<1>2. PICK n \in Nat : n = Len(s) - 1
  BY <1>1
<1>3. \A i \in 1 .. n : s[i] \in S
  BY <1>1, <1>2
<1>4. /\ SubSeq(s, 1, n) \in Seq(S)
      /\ Len(SubSeq(s, 1, n)) = IF 1 <= n THEN n - 1 + 1 ELSE 0
      /\ \A i \in 1 .. n - 1 + 1 : SubSeq(s, 1, n)[i] = s[1 + i - 1]
  BY <1>2, <1>3, SubSeqProperties
<1>5. Len(SubSeq(s, 1, n)) = n /\ \A i \in 1 .. n : SubSeq(s, 1, n)[i] = s[i]
  BY <1>2, <1>4
<1>6. Front(s) = SubSeq(s, 1, n)
  BY <1>2 DEF Front
<1>7. QED
  BY <1>1, <1>2, <1>4, <1>5, <1>6

(* normalize_pattern *)

Plain == {"", ".", ".."} \cup Names \cup Wildcards
Outcomes == [status : {"OK", "INVALID_PATH"}, directory : Seq(Names)]

(* A path whose components pass the tests before the loop. *)
IsPlain(p) == p \in Seq(Plain) /\ p # <<>>

LEMMA KeepComponentType ==
    ASSUME NEW so \in Outcomes, NEW c \in Plain
    PROVE  /\ KeepComponent(so, c) \in Outcomes
           /\ Len(KeepComponent(so, c).directory) <= Len(so.directory) + 1
<1> DEFINE d == so.directory
<1>1. d \in Seq(Names) /\ Len(d) \in Nat /\ so.status \in {"OK", "INVALID_PATH"}
  BY DEF Outcomes
<1>2. d # <<>> => Front(d) \in Seq(Names) /\ Len(Front(d)) = Len(d) - 1
  BY <1>1 DEF Front
<1>3. c \in Names => Append(d, c) \in Seq(Names) /\ Len(Append(d, c)) = Len(d) + 1
  BY <1>1
<1>4. c \in {"", ".", ".."} \/ c \in Wildcards \/ c \in Names
  BY DEF Plain
<1>5. Refusal("INVALID_PATH") \in Outcomes /\ Len(Refusal("INVALID_PATH").directory) = 0
  BY DEF Refusal, Outcomes
<1>6. CASE so.status # "OK" \/ c \in {"", "."}
  <2>1. KeepComponent(so, c) = so
    BY <1>6 DEF KeepComponent
  <2>2. QED
    BY <1>1, <2>1
<1>7. CASE ~(so.status # "OK" \/ c \in {"", "."}) /\ c = ".."
  <2>1. CASE d = <<>>
    BY <1>1, <1>5, <1>7, <2>1 DEF KeepComponent
  <2>2. CASE d # <<>>
    <3>1. KeepComponent(so, c) = [so EXCEPT !.directory = Front(d)]
      BY <1>7, <2>2 DEF KeepComponent
    <3>2. QED
      BY <1>1, <1>2, <2>2, <3>1 DEF Outcomes
  <2>3. QED
    BY <2>1, <2>2
<1>8. CASE ~(so.status # "OK" \/ c \in {"", "."}) /\ c # ".."
  <2>1. CASE c \in Wildcards
    <3>1. KeepComponent(so, c) = Refusal("INVALID_PATH")
      BY <1>8, <2>1 DEF KeepComponent
    <3>2. QED
      BY <1>1, <1>5, <3>1
  <2>2. CASE c \notin Wildcards
    <3>1. c \in Names /\ KeepComponent(so, c) = [so EXCEPT !.directory = Append(d, c)]
      BY <1>4, <1>8, <2>2 DEF KeepComponent
    <3>2. [so EXCEPT !.directory = Append(d, c)] \in Outcomes
      BY <1>1, <1>3, <3>1 DEF Outcomes
    <3>3. QED
      BY <1>1, <1>3, <3>1, <3>2 DEF Outcomes
  <2>3. QED
    BY <2>1, <2>2
<1>9. QED
  BY <1>6, <1>7, <1>8

(* The loop of normalize_pattern, one turn per component. *)
LEMMA NormalizedIs ==
    ASSUME NEW p, IsPlain(p)
    PROVE  /\ Normalized(p) \in [0 .. Len(p) - 1 -> Outcomes]
           /\ Normalized(p)[0] = [status |-> "OK", directory |-> <<>>]
           /\ \A k \in 1 .. Len(p) - 1 :
                 Normalized(p)[k] = KeepComponent(Normalized(p)[k - 1], p[k])
<1> DEFINE n == Len(p) - 1
           first == [status |-> "OK", directory |-> <<>>]
           Body(f) == [k \in 0 .. n |-> IF k = 0 THEN first
                                        ELSE KeepComponent(f[k - 1], p[k])]
           g == [s \in (1 .. n) \X Outcomes |-> KeepComponent(s[2], p[s[1]])]
<1>1. n \in Nat /\ first \in Outcomes /\ \A k \in 1 .. n : p[k] \in Plain
  BY DEF IsPlain, Outcomes
<1>2. g \in [(1 .. n) \X Outcomes -> Outcomes]
  <2>1. ASSUME NEW s \in (1 .. n) \X Outcomes
        PROVE  KeepComponent(s[2], p[s[1]]) \in Outcomes
    <3>1. s[1] \in 1 .. n /\ s[2] \in Outcomes
      OBVIOUS
    <3> HIDE DEF n
    <3>2. QED
      BY <1>1, <3>1, KeepComponentType
  <2>2. QED
    BY <2>1
<1> HIDE DEF n, first, g
<1>3. PICK f \in [0 .. n -> Outcomes] : Carries(n, first, g, f)
  <2>1. n \in Nat /\ first \in Outcomes
    BY <1>1
  <2>2. QED
    BY <1>2, <2>1, Iteration
<1>4. \A k \in 1 .. n : f[k] = KeepComponent(f[k - 1], p[k])
  <2> SUFFICES ASSUME NEW k \in 1 .. n PROVE f[k] = KeepComponent(f[k - 1], p[k])
    OBVIOUS
  <2>1. k - 1 \in 0 .. n
    BY <1>1
  <2>2. <<k, f[k - 1]>> \in (1 .. n) \X Outcomes
    BY <2>1
  <2>3. QED
    BY <1>3, <2>2 DEF g, Carries
<1>5. f = Body(f)
  <2>1. \A k \in 0 .. n : f[k] = Body(f)[k]
    BY <1>1, <1>3, <1>4 DEF Carries
  <2>2. QED
    BY <2>1
<1>6. Normalized(p) = CHOOSE h : h = Body(h)
  BY DEF Normalized, n, first
<1> DEFINE out == Normalized(p)
<1>7. out = Body(out)
  BY <1>5, <1>6
<1> HIDE DEF out
<1>8. /\ out = [k \in 0 .. n |-> out[k]]
      /\ out[0] = first
      /\ \A k \in 1 .. n : out[k] = KeepComponent(out[k - 1], p[k])
  BY <1>1, <1>7
<1>9. \A k \in 0 .. n : out[k] = f[k]
  <2> DEFINE Same == {k \in Nat : k <= n => out[k] = f[k]}
  <2>1. 0 \in Same
    BY <1>3, <1>8 DEF Carries
  <2>2. ASSUME NEW k \in Nat, k \in Same PROVE k + 1 \in Same
    <3> SUFFICES ASSUME k + 1 <= n PROVE out[k + 1] = f[k + 1]
      OBVIOUS
    <3>1. k + 1 \in 1 .. n /\ (k + 1) - 1 = k
      BY <1>1
    <3>2. out[k] = f[k]
      BY <1>1, <2>2
    <3>3. QED
      BY <1>4, <1>8, <3>1, <3>2
  <2> HIDE DEF Same
  <2>3. \A k \in Nat : k \in Same
    BY <2>1, <2>2, Induction
  <2>4. QED
    BY <1>1, <2>3 DEF Same
<1>10. out \in [0 .. n -> Outcomes]
  BY <1>8, <1>9
<1>11. QED
  BY <1>8, <1>10 DEF out, n, first

(* The host *)

HostInv == at \in [HostDirectories -> Inside \X Names]

LEMMA OpenAtIs ==
    ASSUME NEW node, NEW called, OpenAt(node, called) # NoNode
    PROVE  /\ OpenAt(node, called) \in HostDirectories
           /\ at[OpenAt(node, called)] = <<node, called>>
  BY DEF OpenAt, SubdirectoriesAt

LEMMA HostStepType ==
    ASSUME HostInv, NEW node \in Nodes \cup {NoNode}, NEW c
    PROVE  HostStep(node, c) \in Nodes \cup {NoNode}
<1>1. CASE node \in {NoNode, Outside} \/ c \in {"", "."}
  BY <1>1 DEF HostStep
<1>2. CASE ~(node \in {NoNode, Outside} \/ c \in {"", "."}) /\ c = ".."
  <2>1. node # Root => at[node] \in Inside \X Names
    BY <1>2 DEF HostInv, Nodes, Inside
  <2>2. node # Root => at[node][1] \in Inside
    BY <2>1
  <2>3. HostStep(node, c) = IF node = Root THEN Outside ELSE at[node][1]
    BY <1>2 DEF HostStep
  <2>4. QED
    BY <2>2, <2>3 DEF Nodes
<1>3. CASE ~(node \in {NoNode, Outside} \/ c \in {"", "."}) /\ c # ".."
  <2>1. HostStep(node, c) = OpenAt(node, c)
    BY <1>3 DEF HostStep
  <2>2. QED
    BY <2>1, OpenAtIs DEF Nodes, Inside
<1>4. QED
  BY <1>1, <1>2, <1>3

(* The host's walk of the written components, one step per component. *)
LEMMA WrittenIs ==
    ASSUME HostInv, Len(path) \in Nat \ {0}
    PROVE  /\ Written \in [0 .. Len(path) - 1 -> Nodes \cup {NoNode}]
           /\ Written[0] = Root
           /\ \A k \in 1 .. Len(path) - 1 :
                 Written[k] = HostStep(Written[k - 1], path[k])
<1> DEFINE n == Len(path) - 1
           S == Nodes \cup {NoNode}
           Body(f) == [k \in 0 .. n |-> IF k = 0 THEN Root
                                        ELSE HostStep(f[k - 1], path[k])]
           g == [s \in (1 .. n) \X S |-> HostStep(s[2], path[s[1]])]
<1>1. n \in Nat /\ Root \in S
  BY DEF Nodes, Inside
<1>2. g \in [(1 .. n) \X S -> S]
  <2>1. ASSUME NEW s \in (1 .. n) \X S
        PROVE  HostStep(s[2], path[s[1]]) \in S
    <3>1. s[2] \in S
      OBVIOUS
    <3>2. QED
      BY <3>1, HostStepType
  <2>2. QED
    BY <2>1
<1> HIDE DEF n, g, S
<1>3. PICK f \in [0 .. n -> S] : Carries(n, Root, g, f)
  BY <1>1, <1>2, Iteration
<1>4. \A k \in 1 .. n : f[k] = HostStep(f[k - 1], path[k])
  <2> SUFFICES ASSUME NEW k \in 1 .. n PROVE f[k] = HostStep(f[k - 1], path[k])
    OBVIOUS
  <2>1. k - 1 \in 0 .. n
    BY <1>1
  <2>2. <<k, f[k - 1]>> \in (1 .. n) \X S
    BY <2>1
  <2>3. QED
    BY <1>3, <2>2 DEF g, Carries
<1>5. f = Body(f)
  <2>1. \A k \in 0 .. n : f[k] = Body(f)[k]
    BY <1>1, <1>3, <1>4 DEF Carries
  <2>2. QED
    BY <2>1
<1>6. Written = CHOOSE h : h = Body(h)
  BY DEF Written, n
<1> DEFINE out == Written
<1>7. out = Body(out)
  BY <1>5, <1>6
<1> HIDE DEF out
<1>8. /\ out = [k \in 0 .. n |-> out[k]]
      /\ out[0] = Root
      /\ \A k \in 1 .. n : out[k] = HostStep(out[k - 1], path[k])
  BY <1>1, <1>7
<1>9. \A k \in 0 .. n : out[k] = f[k]
  <2> DEFINE Same == {k \in Nat : k <= n => out[k] = f[k]}
  <2>1. 0 \in Same
    BY <1>3, <1>8 DEF Carries
  <2>2. ASSUME NEW k \in Nat, k \in Same PROVE k + 1 \in Same
    <3> SUFFICES ASSUME k + 1 <= n PROVE out[k + 1] = f[k + 1]
      OBVIOUS
    <3>1. k + 1 \in 1 .. n /\ (k + 1) - 1 = k
      BY <1>1
    <3>2. out[k] = f[k]
      BY <1>1, <2>2
    <3>3. QED
      BY <1>4, <1>8, <3>1, <3>2
  <2> HIDE DEF Same
  <2>3. \A k \in Nat : k \in Same
    BY <2>1, <2>2, Induction
  <2>4. QED
    BY <1>1, <2>3 DEF Same
<1>10. out \in [0 .. n -> S]
  BY <1>8, <1>9
<1>11. QED
  BY <1>8, <1>10 DEF out, n, S

(* The first n names of d, opened one by one from the root, lead to node. *)
Chain(d, n, node, c) ==
    /\ c \in [0 .. n -> Inside]
    /\ c[0] = Root /\ c[n] = node
    /\ \A j \in 1 .. n : c[j] = OpenAt(c[j - 1], d[j])
Reaches(d, n, node) == \E c : Chain(d, n, node, c)

LEMMA ReachesRoot ==
    ASSUME NEW d PROVE Reaches(d, 0, Root)
<1>1. Chain(d, 0, Root, [j \in 0 .. 0 |-> Root])
  BY DEF Chain, Inside
<1>2. QED
  BY <1>1 DEF Reaches

LEMMA ReachesOnlyRoot ==
    ASSUME NEW d, NEW node, Reaches(d, 0, node) PROVE node = Root
  BY DEF Reaches, Chain

LEMMA ReachesInside ==
    ASSUME NEW d, NEW n \in Nat, NEW node, Reaches(d, n, node)
    PROVE  node \in Inside /\ node # NoNode /\ node # Outside
  BY SearchPathAssumption DEF Reaches, Chain

(* One openat further. *)
LEMMA ReachesNext ==
    ASSUME NEW d, NEW n \in Nat, NEW node, Reaches(d, n, node),
           OpenAt(node, d[n + 1]) # NoNode
    PROVE  Reaches(d, n + 1, OpenAt(node, d[n + 1]))
<1> DEFINE next == OpenAt(node, d[n + 1])
<1>1. PICK c : Chain(d, n, node, c)
  BY DEF Reaches
<1>2. next \in Inside
  BY OpenAtIs DEF Inside
<1> HIDE DEF next
<1> DEFINE e == [j \in 0 .. n + 1 |-> IF j <= n THEN c[j] ELSE next]
<1>3. /\ c \in [0 .. n -> Inside] /\ c[0] = Root /\ c[n] = node
      /\ \A j \in 1 .. n : c[j] = OpenAt(c[j - 1], d[j])
  BY <1>1 DEF Chain
<1>4. e \in [0 .. n + 1 -> Inside] /\ e[0] = Root /\ e[n + 1] = next
  BY <1>2, <1>3
<1>5. ASSUME NEW j \in 1 .. n + 1 PROVE e[j] = OpenAt(e[j - 1], d[j])
  <2>1. CASE j <= n
    <3>1. j \in 1 .. n /\ e[j] = c[j] /\ e[j - 1] = c[j - 1]
      BY <2>1
    <3>2. QED
      BY <1>3, <3>1
  <2>2. CASE ~(j <= n)
    <3>1. j = n + 1 /\ j - 1 = n /\ n \in 0 .. n + 1
      BY <2>2
    <3>2. e[n + 1] = next /\ e[n] = node
      BY <1>3, <3>1
    <3>3. QED
      BY <3>1, <3>2 DEF next
  <2>3. QED
    BY <2>1, <2>2
<1> HIDE DEF e
<1>6. Chain(d, n + 1, next, e)
  BY <1>4, <1>5 DEF Chain
<1>7. QED
  BY <1>6 DEF Reaches, next

(* One openat back: the parent of what the last one opened. *)
LEMMA ReachesParent ==
    ASSUME NEW d, NEW n \in Nat \ {0}, NEW node, Reaches(d, n, node)
    PROVE  /\ node \in HostDirectories
           /\ Reaches(d, n - 1, at[node][1])
<1>1. PICK c : Chain(d, n, node, c)
  BY DEF Reaches
<1>2. /\ c \in [0 .. n -> Inside] /\ c[0] = Root /\ c[n] = node
      /\ \A j \in 1 .. n : c[j] = OpenAt(c[j - 1], d[j])
  BY <1>1 DEF Chain
<1>3. node = OpenAt(c[n - 1], d[n]) /\ node # NoNode
  BY <1>2, SearchPathAssumption
<1>4. node \in HostDirectories /\ at[node] = <<c[n - 1], d[n]>>
  BY <1>3, OpenAtIs
<1> DEFINE e == [j \in 0 .. n - 1 |-> c[j]]
<1>5. /\ e \in [0 .. n - 1 -> Inside] /\ e[0] = Root /\ e[n - 1] = c[n - 1]
      /\ \A j \in 1 .. n - 1 : e[j] = OpenAt(e[j - 1], d[j])
  BY <1>2
<1> HIDE DEF e
<1>6. Chain(d, n - 1, c[n - 1], e)
  BY <1>5 DEF Chain
<1>7. QED
  BY <1>4, <1>6 DEF Reaches

(* Where names lead depends on nothing but these names. *)
LEMMA ReachesSame ==
    ASSUME NEW d, NEW e, NEW n \in Nat, NEW node, Reaches(d, n, node),
           \A j \in 1 .. n : d[j] = e[j]
    PROVE  Reaches(e, n, node)
  BY DEF Reaches, Chain

(* It is one directory. *)
LEMMA ReachesOne ==
    ASSUME NEW d, NEW n \in Nat, NEW node, NEW other,
           Reaches(d, n, node), Reaches(d, n, other)
    PROVE  node = other
<1>1. PICK c : Chain(d, n, node, c)
  BY DEF Reaches
<1>2. PICK e : Chain(d, n, other, e)
  BY DEF Reaches
<1> DEFINE Same == {j \in Nat : j <= n => c[j] = e[j]}
<1>3. 0 \in Same
  BY <1>1, <1>2 DEF Chain
<1>4. ASSUME NEW j \in Nat, j \in Same PROVE j + 1 \in Same
  <2> SUFFICES ASSUME j + 1 <= n PROVE c[j + 1] = e[j + 1]
    OBVIOUS
  <2>1. j + 1 \in 1 .. n /\ (j + 1) - 1 = j /\ c[j] = e[j]
    BY <1>4
  <2>2. QED
    BY <1>1, <1>2, <2>1 DEF Chain
<1> HIDE DEF Same
<1>5. n \in Same
  BY <1>3, <1>4, Induction
<1>6. QED
  BY <1>1, <1>2, <1>5 DEF Same, Chain

(* The lexical treatment of one component agrees with the host's step. *)
LEMMA StepAgrees ==
    ASSUME HostInv, NEW so \in Outcomes, NEW c \in Plain, NEW node,
           so.status = "OK",
           node = NoNode \/ Reaches(so.directory, Len(so.directory), node)
    PROVE  LET new == KeepComponent(so, c)
               to  == HostStep(node, c)
           IN  /\ new.status = "OK" =>
                      to = NoNode \/ Reaches(new.directory, Len(new.directory), to)
               /\ new.status # "OK" => to \in {Outside, NoNode} \/ c \in Wildcards
<1> DEFINE d == so.directory
           new == KeepComponent(so, c)
           to == HostStep(node, c)
<1>1. /\ d \in Seq(Names) /\ Len(d) \in Nat
      /\ DOMAIN so = {"status", "directory"}
  BY DEF Outcomes
<1>2. node = NoNode => to = NoNode
  BY DEF HostStep
<1>3. node # NoNode => node # Outside /\ Reaches(d, Len(d), node)
  BY <1>1, ReachesInside
<1>4. CASE c \in {"", "."}
  <2>1. new = so
    BY <1>4 DEF KeepComponent
  <2>2. to = node
    BY <1>4 DEF HostStep
  <2>3. QED
    BY <2>1, <2>2
<1>5. CASE c \notin {"", "."} /\ c = ".."
  <2>1. CASE d = <<>>
    <3>1. new = Refusal("INVALID_PATH")
      BY <1>5, <2>1 DEF KeepComponent
    <3>2. node # NoNode => node = Root
      BY <1>3, <2>1, ReachesOnlyRoot
    <3>3. node # NoNode => to = Outside
      BY <1>3, <1>5, <3>2 DEF HostStep
    <3>4. QED
      BY <1>2, <3>1, <3>3 DEF Refusal
  <2>2. CASE d # <<>>
    <3>1. new = [so EXCEPT !.directory = Front(d)]
      BY <1>5, <2>2 DEF KeepComponent
    <3>2. new.status = "OK" /\ new.directory = Front(d)
      BY <1>1, <3>1
    <3>3. /\ Len(d) \in Nat \ {0} /\ Len(Front(d)) = Len(d) - 1
          /\ \A j \in 1 .. Len(d) - 1 : d[j] = Front(d)[j]
      BY <1>1, <2>2, FrontIs
    <3>4. CASE node # NoNode
      <4>1. node \in HostDirectories /\ Reaches(d, Len(d) - 1, at[node][1])
        BY <1>3, <3>3, <3>4, ReachesParent
      <4>2. to = at[node][1]
        BY <1>3, <1>5, <3>4, <4>1, SearchPathAssumption DEF HostStep
      <4>3. PICK m \in Nat : m = Len(d) - 1
        BY <3>3
      <4>4. Reaches(d, m, to) /\ \A j \in 1 .. m : d[j] = Front(d)[j]
        BY <3>3, <4>1, <4>2, <4>3
      <4>5. Reaches(Front(d), m, to)
        <5> HIDE DEF d, to
        <5>1. QED
          BY <4>4, ReachesSame
      <4>6. QED
        BY <3>2, <3>3, <4>3, <4>5
    <3>5. QED
      BY <1>2, <3>2, <3>4
  <2>3. QED
    BY <2>1, <2>2
<1>6. CASE c \notin {"", "."} /\ c # ".."
  <2>1. CASE c \in Wildcards
    <3>1. new = Refusal("INVALID_PATH")
      BY <1>6, <2>1 DEF KeepComponent
    <3>2. QED
      BY <2>1, <3>1 DEF Refusal
  <2>2. CASE c \notin Wildcards
    <3>1. c \in Names /\ new = [so EXCEPT !.directory = Append(d, c)]
      BY <1>6, <2>2 DEF KeepComponent, Plain
    <3>2. new.status = "OK" /\ new.directory = Append(d, c)
      BY <1>1, <3>1
    <3>3. /\ Len(Append(d, c)) = Len(d) + 1 /\ Append(d, c)[Len(d) + 1] = c
          /\ \A j \in 1 .. Len(d) : d[j] = Append(d, c)[j]
      BY <1>1, <3>1
    <3>4. CASE node # NoNode
      <4>1. to = OpenAt(node, c)
        BY <1>3, <1>6, <3>4 DEF HostStep
      <4>2. Reaches(Append(d, c), Len(d), node)
        BY <1>1, <1>3, <3>3, <3>4, ReachesSame
      <4>3. ASSUME to # NoNode PROVE Reaches(Append(d, c), Len(d) + 1, to)
        <5> DEFINE e == Append(d, c)
        <5>1. PICK m \in Nat : m = Len(d)
          BY <1>1
        <5>2. Reaches(e, m, node) /\ to = OpenAt(node, e[m + 1])
          BY <3>3, <4>1, <4>2, <5>1
        <5> HIDE DEF to, e
        <5>3. Reaches(e, m + 1, OpenAt(node, e[m + 1]))
          BY <4>3, <5>2, ReachesNext
        <5>4. QED
          BY <5>1, <5>2, <5>3 DEF e
      <4>4. QED
        BY <3>2, <3>3, <4>3
    <3>5. QED
      BY <1>2, <3>2, <3>4
  <2>3. QED
    BY <2>1, <2>2
<1>7. QED
  BY <1>4, <1>5, <1>6

(* After k components normalize_pattern has the names that lead to where    *)
(* the host is, or has refused what leads nowhere.                          *)
Agrees(k) ==
    LET so == Normalized(path)[k]
    IN  /\ Len(so.directory) <= k
        /\ so.status = "OK" =>
              \/ Written[k] = NoNode
              \/ Reaches(so.directory, Len(so.directory), Written[k])
        /\ so.status # "OK" =>
              Written[k] \in {Outside, NoNode} \/ HasAny(Front(path), Wildcards)

LEMMA Simulation ==
    ASSUME HostInv, IsPlain(path)
    PROVE  \A k \in 0 .. Len(path) - 1 : Agrees(k)
<1> DEFINE n == Len(path) - 1
           out(k) == Normalized(path)[k]
<1>1. n \in Nat /\ Len(path) \in Nat \ {0} /\ \A k \in 1 .. n : path[k] \in Plain
  BY DEF IsPlain
<1>2. /\ Normalized(path) \in [0 .. n -> Outcomes]
      /\ out(0) = [status |-> "OK", directory |-> <<>>]
      /\ \A k \in 1 .. n : out(k) = KeepComponent(out(k - 1), path[k])
  BY NormalizedIs
<1>3. /\ Written \in [0 .. n -> Nodes \cup {NoNode}]
      /\ Written[0] = Root
      /\ \A k \in 1 .. n : Written[k] = HostStep(Written[k - 1], path[k])
  BY <1>1, WrittenIs
<1>4. \A k \in 1 .. n : path[k] \in Wildcards => HasAny(Front(path), Wildcards)
  <2>1. \A k \in 1 .. n : k \in DOMAIN Front(path) /\ Front(path)[k] = path[k]
    BY <1>1 DEF Front, IsPlain
  <2>2. QED
    BY <2>1 DEF HasAny
<1> DEFINE S == {k \in Nat : k <= n => Agrees(k)}
<1>5. 0 \in S
  <2>1. Reaches(out(0).directory, 0, Root)
    BY ReachesRoot
  <2>2. Len(<<>>) = 0
    OBVIOUS
  <2>3. Agrees(0)
    BY <1>2, <1>3, <2>1, <2>2 DEF Agrees
  <2>4. QED
    BY <2>3
<1>6. ASSUME NEW k \in Nat, k \in S PROVE k + 1 \in S
  <2> SUFFICES ASSUME k + 1 <= n PROVE Agrees(k + 1)
    OBVIOUS
  <2>1. k + 1 \in 1 .. n /\ k \in 0 .. n /\ (k + 1) - 1 = k
    BY <1>1
  <2>2. Agrees(k)
    BY <1>1, <1>6, <2>1
  <2> HIDE DEF n
  <2>3. /\ out(k) \in Outcomes /\ path[k + 1] \in Plain
        /\ out(k + 1) = KeepComponent(out(k), path[k + 1])
        /\ Written[k + 1] = HostStep(Written[k], path[k + 1])
    BY <1>1, <1>2, <1>3, <2>1
  <2> HIDE DEF out
  <2>4. Len(out(k + 1).directory) <= k + 1
    <3>1. /\ Len(out(k + 1).directory) <= Len(out(k).directory) + 1
          /\ out(k + 1) \in Outcomes
      BY <2>3, KeepComponentType
    <3>2. Len(out(k).directory) <= k
      BY <2>2 DEF Agrees, out
    <3>3. Len(out(k).directory) \in Nat /\ Len(out(k + 1).directory) \in Nat
      BY <2>3, <3>1 DEF Outcomes
    <3>4. QED
      BY <3>1, <3>2, <3>3
  <2>5. CASE out(k).status = "OK"
    <3>1. \/ Written[k] = NoNode
          \/ Reaches(out(k).directory, Len(out(k).directory), Written[k])
      BY <2>2, <2>5 DEF Agrees, out
    <3>2. /\ out(k + 1).status = "OK" =>
                \/ Written[k + 1] = NoNode
                \/ Reaches(out(k + 1).directory, Len(out(k + 1).directory), Written[k + 1])
          /\ out(k + 1).status # "OK" =>
                Written[k + 1] \in {Outside, NoNode} \/ path[k + 1] \in Wildcards
      BY <2>3, <2>5, <3>1, StepAgrees
    <3>3. QED
      BY <1>4, <2>1, <2>4, <3>2 DEF Agrees, out
  <2>6. CASE out(k).status # "OK"
    <3>1. out(k + 1) = out(k)
      BY <2>3, <2>6 DEF KeepComponent
    <3>2. Written[k] \in {Outside, NoNode} \/ HasAny(Front(path), Wildcards)
      BY <2>2, <2>6 DEF Agrees, out
    <3>3. Written[k] \in {Outside, NoNode} => Written[k + 1] = Written[k]
      BY <2>3 DEF HostStep
    <3>4. QED
      BY <2>4, <2>6, <3>1, <3>2, <3>3 DEF Agrees, out
  <2>7. QED
    BY <2>5, <2>6
<1> HIDE DEF S
<1>7. \A k \in Nat : k \in S
  BY <1>5, <1>6, Induction
<1>8. QED
  BY <1>1, <1>7 DEF S

(* What normalize_pattern returns, and why. *)
LEMMA NormalPattern ==
    ASSUME path \in Seq(Components), HostInv
    PROVE  LET normal == NormalizePattern(path)
               last   == Len(path) - 1
           IN  /\ normal.status \in Failures \cup {"OK"}
               /\ normal.directory \in Seq(Names)
               /\ Len(normal.directory) <= Len(path)
               /\ normal.status = "OK" =>
                     IsPlain(path) /\ normal = Normalized(path)[last]
               /\ normal.status = "INVALID_PATH" =>
                     \/ HasAny(path, Nuls \cup Colons)
                     \/ Head(path) = ""
                     \/ BadLeaf(path)
                     \/ IsPlain(path) /\ normal = Normalized(path)[last]
<1> DEFINE normal == NormalizePattern(path)
<1>1. CASE path = <<>>
  <2>1. normal = Refusal("INVALID_ARGUMENT")
    BY <1>1 DEF NormalizePattern
  <2>2. QED
    BY <2>1 DEF Refusal, Failures
<1>2. CASE path # <<>> /\ HasAny(path, Nuls)
  <2>1. normal = Refusal("INVALID_PATH")
    BY <1>2 DEF NormalizePattern
  <2>2. HasAny(path, Nuls \cup Colons)
    BY <1>2 DEF HasAny
  <2>3. QED
    BY <2>1, <2>2 DEF Refusal, Failures
<1>3. CASE path # <<>> /\ ~HasAny(path, Nuls) /\ HasAny(path, IllFormed)
  <2>1. normal = Refusal("INVALID_ENCODING")
    BY <1>3 DEF NormalizePattern
  <2>2. QED
    BY <2>1 DEF Refusal, Failures
<1>4. CASE /\ path # <<>> /\ ~HasAny(path, Nuls) /\ ~HasAny(path, IllFormed)
           /\ HasAny(path, Colons) \/ Head(path) = "" \/ BadLeaf(path)
  <2>1. normal = Refusal("INVALID_PATH")
    BY <1>4 DEF NormalizePattern
  <2>2. HasAny(path, Colons) => HasAny(path, Nuls \cup Colons)
    BY DEF HasAny
  <2>3. /\ normal.status = "INVALID_PATH" /\ normal.directory = <<>>
        /\ Len(<<>>) = 0 /\ Len(path) \in Nat /\ <<>> \in Seq(Names)
    BY <2>1 DEF Refusal
  <2>4. HasAny(path, Nuls \cup Colons) \/ Head(path) = "" \/ BadLeaf(path)
    BY <1>4, <2>2
  <2> HIDE DEF normal
  <2>5. Len(normal.directory) <= Len(path) /\ normal.status \in Failures
    BY <2>3 DEF Failures
  <2>6. QED
    BY <2>3, <2>4, <2>5 DEF normal
<1>5. CASE /\ path # <<>> /\ ~HasAny(path, Nuls) /\ ~HasAny(path, IllFormed)
           /\ ~(HasAny(path, Colons) \/ Head(path) = "" \/ BadLeaf(path))
  <2>1. normal = Normalized(path)[Len(path) - 1]
    BY <1>5 DEF NormalizePattern
  <2>2. IsPlain(path)
    <3>1. ASSUME NEW i \in 1 .. Len(path) PROVE path[i] \in Plain
      <4>1. i \in DOMAIN path /\ path[i] \in Components
        OBVIOUS
      <4>2. path[i] \notin Nuls /\ path[i] \notin IllFormed /\ path[i] \notin Colons
        BY <1>5, <4>1 DEF HasAny
      <4>3. QED
        BY <4>1, <4>2 DEF Components, Plain
    <3>2. path \in [1 .. Len(path) -> Plain] /\ Len(path) \in Nat
      BY <3>1
    <3>3. path \in Seq(Plain)
      BY <3>2, SeqDef
    <3>4. QED
      BY <1>5, <3>3 DEF IsPlain
  <2>3. Len(path) - 1 \in 0 .. Len(path) - 1 /\ Len(path) \in Nat
    BY <2>2 DEF IsPlain
  <2>4. normal \in Outcomes
    BY <2>1, <2>2, <2>3, NormalizedIs
  <2>5. Len(normal.directory) <= Len(path) - 1
    BY <2>1, <2>2, <2>3, Simulation DEF Agrees
  <2>6. Len(normal.directory) \in Nat
    BY <2>4 DEF Outcomes
  <2>7. QED
    BY <2>1, <2>2, <2>3, <2>4, <2>5, <2>6 DEF Outcomes, Failures
<1>6. QED
  BY <1>1, <1>2, <1>3, <1>4, <1>5

(* The walk *)

Walked == {"walking", "OK"}
Directory == NormalizePattern(path).directory

(* The first names are opened, the others are to come. *)
OnTheWay ==
    \E n \in 0 .. Len(Directory) :
        /\ Len(todo) = Len(Directory) - n
        /\ \A j \in 1 .. Len(todo) : todo[j] = Directory[n + j]
        /\ Reaches(Directory, n, current)

WalkInv ==
    /\ path \in Seq(Components) /\ Len(path) \in 0 .. MaxPath
    /\ walkStatus \in {"start", "walking", "OK"} \cup Failures
    /\ todo \in Seq(Names) /\ Len(todo) \in 0 .. MaxPath
    /\ current \in Inside
    /\ open = IF walkStatus \in Walked THEN {current} ELSE {}
    /\ HostInv
    /\ links \subseteq Inside \X Names \X Nodes
    /\ moves \in 0 .. MaxMoves
    /\ walkStatus = "OK" => todo = <<>>
    /\ walkStatus = "INVALID_PATH" => NormalizePattern(path).status = "INVALID_PATH"
    /\ walkStatus \in Walked => NormalizePattern(path).status = "OK"
    /\ walkStatus \in Walked /\ moves = 0 => OnTheWay

LEMMA BoundedSequence ==
    ASSUME NEW S, NEW m \in Nat
    PROVE  \A s : s \in UNION {[1 .. n -> S] : n \in 0 .. m}
                     <=> s \in Seq(S) /\ Len(s) \in 0 .. m
<1>1. ASSUME NEW s, NEW n \in 0 .. m, s \in [1 .. n -> S]
      PROVE  s \in Seq(S) /\ Len(s) \in 0 .. m
  <2>1. n \in Nat
    OBVIOUS
  <2>2. s \in Seq(S)
    BY <1>1, <2>1, SeqDef
  <2>3. Len(s) = n
    BY <1>1, <2>1, <2>2
  <2>4. QED
    BY <2>2, <2>3
<1>2. ASSUME NEW s \in Seq(S), Len(s) \in 0 .. m
      PROVE  \E n \in 0 .. m : s \in [1 .. n -> S]
  BY <1>2, LenProperties
<1>3. QED
  BY <1>1, <1>2

LEMMA PathKept ==
    ASSUME path' = path
    PROVE  /\ NormalizePattern(path)' = NormalizePattern(path)
           /\ Directory' = Directory
<1>1. NormalizePattern(path)' = NormalizePattern(path)
  BY DEF NormalizePattern, Normalized, HasAny, BadLeaf
<1>2. QED
  BY <1>1 DEF Directory

LEMMA OpenAtKept ==
    ASSUME at' = at, NEW node, NEW called
    PROVE  OpenAt(node, called)' = OpenAt(node, called)
<1>1. SubdirectoriesAt(node, called)' = SubdirectoriesAt(node, called)
  BY DEF SubdirectoriesAt
<1>2. QED
  BY <1>1 DEF OpenAt

LEMMA ReachesKept ==
    ASSUME at' = at, NEW d, NEW n, NEW node
    PROVE  Reaches(d, n, node)' <=> Reaches(d, n, node)
<1>1. ASSUME NEW x, NEW y PROVE OpenAt(x, y)' = OpenAt(x, y)
  BY OpenAtKept
<1>2. ASSUME NEW c PROVE Chain(d, n, node, c)' <=> Chain(d, n, node, c)
  BY <1>1 DEF Chain
<1>3. QED
  BY <1>2 DEF Reaches

LEMMA OnTheWayKept ==
    ASSUME at' = at, path' = path, todo' = todo, current' = current, OnTheWay
    PROVE  OnTheWay'
<1>1. PICK d, node : d = Directory /\ node = current
  OBVIOUS
<1>2. Directory' = d /\ current' = node
  BY <1>1, PathKept
<1>3. PICK n \in 0 .. Len(d) :
          /\ Len(todo) = Len(d) - n
          /\ \A j \in 1 .. Len(todo) : todo[j] = d[n + j]
          /\ Reaches(d, n, node)
  BY <1>1 DEF OnTheWay
<1>4. Reaches(d, n, node)'
  BY <1>3, ReachesKept
<1>5. Reaches(Directory, n, current)'
  BY <1>2, <1>4
<1>6. QED
  BY <1>2, <1>3, <1>5 DEF OnTheWay

LEMMA WalkInitially == WalkInit => WalkInv
<1> SUFFICES ASSUME WalkInit PROVE WalkInv
  OBVIOUS
<1>1. path \in Seq(Components) /\ Len(path) \in 0 .. MaxPath
  BY BoundedSequence, SearchPathAssumption DEF WalkInit
<1>2. todo = <<>> /\ todo \in Seq(Names) /\ Len(todo) = 0
  BY EmptySeq DEF WalkInit
<1>3. 0 \in 0 .. MaxPath /\ 0 \in 0 .. MaxMoves
  BY SearchPathAssumption
<1>4. QED
  BY <1>1, <1>2, <1>3, SearchPathAssumption
     DEF WalkInit, WalkInv, Walked, HostInv, Inside

(* A walk that has ended, or has not begun, goes nowhere. *)
LEMMA FailKeeps ==
    ASSUME WalkInv, NEW result \in Failures, Fail(result),
           result = "INVALID_PATH" => NormalizePattern(path).status = "INVALID_PATH"
    PROVE  WalkInv'
<1>1. /\ walkStatus' = result /\ open' = {}
      /\ path' = path /\ todo' = todo /\ current' = current
      /\ at' = at /\ links' = links /\ moves' = moves
  BY DEF Fail, host
<1>2. result \notin Walked /\ result # "OK"
  BY DEF Failures, Walked
<1>3. NormalizePattern(path)' = NormalizePattern(path)
  BY <1>1, PathKept
<1>4. HostInv'
  BY <1>1 DEF WalkInv, HostInv
<1>5. QED
  BY <1>1, <1>2, <1>3, <1>4 DEF WalkInv, Walked

LEMMA StartKeeps == ASSUME WalkInv, Start PROVE WalkInv'
<1> DEFINE normal == NormalizePattern(path)
<1>1. /\ normal.status \in Failures \cup {"OK"}
      /\ normal.directory \in Seq(Names)
      /\ Len(normal.directory) <= Len(path)
  BY NormalPattern DEF WalkInv
<1>2. CASE \/ normal.status # "OK" /\ Fail(normal.status)
           \/ Fail("IO") \/ Fail("OUT_OF_MEMORY")
  <2>1. CASE normal.status # "OK" /\ Fail(normal.status)
    BY <1>1, <2>1, FailKeeps
  <2>2. CASE Fail("IO")
    BY <2>2, FailKeeps DEF Failures
  <2>3. CASE Fail("OUT_OF_MEMORY")
    BY <2>3, FailKeeps DEF Failures
  <2>4. QED
    BY <1>2, <2>1, <2>2, <2>3
<1>3. CASE /\ normal.status = "OK"
           /\ walkStatus' = "walking"
           /\ todo' = normal.directory
           /\ current' = Root
           /\ open' = {Root}
           /\ UNCHANGED <<path, host>>
  <2>1. path' = path /\ at' = at /\ links' = links /\ moves' = moves
    BY <1>3 DEF host
  <2>2. Directory' = Directory /\ NormalizePattern(path)' = NormalizePattern(path)
    BY <2>1, PathKept
  <2>3. HostInv'
    BY <2>1 DEF WalkInv, HostInv
  <2>4. Len(todo') \in 0 .. MaxPath /\ Len(todo') \in Nat
    BY <1>1, <1>3, SearchPathAssumption DEF WalkInv
  <2>5. OnTheWay'
    <3>1. Reaches(Directory, 0, Root)'
      BY <2>1, <2>2, ReachesRoot DEF Reaches, Chain, OpenAt, SubdirectoriesAt
    <3>2. /\ Len(todo') = Len(Directory') - 0
          /\ \A j \in 1 .. Len(todo') : todo'[j] = Directory'[0 + j]
          /\ 0 \in 0 .. Len(Directory')
      BY <1>3, <2>2, <2>4 DEF Directory
    <3>3. current' = Root
      BY <1>3
    <3>4. QED
      BY <3>1, <3>2, <3>3 DEF OnTheWay
  <2>6. QED
    BY <1>1, <1>3, <2>1, <2>2, <2>3, <2>4, <2>5 DEF WalkInv, Walked, Inside
<1>4. QED
  BY <1>2, <1>3 DEF Start

LEMMA OpenComponentKeeps == ASSUME WalkInv, OpenComponent PROVE WalkInv'
<1> DEFINE next == OpenAt(current, Head(todo))
<1>1. walkStatus = "walking" /\ todo # <<>>
  BY DEF OpenComponent
<1>2. CASE Fail("IO")
  BY <1>2, FailKeeps DEF Failures
<1>3. CASE /\ next # NoNode
           /\ current' = next
           /\ open' = (open \ {current}) \cup {next}
           /\ todo' = Tail(todo)
           /\ UNCHANGED <<path, walkStatus, host>>
  <2>1. /\ path' = path /\ walkStatus' = walkStatus
        /\ at' = at /\ links' = links /\ moves' = moves
    BY <1>3 DEF host
  <2>2. Directory' = Directory /\ NormalizePattern(path)' = NormalizePattern(path)
    BY <2>1, PathKept
  <2>3. HostInv'
    BY <2>1 DEF WalkInv, HostInv
  <2>4. /\ todo \in Seq(Names) /\ Len(todo) \in Nat \ {0}
        /\ Head(todo) = todo[1]
        /\ todo' \in Seq(Names) /\ Len(todo') = Len(todo) - 1
        /\ \A j \in 1 .. Len(todo') : todo'[j] = todo[j + 1]
    <3>1. todo \in Seq(Names) /\ todo # <<>>
      BY <1>1 DEF WalkInv
    <3>2. QED
      BY <1>3, <3>1, HeadTailProperties, EmptySeq
  <2>5. next \in Inside
    BY <1>3, OpenAtIs DEF Inside
  <2>6. ASSUME moves = 0 PROVE OnTheWay'
    <3>1. PICK n \in 0 .. Len(Directory) :
              /\ Len(todo) = Len(Directory) - n
              /\ \A j \in 1 .. Len(todo) : todo[j] = Directory[n + j]
              /\ Reaches(Directory, n, current)
      BY <1>1, <2>6 DEF WalkInv, Walked, OnTheWay
    <3>2. /\ n \in Nat /\ Len(Directory) \in Nat
          /\ Len(todo') = Len(Directory) - (n + 1)
          /\ n + 1 \in 0 .. Len(Directory)
      <4>1. Directory \in Seq(Names)
        BY NormalPattern DEF WalkInv, Directory
      <4>2. QED
        BY <2>4, <3>1, <4>1
    <3>3. \A j \in 1 .. Len(todo') : todo'[j] = Directory[(n + 1) + j]
      <4> SUFFICES ASSUME NEW j \in 1 .. Len(todo')
                   PROVE  todo'[j] = Directory[(n + 1) + j]
        OBVIOUS
      <4>1. j + 1 \in 1 .. Len(todo) /\ n + (j + 1) = (n + 1) + j
        BY <2>4, <3>2
      <4>2. QED
        BY <2>4, <3>1, <4>1
    <3>4. Head(todo) = Directory[n + 1]
      BY <2>4, <3>1
    <3>5. Reaches(Directory, n + 1, next)
      BY <1>3, <3>1, <3>2, <3>4, ReachesNext
    <3>6. Reaches(Directory, n + 1, current)'
      <4> HIDE DEF next
      <4>1. PICK d, node : d = Directory /\ node = next
        OBVIOUS
      <4>2. Reaches(d, n + 1, node)'
        BY <2>1, <3>5, <4>1, ReachesKept
      <4>3. QED
        BY <1>3, <2>2, <4>1, <4>2
    <3>7. QED
      BY <2>2, <3>2, <3>3, <3>6 DEF OnTheWay
  <2>7. Len(todo') \in 0 .. MaxPath
    <3>1. Len(todo) \in 0 .. MaxPath /\ MaxPath \in Nat
      BY SearchPathAssumption DEF WalkInv
    <3>2. QED
      BY <2>4, <3>1
  <2> HIDE DEF next
  <2>8. open' = {current'}
    BY <1>1, <1>3 DEF WalkInv, Walked
  <2>9. QED
    BY <1>1, <1>3, <2>1, <2>2, <2>3, <2>4, <2>5, <2>6, <2>7, <2>8 DEF WalkInv, Walked
<1>4. QED
  BY <1>2, <1>3 DEF OpenComponent

LEMMA FinishKeeps == ASSUME WalkInv, Finish PROVE WalkInv'
<1>1. /\ walkStatus = "walking" /\ todo = <<>> /\ walkStatus' = "OK"
      /\ path' = path /\ todo' = todo /\ current' = current /\ open' = open
      /\ at' = at /\ links' = links /\ moves' = moves
  BY DEF Finish, host
<1>2. Directory' = Directory /\ NormalizePattern(path)' = NormalizePattern(path)
  BY <1>1, PathKept
<1>3. HostInv' /\ (OnTheWay => OnTheWay')
  BY <1>1, OnTheWayKept DEF WalkInv, HostInv
<1>4. QED
  BY <1>1, <1>2, <1>3 DEF WalkInv, Walked

(* Other processes; nothing is claimed of where a walk leads after that. *)
LEMMA OthersKeep ==
    ASSUME WalkInv,
           \/ \E d \in HostDirectories, node \in Inside, called \in Names :
                 Rename(d, node, called)
           \/ \E node \in Inside, called \in Names, target \in Nodes :
                 Symlink(node, called, target)
    PROVE  WalkInv'
<1>1. /\ path' = path /\ walkStatus' = walkStatus /\ todo' = todo
      /\ current' = current /\ open' = open
      /\ moves < MaxMoves /\ moves' = moves + 1
  BY DEF Rename, Symlink
<1>2. HostInv' /\ links' \subseteq Inside \X Names \X Nodes
  <2>1. CASE \E d \in HostDirectories, node \in Inside, called \in Names :
                Rename(d, node, called)
    <3>1. PICK d \in HostDirectories, node \in Inside, called \in Names :
              Rename(d, node, called)
      BY <2>1
    <3>2. /\ at' = [at EXCEPT ![d] = <<node, called>>] /\ links' = links
          /\ <<node, called>> \in Inside \X Names
      BY <3>1 DEF Rename
    <3>3. QED
      BY <3>2 DEF WalkInv, HostInv
  <2>2. CASE \E node \in Inside, called \in Names, target \in Nodes :
                Symlink(node, called, target)
    <3>1. PICK node \in Inside, called \in Names, target \in Nodes :
              Symlink(node, called, target)
      BY <2>2
    <3>2. /\ at' = at /\ links' = links \cup {<<node, called, target>>}
          /\ <<node, called, target>> \in Inside \X Names \X Nodes
      BY <3>1 DEF Symlink
    <3>3. QED
      BY <3>2 DEF WalkInv, HostInv
  <2>3. QED
    BY <2>1, <2>2
<1>3. NormalizePattern(path)' = NormalizePattern(path)
  BY <1>1, PathKept
<1>4. moves' \in 0 .. MaxMoves /\ moves' # 0
  BY <1>1, SearchPathAssumption DEF WalkInv
<1>5. QED
  BY <1>1, <1>2, <1>3, <1>4 DEF WalkInv

LEMMA WalkStep == ASSUME WalkInv, [WalkNext]_walkVars PROVE WalkInv'
<1>1. CASE UNCHANGED walkVars
  <2>1. /\ path' = path /\ walkStatus' = walkStatus /\ todo' = todo
        /\ current' = current /\ open' = open
        /\ at' = at /\ links' = links /\ moves' = moves
    BY <1>1 DEF walkVars, host
  <2>2. Directory' = Directory /\ NormalizePattern(path)' = NormalizePattern(path)
    BY <2>1, PathKept
  <2>3. HostInv' /\ (OnTheWay => OnTheWay')
    BY <2>1, OnTheWayKept DEF WalkInv, HostInv
  <2>4. QED
    BY <2>1, <2>2, <2>3 DEF WalkInv
<1>2. CASE WalkNext
  BY <1>2, StartKeeps, OpenComponentKeeps, FinishKeeps, OthersKeep DEF WalkNext
<1>3. QED
  BY <1>1, <1>2

LEMMA WalkInvariant == WalkSpec => []WalkInv
  BY WalkInitially, WalkStep, PTL DEF WalkSpec

(* Whatever other processes do to the tree below the root, the walk holds   *)
(* only directories in it, hands only plain names to openat, and gives back *)
(* every descriptor it does not return.                                     *)
THEOREM ConfinedWalk == WalkSpec => []WalkIsConfined
<1>1. WalkInv => WalkIsConfined
  <2> SUFFICES ASSUME WalkInv PROVE WalkIsConfined
    OBVIOUS
  <2>1. Len(path) <= MaxPath /\ Len(todo) <= MaxPath
    BY SearchPathAssumption DEF WalkInv
  <2>2. WalkTypeOK
    BY <2>1 DEF WalkInv, WalkTypeOK, HostInv, Nodes
  <2>3. Confined /\ DescriptorsAreClosed
    BY DEF WalkInv, Walked, Confined, DescriptorsAreClosed, Failures
  <2>4. QED
    BY <2>2, <2>3 DEF WalkIsConfined, WalkIsClean
<1>2. QED
  BY <1>1, WalkInvariant, PTL

(* The lexical treatment of "." and ".." is the host's: a call that         *)
(* succeeds undisturbed has the directory that was written, and a           *)
(* well-formed path into the root is never refused as malformed.            *)
THEOREM OpenedAsWritten == WalkSpec => []OpensWhatWasWritten
<1>1. WalkInv => OpensWhatWasWritten
  <2> SUFFICES ASSUME WalkInv PROVE OpensWhatWasWritten
    OBVIOUS
  <2> DEFINE last == Len(path) - 1
  <2>1. path \in Seq(Components) /\ HostInv
    BY DEF WalkInv
  <2>2. ASSUME IsPlain(path) PROVE last \in 0 .. Len(path) - 1 /\ Agrees(last)
    <3>1. Len(path) \in Nat \ {0}
      BY <2>2 DEF IsPlain
    <3>2. QED
      BY <2>1, <2>2, <3>1, Simulation
  <2>3. ASSUME walkStatus = "OK", moves = 0
        PROVE  WrittenDirectory \in {current, NoNode}
    <3>1. /\ NormalizePattern(path).status = "OK" /\ todo = <<>> /\ OnTheWay
      BY <2>3 DEF WalkInv, Walked
    <3>2. /\ IsPlain(path) /\ NormalizePattern(path) = Normalized(path)[last]
          /\ Directory \in Seq(Names)
      BY <2>1, <3>1, NormalPattern DEF Directory
    <3>3. Reaches(Directory, Len(Directory), current) /\ Len(Directory) \in Nat
      BY <3>1, <3>2 DEF OnTheWay
    <3>4. \/ Written[last] = NoNode
          \/ Reaches(Directory, Len(Directory), Written[last])
      BY <2>2, <3>1, <3>2 DEF Agrees, Directory
    <3>5. QED
      BY <3>3, <3>4, ReachesOne DEF WrittenDirectory
  <2>4. ASSUME walkStatus = "INVALID_PATH"
        PROVE  \/ HasAny(path, Nuls \cup Colons)
               \/ HasAny(Front(path), Wildcards)
               \/ Head(path) = ""
               \/ BadLeaf(path)
               \/ WrittenDirectory \in {Outside, NoNode}
    <3>1. NormalizePattern(path).status = "INVALID_PATH"
      BY <2>4 DEF WalkInv
    <3>2. \/ HasAny(path, Nuls \cup Colons) \/ Head(path) = "" \/ BadLeaf(path)
          \/ IsPlain(path) /\ NormalizePattern(path) = Normalized(path)[last]
      BY <2>1, <3>1, NormalPattern
    <3>3. ASSUME IsPlain(path), NormalizePattern(path) = Normalized(path)[last]
          PROVE  WrittenDirectory \in {Outside, NoNode} \/ HasAny(Front(path), Wildcards)
      BY <2>2, <3>1, <3>3 DEF Agrees, WrittenDirectory
    <3>4. QED
      BY <3>2, <3>3
  <2>5. QED
    BY <2>3, <2>4 DEF OpensWhatWasWritten
<1>2. QED
  BY <1>1, WalkInvariant, PTL

----------------------------------------------------------------------------
(***************************************************************************)
(* wildcard_matches (WildcardMatch), for every pattern and every name.     *)
(* m is the table of the reference: m[i][j] says that the pattern from i   *)
(* on matches the name from j on.                                          *)
(***************************************************************************)
PatternUnits == Units \cup {Star, AnyUnit}
TableRow == [0 .. Len(name) -> BOOLEAN]

(* An entry of row i, from the row below it. *)
Tried(below, i, j) ==
    IF i = Len(pattern) THEN j = Len(name)
    ELSE IF pattern[i + 1] = Star
         THEN \E k \in j .. Len(name) : below[k]
         ELSE /\ j < Len(name)
              /\ \/ pattern[i + 1] = AnyUnit
                 \/ UnitsEqual(pattern[i + 1], name[j + 1])
              /\ below[j + 1]

IsTable(m) ==
    \A i \in 0 .. Len(pattern), j \in 0 .. Len(name) :
       m[i][j] = Tried(m[i + 1], i, j)

(* The table exists: its rows are made from the last one up. *)
LEMMA TableIs ==
    ASSUME pattern \in Seq(PatternUnits), name \in Seq(Units)
    PROVE  IsTable(SuffixMatches)
<1> DEFINE P == Len(pattern)
           N == Len(name)
           Row(i, below) == [j \in 0 .. N |-> Tried(below, i, j)]
           Body(m) == [i \in 0 .. P |-> Row(i, m[i + 1])]
           last == Row(P, <<>>)
           g == [s \in (1 .. P) \X TableRow |-> Row(P - s[1], s[2])]
<1>1. P \in Nat /\ N \in Nat
  OBVIOUS
<1>2. \A i, below : Row(i, below) \in TableRow
  BY DEF Tried, TableRow
<1>3. last \in TableRow /\ g \in [(1 .. P) \X TableRow -> TableRow]
  BY <1>2
<1>4. \A below : Row(P, below) = last
  BY DEF Tried
<1> HIDE DEF P, N, Row, last, g
<1>5. PICK f \in [0 .. P -> TableRow] : Carries(P, last, g, f)
  BY <1>1, <1>3, Iteration
<1>6. \A k \in 1 .. P : f[k] = Row(P - k, f[k - 1])
  <2> SUFFICES ASSUME NEW k \in 1 .. P PROVE f[k] = Row(P - k, f[k - 1])
    OBVIOUS
  <2>1. k - 1 \in 0 .. P
    BY <1>1
  <2>2. <<k, f[k - 1]>> \in (1 .. P) \X TableRow
    BY <2>1
  <2>3. QED
    BY <1>5, <2>2 DEF g, Carries
<1> DEFINE h == [i \in 0 .. P |-> f[P - i]]
<1>7. ASSUME NEW i \in 0 .. P PROVE h[i] = Row(i, h[i + 1])
  <2>1. CASE i = P
    <3>1. P - i = 0
      BY <1>1, <2>1
    <3>2. h[i] = f[0]
      BY <3>1
    <3>3. QED
      BY <1>4, <1>5, <2>1, <3>2 DEF Carries
  <2>2. CASE i # P
    <3>1. /\ i + 1 \in 0 .. P /\ P - i \in 1 .. P
          /\ P - (i + 1) = (P - i) - 1 /\ P - (P - i) = i
      BY <1>1, <2>2
    <3>2. h[i] = f[P - i] /\ h[i + 1] = f[(P - i) - 1]
      BY <3>1
    <3>3. QED
      BY <1>6, <3>1, <3>2
  <2>3. QED
    BY <2>1, <2>2
<1> HIDE DEF h
<1>8. h = Body(h)
  <2>1. h = [i \in 0 .. P |-> h[i]]
    BY DEF h
  <2>2. QED
    BY <1>7, <2>1
<1>9. SuffixMatches = CHOOSE m : m = Body(m)
  BY DEF SuffixMatches, Row, Tried, P, N
<1> DEFINE out == SuffixMatches
<1>10. out = Body(out)
  BY <1>8, <1>9
<1> HIDE DEF out
<1>11. ASSUME NEW i \in 0 .. P, NEW j \in 0 .. N
       PROVE  out[i][j] = Tried(out[i + 1], i, j)
  <2>1. out[i] = Row(i, out[i + 1])
    BY <1>10
  <2>2. QED
    BY <2>1 DEF Row
<1>12. QED
  BY <1>11 DEF IsTable, P, N, out

LEMMA TableKept ==
    ASSUME UNCHANGED inputs PROVE SuffixMatches' = SuffixMatches
  BY DEF SuffixMatches, UnitsEqual, inputs

(* The three kinds of rows, i below the end of the pattern in the last two. *)
LEMMA TableEnd ==
    ASSUME NEW m, IsTable(m), Len(pattern) \in Nat, NEW j \in 0 .. Len(name)
    PROVE  m[Len(pattern)][j] <=> j = Len(name)
<1>1. Len(pattern) \in 0 .. Len(pattern)
  OBVIOUS
<1>2. m[Len(pattern)][j] = Tried(m[Len(pattern) + 1], Len(pattern), j)
  BY <1>1 DEF IsTable
<1>3. QED
  BY <1>2 DEF Tried

LEMMA TableStar ==
    ASSUME NEW m, IsTable(m), Len(pattern) \in Nat,
           NEW i \in 0 .. Len(pattern), i # Len(pattern), pattern[i + 1] = Star,
           NEW j \in 0 .. Len(name)
    PROVE  m[i][j] <=> \E k \in j .. Len(name) : m[i + 1][k]
  BY DEF IsTable, Tried

LEMMA TableUnit ==
    ASSUME NEW m, IsTable(m), Len(pattern) \in Nat,
           NEW i \in 0 .. Len(pattern), i # Len(pattern), pattern[i + 1] # Star,
           NEW j \in 0 .. Len(name)
    PROVE  m[i][j] <=> /\ j < Len(name)
                       /\ \/ pattern[i + 1] = AnyUnit
                          \/ UnitsEqual(pattern[i + 1], name[j + 1])
                       /\ m[i + 1][j + 1]
<1>1. m[i][j] = Tried(m[i + 1], i, j)
  BY DEF IsTable
<1>2. QED
  BY <1>1 DEF Tried

(* With the loop at pi and ni, and the last star at s with its text up to   *)
(* sn: what remains to be matched can be matched only if the whole can.     *)
Sound(m, pi, ni, s, sn) ==
    /\ m[pi][ni] => m[0][0]
    /\ s # NoStar => (m[s][sn] => m[0][0])

(* The whole of a name of n units matches only if the last star can be      *)
(* given at least the text it has; and what follows the star, if it matches *)
(* from some unit on, reaches the place of the loop from there.             *)
Tracked(m, n, pi, ni, s, sn) ==
    IF s = NoStar THEN m[0][0] => m[pi][ni]
    ELSE /\ m[0][0] => m[s][sn]
         /\ \A k \in sn .. n :
               m[s + 1][k] => k + (ni - sn) \in 0 .. n /\ m[pi][k + (ni - sn)]

Complete(m, n, pi, ni, s, sn) ==
    IF ni = n THEN m[0][0] => m[pi][ni] ELSE Tracked(m, n, pi, ni, s, sn)

StarFree == \A i \in DOMAIN name : name[i] # Star

Places ==
    /\ patternIndex \in 0 .. Len(pattern)
    /\ nameIndex \in 0 .. Len(name)
    /\ starNameIndex \in 0 .. nameIndex
    /\ starIndex # NoStar => /\ starIndex \in 0 .. Len(pattern)
                             /\ starIndex < patternIndex
                             /\ pattern[starIndex + 1] = Star
    /\ verdict \in {"running", "match", "mismatch"}

Inputs ==
    /\ pattern \in Seq(PatternUnits) /\ Len(pattern) \in 0 .. MaxPattern
    /\ name \in Seq(Units) /\ Len(name) \in 0 .. MaxName
    /\ caseSensitive \in BOOLEAN

MatchInv ==
    /\ Inputs
    /\ Places
    /\ Sound(SuffixMatches, patternIndex, nameIndex, starIndex, starNameIndex)
    /\ StarFree /\ verdict = "running" =>
          Complete(SuffixMatches, Len(name), patternIndex, nameIndex,
                   starIndex, starNameIndex)
    /\ verdict = "match" => Reference \/ IsDosAll
    /\ StarFree /\ verdict = "mismatch" => ~Reference

(* At the end of the name, the star's text cannot grow. *)
LEMMA Arrived ==
    ASSUME NEW m, NEW pi, NEW s, NEW sn \in 0 .. Len(name), Inputs, IsTable(m),
           Tracked(m, Len(name), pi, Len(name), s, sn),
           s # NoStar => s \in 0 .. Len(pattern) - 1 /\ pattern[s + 1] = Star
    PROVE  m[0][0] => m[pi][Len(name)]
<1> DEFINE n == Len(name)
<1> SUFFICES ASSUME m[0][0], s # NoStar PROVE m[pi][n]
  BY DEF Tracked
<1>1. m[s][sn] /\ \A k \in sn .. n : m[s + 1][k] =>
                     k + (n - sn) \in 0 .. n /\ m[pi][k + (n - sn)]
  BY DEF Tracked
<1>2. n \in Nat /\ Len(pattern) \in Nat /\ s \in 0 .. Len(pattern) /\ s # Len(pattern)
  BY DEF Inputs
<1>3. PICK k \in sn .. n : m[s + 1][k]
  <2> HIDE DEF n
  <2>1. m[s][sn] <=> \E k \in sn .. n : m[s + 1][k]
    BY <1>2, TableStar DEF n
  <2>2. QED
    BY <1>1, <2>1
<1>4. k + (n - sn) \in 0 .. n /\ m[pi][k + (n - sn)]
  BY <1>1, <1>3
<1>5. k + (n - sn) = n
  BY <1>2, <1>4
<1>6. QED
  BY <1>4, <1>5

(* A unit that is not a star can stand for one star-free unit only. *)
LEMMA NotStar ==
    ASSUME Inputs, StarFree, AtUnit, nameIndex \in 0 .. Len(name) - 1
    PROVE  pattern[patternIndex + 1] # Star
<1>1. nameIndex + 1 \in DOMAIN name /\ name[nameIndex + 1] \in Units
  BY DEF Inputs
<1>2. name[nameIndex + 1] # Star
  BY <1>1 DEF StarFree
<1>3. QED
  BY <1>1, <1>2, WildcardMatchAssumption DEF AtUnit, UnitsEqual, Star, AnyUnit

(* The part of a step in the loop that no property is about. *)
LEMMA InLoopIs ==
    ASSUME MatchInv, InLoop
    PROVE  /\ Len(pattern) \in Nat /\ Len(name) \in Nat
           /\ patternIndex \in Nat /\ nameIndex \in Nat /\ starNameIndex \in Nat
           /\ nameIndex < Len(name) /\ starNameIndex <= nameIndex
           /\ IsTable(SuffixMatches)
           /\ verdict = "running"
           /\ StarFree => Tracked(SuffixMatches, Len(name), patternIndex, nameIndex,
                                  starIndex, starNameIndex)
<1>1. IsTable(SuffixMatches)
  BY TableIs DEF MatchInv, Inputs
<1>2. QED
  BY <1>1 DEF MatchInv, Inputs, Places, InLoop, Complete

LEMMA InputsKept ==
    ASSUME UNCHANGED inputs, Inputs
    PROVE  /\ Inputs' /\ StarFree' = StarFree
           /\ SuffixMatches' = SuffixMatches
           /\ Reference' = Reference
<1>1. SuffixMatches' = SuffixMatches
  BY TableKept
<1>2. QED
  BY <1>1 DEF inputs, Inputs, StarFree, Reference

LEMMA AdvanceKeeps == ASSUME MatchInv, Advance PROVE MatchInv'
<1> DEFINE n == Len(name)
           pi == patternIndex
           ni == nameIndex
           s == starIndex
           sn == starNameIndex
<1> PICK m : m = SuffixMatches
  OBVIOUS
<1>1. /\ InLoop /\ AtUnit /\ UNCHANGED inputs
      /\ patternIndex' = pi + 1 /\ nameIndex' = ni + 1
      /\ starIndex' = s /\ starNameIndex' = sn /\ verdict' = verdict
  BY DEF Advance
<1>2. /\ Len(pattern) \in Nat /\ n \in Nat /\ pi \in Nat /\ ni \in Nat /\ sn \in Nat
      /\ pi < Len(pattern) /\ ni < n /\ sn <= ni
      /\ IsTable(m) /\ verdict = "running"
      /\ StarFree => Tracked(m, n, pi, ni, s, sn)
  BY <1>1, InLoopIs DEF AtUnit, InPattern
<1>3. /\ Inputs' /\ StarFree' = StarFree /\ SuffixMatches' = m
      /\ Reference' = Reference /\ Len(name') = n
      /\ pattern' = pattern /\ name' = name
  BY <1>1, InputsKept DEF MatchInv, inputs
<1>4. Places'
  BY <1>1, <1>2, <1>3 DEF MatchInv, Places
<1>5. m[pi + 1][ni + 1] => m[pi][ni]
  <2> HIDE DEF pi, ni
  <2>0. /\ pi \in 0 .. Len(pattern) /\ pi # Len(pattern)
        /\ ni \in 0 .. Len(name) /\ ni + 1 \in ni .. n
    BY <1>2
  <2>1. CASE pattern[pi + 1] = Star
    <3>1. m[pi][ni] <=> \E k \in ni .. n : m[pi + 1][k]
      BY <1>2, <2>0, <2>1, TableStar
    <3>2. QED
      BY <2>0, <3>1
  <2>2. CASE pattern[pi + 1] # Star
    <3>1. m[pi][ni] <=> /\ ni < Len(name)
                        /\ \/ pattern[pi + 1] = AnyUnit
                           \/ UnitsEqual(pattern[pi + 1], name[ni + 1])
                        /\ m[pi + 1][ni + 1]
      BY <1>2, <2>0, <2>2, TableUnit
    <3>2. QED
      BY <1>1, <1>2, <3>1 DEF AtUnit, pi, ni
  <2>3. QED
    BY <2>1, <2>2
<1>6. Sound(m, pi + 1, ni + 1, s, sn)
  BY <1>5 DEF MatchInv, Sound
<1>7. ASSUME StarFree PROVE Complete(m, n, pi + 1, ni + 1, s, sn)
  <2>1. pattern[pi + 1] # Star
    BY <1>1, <1>2, <1>7, NotStar DEF MatchInv
  <2>2. ASSUME NEW j \in 0 .. n, m[pi][j]
        PROVE  j + 1 \in 0 .. n /\ m[pi + 1][j + 1]
    <3>1. m[pi][j] <=> /\ j < Len(name)
                       /\ \/ pattern[pi + 1] = AnyUnit
                          \/ UnitsEqual(pattern[pi + 1], name[j + 1])
                       /\ m[pi + 1][j + 1]
      BY <1>2, <2>1, TableUnit
    <3>2. QED
      BY <1>2, <2>2, <3>1
  <2>3. Tracked(m, n, pi + 1, ni + 1, s, sn)
    <3>1. CASE s = NoStar
      BY <1>2, <1>7, <2>2, <3>1 DEF Tracked
    <3>2. CASE s # NoStar
      <4>1. /\ m[0][0] => m[s][sn]
            /\ \A k \in sn .. n : m[s + 1][k] =>
                 k + (ni - sn) \in 0 .. n /\ m[pi][k + (ni - sn)]
        BY <1>2, <1>7, <3>2 DEF Tracked
      <4>2. ASSUME NEW k \in sn .. n, m[s + 1][k]
            PROVE  /\ k + ((ni + 1) - sn) \in 0 .. n
                   /\ m[pi + 1][k + ((ni + 1) - sn)]
        <5>1. k + (ni - sn) \in 0 .. n /\ m[pi][k + (ni - sn)]
          BY <4>1, <4>2
        <5>2. (k + (ni - sn)) + 1 = k + ((ni + 1) - sn)
          BY <1>2
        <5>3. QED
          BY <2>2, <5>1, <5>2
      <4>3. QED
        BY <3>2, <4>1, <4>2 DEF Tracked
    <3>3. QED
      BY <3>1, <3>2
  <2>4. ASSUME ni + 1 = n PROVE m[0][0] => m[pi + 1][n]
    <3>1. Tracked(m, n, pi + 1, n, s, sn)
      BY <2>3, <2>4
    <3>2. s # NoStar => s \in 0 .. Len(pattern) - 1 /\ pattern[s + 1] = Star
      BY <1>2 DEF MatchInv, Places
    <3>3. sn \in 0 .. Len(name) /\ Inputs
      BY <1>2 DEF MatchInv
    <3> HIDE DEF n, pi, ni, s, sn
    <3>4. QED
      BY <1>2, <3>1, <3>2, <3>3, Arrived DEF n
  <2>5. QED
    BY <2>3, <2>4 DEF Complete
<1>8. QED
  <2> HIDE DEF n, pi, ni, s, sn
  <2>1. verdict' # "match" /\ verdict' # "mismatch"
    BY <1>1, <1>2
  <2>2. Sound(SuffixMatches, patternIndex, nameIndex, starIndex, starNameIndex)'
    BY <1>1, <1>3, <1>6
  <2>3. StarFree' => Complete(SuffixMatches, Len(name), patternIndex, nameIndex,
                              starIndex, starNameIndex)'
    BY <1>1, <1>3, <1>7
  <2>4. QED
    BY <1>3, <1>4, <2>1, <2>2, <2>3 DEF MatchInv

LEMMA OpenStarKeeps == ASSUME MatchInv, OpenStar PROVE MatchInv'
<1> DEFINE n == Len(name)
           pi == patternIndex
           ni == nameIndex
           s == starIndex
           sn == starNameIndex
<1> PICK m : m = SuffixMatches
  OBVIOUS
<1>1. /\ InLoop /\ AtStar /\ UNCHANGED inputs
      /\ patternIndex' = pi + 1 /\ nameIndex' = ni
      /\ starIndex' = pi /\ starNameIndex' = ni /\ verdict' = verdict
  BY DEF OpenStar
<1>2. /\ Len(pattern) \in Nat /\ n \in Nat /\ pi \in Nat /\ ni \in Nat /\ sn \in Nat
      /\ pi < Len(pattern) /\ ni < n /\ sn <= ni
      /\ IsTable(m) /\ verdict = "running" /\ pattern[pi + 1] = Star
      /\ StarFree => Tracked(m, n, pi, ni, s, sn)
  BY <1>1, InLoopIs DEF AtStar, InPattern
<1>3. /\ Inputs' /\ StarFree' = StarFree /\ SuffixMatches' = m
      /\ Reference' = Reference /\ Len(name') = n
      /\ pattern' = pattern /\ name' = name
  BY <1>1, InputsKept DEF MatchInv, inputs
<1>4. Places'
  BY <1>1, <1>2, <1>3 DEF MatchInv, Places
<1>5. ASSUME NEW j \in 0 .. n PROVE m[pi][j] <=> \E k \in j .. n : m[pi + 1][k]
  <2> HIDE DEF pi
  <2>1. pi \in 0 .. Len(pattern) /\ pi # Len(pattern)
    BY <1>2
  <2>2. QED
    BY <1>2, <2>1, TableStar
<1>6. Sound(m, pi + 1, ni, pi, ni)
  <2>1. m[pi + 1][ni] => m[pi][ni]
    BY <1>2, <1>5
  <2>2. QED
    BY <2>1 DEF MatchInv, Sound
<1>7. ASSUME StarFree PROVE Complete(m, n, pi + 1, ni, pi, ni)
  <2>1. ASSUME m[0][0] PROVE m[pi][ni]
    <3>1. CASE s = NoStar
      BY <1>2, <1>7, <2>1, <3>1 DEF Tracked
    <3>2. CASE s # NoStar
      <4>1. /\ m[s][sn]
            /\ \A k \in sn .. n : m[s + 1][k] =>
                 k + (ni - sn) \in 0 .. n /\ m[pi][k + (ni - sn)]
        BY <1>2, <1>7, <2>1, <3>2 DEF Tracked
      <4>2. PICK k \in sn .. n : m[s + 1][k]
        <5> HIDE DEF s, sn, pi, ni
        <5>0. IsTable(m) /\ Len(pattern) \in Nat
          BY <1>2
        <5>1. /\ s \in 0 .. Len(pattern) /\ s # Len(pattern)
              /\ pattern[s + 1] = Star /\ sn \in 0 .. Len(name)
          BY <1>2, <3>2 DEF MatchInv, Places, s, sn, pi
        <5>2. m[s][sn] <=> \E k \in sn .. n : m[s + 1][k]
          BY <5>0, <5>1, TableStar
        <5>3. QED
          BY <4>1, <5>2
      <4>3. PICK j \in 0 .. n : j = k + (ni - sn) /\ m[pi][j]
        BY <4>1, <4>2
      <4>4. PICK l \in j .. n : m[pi + 1][l]
        BY <1>5, <4>3
      <4>5. l \in ni .. n /\ ni \in 0 .. n
        BY <1>2, <4>3
      <4>6. QED
        BY <1>5, <4>4, <4>5
    <3>3. QED
      BY <3>1, <3>2
  <2>2. \A k \in ni .. n : m[pi + 1][k] =>
           k + (ni - ni) \in 0 .. n /\ m[pi + 1][k + (ni - ni)]
    BY <1>2
  <2>3. pi # NoStar
    BY <1>2 DEF MatchInv, Inputs, NoStar
  <2>4. QED
    BY <1>2, <2>1, <2>2, <2>3 DEF Complete, Tracked
<1>8. QED
  <2> HIDE DEF n, pi, ni, s, sn
  <2>1. verdict' # "match" /\ verdict' # "mismatch"
    BY <1>1, <1>2
  <2>2. Sound(SuffixMatches, patternIndex, nameIndex, starIndex, starNameIndex)'
    BY <1>1, <1>3, <1>6
  <2>3. StarFree' => Complete(SuffixMatches, Len(name), patternIndex, nameIndex,
                              starIndex, starNameIndex)'
    BY <1>1, <1>3, <1>7
  <2>4. QED
    BY <1>3, <1>4, <2>1, <2>2, <2>3 DEF MatchInv

(* Where a star-free name fails to go on. *)
LEMMA Stuck ==
    ASSUME Inputs, NEW m, IsTable(m), patternIndex \in 0 .. Len(pattern),
           nameIndex \in 0 .. Len(name), nameIndex < Len(name), ~AtUnit, ~AtStar
    PROVE  ~m[patternIndex][nameIndex]
<1>1. Len(pattern) \in Nat /\ Len(name) \in Nat
  BY DEF Inputs
<1>2. CASE patternIndex = Len(pattern)
  BY <1>1, <1>2, TableEnd
<1>3. CASE patternIndex # Len(pattern)
  <2>1. InPattern
    BY <1>1, <1>3 DEF InPattern
  <2>2. pattern[patternIndex + 1] # Star
    BY <2>1 DEF AtStar
  <2>3. m[patternIndex][nameIndex]
            <=> /\ nameIndex < Len(name)
                /\ \/ pattern[patternIndex + 1] = AnyUnit
                   \/ UnitsEqual(pattern[patternIndex + 1], name[nameIndex + 1])
                /\ m[patternIndex + 1][nameIndex + 1]
    BY <1>1, <1>3, <2>2, TableUnit
  <2>4. QED
    BY <2>1, <2>3 DEF AtUnit
<1>4. QED
  BY <1>2, <1>3

LEMMA BacktrackKeeps == ASSUME MatchInv, Backtrack PROVE MatchInv'
<1> DEFINE n == Len(name)
           pi == patternIndex
           ni == nameIndex
           s == starIndex
           sn == starNameIndex
<1> PICK m : m = SuffixMatches
  OBVIOUS
<1>1. /\ InLoop /\ ~AtUnit /\ ~AtStar /\ s # NoStar /\ UNCHANGED inputs
      /\ patternIndex' = s + 1 /\ nameIndex' = sn + 1
      /\ starIndex' = s /\ starNameIndex' = sn + 1 /\ verdict' = verdict
  BY DEF Backtrack
<1>2. /\ Len(pattern) \in Nat /\ n \in Nat /\ pi \in Nat /\ ni \in Nat /\ sn \in Nat
      /\ ni < n /\ sn <= ni
      /\ IsTable(m) /\ verdict = "running"
      /\ StarFree => Tracked(m, n, pi, ni, s, sn)
      /\ pi \in 0 .. Len(pattern)
      /\ s \in 0 .. Len(pattern) /\ s < pi /\ pattern[s + 1] = Star
  BY <1>1, InLoopIs DEF MatchInv, Places
<1>3. /\ Inputs' /\ StarFree' = StarFree /\ SuffixMatches' = m
      /\ Reference' = Reference /\ Len(name') = n
      /\ pattern' = pattern /\ name' = name
  BY <1>1, InputsKept DEF MatchInv, inputs
<1>4. Places'
  BY <1>1, <1>2, <1>3 DEF MatchInv, Places
<1>5. ASSUME NEW j \in 0 .. n PROVE m[s][j] <=> \E k \in j .. n : m[s + 1][k]
  <2> HIDE DEF s
  <2>1. s \in 0 .. Len(pattern) /\ s # Len(pattern)
    BY <1>2
  <2>2. QED
    BY <1>2, <2>1, TableStar
<1>6. Sound(m, s + 1, sn + 1, s, sn + 1)
  <2>1. /\ m[s + 1][sn + 1] => m[s][sn + 1]
        /\ m[s][sn + 1] => m[s][sn]
    <3>1. /\ sn \in 0 .. n /\ sn + 1 \in 0 .. n /\ sn + 1 \in (sn + 1) .. n
          /\ \A k \in (sn + 1) .. n : k \in sn .. n
      BY <1>2
    <3>2. QED
      BY <1>5, <3>1
  <2>2. m[s][sn] => m[0][0]
    BY <1>1 DEF MatchInv, Sound
  <2>3. QED
    BY <2>1, <2>2 DEF Sound
<1>7. ASSUME StarFree PROVE Complete(m, n, s + 1, sn + 1, s, sn + 1)
  <2>1. ASSUME m[0][0] PROVE m[s][sn + 1]
    <3>1. /\ m[s][sn]
          /\ \A k \in sn .. n : m[s + 1][k] =>
               k + (ni - sn) \in 0 .. n /\ m[pi][k + (ni - sn)]
      BY <1>1, <1>2, <1>7, <2>1 DEF Tracked
    <3>2. sn \in 0 .. n /\ sn + 1 \in 0 .. n
      BY <1>2
    <3>3. PICK k \in sn .. n : m[s + 1][k]
      BY <1>5, <3>1, <3>2
    <3>4. ~m[pi][ni]
      <4>1. nameIndex \in 0 .. Len(name)
        BY <1>2
      <4>2. QED
        BY <1>1, <1>2, <4>1, Stuck DEF MatchInv
    <3>5. k # sn
      <4> SUFFICES ASSUME k = sn PROVE FALSE
        OBVIOUS
      <4>1. m[pi][sn + (ni - sn)] /\ sn + (ni - sn) = ni
        BY <1>2, <3>1, <3>3
      <4>2. QED
        BY <3>4, <4>1
    <3>6. k \in (sn + 1) .. n
      BY <1>2, <3>5
    <3>7. QED
      BY <1>5, <3>2, <3>3, <3>6
  <2>2. \A k \in (sn + 1) .. n : m[s + 1][k] =>
           /\ k + ((sn + 1) - (sn + 1)) \in 0 .. n
           /\ m[s + 1][k + ((sn + 1) - (sn + 1))]
    BY <1>2
  <2>3. Tracked(m, n, s + 1, sn + 1, s, sn + 1)
    BY <1>1, <2>1, <2>2 DEF Tracked
  <2>4. ASSUME sn + 1 = n PROVE m[0][0] => m[s + 1][n]
    <3>1. Tracked(m, n, s + 1, n, s, n)
      BY <2>3, <2>4
    <3>2. s \in 0 .. Len(pattern) - 1 /\ n \in 0 .. Len(name) /\ Inputs
      BY <1>2 DEF MatchInv
    <3> HIDE DEF n, pi, ni, s, sn
    <3>3. QED
      BY <1>2, <3>1, <3>2, Arrived DEF n
  <2>5. QED
    BY <2>3, <2>4 DEF Complete
<1>8. QED
  <2> HIDE DEF n, pi, ni, s, sn
  <2>1. verdict' # "match" /\ verdict' # "mismatch"
    BY <1>1, <1>2
  <2>2. Sound(SuffixMatches, patternIndex, nameIndex, starIndex, starNameIndex)'
    BY <1>1, <1>3, <1>6
  <2>3. StarFree' => Complete(SuffixMatches, Len(name), patternIndex, nameIndex,
                              starIndex, starNameIndex)'
    BY <1>1, <1>3, <1>7
  <2>4. QED
    BY <1>3, <1>4, <2>1, <2>2, <2>3 DEF MatchInv

LEMMA MismatchKeeps == ASSUME MatchInv, Mismatch PROVE MatchInv'
<1> PICK m : m = SuffixMatches
  OBVIOUS
<1>1. /\ InLoop /\ ~AtUnit /\ ~AtStar /\ starIndex = NoStar
      /\ UNCHANGED <<inputs, patternIndex, nameIndex, starIndex, starNameIndex>>
      /\ verdict' = "mismatch"
  BY DEF Mismatch
<1>2. /\ Inputs' /\ StarFree' = StarFree /\ SuffixMatches' = m
      /\ Reference' = Reference /\ pattern' = pattern /\ name' = name
  BY <1>1, InputsKept DEF MatchInv, inputs
<1>3. Places'
  BY <1>1, <1>2 DEF MatchInv, Places
<1>4. Sound(m, patternIndex, nameIndex, starIndex, starNameIndex)
  BY DEF MatchInv
<1>5. ASSUME StarFree PROVE ~Reference
  <2>1. ~m[patternIndex][nameIndex]
    BY <1>1, InLoopIs, Stuck DEF MatchInv, Places
  <2>2. m[0][0] => m[patternIndex][nameIndex]
    BY <1>1, <1>5, InLoopIs DEF Tracked
  <2>3. QED
    BY <2>1, <2>2 DEF Reference
<1>6. QED
  BY <1>1, <1>2, <1>3, <1>4, <1>5 DEF MatchInv

(* After the loop only stars are left to be matched. *)
LEMMA AfterLoopIs ==
    ASSUME MatchInv, AfterLoop
    PROVE  /\ IsTable(SuffixMatches) /\ verdict = "running"
           /\ Len(pattern) \in Nat /\ Len(name) \in Nat
           /\ patternIndex \in 0 .. Len(pattern) /\ nameIndex = Len(name)
           /\ SuffixMatches[patternIndex][Len(name)] => Reference
           /\ StarFree => (Reference => SuffixMatches[patternIndex][Len(name)])
<1>1. IsTable(SuffixMatches)
  BY TableIs DEF MatchInv, Inputs
<1>2. QED
  BY <1>1 DEF MatchInv, Inputs, Places, AfterLoop, Complete, Sound, Reference

LEMMA SkipStarKeeps == ASSUME MatchInv, SkipStar PROVE MatchInv'
<1> DEFINE n == Len(name)
           pi == patternIndex
<1> PICK m : m = SuffixMatches
  OBVIOUS
<1>1. /\ AfterLoop /\ AtStar /\ UNCHANGED inputs
      /\ patternIndex' = pi + 1 /\ nameIndex' = nameIndex
      /\ starIndex' = starIndex /\ starNameIndex' = starNameIndex
      /\ verdict' = verdict
  BY DEF SkipStar
<1>2. /\ IsTable(m) /\ verdict = "running"
      /\ Len(pattern) \in Nat /\ n \in Nat
      /\ pi \in 0 .. Len(pattern) /\ pi # Len(pattern) /\ nameIndex = n
      /\ pattern[pi + 1] = Star
      /\ m[pi][n] => Reference
      /\ StarFree => (Reference => m[pi][n])
  BY <1>1, AfterLoopIs DEF AtStar, InPattern
<1>3. /\ Inputs' /\ StarFree' = StarFree /\ SuffixMatches' = m
      /\ Reference' = Reference /\ Len(name') = n
      /\ pattern' = pattern /\ name' = name
  BY <1>1, InputsKept DEF MatchInv, inputs
<1>4. Places'
  BY <1>1, <1>2, <1>3 DEF MatchInv, Places
<1>5. m[pi][n] <=> m[pi + 1][n]
  <2> HIDE DEF pi, n
  <2>1. n \in 0 .. Len(name) /\ n = Len(name)
    BY <1>2 DEF n
  <2>2. m[pi][n] <=> \E k \in n .. Len(name) : m[pi + 1][k]
    BY <1>2, <2>1, TableStar
  <2>3. n .. Len(name) = {n}
    BY <1>2, <2>1
  <2>4. QED
    BY <2>2, <2>3
<1>6. /\ Sound(m, pi + 1, n, starIndex, starNameIndex)
      /\ StarFree => Complete(m, n, pi + 1, n, starIndex, starNameIndex)
  <2>1. Reference = m[0][0]
    BY DEF Reference
  <2>2. starIndex # NoStar => (m[starIndex][starNameIndex] => m[0][0])
    BY DEF MatchInv, Sound
  <2> HIDE DEF pi, n
  <2>3. QED
    BY <1>2, <1>5, <2>1, <2>2 DEF Sound, Complete
<1>7. QED
  <2> HIDE DEF n, pi
  <2>1. verdict' # "match" /\ verdict' # "mismatch"
    BY <1>1, <1>2
  <2>2. Sound(SuffixMatches, patternIndex, nameIndex, starIndex, starNameIndex)'
    BY <1>1, <1>2, <1>3, <1>6
  <2>3. StarFree' => Complete(SuffixMatches, Len(name), patternIndex, nameIndex,
                              starIndex, starNameIndex)'
    BY <1>1, <1>2, <1>3, <1>6
  <2>4. QED
    BY <1>3, <1>4, <2>1, <2>2, <2>3 DEF MatchInv

LEMMA ReturnVerdictKeeps == ASSUME MatchInv, ReturnVerdict PROVE MatchInv'
<1> PICK m : m = SuffixMatches
  OBVIOUS
<1>1. /\ AfterLoop /\ ~AtStar
      /\ UNCHANGED <<inputs, patternIndex, nameIndex, starIndex, starNameIndex>>
      /\ verdict' = IF patternIndex = Len(pattern) THEN "match" ELSE "mismatch"
  BY DEF ReturnVerdict
<1>2. /\ Inputs' /\ StarFree' = StarFree /\ SuffixMatches' = m
      /\ Reference' = Reference /\ pattern' = pattern /\ name' = name
  BY <1>1, InputsKept DEF MatchInv, inputs
<1>3. Places'
  BY <1>1, <1>2 DEF MatchInv, Places
<1>4. Sound(m, patternIndex, nameIndex, starIndex, starNameIndex)
  BY DEF MatchInv
<1>5. /\ IsTable(m) /\ Len(pattern) \in Nat /\ Len(name) \in Nat
      /\ patternIndex \in 0 .. Len(pattern) /\ Len(name) \in 0 .. Len(name)
      /\ m[patternIndex][Len(name)] => Reference
      /\ StarFree => (Reference => m[patternIndex][Len(name)])
  BY <1>1, AfterLoopIs
<1>6. CASE patternIndex = Len(pattern)
  <2>1. m[patternIndex][Len(name)]
    BY <1>5, <1>6, TableEnd
  <2>2. QED
    BY <1>1, <1>2, <1>3, <1>4, <1>5, <1>6, <2>1 DEF MatchInv
<1>7. CASE patternIndex # Len(pattern)
  <2>1. InPattern /\ pattern[patternIndex + 1] # Star
    BY <1>1, <1>5, <1>7 DEF InPattern, AtStar
  <2>2. ~m[patternIndex][Len(name)]
    BY <1>5, <1>7, <2>1, TableUnit
  <2>3. QED
    BY <1>1, <1>2, <1>3, <1>4, <1>5, <1>7, <2>2 DEF MatchInv
<1>8. QED
  BY <1>6, <1>7

LEMMA MatchInitially == MatchInit => MatchInv
<1> SUFFICES ASSUME MatchInit PROVE MatchInv
  OBVIOUS
<1>1. Inputs
  BY BoundedSequence, WildcardMatchAssumption
     DEF MatchInit, Inputs, BoundedSeq, SeqOf, PatternUnits
<1>2. Places
  BY <1>1 DEF MatchInit, Places, Inputs
<1>3. Sound(SuffixMatches, patternIndex, nameIndex, starIndex, starNameIndex)
  BY DEF MatchInit, Sound
<1>4. Complete(SuffixMatches, Len(name), patternIndex, nameIndex,
               starIndex, starNameIndex)
  BY DEF MatchInit, Complete, Tracked
<1>5. verdict = "match" => IsDosAll
  BY DEF MatchInit, IsDosAll
<1>6. verdict # "mismatch"
  BY DEF MatchInit
<1>7. QED
  BY <1>1, <1>2, <1>3, <1>4, <1>5, <1>6 DEF MatchInv

LEMMA MatchStep == ASSUME MatchInv, [MatchNext]_matchVars PROVE MatchInv'
<1>1. CASE UNCHANGED matchVars
  <2>1. /\ UNCHANGED inputs /\ Inputs
        /\ UNCHANGED <<patternIndex, nameIndex, starIndex, starNameIndex, verdict>>
    BY <1>1 DEF matchVars, MatchInv
  <2>2. /\ Inputs' /\ StarFree' = StarFree /\ SuffixMatches' = SuffixMatches
        /\ Reference' = Reference /\ pattern' = pattern /\ name' = name
    BY <2>1, InputsKept DEF inputs
  <2>3. Places' /\ IsDosAll' = IsDosAll
    BY <2>1, <2>2 DEF MatchInv, Places, IsDosAll
  <2>4. QED
    BY <2>1, <2>2, <2>3 DEF MatchInv
<1>2. CASE MatchNext
  BY <1>2, AdvanceKeeps, OpenStarKeeps, BacktrackKeeps, MismatchKeeps,
     SkipStarKeeps, ReturnVerdictKeeps DEF MatchNext
<1>3. QED
  BY <1>1, <1>2

(* The loop that remembers only the last star reports no name the pattern   *)
(* does not match and, for a name without a star, misses none: for every    *)
(* pattern and every name, in both case modes.                              *)
THEOREM MatchedExactly == MatchSpec => []MatchesExactly
<1>1. MatchSpec => []MatchInv
  BY MatchInitially, MatchStep, PTL DEF MatchSpec
<1>2. MatchInv => MatchesExactly
  <2> SUFFICES ASSUME MatchInv PROVE MatchesExactly
    OBVIOUS
  <2>1. Len(pattern) <= MaxPattern /\ Len(name) <= MaxName
    BY WildcardMatchAssumption DEF MatchInv, Inputs
  <2>2. /\ patternIndex \in 0 .. Len(pattern) /\ nameIndex \in 0 .. Len(name)
        /\ starNameIndex \in 0 .. Len(name) /\ starIndex \in 0 .. MaxPattern
    BY WildcardMatchAssumption DEF MatchInv, Inputs, Places, NoStar
  <2>3. MatchTypeOK
    BY <2>1, <2>2 DEF MatchInv, Inputs, Places, MatchTypeOK, PatternUnits
  <2>4. QED
    BY <2>3 DEF MatchInv, MatchesExactly, StarFree
<1>3. QED
  BY <1>1, <1>2, PTL
=============================================================================
