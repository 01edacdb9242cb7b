-------------------------- MODULE FileHandlesProofs --------------------------
(***************************************************************************)
(* Safety of the file objects and truth of what the writes report, for     *)
(* every number of threads, files and calls and every size of a write.     *)
(***************************************************************************)
EXTENDS FileHandles, FiniteSetTheorems, TLAPS

-----------------------------------------------------------------------------
(* The inductive invariant.                                                *)

Making == {"own", "insert"}

\* What a thread knows of the file it uses or is making.
LeaseInv ==
    \A t \in Threads :
        /\ pc[t] = "idle" <=> lease[t] = NoFile
        /\ \A f \in Files : lease[t] = f =>
              /\ pc[t] \in Making => /\ handle[f] = "none"
                                     /\ \A u \in Threads : u # t => lease[u] # f
              /\ pc[t] = "own" => file[f].life = "unused" /\ file[f].fd \in Fds
              /\ pc[t] = "insert" => file[f].life = "live"
              /\ pc[t] \notin Making => file[f].life = "live" /\ handle[f] # "none"

\* A file and its descriptor belong to each other.
OwnInv ==
    /\ \A f \in Files : file[f].fd \in Fds => host[file[f].fd] = f
    /\ \A d \in Fds : host[d] # NoFile => file[host[d]].fd = d

\* A file has a descriptor while it lives or is made.
LifeInv ==
    \A f \in Files :
        /\ file[f].life = "live" => file[f].fd \in Fds
        /\ file[f].life = "destroyed" => file[f].fd \notin Fds
        /\ file[f].life = "unused" =>
              /\ handle[f] = "none"
              /\ file[f].fd \in Fds => \E t \in Threads : lease[t] = f /\ pc[t] = "own"
        /\ handle[f] = "open" => file[f].life = "live"

\* A call that writes has a number of its own.
CallInv ==
    \A t \in Threads :
        /\ call[t].id = 0 => call[t] = NoCall
        /\ call[t].id # 0 =>
              /\ pc[t] \in {"write", "release"}
              /\ call[t].id <= calls
              /\ call[t].op # "none"
              /\ \A u \in Threads : u # t => call[u].id # call[t].id
        /\ pc[t] = "write" => call[t].id # 0 /\ call[t].status = "OK"
        /\ pc[t] = "release" /\ call[t].id # 0 /\ call[t].status = "OK" =>
              call[t].done = call[t].size

\* The host has of a call in progress what the call has counted.
ProgressInv ==
    \A t \in Threads, f \in Files, i \in 1 .. MaxCalls, n \in 0 .. MaxBytes :
        lease[t] = f /\ call[t].id = i /\ call[t].done = n => GotPrefix(f, i, n)

\* Nobody has written in the name of a call to come.
FreshInv ==
    \A f \in Files : \A p \in DOMAIN console[f] : console[f][p][1] <= calls

ReturnedInv ==
    \A r \in returned :
        /\ r.id <= calls
        /\ \A t \in Threads : call[t].id # r.id

IndInv ==
    /\ TypeOK
    /\ LeaseInv
    /\ OwnInv
    /\ LifeInv
    /\ CallInv
    /\ ProgressInv
    /\ FreshInv
    /\ ReturnedInv
    /\ WritesAreTruthful

-----------------------------------------------------------------------------
(* Descriptor numbers.                                                     *)

LEMMA FdFacts ==
  /\ IsFiniteSet(Fds) /\ Cardinality(Fds) = Cardinality(Files)
  /\ Fds \subseteq Nat /\ NoFd \notin Fds
<1>1. FirstFd \in Nat /\ Cardinality(Files) \in Nat
  BY FileHandlesAssumption, FS_CardinalityType
<1> DEFINE last == FirstFd + Cardinality(Files) - 1
<1>2. last \in Int /\ FirstFd \in Int /\ Fds = FirstFd .. last
  BY <1>1 DEF Fds
<1> HIDE DEF last
<1>3. /\ IsFiniteSet(Fds)
      /\ Cardinality(Fds) = IF FirstFd > last THEN 0 ELSE last - FirstFd + 1
  BY <1>2, FS_Interval
<1>4. QED
  BY <1>1, <1>2, <1>3 DEF last, NoFd

(* A set of numbers that is not empty has a least element. *)
LEMMA Least ==
  ASSUME NEW S \in SUBSET Nat, S # {}
  PROVE  \E d \in S : \A e \in S : d <= e
<1>1. PICK d \in S : \A e \in S : <<e, d>> \notin OpToRel(<, Nat)
  BY NatLessThanWellFounded, WFMin
<1>2. \A e \in S : ~(e < d)
  BY <1>1 DEF OpToRel
<1>3. QED
  BY <1>2

(* While a file has no descriptor the host has one left: each that is open *)
(* is another file's.                                                      *)
LEMMA LowestFreeFdExists ==
  ASSUME TypeOK, OwnInv, NEW f \in Files, file[f].fd \notin Fds
  PROVE  LowestFreeFd \in Fds /\ host[LowestFreeFd] = NoFile
<1>1. FreeFds # {}
  <2> SUFFICES ASSUME \A d \in Fds : host[d] # NoFile
               PROVE  FALSE
    BY DEF FreeFds
  <2>1. \A d \in Fds : host[d] \in Files \ {f}
    BY DEF TypeOK, OwnInv
  <2> DEFINE owner == [d \in Fds |-> host[d]]
  <2>2. owner \in [Fds -> Files \ {f}]
    BY <2>1
  <2>3. \A d, e \in Fds : owner[d] = owner[e] => d = e
    BY DEF OwnInv
  <2>4. IsFiniteSet(Files) /\ Cardinality(Files) \in Nat
    BY FileHandlesAssumption, FS_CardinalityType
  <2>5. IsFiniteSet(Files \ {f}) /\ Cardinality(Files \ {f}) = Cardinality(Files) - 1
    BY <2>4, FS_RemoveElement
  <2>6. Cardinality(Files \ {f}) < Cardinality(Fds)
    BY <2>4, <2>5, FdFacts
  <2> HIDE DEF owner
  <2>7. \E d, e \in Fds : d # e /\ owner[d] = owner[e]
    BY <2>2, <2>5, <2>6, FdFacts, FS_PigeonHole
  <2>8. QED
    BY <2>3, <2>7
<1>2. FreeFds \in SUBSET Nat
  BY FdFacts DEF FreeFds
<1>3. \E d \in FreeFds : \A other \in FreeFds : d <= other
  BY <1>1, <1>2, Least
<1>4. LowestFreeFd \in FreeFds
  BY <1>3 DEF LowestFreeFd
<1>5. QED
  BY <1>4 DEF FreeFds

-----------------------------------------------------------------------------
(* Bytes.                                                                  *)

Bytes == (1 .. MaxCalls) \X (1 .. MaxBytes)

\* File f has got the bytes n + 1 to n + count of call i, after the first
\* old it had; the other files have got nothing.
Appended(f, i, n, count, old) ==
    /\ DOMAIN console[f] = 1 .. old /\ DOMAIN console'[f] = 1 .. old + count
    /\ \A p \in 1 .. old : console'[f][p] = console[f][p]
    /\ \A p \in 1 .. old : console[f][p][2] \in 1 .. MaxBytes
    /\ \A p \in old + 1 .. old + count :
          console'[f][p][1] = i /\ console'[f][p][2] = n + (p - old)
    /\ \A g \in Files : g # f => console'[g] = console[g]

(* What writing does to the file, byte by byte. *)
LEMMA AppendBytes ==
  ASSUME console \in [Files -> Seq(Bytes)],
         NEW f \in Files, NEW i \in 1 .. MaxCalls, NEW n \in 0 .. MaxBytes,
         NEW count \in 1 .. MaxBytes, n + count <= MaxBytes,
         console' = [console EXCEPT ![f] = console[f] \o [k \in 1 .. count |-> <<i, n + k>>]]
  PROVE  /\ console' \in [Files -> Seq(Bytes)]
         /\ Len(console[f]) \in Nat
         /\ Appended(f, i, n, count, Len(console[f]))
<1>0. MaxCalls \in Nat /\ MaxBytes \in Nat
  BY FileHandlesAssumption
<1> USE <1>0
<1> DEFINE new == [k \in 1 .. count |-> <<i, n + k>>]
           old == Len(console[f])
<1>1. new \in Seq(Bytes) /\ Len(new) = count /\ console[f] \in Seq(Bytes) /\ old \in Nat
  BY DEF Bytes
<1>2. /\ console'[f] = console[f] \o new
      /\ console' \in [Files -> Seq(Bytes)]
      /\ \A g \in Files : g # f => console'[g] = console[g]
  <2>1. console' = [console EXCEPT ![f] = console[f] \o new]
    OBVIOUS
  <2> HIDE DEF new
  <2>2. console[f] \o new \in Seq(Bytes)
    BY <1>1
  <2>3. QED
    BY <2>1, <2>2
<1>3. /\ DOMAIN console[f] = 1 .. old /\ DOMAIN console'[f] = 1 .. old + count
      /\ \A p \in 1 .. old : console'[f][p] = console[f][p]
      /\ \A p \in old + 1 .. old + count : console'[f][p] = <<i, n + (p - old)>>
  BY <1>1, <1>2
<1>4. \A p \in 1 .. old : console[f][p][2] \in 1 .. MaxBytes
  <2>1. \A p \in 1 .. old : console[f][p] \in Bytes
    BY <1>1
  <2>2. QED
    BY <2>1 DEF Bytes
<1>5. \A p \in old + 1 .. old + count :
         console'[f][p][1] = i /\ console'[f][p][2] = n + (p - old)
  BY <1>3
<1>6. QED
  BY <1>1, <1>2, <1>3, <1>4, <1>5 DEF Appended

(* The prefix of the call that writes grows, and nothing else changes. *)
LEMMA PrefixGrows ==
  ASSUME NEW f \in Files, NEW i \in 1 .. MaxCalls, NEW n \in 0 .. MaxBytes,
         NEW count \in 1 .. MaxBytes, n + count <= MaxBytes,
         NEW old \in Nat, Appended(f, i, n, count, old)
  PROVE  /\ GotPrefix(f, i, n) => GotPrefix(f, i, n + count)'
         /\ \A g \in Files, j \in Nat, m \in Nat :
               j # i /\ GotPrefix(g, j, m) => GotPrefix(g, j, m)'
         /\ \A g \in Files : \A p \in DOMAIN console'[g] :
               \/ p \in DOMAIN console[g] /\ console'[g][p] = console[g][p]
               \/ console'[g][p][1] = i
<1>0. MaxCalls \in Nat /\ MaxBytes \in Nat
  BY FileHandlesAssumption
<1> USE <1>0
<1>1. /\ DOMAIN console[f] = 1 .. old /\ DOMAIN console'[f] = 1 .. old + count
      /\ \A p \in 1 .. old : console'[f][p] = console[f][p]
      /\ \A p \in 1 .. old : console[f][p][2] \in 1 .. MaxBytes
      /\ \A p \in old + 1 .. old + count :
            console'[f][p][1] = i /\ console'[f][p][2] = n + (p - old)
      /\ \A g \in Files : g # f => console'[g] = console[g]
  BY DEF Appended
<1>2. \A p : p \in 1 .. old + count => p \in 1 .. old \/ p \in old + 1 .. old + count
  OBVIOUS
<1>3. 1 .. old \subseteq 1 .. old + count
  OBVIOUS
<1>4. ASSUME NEW g \in Files, NEW j \in Nat, g # f \/ j # i
      PROVE  Accepted(g, j)' = Accepted(g, j)
  <2>1. CASE g # f
    BY <1>1, <2>1 DEF Accepted
  <2>2. CASE g = f /\ j # i
    <3>1. ASSUME NEW k
          PROVE  (\E p \in 1 .. old + count : console'[f][p][1] = j /\ console'[f][p][2] = k) <=>
                 (\E p \in 1 .. old : console[f][p][1] = j /\ console[f][p][2] = k)
      BY <1>1, <1>2, <1>3, <2>2
    <3>2. \A k \in 1 .. MaxBytes :
             (\E p \in DOMAIN console'[f] : console'[f][p][1] = j /\ console'[f][p][2] = k) <=>
             (\E p \in DOMAIN console[f] : console[f][p][1] = j /\ console[f][p][2] = k)
      BY <1>1, <3>1
    <3>3. Accepted(f, j)' = Accepted(f, j)
      BY <3>2 DEF Accepted
    <3>4. QED
      BY <2>2, <3>3
  <2>3. QED
    BY <1>4, <2>1, <2>2
<1>5. ASSUME NEW g \in Files, NEW j \in Nat, g # f \/ j # i, InOrder(g, j)
      PROVE  InOrder(g, j)'
  <2> SUFFICES ASSUME NEW p \in DOMAIN console'[g], NEW q \in DOMAIN console'[g],
                      p < q, console'[g][p][1] = j, console'[g][q][1] = j
               PROVE  console'[g][p][2] < console'[g][q][2]
    BY DEF InOrder
  <2>1. CASE g # f
    BY <1>1, <1>5, <2>1 DEF InOrder
  <2>2. CASE g = f /\ j # i
    <3>1. p \in 1 .. old /\ q \in 1 .. old
      BY <1>1, <1>2, <2>2
    <3>2. QED
      BY <1>1, <1>5, <2>2, <3>1 DEF InOrder
  <2>3. QED
    BY <1>5, <2>1, <2>2
<1>6. ASSUME GotPrefix(f, i, n) PROVE GotPrefix(f, i, n + count)'
  <2>1. Accepted(f, i)' = 1 .. n + count
    <3>1. Accepted(f, i) = 1 .. n
      BY <1>6 DEF GotPrefix
    <3>2. ASSUME NEW k \in 1 .. MaxBytes, NEW p \in 1 .. old + count,
                 console'[f][p][1] = i, console'[f][p][2] = k
          PROVE  k \in 1 .. n + count
      <4>1. CASE p \in 1 .. old
        <5>1. k \in Accepted(f, i)
          BY <1>1, <3>2, <4>1 DEF Accepted
        <5>2. QED
          BY <3>1, <5>1
      <4>2. CASE p \in old + 1 .. old + count
        <5>1. k = n + (p - old)
          BY <1>1, <3>2, <4>2
        <5>2. QED
          BY <4>2, <5>1
      <4>3. QED
        BY <1>2, <4>1, <4>2
    <3>3. ASSUME NEW k \in 1 .. n + count
          PROVE  /\ k \in 1 .. MaxBytes
                 /\ \E p \in 1 .. old + count : console'[f][p][1] = i /\ console'[f][p][2] = k
      <4>1. k \in 1 .. MaxBytes
        OBVIOUS
      <4>2. CASE k \in 1 .. n
        <5>1. k \in Accepted(f, i)
          BY <3>1, <4>2
        <5>2. PICK p \in 1 .. old : console[f][p][1] = i /\ console[f][p][2] = k
          BY <1>1, <5>1 DEF Accepted
        <5>3. p \in 1 .. old + count /\ console'[f][p] = console[f][p]
          BY <1>1, <1>3
        <5>4. QED
          BY <4>1, <5>2, <5>3
      <4>3. CASE k \notin 1 .. n
        <5> DEFINE p == old + (k - n)
        <5>1. /\ p \in old + 1 .. old + count /\ p \in 1 .. old + count
              /\ n + (p - old) = k
          BY <4>3
        <5> HIDE DEF p
        <5>2. console'[f][p][1] = i /\ console'[f][p][2] = k
          BY <1>1, <5>1
        <5>3. QED
          BY <4>1, <5>1, <5>2
      <4>4. QED
        BY <4>2, <4>3
    <3>4. QED
      BY <1>1, <3>2, <3>3 DEF Accepted
  <2>2. InOrder(f, i)'
    <3> SUFFICES ASSUME NEW p \in 1 .. old + count, NEW q \in 1 .. old + count,
                        p < q, console'[f][p][1] = i, console'[f][q][1] = i
                 PROVE  console'[f][p][2] < console'[f][q][2]
      BY <1>1 DEF InOrder
    <3>1. CASE q \in 1 .. old
      <4>1. p \in 1 .. old
        BY <3>1
      <4>2. QED
        BY <1>1, <1>6, <3>1, <4>1 DEF GotPrefix, InOrder
    <3>2. CASE q \in old + 1 .. old + count
      <4>1. console'[f][q][2] = n + (q - old) /\ n + (q - old) > n
        BY <1>1, <3>2
      <4>2. CASE p \in 1 .. old
        <5>1. console[f][p][1] = i /\ console[f][p][2] \in 1 .. MaxBytes
          BY <1>1, <4>2
        <5>2. console[f][p][2] \in Accepted(f, i)
          BY <1>1, <4>2, <5>1 DEF Accepted
        <5>3. console[f][p][2] \in 1 .. n
          BY <1>6, <5>2 DEF GotPrefix
        <5>4. QED
          BY <1>1, <4>1, <4>2, <5>3
      <4>3. CASE p \in old + 1 .. old + count
        <5>1. console'[f][p][2] = n + (p - old)
          BY <1>1, <4>3
        <5>2. QED
          BY <3>2, <4>1, <4>3, <5>1
      <4>4. QED
        BY <1>2, <4>2, <4>3
    <3>3. QED
      BY <1>2, <3>1, <3>2
  <2>3. \A g \in Files \ {f} : Accepted(g, i)' = {}
    <3> SUFFICES ASSUME NEW g \in Files \ {f} PROVE Accepted(g, i)' = {}
      OBVIOUS
    <3>1. Accepted(g, i) = {}
      BY <1>6 DEF GotPrefix
    <3>2. Accepted(g, i)' = Accepted(g, i)
      BY <1>4
    <3>3. QED
      BY <3>1, <3>2
  <2>4. QED
    BY <2>1, <2>2, <2>3 DEF GotPrefix
<1>7. ASSUME NEW g \in Files, NEW j \in Nat, NEW m \in Nat, j # i, GotPrefix(g, j, m)
      PROVE  GotPrefix(g, j, m)'
  <2>1. \A x \in Files : Accepted(x, j)' = Accepted(x, j)
    BY <1>4, <1>7
  <2>2. InOrder(g, j)'
    BY <1>5, <1>7 DEF GotPrefix
  <2>3. QED
    BY <1>7, <2>1, <2>2 DEF GotPrefix
<1>8. ASSUME NEW g \in Files, NEW p \in DOMAIN console'[g]
      PROVE  \/ p \in DOMAIN console[g] /\ console'[g][p] = console[g][p]
             \/ console'[g][p][1] = i
  <2>1. CASE g # f
    BY <1>1, <2>1
  <2>2. CASE g = f
    BY <1>1, <1>2, <2>2
  <2>3. QED
    BY <2>1, <2>2
<1>9. QED
  BY <1>6, <1>7, <1>8

-----------------------------------------------------------------------------
(* TypeOK, element by element. *)
LEMMA Typing ==
  ASSUME TypeOK
  PROVE  /\ \A x \in Fds : host[x] \in Files \cup {NoFile}
         /\ \A x \in Files : /\ file[x].life \in {"unused", "live", "destroyed"}
                             /\ file[x].fd \in Fds \cup {NoFd}
                             /\ handle[x] \in {"none", "open", "closed"}
         /\ \A u \in Threads : /\ lease[u] \in Files \cup {NoFile}
                               /\ pc[u] \in {"idle", "own", "insert", "write", "query",
                                             "flush", "seek", "release"}
                               /\ call[u].id \in 0 .. MaxCalls
                               /\ call[u].op \in {"none", "WriteFile", "WriteConsole"}
                               /\ call[u].size \in 0 .. MaxBytes
                               /\ call[u].done \in 0 .. MaxBytes
                               /\ call[u].status \in {"OK", "IO"}
                               /\ call[u].done <= call[u].size
         /\ calls \in 0 .. MaxCalls
BY DEF TypeOK

(* Of what the files and the results consist. *)
LEMMA ObjectType ==
  NoObject("destroyed") \in [life : {"unused", "live", "destroyed"},
                             fd : Fds \cup {NoFd}, access : Rights]
BY DEF NoObject, Rights

LEMMA ByteTypes ==
  ASSUME TypeOK
  PROVE  \A f \in Files : \A p \in DOMAIN console[f] :
            console[f][p][1] \in 1 .. MaxCalls /\ console[f][p][2] \in 1 .. MaxBytes
<1>1. \A f \in Files : console[f] \in Seq(Bytes)
  BY DEF TypeOK, Bytes
<1>2. \A f \in Files : \A p \in DOMAIN console[f] : console[f][p] \in Bytes
  BY <1>1
<1>3. QED
  BY <1>2 DEF Bytes

LEMMA ResultTypes ==
  ASSUME TypeOK
  PROVE  \A r \in returned : /\ r.id \in 1 .. MaxCalls /\ r.id \in Nat
                            /\ r.file \in Files
                            /\ r.size \in 0 .. MaxBytes /\ r.size \in Nat
BY FileHandlesAssumption DEF TypeOK

(* Of a call to come no file has a byte. *)
LEMMA NothingYet ==
  ASSUME TypeOK, FreshInv, NEW f \in Files
  PROVE  GotPrefix(f, calls + 1, 0)
<1>1. \A g \in Files : \A p \in DOMAIN console[g] : console[g][p][1] # calls + 1
  <2>1. calls \in Nat /\ MaxCalls \in Nat
    BY Typing, FileHandlesAssumption
  <2>2. QED
    BY <2>1, ByteTypes DEF FreshInv
<1>2. \A g \in Files : Accepted(g, calls + 1) = {}
  BY <1>1 DEF Accepted
<1>3. InOrder(f, calls + 1)
  BY <1>1 DEF InOrder
<1>4. 1 .. 0 = {}
  OBVIOUS
<1>5. QED
  BY <1>2, <1>3, <1>4 DEF GotPrefix

-----------------------------------------------------------------------------
(* The steps.                                                              *)

(* A descriptor is made for a file to come. *)
LEMMA DuplicateStep ==
  ASSUME IndInv, NEW t \in Threads, NEW f \in Files, NEW d \in Fds, NEW access \in Rights,
         pc[t] = "idle",
         file[f].life = "unused",
         \A u \in Threads : lease[u] # f,
         host[d] = NoFile,
         host' = [host EXCEPT ![d] = f],
         file' = [file EXCEPT ![f] = [life |-> "unused", fd |-> d, access |-> access]],
         lease' = [lease EXCEPT ![t] = f],
         pc' = [pc EXCEPT ![t] = "own"],
         UNCHANGED <<handle, call, calls, console, returned>>
  PROVE  IndInv'
<1> USE DEF IndInv
<1>1. /\ \A x \in Fds : host'[x] = IF x = d THEN f ELSE host[x]
      /\ \A x \in Files : x # f => file'[x] = file[x]
      /\ file'[f].life = "unused"
      /\ file'[f].fd = d
      /\ \A u \in Threads : lease'[u] = IF u = t THEN f ELSE lease[u]
      /\ \A u \in Threads : pc'[u] = IF u = t THEN "own" ELSE pc[u]
  BY DEF TypeOK, NoObject
<1>2. \A g, j, m : GotPrefix(g, j, m)' <=> GotPrefix(g, j, m)
  BY DEF GotPrefix, InOrder, Accepted
<1> USE <1>1, Typing, FdFacts, FileHandlesAssumption
<1>3. TypeOK'
  <2>1. host' \in [Fds -> Files \cup {NoFile}]
    BY DEF TypeOK
  <2>2. file' \in [Files -> [life : {"unused", "live", "destroyed"},
                           fd : Fds \cup {NoFd}, access : Rights]]
    BY DEF TypeOK, NoObject
  <2>3. lease' \in [Threads -> Files \cup {NoFile}]
    BY DEF TypeOK
  <2>4. pc' \in [Threads -> {"idle", "own", "insert", "write", "query", "flush", "seek",
                            "release"}]
    BY DEF TypeOK
  <2>5. QED
    BY <2>1, <2>2, <2>3, <2>4 DEF TypeOK
<1>4. LeaseInv'
  BY DEF LeaseInv, LifeInv, OwnInv, Making
<1>5. OwnInv'
  BY DEF OwnInv, LeaseInv, LifeInv, Making
<1>6. LifeInv'
  BY DEF LifeInv, LeaseInv, Making
<1>7. CallInv'
  BY DEF CallInv, ReturnedInv, NoCall
<1>8. ProgressInv'
  BY <1>2 DEF ProgressInv, CallInv
<1>9. FreshInv'
  BY DEF FreshInv
<1>10. ReturnedInv'
  BY DEF ReturnedInv
<1>11. WritesAreTruthful'
  BY <1>2 DEF WritesAreTruthful
<1>12. QED
  BY <1>3, <1>4, <1>5, <1>6, <1>7, <1>8, <1>9, <1>10, <1>11

(* The file takes the descriptor. *)
LEMMA CreateOwnedFdStep ==
  ASSUME IndInv, NEW t \in Threads, NEW f \in Files,
         pc[t] = "own",
         lease[t] = f,
         file' = [file EXCEPT ![f].life = "live"],
         pc' = [pc EXCEPT ![t] = "insert"],
         UNCHANGED <<host, handle, lease, call, calls, console, returned>>
  PROVE  IndInv'
<1> USE DEF IndInv
<1>1. /\ \A x \in Files : file'[x].life = IF x = f THEN "live" ELSE file[x].life
      /\ \A x \in Files : file'[x].fd = file[x].fd
      /\ \A u \in Threads : pc'[u] = IF u = t THEN "insert" ELSE pc[u]
  BY DEF TypeOK, NoObject
<1>2. \A g, j, m : GotPrefix(g, j, m)' <=> GotPrefix(g, j, m)
  BY DEF GotPrefix, InOrder, Accepted
<1> USE <1>1, Typing, FdFacts, FileHandlesAssumption
<1>3. TypeOK'
  <2>1. file' \in [Files -> [life : {"unused", "live", "destroyed"},
                           fd : Fds \cup {NoFd}, access : Rights]]
    <3>1. file[f] \in [life : {"unused", "live", "destroyed"},
                           fd : Fds \cup {NoFd}, access : Rights]
      BY DEF TypeOK
    <3>2. [file[f] EXCEPT !.life = "live"] \in [life : {"unused", "live", "destroyed"},
                           fd : Fds \cup {NoFd}, access : Rights]
      BY <3>1
    <3>3. file' = [file EXCEPT ![f] = [file[f] EXCEPT !.life = "live"]]
      OBVIOUS
    <3>4. QED
      BY <3>2, <3>3 DEF TypeOK
  <2>2. pc' \in [Threads -> {"idle", "own", "insert", "write", "query", "flush", "seek",
                            "release"}]
    BY DEF TypeOK
  <2>3. QED
    BY <2>1, <2>2 DEF TypeOK
<1>4. LeaseInv'
  BY DEF LeaseInv, LifeInv, OwnInv, Making
<1>5. OwnInv'
  BY DEF OwnInv, LeaseInv, LifeInv, Making
<1>6. LifeInv'
  BY DEF LifeInv, LeaseInv, Making
<1>7. CallInv'
  BY DEF CallInv, ReturnedInv, NoCall
<1>8. ProgressInv'
  BY <1>2 DEF ProgressInv
<1>9. FreshInv'
  BY DEF FreshInv
<1>10. ReturnedInv'
  BY DEF ReturnedInv
<1>11. WritesAreTruthful'
  BY <1>2 DEF WritesAreTruthful
<1>12. QED
  BY <1>3, <1>4, <1>5, <1>6, <1>7, <1>8, <1>9, <1>10, <1>11

(* There is no memory: the descriptor is closed. *)
LEMMA CreateOwnedFdFailsStep ==
  ASSUME IndInv, NEW t \in Threads, NEW f \in Files, NEW d \in Fds,
         pc[t] = "own",
         lease[t] = f,
         file[f].fd = d,
         host' = [host EXCEPT ![d] = NoFile],
         file' = [file EXCEPT ![f] = NoObject("destroyed")],
         lease' = [lease EXCEPT ![t] = NoFile],
         call' = [call EXCEPT ![t] = NoCall],
         pc' = [pc EXCEPT ![t] = "idle"],
         UNCHANGED <<handle, calls, console, returned>>
  PROVE  IndInv'
<1> USE DEF IndInv
<1>1. /\ \A x \in Fds : host'[x] = IF x = d THEN NoFile ELSE host[x]
      /\ \A x \in Files : x # f => file'[x] = file[x]
      /\ file'[f].life = "destroyed"
      /\ file'[f].fd = NoFd
      /\ \A u \in Threads : lease'[u] = IF u = t THEN NoFile ELSE lease[u]
      /\ \A u \in Threads : u # t => call'[u] = call[u]
      /\ call'[t].id = 0
      /\ call'[t].op = "none"
      /\ call'[t].size = 0
      /\ call'[t].done = 0
      /\ call'[t].status = "OK"
      /\ call'[t] = NoCall
      /\ \A u \in Threads : pc'[u] = IF u = t THEN "idle" ELSE pc[u]
  BY DEF TypeOK, NoCall, NoObject
<1>2. \A g, j, m : GotPrefix(g, j, m)' <=> GotPrefix(g, j, m)
  BY DEF GotPrefix, InOrder, Accepted
<1> USE <1>1, Typing, FdFacts, FileHandlesAssumption
<1>3. TypeOK'
  <2>1. host' \in [Fds -> Files \cup {NoFile}]
    BY DEF TypeOK
  <2>2. file' \in [Files -> [life : {"unused", "live", "destroyed"},
                           fd : Fds \cup {NoFd}, access : Rights]]
    BY ObjectType DEF TypeOK
  <2>3. lease' \in [Threads -> Files \cup {NoFile}]
    BY DEF TypeOK
  <2>4. pc' \in [Threads -> {"idle", "own", "insert", "write", "query", "flush", "seek",
                            "release"}]
    BY DEF TypeOK
  <2>5. call' \in [Threads -> [id : 0 .. MaxCalls,
                              op : {"none", "WriteFile", "WriteConsole"},
                              size : 0 .. MaxBytes, done : 0 .. MaxBytes,
                              status : {"OK", "IO"}]]
    BY DEF TypeOK, NoCall
  <2>6. \A u \in Threads : call'[u].done <= call'[u].size
    BY DEF TypeOK
  <2>7. QED
    BY <2>1, <2>2, <2>3, <2>4, <2>5, <2>6 DEF TypeOK
<1>4. LeaseInv'
  BY DEF LeaseInv, LifeInv, OwnInv, Making
<1>5. OwnInv'
  BY DEF OwnInv, LeaseInv, LifeInv, Making
<1>6. LifeInv'
  BY DEF LifeInv, LeaseInv, Making
<1>7. CallInv'
  BY DEF CallInv, ReturnedInv, NoCall
<1>8. ProgressInv'
  BY <1>2 DEF ProgressInv, CallInv
<1>9. FreshInv'
  BY DEF FreshInv
<1>10. ReturnedInv'
  BY DEF ReturnedInv, CallInv
<1>11. WritesAreTruthful'
  BY <1>2 DEF WritesAreTruthful
<1>12. QED
  BY <1>3, <1>4, <1>5, <1>6, <1>7, <1>8, <1>9, <1>10, <1>11

(* The handle table takes the file. *)
LEMMA InsertStep ==
  ASSUME IndInv, NEW t \in Threads, NEW f \in Files,
         pc[t] = "insert",
         lease[t] = f,
         handle' = [handle EXCEPT ![f] = "open"],
         lease' = [lease EXCEPT ![t] = NoFile],
         call' = [call EXCEPT ![t] = NoCall],
         pc' = [pc EXCEPT ![t] = "idle"],
         UNCHANGED <<host, file, calls, console, returned>>
  PROVE  IndInv'
<1> USE DEF IndInv
<1>1. /\ \A x \in Files : handle'[x] = IF x = f THEN "open" ELSE handle[x]
      /\ \A u \in Threads : lease'[u] = IF u = t THEN NoFile ELSE lease[u]
      /\ \A u \in Threads : u # t => call'[u] = call[u]
      /\ call'[t].id = 0
      /\ call'[t].op = "none"
      /\ call'[t].size = 0
      /\ call'[t].done = 0
      /\ call'[t].status = "OK"
      /\ call'[t] = NoCall
      /\ \A u \in Threads : pc'[u] = IF u = t THEN "idle" ELSE pc[u]
  BY DEF TypeOK, NoCall
<1>2. \A g, j, m : GotPrefix(g, j, m)' <=> GotPrefix(g, j, m)
  BY DEF GotPrefix, InOrder, Accepted
<1> USE <1>1, Typing, FdFacts, FileHandlesAssumption
<1>3. TypeOK'
  <2>1. handle' \in [Files -> {"none", "open", "closed"}]
    BY DEF TypeOK
  <2>2. lease' \in [Threads -> Files \cup {NoFile}]
    BY DEF TypeOK
  <2>3. pc' \in [Threads -> {"idle", "own", "insert", "write", "query", "flush", "seek",
                            "release"}]
    BY DEF TypeOK
  <2>4. call' \in [Threads -> [id : 0 .. MaxCalls,
                              op : {"none", "WriteFile", "WriteConsole"},
                              size : 0 .. MaxBytes, done : 0 .. MaxBytes,
                              status : {"OK", "IO"}]]
    BY DEF TypeOK, NoCall
  <2>5. \A u \in Threads : call'[u].done <= call'[u].size
    BY DEF TypeOK
  <2>6. QED
    BY <2>1, <2>2, <2>3, <2>4, <2>5 DEF TypeOK
<1>4. LeaseInv'
  BY DEF LeaseInv, LifeInv, OwnInv, Making
<1>5. OwnInv'
  BY DEF OwnInv
<1>6. LifeInv'
  BY DEF LifeInv, LeaseInv, Making
<1>7. CallInv'
  BY DEF CallInv, ReturnedInv, NoCall
<1>8. ProgressInv'
  BY <1>2 DEF ProgressInv, CallInv
<1>9. FreshInv'
  BY DEF FreshInv
<1>10. ReturnedInv'
  BY DEF ReturnedInv, CallInv
<1>11. WritesAreTruthful'
  BY <1>2 DEF WritesAreTruthful
<1>12. QED
  BY <1>3, <1>4, <1>5, <1>6, <1>7, <1>8, <1>9, <1>10, <1>11

(* The table is full: the file is destroyed. *)
LEMMA InsertFailsStep ==
  ASSUME IndInv, NEW t \in Threads, NEW f \in Files, NEW d \in Fds,
         pc[t] = "insert",
         lease[t] = f,
         file[f].fd = d,
         host' = [host EXCEPT ![d] = NoFile],
         file' = [file EXCEPT ![f] = NoObject("destroyed")],
         lease' = [lease EXCEPT ![t] = NoFile],
         call' = [call EXCEPT ![t] = NoCall],
         pc' = [pc EXCEPT ![t] = "idle"],
         UNCHANGED <<handle, calls, console, returned>>
  PROVE  IndInv'
<1> USE DEF IndInv
<1>1. /\ \A x \in Fds : host'[x] = IF x = d THEN NoFile ELSE host[x]
      /\ \A x \in Files : x # f => file'[x] = file[x]
      /\ file'[f].life = "destroyed"
      /\ file'[f].fd = NoFd
      /\ \A u \in Threads : lease'[u] = IF u = t THEN NoFile ELSE lease[u]
      /\ \A u \in Threads : u # t => call'[u] = call[u]
      /\ call'[t].id = 0
      /\ call'[t].op = "none"
      /\ call'[t].size = 0
      /\ call'[t].done = 0
      /\ call'[t].status = "OK"
      /\ call'[t] = NoCall
      /\ \A u \in Threads : pc'[u] = IF u = t THEN "idle" ELSE pc[u]
  BY DEF TypeOK, NoCall, NoObject
<1>2. \A g, j, m : GotPrefix(g, j, m)' <=> GotPrefix(g, j, m)
  BY DEF GotPrefix, InOrder, Accepted
<1> USE <1>1, Typing, FdFacts, FileHandlesAssumption
<1>3. TypeOK'
  <2>1. host' \in [Fds -> Files \cup {NoFile}]
    BY DEF TypeOK
  <2>2. file' \in [Files -> [life : {"unused", "live", "destroyed"},
                           fd : Fds \cup {NoFd}, access : Rights]]
    BY ObjectType DEF TypeOK
  <2>3. lease' \in [Threads -> Files \cup {NoFile}]
    BY DEF TypeOK
  <2>4. pc' \in [Threads -> {"idle", "own", "insert", "write", "query", "flush", "seek",
                            "release"}]
    BY DEF TypeOK
  <2>5. call' \in [Threads -> [id : 0 .. MaxCalls,
                              op : {"none", "WriteFile", "WriteConsole"},
                              size : 0 .. MaxBytes, done : 0 .. MaxBytes,
                              status : {"OK", "IO"}]]
    BY DEF TypeOK, NoCall
  <2>6. \A u \in Threads : call'[u].done <= call'[u].size
    BY DEF TypeOK
  <2>7. QED
    BY <2>1, <2>2, <2>3, <2>4, <2>5, <2>6 DEF TypeOK
<1>4. LeaseInv'
  BY DEF LeaseInv, LifeInv, OwnInv, Making
<1>5. OwnInv'
  BY DEF OwnInv, LeaseInv, LifeInv, Making
<1>6. LifeInv'
  BY DEF LifeInv, LeaseInv, Making
<1>7. CallInv'
  BY DEF CallInv, ReturnedInv, NoCall
<1>8. ProgressInv'
  BY <1>2 DEF ProgressInv, CallInv
<1>9. FreshInv'
  BY DEF FreshInv
<1>10. ReturnedInv'
  BY DEF ReturnedInv, CallInv
<1>11. WritesAreTruthful'
  BY <1>2 DEF WritesAreTruthful
<1>12. QED
  BY <1>3, <1>4, <1>5, <1>6, <1>7, <1>8, <1>9, <1>10, <1>11

(* A call that writes begins. *)
LEMMA WriteStep ==
  ASSUME IndInv, NEW t \in Threads, NEW f \in Files, NEW o \in {"WriteFile", "WriteConsole"}, NEW size \in 0 .. MaxBytes,
         pc[t] = "idle",
         handle[f] = "open",
         calls < MaxCalls,
         lease' = [lease EXCEPT ![t] = f],
         pc' = [pc EXCEPT ![t] = "write"],
         call' = [call EXCEPT ![t] = [id |-> calls + 1, op |-> o, size |-> size, done |-> 0, status |-> "OK"]],
         calls' = calls + 1,
         UNCHANGED <<host, file, handle, console, returned>>
  PROVE  IndInv'
<1> USE DEF IndInv
<1>1. /\ \A u \in Threads : lease'[u] = IF u = t THEN f ELSE lease[u]
      /\ \A u \in Threads : pc'[u] = IF u = t THEN "write" ELSE pc[u]
      /\ \A u \in Threads : u # t => call'[u] = call[u]
      /\ call'[t].id = calls + 1
      /\ call'[t].op = o
      /\ call'[t].size = size
      /\ call'[t].done = 0
      /\ call'[t].status = "OK"
  BY DEF TypeOK, NoCall
<1>2. \A g, j, m : GotPrefix(g, j, m)' <=> GotPrefix(g, j, m)
  BY DEF GotPrefix, InOrder, Accepted
<1> USE <1>1, Typing, FdFacts, FileHandlesAssumption
<1>3. TypeOK'
  <2>1. lease' \in [Threads -> Files \cup {NoFile}]
    BY DEF TypeOK
  <2>2. pc' \in [Threads -> {"idle", "own", "insert", "write", "query", "flush", "seek",
                            "release"}]
    BY DEF TypeOK
  <2>3. call' \in [Threads -> [id : 0 .. MaxCalls,
                              op : {"none", "WriteFile", "WriteConsole"},
                              size : 0 .. MaxBytes, done : 0 .. MaxBytes,
                              status : {"OK", "IO"}]]
    BY DEF TypeOK, NoCall
  <2>4. calls' \in 0 .. MaxCalls
    BY DEF TypeOK
  <2>5. \A u \in Threads : call'[u].done <= call'[u].size
    BY DEF TypeOK
  <2>6. QED
    BY <2>1, <2>2, <2>3, <2>4, <2>5 DEF TypeOK
<1>4. LeaseInv'
  BY DEF LeaseInv, LifeInv, OwnInv, Making
<1>5. OwnInv'
  BY DEF OwnInv
<1>6. LifeInv'
  BY DEF LifeInv, LeaseInv, Making
<1>7. CallInv'
  BY DEF CallInv, ReturnedInv, NoCall
<1>8. ProgressInv'
  <2>1. GotPrefix(f, calls + 1, 0)
    BY NothingYet
  <2>2. \A u \in Threads : call[u].id # calls + 1
    BY DEF CallInv
  <2>3. QED
    BY <1>2, <2>1, <2>2 DEF ProgressInv
<1>9. FreshInv'
  BY ByteTypes DEF FreshInv
<1>10. ReturnedInv'
  BY ResultTypes DEF ReturnedInv, CallInv
<1>11. WritesAreTruthful'
  BY <1>2 DEF WritesAreTruthful
<1>12. QED
  BY <1>3, <1>4, <1>5, <1>6, <1>7, <1>8, <1>9, <1>10, <1>11

(* Another call begins, or is refused at once. *)
LEMMA UseStep ==
  ASSUME IndInv, NEW t \in Threads, NEW f \in Files, NEW step,
         pc[t] = "idle",
         handle[f] = "open",
         step \in {"query", "flush", "seek", "release"},
         lease' = [lease EXCEPT ![t] = f],
         pc' = [pc EXCEPT ![t] = step],
         UNCHANGED <<host, file, handle, call, calls, console, returned>>
  PROVE  IndInv'
<1> USE DEF IndInv
<1>1. /\ \A u \in Threads : lease'[u] = IF u = t THEN f ELSE lease[u]
      /\ \A u \in Threads : pc'[u] = IF u = t THEN step ELSE pc[u]
  BY DEF TypeOK
<1>2. \A g, j, m : GotPrefix(g, j, m)' <=> GotPrefix(g, j, m)
  BY DEF GotPrefix, InOrder, Accepted
<1> USE <1>1, Typing, FdFacts, FileHandlesAssumption
<1>3. TypeOK'
  <2>1. lease' \in [Threads -> Files \cup {NoFile}]
    BY DEF TypeOK
  <2>2. pc' \in [Threads -> {"idle", "own", "insert", "write", "query", "flush", "seek",
                            "release"}]
    BY DEF TypeOK
  <2>3. QED
    BY <2>1, <2>2 DEF TypeOK
<1>4. LeaseInv'
  BY DEF LeaseInv, LifeInv, OwnInv, Making
<1>5. OwnInv'
  BY DEF OwnInv
<1>6. LifeInv'
  BY DEF LifeInv, LeaseInv, Making
<1>7. CallInv'
  BY DEF CallInv, ReturnedInv, NoCall
<1>8. ProgressInv'
  BY <1>2 DEF ProgressInv, CallInv
<1>9. FreshInv'
  BY DEF FreshInv
<1>10. ReturnedInv'
  BY DEF ReturnedInv
<1>11. WritesAreTruthful'
  BY <1>2 DEF WritesAreTruthful
<1>12. QED
  BY <1>3, <1>4, <1>5, <1>6, <1>7, <1>8, <1>9, <1>10, <1>11

(* The host accepts some bytes. *)
LEMMA WriteSomeStep ==
  ASSUME IndInv, NEW t \in Threads, NEW f \in Files, NEW i \in 1 .. MaxCalls, NEW n \in 0 .. MaxBytes, NEW count \in 1 .. MaxBytes,
         pc[t] = "write",
         lease[t] = f,
         call[t].id = i,
         call[t].done = n,
         n + count <= call[t].size,
         call' = [call EXCEPT ![t].done = n + count],
         console' = [console EXCEPT ![f] =
                        console[f] \o [k \in 1 .. count |-> <<i, n + k>>]],
         UNCHANGED <<host, file, handle, lease, pc, calls, returned>>
  PROVE  IndInv'
<1> USE DEF IndInv
<1>1. /\ \A u \in Threads : call'[u].id = call[u].id
      /\ \A u \in Threads : call'[u].op = call[u].op
      /\ \A u \in Threads : call'[u].size = call[u].size
      /\ \A u \in Threads : call'[u].done = IF u = t THEN n + count ELSE call[u].done
      /\ \A u \in Threads : call'[u].status = call[u].status
  BY DEF TypeOK, NoCall
<1>2. call[t].id = i /\ pc[t] = "write" /\ lease[t] = f /\ n + count <= MaxBytes
  BY Typing, FileHandlesAssumption
<1>3. /\ console' \in [Files -> Seq(Bytes)]
      /\ Len(console[f]) \in Nat
      /\ Appended(f, i, n, count, Len(console[f]))
  BY <1>2, AppendBytes DEF TypeOK, Bytes
<1>4. /\ GotPrefix(f, i, n) => GotPrefix(f, i, n + count)'
      /\ \A g \in Files, j \in Nat, m \in Nat :
            j # i /\ GotPrefix(g, j, m) => GotPrefix(g, j, m)'
      /\ \A g \in Files : \A p \in DOMAIN console'[g] :
            \/ p \in DOMAIN console[g] /\ console'[g][p] = console[g][p]
            \/ console'[g][p][1] = i
  BY <1>2, <1>3, PrefixGrows
<1> USE <1>1, Typing, FdFacts, FileHandlesAssumption, <1>2, <1>3, <1>4
<1>5. TypeOK'
  <2>1. call' \in [Threads -> [id : 0 .. MaxCalls,
                              op : {"none", "WriteFile", "WriteConsole"},
                              size : 0 .. MaxBytes, done : 0 .. MaxBytes,
                              status : {"OK", "IO"}]]
    <3>1. n + count \in 0 .. MaxBytes
      OBVIOUS
    <3>2. call[t] \in [id : 0 .. MaxCalls,
                              op : {"none", "WriteFile", "WriteConsole"},
                              size : 0 .. MaxBytes, done : 0 .. MaxBytes,
                              status : {"OK", "IO"}]
      BY DEF TypeOK
    <3>3. [call[t] EXCEPT !.done = n + count] \in [id : 0 .. MaxCalls,
                              op : {"none", "WriteFile", "WriteConsole"},
                              size : 0 .. MaxBytes, done : 0 .. MaxBytes,
                              status : {"OK", "IO"}]
      BY ONLY <3>2, <3>1
    <3>4. call' = [call EXCEPT ![t] = [call[t] EXCEPT !.done = n + count]]
      OBVIOUS
    <3>5. QED
      BY <3>3, <3>4 DEF TypeOK
  <2>2. \A u \in Threads : call'[u].done <= call'[u].size
    BY DEF TypeOK
  <2>3. QED
    BY <2>1, <2>2 DEF TypeOK, Bytes
<1>6. LeaseInv'
  BY DEF LeaseInv
<1>7. OwnInv'
  BY DEF OwnInv
<1>8. LifeInv'
  BY DEF LifeInv
<1>9. CallInv'
  BY DEF CallInv, ReturnedInv, NoCall
<1>10. ProgressInv'
  <2> SUFFICES ASSUME NEW u \in Threads, NEW g \in Files, NEW j \in 1 .. MaxCalls,
                      NEW m \in 0 .. MaxBytes,
                      lease[u] = g, call'[u].id = j, call'[u].done = m
               PROVE  GotPrefix(g, j, m)'
    BY DEF ProgressInv
  <2>1. CASE u = t
    <3>1. g = f /\ j = i /\ m = n + count
      BY <2>1
    <3>2. GotPrefix(f, i, n)
      BY DEF ProgressInv
    <3>3. GotPrefix(f, i, n + count)'
      BY <3>2
    <3>4. QED
      BY <3>1, <3>3
  <2>2. CASE u # t
    <3>1. j # i
      BY <2>2 DEF CallInv
    <3>2. GotPrefix(g, j, m)
      <4>1. call[u].id = j /\ call[u].done = m
        BY <2>2
      <4>2. QED
        BY <4>1 DEF ProgressInv
    <3>3. j \in Nat /\ m \in Nat
      OBVIOUS
    <3>4. QED
      BY <3>1, <3>2, <3>3
  <2>3. QED
    BY <2>1, <2>2
<1>11. FreshInv'
  <2> SUFFICES ASSUME NEW g \in Files, NEW p \in DOMAIN console'[g]
               PROVE  console'[g][p][1] <= calls
    BY DEF FreshInv
  <2>1. i <= calls
    BY DEF CallInv
  <2>2. g \in Files /\ p \in DOMAIN console'[g]
    OBVIOUS
  <2>3. CASE p \in DOMAIN console[g] /\ console'[g][p] = console[g][p]
    BY <2>3 DEF FreshInv
  <2>4. CASE console'[g][p][1] = i
    BY <2>1, <2>4
  <2>5. \/ p \in DOMAIN console[g] /\ console'[g][p] = console[g][p]
        \/ console'[g][p][1] = i
    BY ONLY <1>4, <2>2
  <2>6. QED
    BY ONLY <2>3, <2>4, <2>5
<1>12. ReturnedInv'
  BY DEF ReturnedInv, CallInv
<1>13. WritesAreTruthful'
  <2> SUFFICES ASSUME NEW r \in returned
               PROVE  \E m \in 0 .. r.size :
                         /\ GotPrefix(r.file, r.id, m)'
                         /\ r.success => m = r.size
                         /\ r.written = IF r.op = "WriteFile" \/ r.success THEN m ELSE 0
    BY DEF WritesAreTruthful
  <2>1. PICK m \in 0 .. r.size :
           /\ GotPrefix(r.file, r.id, m)
           /\ r.success => m = r.size
           /\ r.written = IF r.op = "WriteFile" \/ r.success THEN m ELSE 0
    BY DEF WritesAreTruthful
  <2>2. r.file \in Files /\ r.id \in Nat /\ r.size \in Nat
    BY ResultTypes
  <2>3. r.id # i /\ m \in Nat
    BY <2>2 DEF ReturnedInv
  <2>4. GotPrefix(r.file, r.id, m)'
    BY <2>1, <2>2, <2>3
  <2>5. QED
    BY <2>1, <2>4
<1>14. QED
  BY <1>5, <1>6, <1>7, <1>8, <1>9, <1>10, <1>11, <1>12, <1>13

(* The host accepts none, or the file is not for writing. *)
LEMMA WriteFailsStep ==
  ASSUME IndInv, NEW t \in Threads,
         pc[t] = "write",
         call' = [call EXCEPT ![t].status = "IO"],
         pc' = [pc EXCEPT ![t] = "release"],
         UNCHANGED <<host, file, handle, lease, calls, console, returned>>
  PROVE  IndInv'
<1> USE DEF IndInv
<1>1. /\ \A u \in Threads : call'[u].id = call[u].id
      /\ \A u \in Threads : call'[u].op = call[u].op
      /\ \A u \in Threads : call'[u].size = call[u].size
      /\ \A u \in Threads : call'[u].done = call[u].done
      /\ \A u \in Threads : call'[u].status = IF u = t THEN "IO" ELSE call[u].status
      /\ \A u \in Threads : pc'[u] = IF u = t THEN "release" ELSE pc[u]
  BY DEF TypeOK, NoCall
<1>2. \A g, j, m : GotPrefix(g, j, m)' <=> GotPrefix(g, j, m)
  BY DEF GotPrefix, InOrder, Accepted
<1> USE <1>1, Typing, FdFacts, FileHandlesAssumption
<1>3. TypeOK'
  <2>1. pc' \in [Threads -> {"idle", "own", "insert", "write", "query", "flush", "seek",
                            "release"}]
    BY DEF TypeOK
  <2>2. call' \in [Threads -> [id : 0 .. MaxCalls,
                              op : {"none", "WriteFile", "WriteConsole"},
                              size : 0 .. MaxBytes, done : 0 .. MaxBytes,
                              status : {"OK", "IO"}]]
    <3>1. "IO" \in {"OK", "IO"}
      OBVIOUS
    <3>2. call[t] \in [id : 0 .. MaxCalls,
                              op : {"none", "WriteFile", "WriteConsole"},
                              size : 0 .. MaxBytes, done : 0 .. MaxBytes,
                              status : {"OK", "IO"}]
      BY DEF TypeOK
    <3>3. [call[t] EXCEPT !.status = "IO"] \in [id : 0 .. MaxCalls,
                              op : {"none", "WriteFile", "WriteConsole"},
                              size : 0 .. MaxBytes, done : 0 .. MaxBytes,
                              status : {"OK", "IO"}]
      BY ONLY <3>2, <3>1
    <3>4. call' = [call EXCEPT ![t] = [call[t] EXCEPT !.status = "IO"]]
      OBVIOUS
    <3>5. QED
      BY <3>3, <3>4 DEF TypeOK
  <2>3. \A u \in Threads : call'[u].done <= call'[u].size
    BY DEF TypeOK
  <2>4. QED
    BY <2>1, <2>2, <2>3 DEF TypeOK
<1>4. LeaseInv'
  BY DEF LeaseInv, LifeInv, OwnInv, Making
<1>5. OwnInv'
  BY DEF OwnInv
<1>6. LifeInv'
  BY DEF LifeInv, LeaseInv, Making
<1>7. CallInv'
  BY DEF CallInv, ReturnedInv, NoCall
<1>8. ProgressInv'
  BY <1>2 DEF ProgressInv, CallInv
<1>9. FreshInv'
  BY DEF FreshInv
<1>10. ReturnedInv'
  BY DEF ReturnedInv, CallInv
<1>11. WritesAreTruthful'
  BY <1>2 DEF WritesAreTruthful
<1>12. QED
  BY <1>3, <1>4, <1>5, <1>6, <1>7, <1>8, <1>9, <1>10, <1>11

(* All bytes are written. *)
LEMMA WriteEndsStep ==
  ASSUME IndInv, NEW t \in Threads,
         pc[t] = "write",
         call[t].done = call[t].size,
         pc' = [pc EXCEPT ![t] = "release"],
         UNCHANGED <<host, file, handle, lease, call, calls, console,
                      returned>>
  PROVE  IndInv'
<1> USE DEF IndInv
<1>1. /\ \A u \in Threads : pc'[u] = IF u = t THEN "release" ELSE pc[u]
  BY DEF TypeOK
<1>2. \A g, j, m : GotPrefix(g, j, m)' <=> GotPrefix(g, j, m)
  BY DEF GotPrefix, InOrder, Accepted
<1> USE <1>1, Typing, FdFacts, FileHandlesAssumption
<1>3. TypeOK'
  <2>1. pc' \in [Threads -> {"idle", "own", "insert", "write", "query", "flush", "seek",
                            "release"}]
    BY DEF TypeOK
  <2>2. QED
    BY <2>1 DEF TypeOK
<1>4. LeaseInv'
  BY DEF LeaseInv, LifeInv, OwnInv, Making
<1>5. OwnInv'
  BY DEF OwnInv
<1>6. LifeInv'
  BY DEF LifeInv, LeaseInv, Making
<1>7. CallInv'
  BY DEF CallInv, ReturnedInv, NoCall
<1>8. ProgressInv'
  BY <1>2 DEF ProgressInv
<1>9. FreshInv'
  BY DEF FreshInv
<1>10. ReturnedInv'
  BY DEF ReturnedInv
<1>11. WritesAreTruthful'
  BY <1>2 DEF WritesAreTruthful
<1>12. QED
  BY <1>3, <1>4, <1>5, <1>6, <1>7, <1>8, <1>9, <1>10, <1>11

(* The other calls end. *)
LEMMA UseEndsStep ==
  ASSUME IndInv, NEW t \in Threads,
         pc[t] \in {"query", "flush", "seek"},
         pc' = [pc EXCEPT ![t] = "release"],
         UNCHANGED <<host, file, handle, lease, call, calls, console,
                      returned>>
  PROVE  IndInv'
<1> USE DEF IndInv
<1>1. /\ \A u \in Threads : pc'[u] = IF u = t THEN "release" ELSE pc[u]
  BY DEF TypeOK
<1>2. \A g, j, m : GotPrefix(g, j, m)' <=> GotPrefix(g, j, m)
  BY DEF GotPrefix, InOrder, Accepted
<1> USE <1>1, Typing, FdFacts, FileHandlesAssumption
<1>3. TypeOK'
  <2>1. pc' \in [Threads -> {"idle", "own", "insert", "write", "query", "flush", "seek",
                            "release"}]
    BY DEF TypeOK
  <2>2. QED
    BY <2>1 DEF TypeOK
<1>4. LeaseInv'
  BY DEF LeaseInv, LifeInv, OwnInv, Making
<1>5. OwnInv'
  BY DEF OwnInv
<1>6. LifeInv'
  BY DEF LifeInv, LeaseInv, Making
<1>7. CallInv'
  BY DEF CallInv, ReturnedInv, NoCall
<1>8. ProgressInv'
  BY <1>2 DEF ProgressInv
<1>9. FreshInv'
  BY DEF FreshInv
<1>10. ReturnedInv'
  BY DEF ReturnedInv
<1>11. WritesAreTruthful'
  BY <1>2 DEF WritesAreTruthful
<1>12. QED
  BY <1>3, <1>4, <1>5, <1>6, <1>7, <1>8, <1>9, <1>10, <1>11

(* A call that did not write returns. *)
LEMMA ReleaseStep ==
  ASSUME IndInv, NEW t \in Threads,
         pc[t] = "release",
         call[t].id = 0,
         lease' = [lease EXCEPT ![t] = NoFile],
         call' = [call EXCEPT ![t] = NoCall],
         pc' = [pc EXCEPT ![t] = "idle"],
         UNCHANGED <<host, file, handle, calls, console, returned>>
  PROVE  IndInv'
<1> USE DEF IndInv
<1>1. /\ \A u \in Threads : lease'[u] = IF u = t THEN NoFile ELSE lease[u]
      /\ \A u \in Threads : u # t => call'[u] = call[u]
      /\ call'[t].id = 0
      /\ call'[t].op = "none"
      /\ call'[t].size = 0
      /\ call'[t].done = 0
      /\ call'[t].status = "OK"
      /\ call'[t] = NoCall
      /\ \A u \in Threads : pc'[u] = IF u = t THEN "idle" ELSE pc[u]
  BY DEF TypeOK, NoCall
<1>2. \A g, j, m : GotPrefix(g, j, m)' <=> GotPrefix(g, j, m)
  BY DEF GotPrefix, InOrder, Accepted
<1> USE <1>1, Typing, FdFacts, FileHandlesAssumption
<1>3. TypeOK'
  <2>1. lease' \in [Threads -> Files \cup {NoFile}]
    BY DEF TypeOK
  <2>2. pc' \in [Threads -> {"idle", "own", "insert", "write", "query", "flush", "seek",
                            "release"}]
    BY DEF TypeOK
  <2>3. call' \in [Threads -> [id : 0 .. MaxCalls,
                              op : {"none", "WriteFile", "WriteConsole"},
                              size : 0 .. MaxBytes, done : 0 .. MaxBytes,
                              status : {"OK", "IO"}]]
    BY DEF TypeOK, NoCall
  <2>4. \A u \in Threads : call'[u].done <= call'[u].size
    BY DEF TypeOK
  <2>5. QED
    BY <2>1, <2>2, <2>3, <2>4 DEF TypeOK
<1>4. LeaseInv'
  BY DEF LeaseInv, LifeInv, OwnInv, Making
<1>5. OwnInv'
  BY DEF OwnInv
<1>6. LifeInv'
  BY DEF LifeInv, LeaseInv, Making
<1>7. CallInv'
  BY DEF CallInv, ReturnedInv, NoCall
<1>8. ProgressInv'
  BY <1>2 DEF ProgressInv, CallInv
<1>9. FreshInv'
  BY DEF FreshInv
<1>10. ReturnedInv'
  BY DEF ReturnedInv, CallInv
<1>11. WritesAreTruthful'
  BY <1>2 DEF WritesAreTruthful
<1>12. QED
  BY <1>3, <1>4, <1>5, <1>6, <1>7, <1>8, <1>9, <1>10, <1>11

(* A call that wrote returns what it counted. *)
LEMMA ReleaseWriterStep ==
  ASSUME IndInv, NEW t \in Threads, NEW f \in Files, NEW n \in 0 .. MaxBytes,
         pc[t] = "release",
         call[t].id # 0,
         lease[t] = f,
         call[t].done = n,
         returned' = returned \cup
             {[id |-> call[t].id, file |-> f, op |-> call[t].op, size |-> call[t].size,
               success |-> call[t].status = "OK", written |-> ReportedCount(call[t])]},
         lease' = [lease EXCEPT ![t] = NoFile],
         call' = [call EXCEPT ![t] = NoCall],
         pc' = [pc EXCEPT ![t] = "idle"],
         UNCHANGED <<host, file, handle, calls, console>>
  PROVE  IndInv'
<1> USE DEF IndInv
<1>1. /\ \A u \in Threads : lease'[u] = IF u = t THEN NoFile ELSE lease[u]
      /\ \A u \in Threads : u # t => call'[u] = call[u]
      /\ call'[t].id = 0
      /\ call'[t].op = "none"
      /\ call'[t].size = 0
      /\ call'[t].done = 0
      /\ call'[t].status = "OK"
      /\ call'[t] = NoCall
      /\ \A u \in Threads : pc'[u] = IF u = t THEN "idle" ELSE pc[u]
  BY DEF TypeOK, NoCall
<1>2. \A g, j, m : GotPrefix(g, j, m)' <=> GotPrefix(g, j, m)
  BY DEF GotPrefix, InOrder, Accepted
<1> USE <1>1, Typing, FdFacts, FileHandlesAssumption
<1>3. TypeOK'
  <2>1. lease' \in [Threads -> Files \cup {NoFile}]
    BY DEF TypeOK
  <2>2. pc' \in [Threads -> {"idle", "own", "insert", "write", "query", "flush", "seek",
                            "release"}]
    BY DEF TypeOK
  <2>3. call' \in [Threads -> [id : 0 .. MaxCalls,
                              op : {"none", "WriteFile", "WriteConsole"},
                              size : 0 .. MaxBytes, done : 0 .. MaxBytes,
                              status : {"OK", "IO"}]]
    BY DEF TypeOK, NoCall
  <2>4. returned' \subseteq [id : 1 .. MaxCalls, file : Files, size : 0 .. MaxBytes,
                           op : {"WriteFile", "WriteConsole"},
                           success : BOOLEAN, written : 0 .. MaxBytes]
    <3>1. /\ call[t].id \in 1 .. MaxCalls /\ call[t].op \in {"WriteFile", "WriteConsole"}
          /\ ReportedCount(call[t]) \in 0 .. MaxBytes
          /\ (call[t].status = "OK") \in BOOLEAN
      BY DEF CallInv, ReportedCount
    <3>2. returned \subseteq [id : 1 .. MaxCalls, file : Files, size : 0 .. MaxBytes,
                           op : {"WriteFile", "WriteConsole"},
                           success : BOOLEAN, written : 0 .. MaxBytes]
      BY DEF TypeOK
    <3>3. call[t].size \in 0 .. MaxBytes
      OBVIOUS
    <3>4. [id |-> call[t].id, file |-> f, op |-> call[t].op, size |-> call[t].size,
              success |-> call[t].status = "OK", written |-> ReportedCount(call[t])]
            \in [id : 1 .. MaxCalls, file : Files, size : 0 .. MaxBytes,
                 op : {"WriteFile", "WriteConsole"},
                 success : BOOLEAN, written : 0 .. MaxBytes]
      BY <3>1, <3>3
    <3>5. QED
      BY <3>2, <3>4
  <2>5. \A u \in Threads : call'[u].done <= call'[u].size
    BY DEF TypeOK
  <2>6. QED
    BY <2>1, <2>2, <2>3, <2>4, <2>5 DEF TypeOK
<1>4. LeaseInv'
  BY DEF LeaseInv, LifeInv, OwnInv, Making
<1>5. OwnInv'
  BY DEF OwnInv
<1>6. LifeInv'
  BY DEF LifeInv, LeaseInv, Making
<1>7. CallInv'
  BY DEF CallInv, ReturnedInv, NoCall
<1>8. ProgressInv'
  BY <1>2 DEF ProgressInv, CallInv
<1>9. FreshInv'
  BY DEF FreshInv
<1>10. ReturnedInv'
  <2> SUFFICES ASSUME NEW r \in returned'
               PROVE  r.id <= calls /\ \A u \in Threads : call'[u].id # r.id
    BY DEF ReturnedInv
  <2>1. CASE r \in returned
    BY <2>1, ResultTypes DEF ReturnedInv
  <2>2. CASE r \notin returned
    <3>1. r.id = call[t].id
      BY <2>2
    <3>2. QED
      BY <3>1 DEF CallInv
  <2>3. QED
    BY <2>1, <2>2
<1>11. WritesAreTruthful'
  <2> SUFFICES ASSUME NEW r \in returned'
               PROVE  \E m \in 0 .. r.size :
                         /\ GotPrefix(r.file, r.id, m)
                         /\ r.success => m = r.size
                         /\ r.written = IF r.op = "WriteFile" \/ r.success THEN m ELSE 0
    BY <1>2 DEF WritesAreTruthful
  <2>1. CASE r \in returned
    BY <2>1 DEF WritesAreTruthful
  <2>2. CASE r \notin returned
    <3>1. /\ r.id = call[t].id /\ r.file = f /\ r.size = call[t].size /\ r.op = call[t].op
          /\ r.success <=> call[t].status = "OK"
          /\ r.written = ReportedCount(call[t])
      <4>1. r = [id |-> call[t].id, file |-> f, op |-> call[t].op, size |-> call[t].size,
              success |-> call[t].status = "OK", written |-> ReportedCount(call[t])]
        BY <2>2
      <4>2. QED
        BY <4>1
    <3>2. call[t].id \in 1 .. MaxCalls /\ n \in 0 .. call[t].size
      OBVIOUS
    <3>3. GotPrefix(f, call[t].id, n)
      BY <3>2 DEF ProgressInv
    <3>4. r.success => n = r.size
      BY <3>1 DEF CallInv
    <3>5. r.written = IF r.op = "WriteFile" \/ r.success THEN n ELSE 0
      BY <3>1 DEF ReportedCount
    <3>6. QED
      BY <3>1, <3>2, <3>3, <3>4, <3>5
  <2>3. QED
    BY <2>1, <2>2
<1>12. QED
  BY <1>3, <1>4, <1>5, <1>6, <1>7, <1>8, <1>9, <1>10, <1>11

(* The handle is closed. *)
LEMMA CloseHandleStep ==
  ASSUME IndInv, NEW f \in Files,
         handle[f] = "open",
         handle' = [handle EXCEPT ![f] = "closed"],
         UNCHANGED <<host, file, lease, pc, call, calls, console, returned>>
  PROVE  IndInv'
<1> USE DEF IndInv
<1>1. /\ \A x \in Files : handle'[x] = IF x = f THEN "closed" ELSE handle[x]
  BY DEF TypeOK
<1>2. \A g, j, m : GotPrefix(g, j, m)' <=> GotPrefix(g, j, m)
  BY DEF GotPrefix, InOrder, Accepted
<1> USE <1>1, Typing, FdFacts, FileHandlesAssumption
<1>3. TypeOK'
  <2>1. handle' \in [Files -> {"none", "open", "closed"}]
    BY DEF TypeOK
  <2>2. QED
    BY <2>1 DEF TypeOK
<1>4. LeaseInv'
  BY DEF LeaseInv, LifeInv, OwnInv, Making
<1>5. OwnInv'
  BY DEF OwnInv
<1>6. LifeInv'
  BY DEF LifeInv, LeaseInv, Making
<1>7. CallInv'
  BY DEF CallInv
<1>8. ProgressInv'
  BY <1>2 DEF ProgressInv
<1>9. FreshInv'
  BY DEF FreshInv
<1>10. ReturnedInv'
  BY DEF ReturnedInv
<1>11. WritesAreTruthful'
  BY <1>2 DEF WritesAreTruthful
<1>12. QED
  BY <1>3, <1>4, <1>5, <1>6, <1>7, <1>8, <1>9, <1>10, <1>11

(* The file nobody uses any more is destroyed. *)
LEMMA ReclaimStep ==
  ASSUME IndInv, NEW f \in Files, NEW d \in Fds,
         file[f].life = "live",
         handle[f] = "closed",
         \A t \in Threads : lease[t] # f,
         file[f].fd = d,
         host' = [host EXCEPT ![d] = NoFile],
         file' = [file EXCEPT ![f] = NoObject("destroyed")],
         UNCHANGED <<handle, lease, pc, call, calls, console, returned>>
  PROVE  IndInv'
<1> USE DEF IndInv
<1>1. /\ \A x \in Fds : host'[x] = IF x = d THEN NoFile ELSE host[x]
      /\ \A x \in Files : x # f => file'[x] = file[x]
      /\ file'[f].life = "destroyed"
      /\ file'[f].fd = NoFd
  BY DEF TypeOK, NoObject
<1>2. \A g, j, m : GotPrefix(g, j, m)' <=> GotPrefix(g, j, m)
  BY DEF GotPrefix, InOrder, Accepted
<1> USE <1>1, Typing, FdFacts, FileHandlesAssumption
<1>3. TypeOK'
  <2>1. host' \in [Fds -> Files \cup {NoFile}]
    BY DEF TypeOK
  <2>2. file' \in [Files -> [life : {"unused", "live", "destroyed"},
                           fd : Fds \cup {NoFd}, access : Rights]]
    BY ObjectType DEF TypeOK
  <2>3. QED
    BY <2>1, <2>2 DEF TypeOK
<1>4. LeaseInv'
  BY DEF LeaseInv, LifeInv, OwnInv, Making
<1>5. OwnInv'
  BY DEF OwnInv, LeaseInv, LifeInv, Making
<1>6. LifeInv'
  BY DEF LifeInv, LeaseInv, Making
<1>7. CallInv'
  BY DEF CallInv
<1>8. ProgressInv'
  BY <1>2 DEF ProgressInv
<1>9. FreshInv'
  BY DEF FreshInv
<1>10. ReturnedInv'
  BY DEF ReturnedInv
<1>11. WritesAreTruthful'
  BY <1>2 DEF WritesAreTruthful
<1>12. QED
  BY <1>3, <1>4, <1>5, <1>6, <1>7, <1>8, <1>9, <1>10, <1>11

-----------------------------------------------------------------------------
(* At the start there is no file. *)
LEMMA InitInd == Init => IndInv
<1> SUFFICES ASSUME Init PROVE IndInv
  OBVIOUS
<1> USE FileHandlesAssumption, FdFacts DEF Init
<1>1. TypeOK
  <2>1. NoObject("unused") \in [life : {"unused", "live", "destroyed"},
                                fd : Fds \cup {NoFd}, access : Rights]
    BY DEF NoObject, Rights
  <2>2. NoCall \in [id : 0 .. MaxCalls, op : {"none", "WriteFile", "WriteConsole"},
                    size : 0 .. MaxBytes, done : 0 .. MaxBytes, status : {"OK", "IO"}]
    BY DEF NoCall
  <2>3. \A t \in Threads : call[t].done <= call[t].size
    BY DEF NoCall
  <2>4. QED
    BY <2>1, <2>2, <2>3 DEF TypeOK
<1>2. LeaseInv
  BY DEF LeaseInv, Making
<1>3. OwnInv /\ LifeInv
  BY DEF OwnInv, LifeInv, NoObject
<1>4. CallInv
  BY DEF CallInv, NoCall
<1>5. ProgressInv
  BY DEF ProgressInv, NoCall
<1>6. FreshInv
  BY DEF FreshInv
<1>7. ReturnedInv /\ WritesAreTruthful
  BY DEF ReturnedInv, WritesAreTruthful
<1>8. QED
  BY <1>1, <1>2, <1>3, <1>4, <1>5, <1>6, <1>7 DEF IndInv

(* A step that changes nothing keeps the invariant. *)
LEMMA StutterInd ==
  ASSUME IndInv, UNCHANGED vars
  PROVE  IndInv'
<1> USE DEF IndInv, vars
<1>1. TypeOK' /\ LeaseInv' /\ OwnInv' /\ LifeInv'
  BY DEF TypeOK, LeaseInv, OwnInv, LifeInv
<1>2. \A g, j, m : GotPrefix(g, j, m)' <=> GotPrefix(g, j, m)
  BY DEF GotPrefix, InOrder, Accepted
<1>3. CallInv' /\ FreshInv' /\ ReturnedInv'
  BY DEF CallInv, FreshInv, ReturnedInv
<1>4. ProgressInv' /\ WritesAreTruthful'
  BY <1>2 DEF ProgressInv, WritesAreTruthful
<1>5. QED
  BY <1>1, <1>3, <1>4

(* Every step of a thread preserves it. *)
LEMMA MakeInd ==
  ASSUME IndInv, NEW t \in Threads, NEW f \in Files, NEW access \in Accesses[f],
         Duplicate(t, f, access)
  PROVE  IndInv'
<1>1. file[f].fd \notin Fds
  BY DEF Duplicate, IndInv, LifeInv
<1>2. LowestFreeFd \in Fds /\ host[LowestFreeFd] = NoFile
  BY <1>1, LowestFreeFdExists DEF IndInv
<1>3. access \in Rights
  BY FileHandlesAssumption
<1>4. QED
  BY <1>2, <1>3, DuplicateStep DEF Duplicate, Goto

LEMMA CreateInd ==
  ASSUME IndInv, NEW t \in Threads, CreateOwnedFd(t) \/ Insert(t)
  PROVE  IndInv'
<1>1. PICK f \in Files : f = lease[t]
  BY Typing DEF CreateOwnedFd, Insert, IndInv, LeaseInv
<1>2. PICK d \in Fds : d = file[f].fd
  BY <1>1 DEF CreateOwnedFd, Insert, IndInv, LeaseInv, LifeInv, Making
<1>3. CASE CreateOwnedFd(t) /\ pc'[t] = "insert"
  <2>1. /\ file' = [file EXCEPT ![f].life = "live"] /\ pc' = [pc EXCEPT ![t] = "insert"]
        /\ UNCHANGED <<host, handle, lease, call, calls, console, returned>>
    BY <1>1, <1>3 DEF CreateOwnedFd, Goto, Return, IndInv, TypeOK
  <2>2. QED
    BY <1>1, <1>3, <2>1, CreateOwnedFdStep DEF CreateOwnedFd
<1>4. CASE CreateOwnedFd(t) /\ pc'[t] # "insert"
  <2>1. /\ host' = [host EXCEPT ![d] = NoFile]
        /\ file' = [file EXCEPT ![f] = NoObject("destroyed")]
        /\ Return(t)
        /\ UNCHANGED <<handle, calls, console, returned>>
    BY <1>1, <1>2, <1>4 DEF CreateOwnedFd, Goto, Close, IndInv, TypeOK
  <2>2. QED
    BY <1>1, <1>2, <1>4, <2>1, CreateOwnedFdFailsStep
       DEF CreateOwnedFd, Return, Goto
<1>5. CASE Insert(t) /\ UNCHANGED <<host, file>> /\ handle' = [handle EXCEPT ![f] = "open"]
  BY <1>1, <1>5, InsertStep DEF Insert, Return, Goto
<1>6. CASE Insert(t) /\ Destroy(f) /\ UNCHANGED handle
  BY <1>1, <1>2, <1>6, InsertFailsStep
     DEF Insert, Destroy, Close, Return, Goto
<1>7. QED
  BY <1>1, <1>3, <1>4, <1>5, <1>6 DEF Insert

LEMMA BeginInd ==
  ASSUME IndInv, NEW t \in Threads, NEW f \in Files,
         \/ \E size \in 0 .. MaxBytes, o \in {"WriteFile", "WriteConsole"} :
               Write(t, f, o, size)
         \/ WriteConsoleRefused(t, f) \/ Query(t, f) \/ Flush(t, f) \/ Seek(t, f)
         \/ CloseHandle(t, f)
  PROVE  IndInv'
<1> USE DEF Acquire, Goto
<1>1. ASSUME NEW size \in 0 .. MaxBytes, NEW o \in {"WriteFile", "WriteConsole"},
             Write(t, f, o, size)
      PROVE  IndInv'
  BY <1>1, WriteStep DEF Write
<1>2. ASSUME NEW step \in {"query", "flush", "seek", "release"},
             pc[t] = "idle", handle[f] = "open", lease' = [lease EXCEPT ![t] = f],
             pc' = [pc EXCEPT ![t] = step],
             UNCHANGED <<host, file, handle, call, calls, console, returned>>
      PROVE  IndInv'
  BY <1>2, UseStep
<1>3. CASE WriteConsoleRefused(t, f)
  BY <1>2, <1>3 DEF WriteConsoleRefused
<1>4. CASE Query(t, f)
  BY <1>2, <1>4 DEF Query
<1>5. CASE Flush(t, f)
  BY <1>2, <1>5 DEF Flush
<1>6. CASE Seek(t, f)
  BY <1>2, <1>6 DEF Seek
<1>7. CASE CloseHandle(t, f)
  BY <1>7, CloseHandleStep DEF CloseHandle
<1>8. QED
  BY <1>1, <1>3, <1>4, <1>5, <1>6, <1>7

(* The descriptor a call writes to is its file's. *)
LEMMA TargetIsOwn ==
  ASSUME TypeOK, LeaseInv, OwnInv, LifeInv, NEW t \in Threads, lease[t] # NoFile
  PROVE  lease[t] \in Files /\ Target(t) = lease[t]
<1>1. lease[t] \in Files
  BY Typing
<1>2. file[lease[t]].fd \in Fds
  BY <1>1, FileHandlesAssumption DEF LeaseInv, LifeInv, Making
<1>3. QED
  BY <1>1, <1>2 DEF OwnInv, Target

LEMMA WriteInd ==
  ASSUME IndInv, NEW t \in Threads,
         \/ \E count \in 1 .. MaxBytes : WriteSome(t, count)
         \/ WriteFails(t) \/ WriteEnds(t) \/ UseEnds(t)
  PROVE  IndInv'
<1>1. ASSUME NEW count \in 1 .. MaxBytes, WriteSome(t, count) PROVE IndInv'
  <2>1. lease[t] # NoFile
    BY <1>1 DEF WriteSome, IndInv, LeaseInv
  <2>2. PICK f \in Files : lease[t] = f /\ Target(t) = f
    BY <2>1, TargetIsOwn DEF IndInv
  <2>3. PICK i \in 1 .. MaxCalls : call[t].id = i
    BY <1>1, Typing, FileHandlesAssumption DEF WriteSome, IndInv, CallInv
  <2>4. PICK n \in 0 .. MaxBytes : call[t].done = n
    BY Typing DEF IndInv
  <2>5. /\ pc[t] = "write" /\ UNCHANGED <<host, file, handle, lease, pc, calls, returned>>
        /\ call' = [call EXCEPT ![t].done = n + count]
        /\ console' = [console EXCEPT ![f] =
                         console[f] \o [k \in 1 .. count |-> <<i, n + k>>]]
    BY <1>1, <2>2, <2>3, <2>4 DEF WriteSome
  <2>6. n + count <= call[t].size
    BY <1>1, <2>4, Typing, FileHandlesAssumption DEF WriteSome, IndInv
  <2>7. QED
    BY <2>2, <2>3, <2>4, <2>5, <2>6, WriteSomeStep
<1>2. CASE WriteFails(t)
  BY <1>2, WriteFailsStep DEF WriteFails, Goto
<1>3. CASE WriteEnds(t)
  BY <1>3, WriteEndsStep DEF WriteEnds, Goto
<1>4. CASE UseEnds(t)
  BY <1>4, UseEndsStep DEF UseEnds, Goto
<1>5. QED
  BY <1>1, <1>2, <1>3, <1>4

LEMMA ReleaseInd ==
  ASSUME IndInv, NEW t \in Threads, Release(t)
  PROVE  IndInv'
<1>1. call[t].id = 0 <=> call[t] = NoCall
  BY DEF IndInv, CallInv, NoCall
<1>2. PICK f \in Files : lease[t] = f
  BY Typing DEF Release, IndInv, LeaseInv
<1>3. PICK n \in 0 .. MaxBytes : call[t].done = n
  BY Typing DEF IndInv
<1>4. CASE call[t].id = 0
  BY <1>1, <1>4, ReleaseStep DEF Release, Return, Goto
<1>5. CASE call[t].id # 0
  BY <1>1, <1>2, <1>3, <1>5, ReleaseWriterStep DEF Release, Return, Goto
<1>6. QED
  BY <1>4, <1>5

LEMMA ReclaimInd ==
  ASSUME IndInv, NEW f \in Files, Reclaim(f)
  PROVE  IndInv'
<1>1. PICK d \in Fds : d = file[f].fd
  BY DEF Reclaim, CanReclaim, IsLive, IndInv, LifeInv
<1>2. QED
  BY <1>1, ReclaimStep DEF Reclaim, CanReclaim, IsLive, Destroy, Close

LEMMA NextInd ==
  ASSUME IndInv, Next
  PROVE  IndInv'
BY MakeInd, CreateInd, BeginInd, WriteInd, ReleaseInd, ReclaimInd DEF Next

(* The inductive invariant of file objects: who may use a file at each     *)
(* step, which descriptor it has, and what the host has of each call.      *)
THEOREM InductiveInvariant == Spec => []IndInv
<1>1. Init => IndInv
  BY InitInd
<1>2. IndInv /\ [Next]_vars => IndInv'
  BY NextInd, StutterInd
<1>3. QED
  BY <1>1, <1>2, PTL DEF Spec

(* file.c, CreateFileW and CloseHandle: every system call goes to the      *)
(* description its file was made with, and no open descriptor is left      *)
(* without an owner, whatever closes and fails meanwhile.                  *)
THEOREM SafeDescriptors == Spec => []DescriptorsAreSafe
<1>1. ASSUME IndInv PROVE DescriptorIsOwn
  <2> SUFFICES ASSUME NEW t \in Threads,
                      pc[t] \in {"write", "query", "flush", "seek", "own", "insert"}
               PROVE  /\ pc[t] # "own" => IsLive(lease[t])
                      /\ Target(t) = lease[t]
    BY DEF DescriptorIsOwn
  <2> USE <1>1 DEF IndInv
  <2>1. lease[t] # NoFile
    BY DEF LeaseInv
  <2>2. lease[t] \in Files /\ Target(t) = lease[t]
    BY <2>1, TargetIsOwn
  <2>3. pc[t] # "own" => IsLive(lease[t])
    BY <2>2 DEF LeaseInv, Making, IsLive
  <2>4. QED
    BY <2>2, <2>3
<1>2. ASSUME IndInv PROVE DescriptorsAreOwned
  <2> SUFFICES ASSUME NEW d \in Fds, host[d] # NoFile
               PROVE  /\ file[host[d]].fd = d
                      /\ \/ IsLive(host[d])
                         \/ \E t \in Threads : lease[t] = host[d] /\ pc[t] = "own"
    BY DEF DescriptorsAreOwned
  <2> USE <1>2 DEF IndInv
  <2>1. PICK f \in Files : host[d] = f
    BY Typing
  <2>2. file[f].fd = d
    BY <2>1 DEF OwnInv
  <2>3. QED
    BY <2>1, <2>2, Typing DEF LifeInv, IsLive
<1>3. IndInv => TypeOK
  BY DEF IndInv
<1>4. QED
  BY <1>1, <1>2, <1>3, InductiveInvariant, PTL DEF DescriptorsAreSafe

(* WriteFile and WriteConsoleW: what a write reports is what the file got, *)
(* a prefix of the buffer in order, however the host splits or stops it    *)
(* and whatever the other writers do.                                      *)
THEOREM TruthfulWrites == Spec => []WritesAreTruthful
<1>1. IndInv => WritesAreTruthful
  BY DEF IndInv
<1>2. QED
  BY <1>1, InductiveInvariant, PTL
=============================================================================
