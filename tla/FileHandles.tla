----------------------------- MODULE FileHandles -----------------------------
(***************************************************************************)
(* File objects: src/src/file.c under CreateFileW, WriteFile,              *)
(* WriteConsoleW, GetConsoleMode, GetFileType, FlushFileBuffers,           *)
(* SetFilePointerEx and CloseHandle of src/src/kernel32.c.  A file owns    *)
(* one host descriptor; the host reuses the number of a closed descriptor  *)
(* at once, so that a late system call could hit another file.             *)
(*                                                                         *)
(* The handle table appears as HandleStore has it.  A byte written is a    *)
(* pair: the call and its index in the call's buffer.                      *)
(***************************************************************************)
EXTENDS Naturals, FiniteSets, Sequences

CONSTANTS Threads, Files,
          Type,          \* file -> "disk" or "char"
          Accesses,      \* file -> the rights it may be opened with
          FirstFd,       \* lowest number F_DUPFD_CLOEXEC may return
          MaxBytes,      \* bound on the size of a write
          MaxCalls,      \* bound on the calls that write
          NoFile

Rights == SUBSET {"read", "write"}

ASSUME FileHandlesAssumption ==
    /\ Type \in [Files -> {"disk", "char"}]
    /\ Accesses \in [Files -> SUBSET Rights]
    /\ FirstFd \in Nat
    /\ MaxBytes \in Nat
    /\ MaxCalls \in Nat
    /\ NoFile \notin Files
    /\ IsFiniteSet(Files)

Fds == FirstFd .. FirstFd + Cardinality(Files) - 1
NoFd == FirstFd + Cardinality(Files)

VARIABLES
    host,      \* descriptor number -> the file whose description it is
    file,      \* file -> the sl_win32_file
    handle,    \* file -> "none", "open" or "closed"
    lease,     \* thread -> the file it uses or is making
    pc,        \* thread -> where it is
    call,      \* thread -> [id, op, size, done, status] of its call
    calls,     \* number of writes started
    console,   \* file -> the bytes the host accepted, in order
    returned   \* what the writes have told their callers

vars == <<host, file, handle, lease, pc, call, calls, console, returned>>

NoCall == [id |-> 0, op |-> "none", size |-> 0, done |-> 0, status |-> "OK"]
NoObject(life) == [life |-> life, fd |-> NoFd, access |-> {}]
IsLive(f) == file[f].life = "live"

TypeOK ==
    /\ host \in [Fds -> Files \cup {NoFile}]
    /\ file \in [Files -> [life : {"unused", "live", "destroyed"},
                           fd : Fds \cup {NoFd}, access : Rights]]
    /\ handle \in [Files -> {"none", "open", "closed"}]
    /\ lease \in [Threads -> Files \cup {NoFile}]
    /\ pc \in [Threads -> {"idle", "own", "insert", "write", "query", "flush",
                           "seek", "release"}]
    /\ call \in [Threads -> [id : 0 .. MaxCalls,
                             op : {"none", "WriteFile", "WriteConsole"},
                             size : 0 .. MaxBytes, done : 0 .. MaxBytes,
                             status : {"OK", "IO"}]]
    /\ \A t \in Threads : call[t].done <= call[t].size
    /\ calls \in 0 .. MaxCalls
    /\ console \in [Files -> Seq((1 .. MaxCalls) \X (1 .. MaxBytes))]
    /\ returned \subseteq [id : 1 .. MaxCalls, file : Files, size : 0 .. MaxBytes,
                           op : {"WriteFile", "WriteConsole"},
                           success : BOOLEAN, written : 0 .. MaxBytes]

Init ==
    /\ host = [d \in Fds |-> NoFile]
    /\ file = [f \in Files |-> NoObject("unused")]
    /\ handle = [f \in Files |-> "none"]
    /\ lease = [t \in Threads |-> NoFile]
    /\ pc = [t \in Threads |-> "idle"]
    /\ call = [t \in Threads |-> NoCall]
    /\ calls = 0
    /\ console = [f \in Files |-> <<>>]
    /\ returned = {}

Goto(t, where) == pc' = [pc EXCEPT ![t] = where]

Return(t) ==
    /\ lease' = [lease EXCEPT ![t] = NoFile]
    /\ call' = [call EXCEPT ![t] = NoCall]
    /\ Goto(t, "idle")

-----------------------------------------------------------------------------
(* CreateFileW: a duplicate of the console, or a descriptor of the host's  *)

FreeFds == {d \in Fds : host[d] = NoFile}
LowestFreeFd == CHOOSE d \in FreeFds : \A other \in FreeFds : d <= other

\* Two files in the making use different identities.
Duplicate(t, f, access) ==
    /\ pc[t] = "idle"
    /\ file[f].life = "unused"
    /\ \A other \in Threads : lease[other] # f
    /\ host' = [host EXCEPT ![LowestFreeFd] = f]
    /\ file' = [file EXCEPT ![f] = [life |-> "unused", fd |-> LowestFreeFd,
                                    access |-> access]]
    /\ lease' = [lease EXCEPT ![t] = f]
    /\ Goto(t, "own")
    /\ UNCHANGED <<handle, call, calls, console, returned>>

Close(d) == host' = [host EXCEPT ![d] = NoFile]

\* Nobody closes the duplicate when there is no memory for the file.
CreateOwnedFdMutant(t) ==
    /\ pc[t] = "own"
    /\ \/ /\ file' = [file EXCEPT ![lease[t]].life = "live"]
          /\ Goto(t, "insert")
          /\ UNCHANGED <<lease, call>>
       \/ /\ file' = [file EXCEPT ![lease[t]] = NoObject("destroyed")]
          /\ Return(t)
    /\ UNCHANGED <<host, handle, calls, console, returned>>

\* sl_win32_file_create_owned_fd takes the descriptor, or its caller closes it.
CreateOwnedFd(t) ==
    /\ pc[t] = "own"
    /\ \/ /\ file' = [file EXCEPT ![lease[t]].life = "live"]
          /\ Goto(t, "insert")
          /\ UNCHANGED <<host, lease, call>>
       \/ /\ Close(file[lease[t]].fd)
          /\ file' = [file EXCEPT ![lease[t]] = NoObject("destroyed")]
          /\ Return(t)
    /\ UNCHANGED <<handle, calls, console, returned>>

Destroy(f) ==
    /\ Close(file[f].fd)
    /\ file' = [file EXCEPT ![f] = NoObject("destroyed")]

\* The handle table takes the file, or it is full and the file is destroyed.
Insert(t) ==
    /\ pc[t] = "insert"
    /\ \/ /\ handle' = [handle EXCEPT ![lease[t]] = "open"]
          /\ UNCHANGED <<host, file>>
       \/ /\ Destroy(lease[t])
          /\ UNCHANGED handle
    /\ Return(t)
    /\ UNCHANGED <<calls, console, returned>>

-----------------------------------------------------------------------------
(* Calls on a handle *)

\* acquire_current_file; on failure the call returns ERROR_INVALID_HANDLE.
Acquire(t, f) ==
    /\ pc[t] = "idle"
    /\ handle[f] = "open"
    /\ lease' = [lease EXCEPT ![t] = f]

CanWrite(f) == "write" \in file[f].access
CanSeek(f) == file[f].access # {} /\ Type[f] = "disk"
CanFlush(f) == CanWrite(f) /\ Type[f] = "disk"

\* WriteConsoleW writes to character devices only.
Accepts(f, op) == op = "WriteConsole" => Type[f] = "char"

\* Of a buffer of size bytes, after the conversion to UTF-8 for WriteConsoleW.
Write(t, f, op, size) ==
    /\ Acquire(t, f)
    /\ Accepts(f, op)
    /\ calls < MaxCalls
    /\ calls' = calls + 1
    /\ call' = [call EXCEPT ![t] = [id |-> calls + 1, op |-> op, size |-> size,
                                    done |-> 0, status |-> "OK"]]
    /\ Goto(t, "write")
    /\ UNCHANGED <<host, file, handle, console, returned>>

\* A refusal after the lease was taken: the wrong type, no memory.
WriteConsoleRefused(t, f) ==
    /\ Acquire(t, f)
    /\ Goto(t, "release")
    /\ UNCHANGED <<host, file, handle, call, calls, console, returned>>

\* The file behind the descriptor number, which is not always its own.
Target(t) ==
    IF file[lease[t]].fd \in Fds THEN host[file[lease[t]].fd] ELSE NoFile

\* After a partial write the loop starts again at the front of the buffer.
WriteSomeMutant(t, count) ==
    /\ pc[t] = "write"
    /\ CanWrite(lease[t])
    /\ count <= call[t].size - call[t].done
    /\ Target(t) # NoFile
    /\ console' = [console EXCEPT ![Target(t)] =
                     @ \o [i \in 1 .. count |-> <<call[t].id, i>>]]
    /\ call' = [call EXCEPT ![t].done = @ + count]
    /\ UNCHANGED <<host, file, handle, lease, pc, calls, returned>>

\* write accepts some bytes.
WriteSome(t, count) ==
    /\ pc[t] = "write"
    /\ CanWrite(lease[t])
    /\ count <= call[t].size - call[t].done
    /\ Target(t) # NoFile
    /\ console' = [console EXCEPT ![Target(t)] =
                     @ \o [i \in 1 .. count |-> <<call[t].id, call[t].done + i>>]]
    /\ call' = [call EXCEPT ![t].done = @ + count]
    /\ UNCHANGED <<host, file, handle, lease, pc, calls, returned>>

\* It accepts none, or fails; or the file was not opened for writing.
WriteFails(t) ==
    /\ pc[t] = "write"
    /\ CanWrite(lease[t]) => call[t].done < call[t].size
    /\ call' = [call EXCEPT ![t].status = "IO"]
    /\ Goto(t, "release")
    /\ UNCHANGED <<host, file, handle, lease, calls, console, returned>>

WriteEnds(t) ==
    /\ pc[t] = "write"
    /\ CanWrite(lease[t])
    /\ call[t].done = call[t].size
    /\ Goto(t, "release")
    /\ UNCHANGED <<host, file, handle, lease, call, calls, console, returned>>

\* GetFileType and GetConsoleMode look at the type.
Query(t, f) ==
    /\ Acquire(t, f)
    /\ Goto(t, "query")
    /\ UNCHANGED <<host, file, handle, call, calls, console, returned>>

Flush(t, f) ==
    /\ Acquire(t, f)
    /\ Goto(t, IF CanFlush(f) THEN "flush" ELSE "release")
    /\ UNCHANGED <<host, file, handle, call, calls, console, returned>>

Seek(t, f) ==
    /\ Acquire(t, f)
    /\ Goto(t, IF CanSeek(f) THEN "seek" ELSE "release")
    /\ UNCHANGED <<host, file, handle, call, calls, console, returned>>

\* The field is read, or fsync or lseek returns.
UseEnds(t) ==
    /\ pc[t] \in {"query", "flush", "seek"}
    /\ Goto(t, "release")
    /\ UNCHANGED <<host, file, handle, lease, call, calls, console, returned>>

\* WriteConsoleW counts characters: all of them or none.
ReportedCount(c) ==
    IF c.op = "WriteFile" \/ c.status = "OK" THEN c.done ELSE 0

\* sl_handle_lease_release, then the results.
Release(t) ==
    /\ pc[t] = "release"
    /\ returned' = IF call[t] = NoCall THEN returned
                   ELSE returned \cup
                        {[id |-> call[t].id, file |-> lease[t], op |-> call[t].op,
                          size |-> call[t].size, success |-> call[t].status = "OK",
                          written |-> ReportedCount(call[t])]}
    /\ Return(t)
    /\ UNCHANGED <<host, file, handle, calls, console>>

CloseHandle(t, f) ==
    /\ pc[t] = "idle"
    /\ handle[f] = "open"
    /\ handle' = [handle EXCEPT ![f] = "closed"]
    /\ UNCHANGED <<host, file, lease, pc, call, calls, console, returned>>

CanReclaim(f) ==
    /\ IsLive(f)
    /\ handle[f] = "closed"
    /\ \A t \in Threads : lease[t] # f

Reclaim(f) ==
    /\ CanReclaim(f)
    /\ Destroy(f)
    /\ UNCHANGED <<handle, lease, pc, call, calls, console, returned>>

Next ==
    \/ \E t \in Threads, f \in Files :
        \/ \E access \in Accesses[f] : Duplicate(t, f, access)
        \/ \E size \in 0 .. MaxBytes, op \in {"WriteFile", "WriteConsole"} :
            Write(t, f, op, size)
        \/ WriteConsoleRefused(t, f)
        \/ Query(t, f) \/ Flush(t, f) \/ Seek(t, f)
        \/ CloseHandle(t, f)
    \/ \E t \in Threads :
        \/ CreateOwnedFd(t) \/ Insert(t)
        \/ \E count \in 1 .. MaxBytes : WriteSome(t, count)
        \/ WriteFails(t) \/ WriteEnds(t) \/ UseEnds(t) \/ Release(t)
    \/ \E f \in Files : Reclaim(f)

Spec == Init /\ [][Next]_vars

-----------------------------------------------------------------------------

(* A system call that file.c issues, however late, goes to the description *)
(* the file was made with: CloseHandle by another thread cannot make the   *)
(* host reuse the number under it.                                         *)
DescriptorIsOwn ==
    \A t \in Threads :
        pc[t] \in {"write", "query", "flush", "seek", "own", "insert"} =>
            /\ pc[t] # "own" => IsLive(lease[t])
            /\ Target(t) = lease[t]

(* Every open descriptor belongs to a file that is alive or to the call    *)
(* that is making it: neither a failed CreateFileW nor a closed handle     *)
(* leaves one behind.                                                      *)
DescriptorsAreOwned ==
    \A d \in Fds : host[d] # NoFile =>
        /\ file[host[d]].fd = d
        /\ \/ IsLive(host[d])
           \/ \E t \in Threads : lease[t] = host[d] /\ pc[t] = "own"

\* What the host accepted of a call: the indices of its bytes, and that they
\* came in the order of the buffer and none of them twice.
Accepted(f, id) ==
    {k \in 1 .. MaxBytes : \E p \in DOMAIN console[f] :
                              console[f][p][1] = id /\ console[f][p][2] = k}

InOrder(f, id) ==
    \A p, q \in DOMAIN console[f] :
        p < q /\ console[f][p][1] = id /\ console[f][q][1] = id
            => console[f][p][2] < console[f][q][2]

\* The first n bytes of the buffer are in the file, and nowhere else.
GotPrefix(f, id, n) ==
    /\ Accepted(f, id) = 1 .. n
    /\ InOrder(f, id)
    /\ \A other \in Files \ {f} : Accepted(other, id) = {}

(* However the host splits or stops a write, and whatever other writers do *)
(* in between: the file got a prefix of the buffer, in order and without   *)
(* repetition; WriteFile reports exactly its length, and WriteConsoleW     *)
(* succeeds only if it is everything and claims nothing otherwise.         *)
WritesAreTruthful ==
    \A r \in returned : \E n \in 0 .. r.size :
        /\ GotPrefix(r.file, r.id, n)
        /\ r.success => n = r.size
        /\ r.written = IF r.op = "WriteFile" \/ r.success THEN n ELSE 0

(* A descriptor has one owner from its making to its close: no system call *)
(* hits a reused number, and no failed or finished call leaves one open.   *)
DescriptorsAreSafe == TypeOK /\ DescriptorIsOwn /\ DescriptorsAreOwned
=============================================================================
