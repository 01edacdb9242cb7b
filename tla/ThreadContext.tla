---------------------------- MODULE ThreadContext ----------------------------
(***************************************************************************)
(* Guest thread contexts, the scopes that install them on host threads,    *)
(* their TEBs, and the references both take on the process object          *)
(* (src/src/context.c, src/src/teb.c, and retain, release and destroy of   *)
(* src/src/process.c).  One process; every access of an atomic field is a  *)
(* step of its own.  A call that is refused before it has changed anything *)
(* is a stuttering step and has no action.                                 *)
(*                                                                         *)
(* The headers leave three duties to the caller, which the guards of       *)
(* MayUse, MayDestroy and ProcessDestroy state: a TEB pointer is used only *)
(* between the return of its creation and its destruction, and a process   *)
(* is not destroyed while a call that retains it is on its way.            *)
(***************************************************************************)
EXTENDS Integers, Sequences, FiniteSets

CONSTANTS
    Hosts,          \* host threads
    Contexts,       \* guest thread contexts
    Detached,       \* the contexts whose process pointer is NULL
    Scopes,         \* scope tokens a host thread has at hand
    Tebs,           \* addresses of TEB objects; a freed one is used again
    Errors,         \* last-error values; zero is the initial one
    Free, Reserved, \* host_thread_token 0, SL_TEB_OWNERSHIP_RESERVED
    None,           \* a NULL pointer
    MaxScopeCount,  \* UINT_MAX of active_scope_count
    MaxReferences   \* UINT_MAX of active_references

ASSUME ThreadContextAssumption ==
    /\ Detached \subseteq Contexts
    /\ Free \notin Hosts
    /\ {None, Reserved} \cap Tebs = {} /\ None # Reserved
    /\ None \notin Contexts
    /\ 0 \in Errors
    /\ MaxScopeCount \in Nat \ {0}
    /\ MaxReferences \in Nat \ {0}
    /\ IsFiniteSet(Hosts) /\ IsFiniteSet(Tebs)

VARIABLES
    token,      \* per context: host_thread_token
    scopeCount, \* per context: active_scope_count
    owner,      \* per context: teb_owner_token
    teb,        \* per context: thread->teb and last_error_address
    lastError,  \* per context: thread->last_error
    tebThread,  \* per TEB address: teb->thread, None when not allocated
    mapped,     \* per TEB: its pages are mapped
    attached,   \* per TEB: teb->attached
    tebError,   \* per TEB: the last-error word of the page
    refs,       \* process: active_references
    alive,      \* process: not destroyed
    chain,      \* per host: sl_current_scope and its previous scopes
    pc, op,     \* per host: the next step, and the call it belongs to
    ctx, tb,    \* per host: the context and the TEB the call is about
    expected    \* per context, for a property: the last error the guest set

contextVars == <<token, scopeCount, owner, teb, lastError>>
tebVars     == <<tebThread, mapped, attached, tebError>>
processVars == <<refs, alive>>
callVars    == <<pc, op, ctx, tb>>
vars == <<contextVars, tebVars, processVars, chain, callVars, expected>>

Frames == [scope : Scopes, context : Contexts]

Ops == {"none", "enter", "leave", "create", "destroy", "attach", "detach"}
Steps == {"idle", "claim", "claim_count", "retain", "leave_process", "drop_scope",
          "drop_token", "create_check", "create_reserve", "create_retain",
          "create_map", "create_publish", "create_unretain", "create_unreserve",
          "destroy_check", "destroy_reserve", "destroy_unmap", "destroy_restore",
          "destroy_disown", "destroy_unretain", "destroy_free",
          "attach", "detach", "release"}

TypeOK ==
    /\ token \in [Contexts -> Hosts \cup {Free}]
    /\ scopeCount \in [Contexts -> 0 .. MaxScopeCount]
    /\ owner \in [Contexts -> Tebs \cup {None, Reserved}]
    /\ teb \in [Contexts -> Tebs \cup {None}]
    /\ lastError \in [Contexts -> Errors]
    /\ tebThread \in [Tebs -> Contexts \cup {None}]
    /\ mapped \in [Tebs -> BOOLEAN]
    /\ attached \in [Tebs -> BOOLEAN]
    /\ tebError \in [Tebs -> Errors]
    /\ refs \in 0 .. MaxReferences
    /\ alive \in BOOLEAN
    /\ chain \in [Hosts -> Seq(Frames)]
    /\ pc \in [Hosts -> Steps]
    /\ op \in [Hosts -> Ops]
    /\ ctx \in [Hosts -> Contexts \cup {None}]
    /\ tb \in [Hosts -> Tebs \cup {None}]
    /\ expected \in [Contexts -> Errors]

Init ==
    /\ token = [c \in Contexts |-> Free]
    /\ scopeCount = [c \in Contexts |-> 0]
    /\ owner = [c \in Contexts |-> None]
    /\ teb = [c \in Contexts |-> None]
    /\ lastError = [c \in Contexts |-> 0]
    /\ tebThread = [b \in Tebs |-> None]
    /\ mapped = [b \in Tebs |-> FALSE]
    /\ attached = [b \in Tebs |-> FALSE]
    /\ tebError = [b \in Tebs |-> 0]
    /\ refs = 0
    /\ alive = TRUE
    /\ chain = [h \in Hosts |-> <<>>]
    /\ pc = [h \in Hosts |-> "idle"]
    /\ op = [h \in Hosts |-> "none"]
    /\ ctx = [h \in Hosts |-> None]
    /\ tb = [h \in Hosts |-> None]
    /\ expected = [c \in Contexts |-> 0]

-----------------------------------------------------------------------------
(* Calls.                                                                  *)

Goto(h, step) == pc' = [pc EXCEPT ![h] = step] /\ UNCHANGED <<op, ctx, tb>>

Begin(h, name, c, b, step) ==
    /\ pc[h] = "idle"
    /\ pc' = [pc EXCEPT ![h] = step]
    /\ op' = [op EXCEPT ![h] = name]
    /\ ctx' = [ctx EXCEPT ![h] = c]
    /\ tb' = [tb EXCEPT ![h] = b]

Finish(h) ==
    /\ pc' = [pc EXCEPT ![h] = "idle"]
    /\ op' = [op EXCEPT ![h] = "none"]
    /\ ctx' = [ctx EXCEPT ![h] = None]
    /\ tb' = [tb EXCEPT ![h] = None]

HasProcess(c) == c \notin Detached

\* A context of a destroyed process is not used any more.
Usable(c) == HasProcess(c) => alive

\* Caller's duty: a TEB pointer comes from a finished create and is not
\* used while its destroy runs.
MayUse(b) ==
    /\ tebThread[b] # None
    /\ \A g \in Hosts : tb[g] = b => op[g] \notin {"create", "destroy"}

MayDestroy(b) ==
    /\ tebThread[b] # None
    /\ \A g \in Hosts : tb[g] # b

-----------------------------------------------------------------------------
(* sl_win32_process_retain and sl_win32_process_release.                   *)

CanRetain(c) == HasProcess(c) => refs < MaxReferences
Retain(c)    == refs' = IF HasProcess(c) THEN refs + 1 ELSE refs
Release      == refs' = refs - 1

-----------------------------------------------------------------------------
(* sl_win32_context_enter: claim the context, retain its process, push.    *)

InChain(h, s) == \E i \in DOMAIN chain[h] : chain[h][i].scope = s

FreeScope(h) == CHOOSE s \in Scopes : ~InChain(h, s)

\* The token is loaded as zero: try to claim it.
Enter(h, c) ==
    /\ Usable(c)
    /\ \E s \in Scopes : ~InChain(h, s)
    /\ token[c] = Free
    /\ Begin(h, "enter", c, None, "claim")
    /\ UNCHANGED <<contextVars, tebVars, processVars, chain, expected>>

\* Mutant: the token is stored, not compared and exchanged.
StoreToken(h) ==
    /\ pc[h] = "claim"
    /\ token' = [token EXCEPT ![ctx[h]] = h]
    /\ Goto(h, "claim_count")
    /\ UNCHANGED <<scopeCount, owner, teb, lastError, tebVars, processVars, chain, expected>>

ClaimToken(h) ==
    /\ pc[h] = "claim"
    /\ token[ctx[h]] = Free
    /\ token' = [token EXCEPT ![ctx[h]] = h]
    /\ Goto(h, "claim_count")
    /\ UNCHANGED <<scopeCount, owner, teb, lastError, tebVars, processVars, chain, expected>>

ClaimLost(h) ==
    /\ pc[h] = "claim"
    /\ token[ctx[h]] # Free
    /\ Finish(h)
    /\ UNCHANGED <<contextVars, tebVars, processVars, chain, expected>>

ClaimCount(h) ==
    /\ pc[h] = "claim_count"
    /\ scopeCount' = [scopeCount EXCEPT ![ctx[h]] = 1]
    /\ Goto(h, "retain")
    /\ UNCHANGED <<token, owner, teb, lastError, tebVars, processVars, chain, expected>>

\* The token is loaded as our own: nest.
EnterNested(h, c) ==
    /\ Usable(c)
    /\ \E s \in Scopes : ~InChain(h, s)
    /\ token[c] = h
    /\ scopeCount[c] < MaxScopeCount
    /\ scopeCount' = [scopeCount EXCEPT ![c] = @ + 1]
    /\ Begin(h, "enter", c, None, "retain")
    /\ UNCHANGED <<token, owner, teb, lastError, tebVars, processVars, chain, expected>>

Push(h) ==
    chain' = [chain EXCEPT ![h] =
                <<[scope |-> FreeScope(h), context |-> ctx[h]]>> \o @]

EnterRetain(h) ==
    /\ pc[h] = "retain"
    /\ CanRetain(ctx[h])
    /\ Retain(ctx[h])
    /\ Push(h)
    /\ Finish(h)
    /\ UNCHANGED <<contextVars, tebVars, alive, expected>>

EnterRefused(h) ==
    /\ pc[h] = "retain"
    /\ ~CanRetain(ctx[h])
    /\ Goto(h, "drop_scope")
    /\ UNCHANGED <<contextVars, tebVars, processVars, chain, expected>>

-----------------------------------------------------------------------------
(* sl_win32_context_leave: pop, release the process, drop the claim.       *)

Current(h) == IF chain[h] = <<>> THEN None ELSE Head(chain[h]).context

Leave(h) ==
    /\ chain[h] # <<>>
    /\ token[Current(h)] = h
    /\ chain' = [chain EXCEPT ![h] = Tail(@)]
    /\ Begin(h, "leave", Current(h), None,
             IF HasProcess(Current(h)) THEN "leave_process" ELSE "drop_scope")
    /\ UNCHANGED <<contextVars, tebVars, processVars, expected>>

LeaveProcess(h) ==
    /\ pc[h] = "leave_process"
    /\ Release
    /\ Goto(h, "drop_scope")
    /\ UNCHANGED <<contextVars, tebVars, alive, chain, expected>>

DropScope(h) ==
    /\ pc[h] = "drop_scope"
    /\ scopeCount' = [scopeCount EXCEPT ![ctx[h]] = @ - 1]
    /\ IF scopeCount[ctx[h]] = 1 THEN Goto(h, "drop_token") ELSE Finish(h)
    /\ UNCHANGED <<token, owner, teb, lastError, tebVars, processVars, chain, expected>>

DropToken(h) ==
    /\ pc[h] = "drop_token"
    /\ token' = [token EXCEPT ![ctx[h]] = Free]
    /\ Finish(h)
    /\ UNCHANGED <<scopeCount, owner, teb, lastError, tebVars, processVars, chain, expected>>

-----------------------------------------------------------------------------
(* sl_win32_context_claim_inactive and sl_win32_context_release_inactive.  *)

ClaimInactive(h, c) ==
    /\ token[c] = Free
    /\ token' = [token EXCEPT ![c] = h]

ReleaseInactive(h) ==
    /\ pc[h] = "release"
    /\ token' = [token EXCEPT ![ctx[h]] = Free]
    /\ IF op[h] = "destroy" /\ ~mapped[tb[h]] THEN Goto(h, "destroy_free") ELSE Finish(h)
    /\ UNCHANGED <<scopeCount, owner, teb, lastError, tebVars, processVars, chain, expected>>

-----------------------------------------------------------------------------
(* sl_win32_teb_create.                                                    *)

Create(h, c) ==
    /\ Usable(c)
    /\ ClaimInactive(h, c)
    /\ Begin(h, "create", c, None, "create_check")
    /\ UNCHANGED <<scopeCount, owner, teb, lastError, tebVars, processVars, chain, expected>>

CreateCheck(h) ==
    /\ pc[h] = "create_check"
    /\ Goto(h, IF HasProcess(ctx[h]) /\ teb[ctx[h]] = None
               THEN "create_reserve" ELSE "release")
    /\ UNCHANGED <<contextVars, tebVars, processVars, chain, expected>>

CreateReserve(h) ==
    /\ pc[h] = "create_reserve"
    /\ IF owner[ctx[h]] = None
       THEN /\ owner' = [owner EXCEPT ![ctx[h]] = Reserved]
            /\ Goto(h, "create_retain")
       ELSE /\ owner' = owner
            /\ Goto(h, "release")
    /\ UNCHANGED <<token, scopeCount, teb, lastError, tebVars, processVars, chain, expected>>

CreateRetain(h) ==
    /\ pc[h] = "create_retain"
    /\ IF CanRetain(ctx[h])
       THEN Retain(ctx[h]) /\ Goto(h, "create_map")
       ELSE refs' = refs /\ Goto(h, "create_unreserve")
    /\ UNCHANGED <<contextVars, tebVars, alive, chain, expected>>

\* The TEB is allocated, mapped and filled in.
CreateMap(h) ==
    /\ pc[h] = "create_map"
    /\ \E b \in Tebs :
         /\ tebThread[b] = None
         /\ tebThread' = [tebThread EXCEPT ![b] = ctx[h]]
         /\ mapped' = [mapped EXCEPT ![b] = TRUE]
         /\ attached' = [attached EXCEPT ![b] = FALSE]
         /\ tebError' = [tebError EXCEPT ![b] = lastError[ctx[h]]]
         /\ tb' = [tb EXCEPT ![h] = b]
    /\ pc' = [pc EXCEPT ![h] = "create_publish"]
    /\ UNCHANGED <<contextVars, processVars, chain, op, ctx, expected>>

\* The page size, calloc, mmap or mprotect fails; a mapping is undone.
CreateMapFails(h) ==
    /\ pc[h] = "create_map"
    /\ Goto(h, "create_unretain")
    /\ UNCHANGED <<contextVars, tebVars, processVars, chain, expected>>

CreateUnretain(h) ==
    /\ pc[h] = "create_unretain"
    /\ Release
    /\ Goto(h, "create_unreserve")
    /\ UNCHANGED <<contextVars, tebVars, alive, chain, expected>>

CreateUnreserve(h) ==
    /\ pc[h] = "create_unreserve"
    /\ owner' = [owner EXCEPT ![ctx[h]] = None]
    /\ Goto(h, "release")
    /\ UNCHANGED <<token, scopeCount, teb, lastError, tebVars, processVars, chain, expected>>

CreatePublish(h) ==
    /\ pc[h] = "create_publish"
    /\ owner' = [owner EXCEPT ![ctx[h]] = tb[h]]
    /\ Goto(h, "release")
    /\ UNCHANGED <<token, scopeCount, teb, lastError, tebVars, processVars, chain, expected>>

-----------------------------------------------------------------------------
(* sl_win32_teb_destroy.                                                   *)

Destroy(h, b) ==
    /\ MayDestroy(b)
    /\ ClaimInactive(h, tebThread[b])
    /\ Begin(h, "destroy", tebThread[b], b, "destroy_check")
    /\ UNCHANGED <<scopeCount, owner, teb, lastError, tebVars, processVars, chain, expected>>

\* Mutant: an attached TEB is destroyed.
DestroyUnchecked(h) ==
    /\ pc[h] = "destroy_check"
    /\ Goto(h, "destroy_reserve")
    /\ UNCHANGED <<contextVars, tebVars, processVars, chain, expected>>

DestroyCheck(h) ==
    /\ pc[h] = "destroy_check"
    /\ Goto(h, IF attached[tb[h]] THEN "release" ELSE "destroy_reserve")
    /\ UNCHANGED <<contextVars, tebVars, processVars, chain, expected>>

DestroyReserve(h) ==
    /\ pc[h] = "destroy_reserve"
    /\ IF owner[ctx[h]] = tb[h]
       THEN /\ owner' = [owner EXCEPT ![ctx[h]] = Reserved]
            /\ Goto(h, "destroy_unmap")
       ELSE /\ owner' = owner
            /\ Goto(h, "release")
    /\ UNCHANGED <<token, scopeCount, teb, lastError, tebVars, processVars, chain, expected>>

DestroyUnmap(h) ==
    /\ pc[h] = "destroy_unmap"
    /\ mapped' = [mapped EXCEPT ![tb[h]] = FALSE]
    /\ Goto(h, "destroy_disown")
    /\ UNCHANGED <<contextVars, tebThread, attached, tebError, processVars, chain, expected>>

DestroyUnmapFails(h) ==
    /\ pc[h] = "destroy_unmap"
    /\ Goto(h, "destroy_restore")
    /\ UNCHANGED <<contextVars, tebVars, processVars, chain, expected>>

DestroyRestore(h) ==
    /\ pc[h] = "destroy_restore"
    /\ owner' = [owner EXCEPT ![ctx[h]] = tb[h]]
    /\ Goto(h, "release")
    /\ UNCHANGED <<token, scopeCount, teb, lastError, tebVars, processVars, chain, expected>>

DestroyDisown(h) ==
    /\ pc[h] = "destroy_disown"
    /\ owner' = [owner EXCEPT ![ctx[h]] = None]
    /\ Goto(h, "destroy_unretain")
    /\ UNCHANGED <<token, scopeCount, teb, lastError, tebVars, processVars, chain, expected>>

DestroyUnretain(h) ==
    /\ pc[h] = "destroy_unretain"
    /\ Release
    /\ Goto(h, "release")
    /\ UNCHANGED <<contextVars, tebVars, alive, chain, expected>>

DestroyFree(h) ==
    /\ pc[h] = "destroy_free"
    /\ tebThread' = [tebThread EXCEPT ![tb[h]] = None]
    /\ tebError' = [tebError EXCEPT ![tb[h]] = 0]
    /\ Finish(h)
    /\ UNCHANGED <<contextVars, mapped, attached, processVars, chain, expected>>

-----------------------------------------------------------------------------
(* sl_win32_thread_attach_teb and sl_win32_thread_detach_teb.              *)

Attach(h, c, b) ==
    /\ Usable(c)
    /\ MayUse(b)
    /\ ClaimInactive(h, c)
    /\ Begin(h, "attach", c, b, "attach")
    /\ UNCHANGED <<scopeCount, owner, teb, lastError, tebVars, processVars, chain, expected>>

CanAttach(c, b) ==
    /\ tebThread[b] = c
    /\ teb[c] = None
    /\ ~attached[b]
    /\ owner[c] = b

AttachTeb(h) ==
    /\ pc[h] = "attach"
    /\ IF CanAttach(ctx[h], tb[h])
       THEN /\ tebError' = [tebError EXCEPT ![tb[h]] = lastError[ctx[h]]]
            /\ teb' = [teb EXCEPT ![ctx[h]] = tb[h]]
            /\ attached' = [attached EXCEPT ![tb[h]] = TRUE]
       ELSE UNCHANGED <<tebError, teb, attached>>
    /\ Goto(h, "release")
    /\ UNCHANGED <<token, scopeCount, owner, lastError, tebThread, mapped,
                   processVars, chain, expected>>

Detach(h, c, b) ==
    /\ Usable(c)
    /\ MayUse(b)
    /\ ClaimInactive(h, c)
    /\ Begin(h, "detach", c, b, "detach")
    /\ UNCHANGED <<scopeCount, owner, teb, lastError, tebVars, processVars, chain, expected>>

CanDetach(c, b) ==
    /\ teb[c] = b
    /\ tebThread[b] = c
    /\ attached[b]

\* Mutant: the last error is not copied back.
DetachLosesError(h) ==
    /\ pc[h] = "detach"
    /\ IF CanDetach(ctx[h], tb[h])
       THEN /\ teb' = [teb EXCEPT ![ctx[h]] = None]
            /\ attached' = [attached EXCEPT ![tb[h]] = FALSE]
       ELSE UNCHANGED <<teb, attached>>
    /\ Goto(h, "release")
    /\ UNCHANGED <<token, scopeCount, owner, lastError, tebThread, mapped, tebError,
                   processVars, chain, expected>>

DetachTeb(h) ==
    /\ pc[h] = "detach"
    /\ IF CanDetach(ctx[h], tb[h])
       THEN /\ lastError' = [lastError EXCEPT ![ctx[h]] = tebError[tb[h]]]
            /\ teb' = [teb EXCEPT ![ctx[h]] = None]
            /\ attached' = [attached EXCEPT ![tb[h]] = FALSE]
       ELSE UNCHANGED <<lastError, teb, attached>>
    /\ Goto(h, "release")
    /\ UNCHANGED <<token, scopeCount, owner, tebThread, mapped, tebError,
                   processVars, chain, expected>>

-----------------------------------------------------------------------------
(* The guest sets its last error (current_last_error), and the owner of    *)
(* the process destroys it.                                                *)

SetLastError(h, e) ==
    /\ pc[h] = "idle"
    /\ chain[h] # <<>>
    /\ LET c == Current(h) IN
         /\ expected' = [expected EXCEPT ![c] = e]
         /\ IF teb[c] = None
            THEN /\ lastError' = [lastError EXCEPT ![c] = e]
                 /\ tebError' = tebError
            ELSE /\ tebError' = [tebError EXCEPT ![teb[c]] = e]
                 /\ lastError' = lastError
    /\ UNCHANGED <<token, scopeCount, owner, teb, tebThread, mapped, attached,
                   processVars, chain, callVars>>

Retaining(h) ==
    /\ pc[h] \in {"claim", "claim_count", "retain", "create_check",
                  "create_reserve", "create_retain"}
    /\ HasProcess(ctx[h])

ProcessDestroy ==
    /\ alive
    /\ \A h \in Hosts : ~Retaining(h)
    /\ refs = 0
    /\ alive' = FALSE
    /\ UNCHANGED <<contextVars, tebVars, refs, chain, callVars, expected>>

-----------------------------------------------------------------------------
Scope(h) ==
    \/ \E c \in Contexts : Enter(h, c) \/ EnterNested(h, c)
    \/ ClaimToken(h) \/ ClaimLost(h) \/ ClaimCount(h)
    \/ EnterRetain(h) \/ EnterRefused(h)
    \/ Leave(h) \/ LeaveProcess(h) \/ DropScope(h) \/ DropToken(h)

Teb(h) ==
    \/ \E c \in Contexts : Create(h, c)
    \/ CreateCheck(h) \/ CreateReserve(h) \/ CreateRetain(h) \/ CreateMap(h)
    \/ CreateMapFails(h) \/ CreateUnretain(h) \/ CreateUnreserve(h) \/ CreatePublish(h)
    \/ \E b \in Tebs : Destroy(h, b)
    \/ DestroyCheck(h) \/ DestroyReserve(h) \/ DestroyUnmap(h) \/ DestroyUnmapFails(h)
    \/ DestroyRestore(h) \/ DestroyDisown(h) \/ DestroyUnretain(h) \/ DestroyFree(h)
    \/ \E c \in Contexts, b \in Tebs : Attach(h, c, b) \/ Detach(h, c, b)
    \/ AttachTeb(h) \/ DetachTeb(h)
    \/ ReleaseInactive(h)

Guest(h) == \E e \in Errors : SetLastError(h, e)

Next ==
    \/ \E h \in Hosts : Scope(h) \/ Teb(h) \/ Guest(h)
    \/ ProcessDestroy

Spec == Init /\ [][Next]_vars

-----------------------------------------------------------------------------
(* Properties.                                                             *)

ActiveFrames(h, c) == {i \in DOMAIN chain[h] : chain[h][i].context = c}

\* Steps at which the call of a host holds one more claim than its chain.
Claiming == {"retain", "leave_process", "drop_scope"}

\* A guest context runs on one host thread at a time: whoever has it in a
\* scope, or is changing its TEB, is the host that host_thread_token names,
\* and a token that is set names a host that is doing one of the two.
ContextOnOneHost ==
    \A c \in Contexts :
        /\ \A h \in Hosts : ActiveFrames(h, c) # {} => token[c] = h
        /\ token[c] # Free =>
             \/ ActiveFrames(token[c], c) # {}
             \/ ctx[token[c]] = c /\ pc[token[c]] \notin {"idle", "claim", "destroy_free"}

\* active_scope_count is the number of scopes that have the context
\* installed, the one being entered or left included.
ScopeCountExact ==
    \A c \in Contexts :
        scopeCount[c] =
            IF token[c] = Free THEN 0
            ELSE Cardinality(ActiveFrames(token[c], c)) +
                 (IF ctx[token[c]] = c /\ pc[token[c]] \in Claiming THEN 1 ELSE 0)

\* The consistency aborts of release_thread_context, claim_inactive,
\* release_inactive and process_release are never reached.
NoAbort ==
    \A h \in Hosts :
        /\ pc[h] = "drop_scope" => scopeCount[ctx[h]] > 0 /\ token[ctx[h]] = h
        /\ pc[h] \in {"create_check", "destroy_check", "attach", "detach"} =>
               scopeCount[ctx[h]] = 0
        /\ pc[h] = "release" => token[ctx[h]] = h /\ scopeCount[ctx[h]] = 0
        /\ pc[h] \in {"leave_process", "create_unretain", "destroy_unretain"} => refs > 0

\* The TEB whose destroy has already given its reference back.
Disowned(b) ==
    \E h \in Hosts : /\ tb[h] = b /\ op[h] = "destroy" /\ ~mapped[b]
                     /\ pc[h] \in {"release", "destroy_free"}

\* The scopes of host h that hold a reference.
HoldingFrames(h) == {i \in DOMAIN chain[h] : HasProcess(chain[h][i].context)}
ScopeUsers == UNION {{<<h, i>> : i \in HoldingFrames(h)} : h \in Hosts}
CallUsers  == {h \in Hosts : pc[h] \in {"leave_process", "create_map", "create_unretain"}}
TebUsers   == {b \in Tebs : tebThread[b] # None /\ ~Disowned(b)}

\* active_references counts the scopes and the TEBs of the process, on every
\* path through a failed enter, create or destroy.
ReferencesExact ==
    refs = Cardinality(ScopeUsers) + Cardinality(CallUsers) + Cardinality(TebUsers)

\* The process is destroyed only after the last scope and the last TEB.
ProcessOutlivesUsers ==
    ~alive => ScopeUsers = {} /\ CallUsers = {} /\ TebUsers = {}

\* The TEB a guest context points to is mapped, attached and its own: a
\* TEB is never unmapped under a running guest.
GuestTebIsMapped ==
    \A c \in Contexts :
        teb[c] # None => /\ mapped[teb[c]] /\ attached[teb[c]]
                         /\ tebThread[teb[c]] = c
                         /\ owner[c] = teb[c]

\* "A thread context owns at most one TEB."
OneTebPerContext ==
    \A a, b \in Tebs :
        (mapped[a] /\ mapped[b] /\ tebThread[a] = tebThread[b]) => a = b

\* The last error a guest has set is the one it reads, across attaching,
\* detaching and replacing its TEB and moving to another host thread.
LastErrorSurvives ==
    \A c \in Contexts :
        expected[c] = IF teb[c] = None THEN lastError[c] ELSE tebError[teb[c]]

(* The counters of context.c and process.c are exact on every path through *)
(* a failed enter, create or destroy: no abort is reached, no counter      *)
(* leaves its range and the process outlives its users.                    *)
CountsExact ==
    /\ TypeOK
    /\ ScopeCountExact
    /\ ReferencesExact
    /\ NoAbort
    /\ ProcessOutlivesUsers

(* teb.c: a context has at most one TEB, and the one a guest runs on stays *)
(* mapped and attached.                                                    *)
TebsAreSafe == GuestTebIsMapped /\ OneTebPerContext

(* However entering, leaving, creating and destroying interleave and fail, *)
(* a context is used by the host it is claimed for, and every counter      *)
(* says by how many.                                                       *)
ContextsAreSafe == CountsExact /\ ContextOnOneHost
=============================================================================
