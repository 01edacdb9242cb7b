------------------------- MODULE ThreadContextProofs -------------------------
(***************************************************************************)
(* Safety of the guest thread contexts and their TEBs for every number of  *)
(* host threads, contexts, scopes and TEBs and every limit of the counters.*)
(***************************************************************************)
EXTENDS ThreadContext, FiniteSetTheorems, TLAPS

(* Steps, by what the call has at that point. *)
Loose     == {"idle", "claim", "destroy_free"}    \* no token of its own
Entering  == {"claim", "claim_count", "retain", "leave_process", "drop_scope",
              "drop_token"}
Creating  == {"create_check", "create_reserve", "create_retain", "create_map",
              "create_unretain", "create_unreserve"}
Undoing   == {"destroy_check", "destroy_reserve", "destroy_unmap",
              "destroy_restore", "destroy_disown", "destroy_unretain",
              "destroy_free"}
Reserving == {"create_retain", "create_map", "create_unretain",
              "create_unreserve", "create_publish", "destroy_unmap",
              "destroy_restore", "destroy_disown"}
Lending   == {"create_publish", "destroy_unmap", "destroy_restore"}
Mapping   == {"destroy_check", "destroy_reserve"} \cup Lending
Unmapping == {"destroy_disown", "destroy_unretain", "destroy_free"}
Owing     == {"leave_process", "create_map", "create_unretain"}
Joining   == {"claim", "claim_count", "retain", "create_check",
              "create_reserve", "create_retain"}
InProcess == {"create_reserve", "create_retain"} \cup Owing
Finding   == {"claim", "claim_count", "retain"}

(* What a call knows at each of its steps. *)
CallInv ==
    \A h \in Hosts :
        /\ pc[h] = "idle" => ctx[h] = None
        /\ pc[h] # "idle" => ctx[h] \in Contexts
        /\ pc[h] = "idle" \/ pc[h] \in Entering => tb[h] = None
        /\ pc[h] \in Creating => op[h] = "create" /\ tb[h] = None
        /\ pc[h] = "create_publish" => op[h] = "create" /\ tb[h] \in Tebs
        /\ pc[h] \in Undoing => op[h] = "destroy"
        /\ pc[h] \in {"attach", "detach"} =>
              tb[h] \in Tebs /\ op[h] \notin {"create", "destroy"}
        /\ op[h] = "destroy" => tb[h] \in Tebs
        /\ pc[h] \in InProcess => ctx[h] \notin Detached

(* How many scopes of a host have a context installed. *)
FrameCount(h, c) == Cardinality(ActiveFrames(h, c))

(* A call holds the token of its context. *)
HoldInv == \A h \in Hosts : pc[h] \notin Loose => token[ctx[h]] = h

(* Outside the scope steps the context of a call is in no scope. *)
QuietInv ==
    \A h \in Hosts, c \in Contexts :
        ctx[h] = c /\ pc[h] \notin Loose /\ pc[h] \notin Claiming => FrameCount(h, c) = 0

(* A context in a scope of a host has the host's token. *)
FrameInv ==
    \A h \in Hosts, c \in Contexts : FrameCount(h, c) # 0 => token[c] = h

(* A token that is set names a host with the context in a scope or a call. *)
NamedInv ==
    \A h \in Hosts, c \in Contexts :
        token[c] = h => FrameCount(h, c) # 0 \/ (ctx[h] = c /\ pc[h] \notin Loose)

(* A TEB a call is about is allocated, and the one it creates or destroys  *)
(* is of its context and of no other call.                                 *)
LeaseInv ==
    \A h \in Hosts :
        tb[h] # None =>
            /\ tebThread[tb[h]] # None
            /\ op[h] \in {"create", "destroy"} =>
                  /\ tebThread[tb[h]] = ctx[h]
                  /\ \A g \in Hosts : g # h => tb[g] # tb[h]

(* teb_owner_token, the context's TEB and the attached flag agree. *)
OwnerInv ==
    \A c \in Contexts :
        /\ teb[c] # None => /\ tebThread[teb[c]] = c /\ attached[teb[c]]
                            /\ owner[c] = teb[c]
        /\ owner[c] \in Tebs => tebThread[owner[c]] = c /\ mapped[owner[c]]

AttachInv ==
    /\ \A b \in Tebs : attached[b] => tebThread[b] # None /\ teb[tebThread[b]] = b
    /\ \A h \in Hosts : pc[h] = "destroy_reserve" => ~attached[tb[h]]

(* Between its reservation and its publication or withdrawal the ownership *)
(* is the call's.                                                          *)
ReserveInv == \A h \in Hosts : pc[h] \in Reserving => owner[ctx[h]] = Reserved

(* The pages of the TEB a call creates or destroys. *)
PagesInv ==
    \A h \in Hosts :
        /\ pc[h] \in Mapping => mapped[tb[h]]
        /\ pc[h] \in Unmapping => ~mapped[tb[h]]

(* A mapped TEB is owned by its context, or by the call that creates or    *)
(* destroys it.                                                            *)
MapInv ==
    \A b \in Tebs :
        mapped[b] =>
            /\ tebThread[b] # None
            /\ \/ owner[tebThread[b]] = b
               \/ \E h \in Hosts : tb[h] = b /\ pc[h] \in Lending

(* A TEB that is allocated and not mapped is being destroyed. *)
UnmapInv ==
    \A b \in Tebs :
        tebThread[b] # None /\ ~mapped[b] =>
            \E h \in Hosts : tb[h] = b /\ op[h] = "destroy"

(* active_scope_count is the number of scopes of the host with the token,  *)
(* the one being entered or left included.                                 *)
CountInv ==
    \A c \in Contexts :
        /\ token[c] = Free => scopeCount[c] = 0
        /\ \A h \in Hosts :
              token[c] = h =>
                  scopeCount[c] = FrameCount(h, c) +
                      (IF ctx[h] = c /\ pc[h] \in Claiming THEN 1 ELSE 0)

(* A call that will retain the process finds it alive, and a process that  *)
(* is not has no references.                                               *)
AliveInv ==
    /\ \A h \in Hosts : pc[h] \in Joining /\ ctx[h] \notin Detached => alive
    /\ ~alive => refs = 0

IndInv ==
    /\ TypeOK
    /\ CallInv
    /\ HoldInv
    /\ QuietInv
    /\ FrameInv
    /\ NamedInv
    /\ LeaseInv
    /\ OwnerInv
    /\ AttachInv
    /\ ReserveInv
    /\ PagesInv
    /\ MapInv
    /\ UnmapInv
    /\ CountInv
    /\ ReferencesExact
    /\ AliveInv
    /\ LastErrorSurvives

(* A host that enters a context has a scope token left for it. *)
RoomInv ==
    \A h \in Hosts : pc[h] \in Finding => \E s \in Scopes : ~InChain(h, s)

(* A step of a host that leaves the scopes alone. *)
Aside(h) ==
    /\ chain' = chain
    /\ \A g \in Hosts : g # h => pc'[g] = pc[g]
    /\ pc'[h] \notin Finding

(* What pushing or popping a scope of a context on a host does to the      *)
(* counts.                                                                 *)
Pushed(h, c) ==
    /\ chain' \in [Hosts -> Seq(Frames)]
    /\ \A g \in Hosts, x \in Contexts :
          FrameCount(g, x)' =
              IF g = h /\ x = c THEN FrameCount(g, x) + 1 ELSE FrameCount(g, x)
    /\ Cardinality(ScopeUsers') =
          Cardinality(ScopeUsers) + (IF c \notin Detached THEN 1 ELSE 0)

Popped(h, c) ==
    /\ chain' \in [Hosts -> Seq(Frames)]
    /\ \A g \in Hosts, x \in Contexts :
          /\ FrameCount(g, x)' \in Nat
          /\ g = h /\ x = c => FrameCount(g, x) = FrameCount(g, x)' + 1
          /\ ~(g = h /\ x = c) => FrameCount(g, x)' = FrameCount(g, x)
    /\ Cardinality(ScopeUsers) =
          Cardinality(ScopeUsers') + (IF c \notin Detached THEN 1 ELSE 0)
    /\ Cardinality(ScopeUsers') \in Nat

-----------------------------------------------------------------------------
(* Which steps are of which kind. *)
LEMMA StepKinds ==
  /\ "idle" \in Loose \cap Steps
  /\ "idle" \notin Entering \cup Creating \cup Undoing \cup Reserving \cup
         Lending \cup Mapping \cup Unmapping \cup Owing \cup Joining \cup
         InProcess \cup Claiming
  /\ "claim" \in Loose \cap Entering \cap Joining \cap Steps
  /\ "claim" \notin Creating \cup Undoing \cup Reserving \cup Lending \cup
         Mapping \cup Unmapping \cup Owing \cup InProcess \cup Claiming
  /\ "claim_count" \in Entering \cap Joining \cap Steps
  /\ "claim_count" \notin Loose \cup Creating \cup Undoing \cup Reserving
         \cup Lending \cup Mapping \cup Unmapping \cup Owing \cup InProcess
         \cup Claiming
  /\ "retain" \in Entering \cap Joining \cap Claiming \cap Steps
  /\ "retain" \notin Loose \cup Creating \cup Undoing \cup Reserving \cup
         Lending \cup Mapping \cup Unmapping \cup Owing \cup InProcess
  /\ "leave_process" \in Entering \cap Owing \cap InProcess \cap Claiming
         \cap Steps
  /\ "leave_process" \notin Loose \cup Creating \cup Undoing \cup Reserving
         \cup Lending \cup Mapping \cup Unmapping \cup Joining
  /\ "drop_scope" \in Entering \cap Claiming \cap Steps
  /\ "drop_scope" \notin Loose \cup Creating \cup Undoing \cup Reserving
         \cup Lending \cup Mapping \cup Unmapping \cup Owing \cup Joining
         \cup InProcess
  /\ "drop_token" \in Entering \cap Steps
  /\ "drop_token" \notin Loose \cup Creating \cup Undoing \cup Reserving
         \cup Lending \cup Mapping \cup Unmapping \cup Owing \cup Joining
         \cup InProcess \cup Claiming
  /\ "create_check" \in Creating \cap Joining \cap Steps
  /\ "create_check" \notin Loose \cup Entering \cup Undoing \cup Reserving
         \cup Lending \cup Mapping \cup Unmapping \cup Owing \cup InProcess
         \cup Claiming
  /\ "create_reserve" \in Creating \cap Joining \cap InProcess \cap Steps
  /\ "create_reserve" \notin Loose \cup Entering \cup Undoing \cup Reserving
         \cup Lending \cup Mapping \cup Unmapping \cup Owing \cup Claiming
  /\ "create_retain" \in Creating \cap Reserving \cap Joining \cap InProcess
         \cap Steps
  /\ "create_retain" \notin Loose \cup Entering \cup Undoing \cup Lending
         \cup Mapping \cup Unmapping \cup Owing \cup Claiming
  /\ "create_map" \in Creating \cap Reserving \cap Owing \cap InProcess \cap
         Steps
  /\ "create_map" \notin Loose \cup Entering \cup Undoing \cup Lending \cup
         Mapping \cup Unmapping \cup Joining \cup Claiming
  /\ "create_publish" \in Reserving \cap Lending \cap Mapping \cap Steps
  /\ "create_publish" \notin Loose \cup Entering \cup Creating \cup Undoing
         \cup Unmapping \cup Owing \cup Joining \cup InProcess \cup Claiming
  /\ "create_unretain" \in Creating \cap Reserving \cap Owing \cap InProcess
         \cap Steps
  /\ "create_unretain" \notin Loose \cup Entering \cup Undoing \cup Lending
         \cup Mapping \cup Unmapping \cup Joining \cup Claiming
  /\ "create_unreserve" \in Creating \cap Reserving \cap Steps
  /\ "create_unreserve" \notin Loose \cup Entering \cup Undoing \cup Lending
         \cup Mapping \cup Unmapping \cup Owing \cup Joining \cup InProcess
         \cup Claiming
  /\ "destroy_check" \in Undoing \cap Mapping \cap Steps
  /\ "destroy_check" \notin Loose \cup Entering \cup Creating \cup Reserving
         \cup Lending \cup Unmapping \cup Owing \cup Joining \cup InProcess
         \cup Claiming
  /\ "destroy_reserve" \in Undoing \cap Mapping \cap Steps
  /\ "destroy_reserve" \notin Loose \cup Entering \cup Creating \cup
         Reserving \cup Lending \cup Unmapping \cup Owing \cup Joining \cup
         InProcess \cup Claiming
  /\ "destroy_unmap" \in Undoing \cap Reserving \cap Lending \cap Mapping
         \cap Steps
  /\ "destroy_unmap" \notin Loose \cup Entering \cup Creating \cup Unmapping
         \cup Owing \cup Joining \cup InProcess \cup Claiming
  /\ "destroy_restore" \in Undoing \cap Reserving \cap Lending \cap Mapping
         \cap Steps
  /\ "destroy_restore" \notin Loose \cup Entering \cup Creating \cup
         Unmapping \cup Owing \cup Joining \cup InProcess \cup Claiming
  /\ "destroy_disown" \in Undoing \cap Reserving \cap Unmapping \cap Steps
  /\ "destroy_disown" \notin Loose \cup Entering \cup Creating \cup Lending
         \cup Mapping \cup Owing \cup Joining \cup InProcess \cup Claiming
  /\ "destroy_unretain" \in Undoing \cap Unmapping \cap Steps
  /\ "destroy_unretain" \notin Loose \cup Entering \cup Creating \cup
         Reserving \cup Lending \cup Mapping \cup Owing \cup Joining \cup
         InProcess \cup Claiming
  /\ "destroy_free" \in Loose \cap Undoing \cap Unmapping \cap Steps
  /\ "destroy_free" \notin Entering \cup Creating \cup Reserving \cup
         Lending \cup Mapping \cup Owing \cup Joining \cup InProcess \cup
         Claiming
  /\ "attach" \in Steps
  /\ "attach" \notin Loose \cup Entering \cup Creating \cup Undoing \cup
         Reserving \cup Lending \cup Mapping \cup Unmapping \cup Owing \cup
         Joining \cup InProcess \cup Claiming
  /\ "detach" \in Steps
  /\ "detach" \notin Loose \cup Entering \cup Creating \cup Undoing \cup
         Reserving \cup Lending \cup Mapping \cup Unmapping \cup Owing \cup
         Joining \cup InProcess \cup Claiming
  /\ "release" \in Steps
  /\ "release" \notin Loose \cup Entering \cup Creating \cup Undoing \cup
         Reserving \cup Lending \cup Mapping \cup Unmapping \cup Owing \cup
         Joining \cup InProcess \cup Claiming
BY DEF Loose, Entering, Creating, Undoing, Reserving, Lending, Mapping,
      Unmapping, Owing, Joining, InProcess, Claiming, Steps


(* Strings that are names of calls. *)
LEMMA OpNames ==
  /\ "none" \in Ops /\ "enter" \in Ops /\ "leave" \in Ops /\ "create" \in Ops
  /\ "destroy" \in Ops /\ "attach" \in Ops /\ "detach" \in Ops
BY DEF Ops

(* TypeOK, element by element. *)
LEMMA Typing ==
  ASSUME TypeOK
  PROVE  /\ \A x \in Contexts :
               /\ token[x] \in Hosts \cup {Free}
               /\ scopeCount[x] \in 0 .. MaxScopeCount
               /\ owner[x] \in Tebs \cup {None, Reserved}
               /\ teb[x] \in Tebs \cup {None}
               /\ lastError[x] \in Errors
               /\ expected[x] \in Errors
         /\ \A a \in Tebs :
               /\ tebThread[a] \in Contexts \cup {None}
               /\ mapped[a] \in BOOLEAN
               /\ attached[a] \in BOOLEAN
               /\ tebError[a] \in Errors
         /\ \A g \in Hosts :
               /\ chain[g] \in Seq(Frames)
               /\ pc[g] \in Steps
               /\ op[g] \in Ops
               /\ ctx[g] \in Contexts \cup {None}
               /\ tb[g] \in Tebs \cup {None}
         /\ refs \in 0 .. MaxReferences
         /\ alive \in BOOLEAN
BY DEF TypeOK

-----------------------------------------------------------------------------
(* Counting.  A scope chain is finite, and so are the sets of users. *)
LEMMA FramesFinite ==
  ASSUME TypeOK, NEW h \in Hosts, NEW c
  PROVE  /\ FrameCount(h, c) \in Nat
         /\ FrameCount(h, c) = 0 <=> ActiveFrames(h, c) = {}
<1>1. Len(chain[h]) \in Nat /\ DOMAIN chain[h] = 1 .. Len(chain[h])
  BY DEF TypeOK
<1>2. IsFiniteSet(1 .. Len(chain[h]))
  BY <1>1, FS_Interval
<1>3. ActiveFrames(h, c) \subseteq 1 .. Len(chain[h])
  BY <1>1 DEF ActiveFrames
<1>4. IsFiniteSet(ActiveFrames(h, c))
  BY <1>2, <1>3, FS_Subset
<1>5. QED
  BY <1>4, FS_CardinalityType, FS_EmptySet DEF FrameCount

(* The scopes that hold a reference, for any chains. *)
Users(ch) ==
    UNION {{<<g, i>> : i \in {j \in DOMAIN ch[g] : HasProcess(ch[g][j].context)}} :
           g \in Hosts}

LEMMA ScopeUsersOf == ScopeUsers = Users(chain)
BY DEF ScopeUsers, HoldingFrames, Users

LEMMA ScopeUsersFinite ==
  ASSUME NEW ch \in [Hosts -> Seq(Frames)]
  PROVE  IsFiniteSet(Users(ch))
<1> DEFINE Held(g) == {j \in DOMAIN ch[g] : HasProcess(ch[g][j].context)}
           Of(g)   == {<<g, i>> : i \in Held(g)}
<1>1. ASSUME NEW h \in Hosts
      PROVE  IsFiniteSet(Of(h))
  <2>1. Len(ch[h]) \in Nat /\ DOMAIN ch[h] = 1 .. Len(ch[h])
    OBVIOUS
  <2>2. IsFiniteSet(1 .. Len(ch[h]))
    BY <2>1, FS_Interval
  <2>3. Held(h) \subseteq 1 .. Len(ch[h])
    BY <2>1
  <2>4. IsFiniteSet(Held(h))
    BY <2>2, <2>3, FS_Subset
  <2> DEFINE f == [i \in Held(h) |-> <<h, i>>]
  <2> HIDE DEF Held
  <2>5. f \in Surjection(Held(h), Of(h))
    BY DEF Surjection
  <2>6. QED
    BY <2>4, <2>5, FS_Surjection
<1> HIDE DEF Of
<1>2. IsFiniteSet({Of(g) : g \in Hosts})
  <2> DEFINE f == [g \in Hosts |-> Of(g)]
             T == {Of(g) : g \in Hosts}
  <2>1. f \in Surjection(Hosts, T)
    BY DEF Surjection
  <2>2. QED
    BY <2>1, ThreadContextAssumption, FS_Surjection
<1>3. IsFiniteSet(UNION {Of(g) : g \in Hosts})
  BY <1>1, <1>2, FS_UNION
<1>4. QED
  BY <1>3 DEF Users, Of

LEMMA UsersFinite ==
  ASSUME TypeOK
  PROVE  /\ IsFiniteSet(ScopeUsers) /\ IsFiniteSet(CallUsers) /\ IsFiniteSet(TebUsers)
         /\ Cardinality(ScopeUsers) \in Nat
         /\ Cardinality(CallUsers) \in Nat
         /\ Cardinality(TebUsers) \in Nat
         /\ Cardinality(ScopeUsers) = 0 => ScopeUsers = {}
         /\ Cardinality(CallUsers) = 0 => CallUsers = {}
         /\ Cardinality(TebUsers) = 0 => TebUsers = {}
<1>1. IsFiniteSet(ScopeUsers)
  BY ScopeUsersOf, ScopeUsersFinite DEF TypeOK
<1>2. IsFiniteSet(CallUsers) /\ IsFiniteSet(TebUsers)
  BY ThreadContextAssumption, FS_Subset DEF CallUsers, TebUsers
<1>3. QED
  BY <1>1, <1>2, FS_CardinalityType, FS_EmptySet

(* One more scope at the top of a chain: the others move down by one. *)
FramesOf(s, c) == {i \in DOMAIN s : s[i].context = c}

LEMMA PushedFrames ==
  ASSUME NEW s \in Seq(Frames), NEW f \in Frames, NEW c
  PROVE  Cardinality(FramesOf(<<f>> \o s, c)) =
             Cardinality(FramesOf(s, c)) + (IF f.context = c THEN 1 ELSE 0)
<1> DEFINE t == <<f>> \o s
           before == {i \in DOMAIN s : s[i].context = c}
           after == {i \in DOMAIN t : t[i].context = c}
           moved == after \ {1}
           g == [i \in before |-> i + 1]
<1>1. /\ Len(s) \in Nat /\ DOMAIN s = 1 .. Len(s)
      /\ DOMAIN t = 1 .. (Len(s) + 1)
      /\ t[1] = f /\ \A i \in 1 .. Len(s) : t[i + 1] = s[i]
  OBVIOUS
<1>2. IsFiniteSet(1 .. (Len(s) + 1)) /\ IsFiniteSet(1 .. Len(s))
  BY <1>1, FS_Interval
<1>3. IsFiniteSet(before) /\ IsFiniteSet(after)
  <2>1. before \subseteq 1 .. Len(s) /\ after \subseteq 1 .. (Len(s) + 1)
    BY <1>1
  <2>2. QED
    BY <1>2, <2>1, FS_Subset
<1>4. g \in Bijection(before, moved)
  <2>1. \A i \in before : i + 1 \in moved
    BY <1>1
  <2>2. \A j \in moved : j - 1 \in before /\ (j - 1) + 1 = j
    BY <1>1
  <2>3. \A i, j \in before : i + 1 = j + 1 => i = j
    BY <1>1
  <2> HIDE DEF before, moved
  <2>4. g \in [before -> moved]
    BY <2>1
  <2>5. \A j \in moved : \E i \in before : g[i] = j
    BY <2>2
  <2>6. \A i, j \in before : g[i] = g[j] => i = j
    BY <2>3
  <2>7. QED
    BY <2>4, <2>5, <2>6 DEF Bijection, Injection, Surjection, IsInjective
<1>5. Cardinality(moved) = Cardinality(before) /\ Cardinality(before) \in Nat
  <2> HIDE DEF before, moved, g
  <2>1. QED
    BY <1>3, <1>4, FS_Bijection, FS_CardinalityType DEF ExistsBijection
<1>6. ASSUME f.context = c
      PROVE  Cardinality(after) = Cardinality(before) + 1
  <2>1. 1 \in after
    BY <1>1, <1>6
  <2>2. Cardinality(moved) = Cardinality(after) - 1 /\ Cardinality(after) \in Nat
    BY <1>3, <2>1, FS_RemoveElement, FS_CardinalityType
  <2> HIDE DEF before, moved, after
  <2>3. QED
    BY <1>5, <1>6, <2>2
<1>7. ASSUME f.context # c
      PROVE  Cardinality(after) = Cardinality(before) + 0
  <2>1. 1 \notin after
    BY <1>1, <1>7
  <2>2. moved = after
    BY <2>1
  <2> HIDE DEF before, moved, after
  <2>3. QED
    BY <1>5, <1>7, <2>2
<1>8. QED
  BY <1>6, <1>7 DEF FramesOf

LEMMA PushedUsers ==
  ASSUME NEW old \in [Hosts -> Seq(Frames)], NEW new \in [Hosts -> Seq(Frames)],
         NEW h \in Hosts, NEW f \in Frames,
         new[h] = <<f>> \o old[h],
         \A g \in Hosts : g # h => new[g] = old[g]
  PROVE  Cardinality(Users(new)) =
             Cardinality(Users(old)) + (IF HasProcess(f.context) THEN 1 ELSE 0)
<1> DEFINE before == Users(old)
           after == Users(new)
           moved == after \ {<<h, 1>>}
           Move(p) == IF p[1] = h THEN <<h, p[2] + 1>> ELSE p
           m == [p \in before |-> Move(p)]
<1>1. /\ Len(old[h]) \in Nat /\ DOMAIN old[h] = 1 .. Len(old[h])
      /\ DOMAIN new[h] = 1 .. (Len(old[h]) + 1)
      /\ new[h][1] = f /\ \A i \in 1 .. Len(old[h]) : new[h][i + 1] = old[h][i]
  <2>1. old[h] \in Seq(Frames)
    OBVIOUS
  <2>2. QED
    BY <2>1
<1>2. IsFiniteSet(before) /\ IsFiniteSet(after)
  BY ScopeUsersFinite
<1>3. \A p : p \in before <=>
        \E g \in Hosts : \E i \in DOMAIN old[g] :
            p = <<g, i>> /\ HasProcess(old[g][i].context)
  BY DEF Users
<1>4. \A p : p \in after <=>
        \E g \in Hosts : \E i \in DOMAIN new[g] :
            p = <<g, i>> /\ HasProcess(new[g][i].context)
  BY DEF Users
<1>5. \A i \in 1 .. Len(old[h]) : <<h, i>> \in before <=> <<h, i + 1>> \in after
  BY <1>1, <1>3, <1>4
<1>6. \A g \in Hosts : \A i : g # h => (<<g, i>> \in before <=> <<g, i>> \in after)
  <2>1. ASSUME NEW g \in Hosts, NEW i, g # h, <<g, i>> \in before
        PROVE  <<g, i>> \in after
    <3>1. i \in DOMAIN old[g] /\ HasProcess(old[g][i].context)
      BY <1>3, <2>1
    <3>2. QED
      BY <1>4, <2>1, <3>1
  <2>2. ASSUME NEW g \in Hosts, NEW i, g # h, <<g, i>> \in after
        PROVE  <<g, i>> \in before
    <3>1. i \in DOMAIN new[g] /\ HasProcess(new[g][i].context)
      BY <1>4, <2>2
    <3>2. QED
      BY <1>3, <2>2, <3>1
  <2>3. QED
    BY <2>1, <2>2
<1>7. \A p \in before :
         \E g \in Hosts, i \in Nat : i \in DOMAIN old[g] /\ p = <<g, i>>
  <2>1. \A g \in Hosts : DOMAIN old[g] \subseteq Nat
    OBVIOUS
  <2>2. QED
    BY <1>3, <2>1
<1>8. \A p \in after :
         \E g \in Hosts, i \in Nat : i \in DOMAIN new[g] /\ p = <<g, i>>
  <2>1. \A g \in Hosts : DOMAIN new[g] \subseteq Nat
    OBVIOUS
  <2>2. QED
    BY <1>4, <2>1
<1>9. <<h, 1>> \in after <=> HasProcess(f.context)
  BY <1>1, <1>4
<1> HIDE DEF before, after
<1>10. m \in Bijection(before, moved)
  <2>1. ASSUME NEW p \in before PROVE Move(p) \in moved
    <3>1. PICK g \in Hosts, i \in Nat : i \in DOMAIN old[g] /\ p = <<g, i>>
      BY <1>7
    <3>2. CASE g = h
      <4>1. i \in 1 .. Len(old[h]) /\ Move(p) = <<h, i + 1>> /\ i + 1 # 1
        BY <1>1, <3>1, <3>2
      <4>2. QED
        BY <1>5, <3>1, <3>2, <4>1
    <3>3. CASE g # h
      BY <1>6, <3>1, <3>3
    <3>4. QED
      BY <3>2, <3>3
  <2>2. ASSUME NEW q \in moved PROVE \E p \in before : Move(p) = q
    <3>1. PICK g \in Hosts, i \in Nat : i \in DOMAIN new[g] /\ q = <<g, i>>
      BY <1>8
    <3>2. CASE g = h
      <4>1. i - 1 \in 1 .. Len(old[h]) /\ (i - 1) + 1 = i
        BY <1>1, <3>1, <3>2
      <4>2. <<h, i - 1>> \in before
        BY <1>5, <3>1, <3>2, <4>1
      <4>3. Move(<<h, i - 1>>) = q
        BY <3>1, <3>2, <4>1
      <4>4. QED
        BY <4>2, <4>3
    <3>3. CASE g # h
      <4>1. q \in before /\ Move(q) = q
        BY <1>6, <3>1, <3>3
      <4>2. QED
        BY <4>1
    <3>4. QED
      BY <3>2, <3>3
  <2>3. ASSUME NEW p \in before, NEW q \in before, Move(p) = Move(q) PROVE p = q
    <3>1. PICK g \in Hosts, i \in Nat : i \in DOMAIN old[g] /\ p = <<g, i>>
      BY <1>7
    <3>2. PICK k \in Hosts, j \in Nat : j \in DOMAIN old[k] /\ q = <<k, j>>
      BY <1>7
    <3>3. (g = h => Move(p) = <<h, i + 1>>) /\ (g # h => Move(p) = <<g, i>>)
      BY <3>1
    <3>4. (k = h => Move(q) = <<h, j + 1>>) /\ (k # h => Move(q) = <<k, j>>)
      BY <3>2
    <3>5. CASE g = h /\ k = h
      <4>1. i \in Nat /\ j \in Nat
        BY <1>1, <3>1, <3>2, <3>5
      <4>2. i + 1 = j + 1
        BY <2>3, <3>3, <3>4, <3>5
      <4>3. QED
        BY <3>1, <3>2, <3>5, <4>1, <4>2
    <3>6. CASE ~(g = h /\ k = h)
      BY <2>3, <3>1, <3>2, <3>3, <3>4, <3>6
    <3>7. QED
      BY <3>5, <3>6
  <2> HIDE DEF Move, moved
  <2>4. m \in [before -> moved]
    BY <2>1
  <2>5. \A q \in moved : \E p \in before : m[p] = q
    BY <2>2
  <2>6. \A p, q \in before : m[p] = m[q] => p = q
    BY <2>3
  <2>7. QED
    BY <2>4, <2>5, <2>6 DEF Bijection, Injection, Surjection, IsInjective
<1>11. Cardinality(moved) = Cardinality(before) /\ Cardinality(before) \in Nat
  <2> HIDE DEF m, moved
  <2>1. QED
    BY <1>2, <1>10, FS_Bijection, FS_CardinalityType DEF ExistsBijection
<1>12. CASE HasProcess(f.context)
  <2>1. Cardinality(moved) = Cardinality(after) - 1 /\ Cardinality(after) \in Nat
    BY <1>2, <1>9, <1>12, FS_RemoveElement, FS_CardinalityType
  <2> HIDE DEF moved
  <2>2. QED
    BY <1>11, <1>12, <2>1 DEF before, after
<1>13. CASE ~HasProcess(f.context)
  <2>1. moved = after
    BY <1>9, <1>13
  <2> HIDE DEF moved
  <2>2. QED
    BY <1>11, <1>13, <2>1 DEF before, after
<1>14. QED
  BY <1>12, <1>13

(* A scope is pushed, or popped when the chains are taken the other way    *)
(* round.                                                                  *)
LEMMA PushScope ==
  ASSUME TypeOK, NEW h \in Hosts, NEW f \in Frames, NEW c, f.context = c,
         chain' = [chain EXCEPT ![h] = <<f>> \o chain[h]]
  PROVE  Pushed(h, c)
<1>1. /\ chain \in [Hosts -> Seq(Frames)] /\ chain' \in [Hosts -> Seq(Frames)]
      /\ chain'[h] = <<f>> \o chain[h]
      /\ \A g \in Hosts : g # h => chain'[g] = chain[g]
  BY DEF TypeOK
<1>2. ASSUME NEW g \in Hosts, NEW x \in Contexts
      PROVE  FrameCount(g, x)' =
                 IF g = h /\ x = f.context THEN FrameCount(g, x) + 1 ELSE FrameCount(g, x)
  <2>1. CASE g = h
    <3>1. /\ FrameCount(g, x) = Cardinality(FramesOf(chain[h], x))
          /\ FrameCount(g, x)' = Cardinality(FramesOf(<<f>> \o chain[h], x))
      BY <1>1, <2>1 DEF FrameCount, ActiveFrames, FramesOf
    <3>2. FrameCount(g, x) \in Nat /\ chain[h] \in Seq(Frames)
      BY <1>1, FramesFinite
    <3>3. QED
      BY <2>1, <3>1, <3>2, PushedFrames
  <2>2. CASE g # h
    BY <1>1, <2>2 DEF FrameCount, ActiveFrames
  <2>3. QED
    BY <2>1, <2>2
<1>3. Cardinality(Users(chain')) =
          Cardinality(Users(chain)) + (IF HasProcess(f.context) THEN 1 ELSE 0)
  BY <1>1, PushedUsers
<1>4. ScopeUsers = Users(chain) /\ ScopeUsers' = Users(chain')
  BY DEF ScopeUsers, HoldingFrames, Users
<1>5. QED
  BY <1>1, <1>2, <1>3, <1>4 DEF HasProcess, Pushed

LEMMA PopScope ==
  ASSUME TypeOK, NEW h \in Hosts, chain[h] # <<>>, NEW c, Head(chain[h]).context = c,
         chain' = [chain EXCEPT ![h] = Tail(chain[h])]
  PROVE  Popped(h, c)
<1> DEFINE f == Head(chain[h])
<1>1. chain[h] \in Seq(Frames)
  BY DEF TypeOK
<1>2. /\ f \in Frames /\ Tail(chain[h]) \in Seq(Frames)
      /\ chain[h] = <<f>> \o Tail(chain[h])
  BY <1>1
<1>3. /\ chain \in [Hosts -> Seq(Frames)] /\ chain' \in [Hosts -> Seq(Frames)]
      /\ chain[h] = <<f>> \o chain'[h]
      /\ \A g \in Hosts : g # h => chain'[g] = chain[g]
  BY <1>2 DEF TypeOK
<1> HIDE DEF f
<1>4. \A g \in Hosts, x \in Contexts : FrameCount(g, x)' \in Nat
  <2> SUFFICES ASSUME NEW g \in Hosts, NEW x \in Contexts
               PROVE  FrameCount(g, x)' \in Nat
    OBVIOUS
  <2>1. chain'[g] \in Seq(Frames)
    BY <1>3
  <2>2. Len(chain'[g]) \in Nat /\ DOMAIN chain'[g] = 1 .. Len(chain'[g])
    BY <2>1
  <2>3. IsFiniteSet(1 .. Len(chain'[g]))
    BY <2>2, FS_Interval
  <2>4. ActiveFrames(g, x)' \subseteq 1 .. Len(chain'[g])
    BY <2>2 DEF ActiveFrames
  <2>5. IsFiniteSet(ActiveFrames(g, x)')
    BY <2>3, <2>4, FS_Subset
  <2>6. QED
    BY <2>5, FS_CardinalityType DEF FrameCount
<1>5. ASSUME NEW g \in Hosts, NEW x \in Contexts
      PROVE  FrameCount(g, x) =
                 IF g = h /\ x = f.context THEN FrameCount(g, x)' + 1 ELSE FrameCount(g, x)'
  <2>1. CASE g = h
    <3>1. chain'[h] \in Seq(Frames)
      BY <1>3
    <3>2. /\ FrameCount(g, x)' = Cardinality(FramesOf(chain'[h], x))
          /\ FrameCount(g, x) = Cardinality(FramesOf(<<f>> \o chain'[h], x))
      BY <1>3, <2>1 DEF FrameCount, ActiveFrames, FramesOf
    <3>3. Cardinality(FramesOf(<<f>> \o chain'[h], x)) =
              Cardinality(FramesOf(chain'[h], x)) + (IF f.context = x THEN 1 ELSE 0)
      <4>1. f \in Frames
        BY <1>2
      <4>2. QED
        BY <3>1, <4>1, PushedFrames
    <3>4. FrameCount(g, x)' \in Nat
      BY <1>4
    <3>5. QED
      BY <2>1, <3>2, <3>3, <3>4
  <2>2. CASE g # h
    BY <1>3, <2>2 DEF FrameCount, ActiveFrames
  <2>3. QED
    BY <2>1, <2>2
<1>6. Cardinality(Users(chain)) =
          Cardinality(Users(chain')) + (IF HasProcess(f.context) THEN 1 ELSE 0)
  BY <1>2, <1>3, PushedUsers
<1>7. ScopeUsers = Users(chain) /\ ScopeUsers' = Users(chain')
  BY DEF ScopeUsers, HoldingFrames, Users
<1>8. Cardinality(Users(chain')) \in Nat
  BY <1>3, ScopeUsersFinite, FS_CardinalityType
<1>9. QED
  BY <1>3, <1>4, <1>5, <1>6, <1>7, <1>8 DEF f, HasProcess, Popped

-----------------------------------------------------------------------------
(* A host that finds the token free tries to claim the context. *)
LEMMA EnterStep ==
  ASSUME IndInv, NEW h \in Hosts, NEW c \in Contexts,
         pc[h] = "idle",
         Usable(c),
         pc' = [pc EXCEPT ![h] = "claim"],
         op' = [op EXCEPT ![h] = "enter"],
         ctx' = [ctx EXCEPT ![h] = c],
         tb' = [tb EXCEPT ![h] = None],
         UNCHANGED <<token, scopeCount, owner, teb, lastError, expected,
                      tebThread, mapped, attached, tebError, refs, alive,
                      chain>>
  PROVE  IndInv'
<1> USE DEF IndInv
<1>1. /\ \A g \in Hosts : pc'[g] = IF g = h THEN "claim" ELSE pc[g]
      /\ \A g \in Hosts : op'[g] = IF g = h THEN "enter" ELSE op[g]
      /\ \A g \in Hosts : ctx'[g] = IF g = h THEN c ELSE ctx[g]
      /\ \A g \in Hosts : tb'[g] = IF g = h THEN None ELSE tb[g]
  BY DEF TypeOK
<1>2. \A g \in Hosts, x \in Contexts : FrameCount(g, x)' = FrameCount(g, x)
  BY DEF FrameCount, ActiveFrames
<1>3. \A g \in Hosts, x \in Contexts : FrameCount(g, x) \in Nat
  BY FramesFinite
<1> USE <1>1, Typing, StepKinds, ThreadContextAssumption
<1>4. TypeOK'
  BY OpNames DEF TypeOK
<1>5. CallInv'
  BY DEF CallInv
<1>6. HoldInv'
  BY DEF HoldInv, CallInv
<1>7. QuietInv'
  BY <1>2, <1>3 DEF QuietInv, CallInv, FrameInv
<1>8. FrameInv'
  BY <1>2, <1>3 DEF FrameInv, HoldInv, CallInv, QuietInv
<1>9. NamedInv'
  BY <1>2, <1>3 DEF NamedInv, CallInv, HoldInv
<1>10. LeaseInv'
  BY DEF LeaseInv, CallInv, MayUse, MayDestroy
<1>11. OwnerInv'
  BY DEF OwnerInv, CallInv, LeaseInv, AttachInv, ReserveInv, PagesInv,
      CanAttach, CanDetach
<1>12. AttachInv'
  BY DEF AttachInv, CallInv, LeaseInv, OwnerInv, PagesInv, CanAttach,
      CanDetach
<1>13. ReserveInv'
  BY DEF ReserveInv, CallInv, HoldInv
<1>14. PagesInv'
  BY DEF PagesInv, CallInv, LeaseInv, OwnerInv, UnmapInv, MayDestroy
<1>15. MapInv'
  BY DEF MapInv, CallInv, LeaseInv, OwnerInv, PagesInv, ReserveInv
<1>16. UnmapInv'
  BY DEF UnmapInv, CallInv, LeaseInv, PagesInv
<1>17. CountInv'
  BY <1>2, <1>3 DEF CountInv, CallInv, HoldInv, FrameInv, QuietInv
<1>18. ScopeUsers' = ScopeUsers /\ CallUsers' = CallUsers /\ TebUsers' = TebUsers
  <2>1. ScopeUsers' = ScopeUsers
    BY DEF ScopeUsers, HoldingFrames
  <2>2. CallUsers' = CallUsers
    BY DEF CallUsers, Owing
  <2>3. \A a \in Tebs : Disowned(a)' <=> Disowned(a)
    BY DEF Disowned, CallInv, LeaseInv, PagesInv, OwnerInv, AttachInv
  <2>4. TebUsers' = TebUsers
    BY <2>3 DEF TebUsers
  <2>5. QED
    BY <2>1, <2>2, <2>4
<1>19. ReferencesExact'
  BY <1>18 DEF ReferencesExact
<1>20. AliveInv'
  BY DEF AliveInv, CallInv, Usable, HasProcess
<1>21. LastErrorSurvives'
  BY DEF LastErrorSurvives, CallInv, OwnerInv, AttachInv, PagesInv, LeaseInv,
      CanAttach, CanDetach
<1>22. QED
  BY <1>4, <1>5, <1>6, <1>7, <1>8, <1>9, <1>10, <1>11, <1>12, <1>13, <1>14,
      <1>15, <1>16, <1>17, <1>19, <1>20, <1>21

(* The token is claimed. *)
LEMMA ClaimTokenStep ==
  ASSUME IndInv, NEW h \in Hosts, NEW c \in Contexts,
         pc[h] = "claim",
         ctx[h] = c,
         token[c] = Free,
         token' = [token EXCEPT ![c] = h],
         pc' = [pc EXCEPT ![h] = "claim_count"],
         UNCHANGED <<scopeCount, owner, teb, lastError, expected, tebThread,
                      mapped, attached, tebError, refs, alive, chain, op, ctx,
                      tb>>
  PROVE  IndInv'
<1> USE DEF IndInv
<1>1. /\ \A x \in Contexts : token'[x] = IF x = c THEN h ELSE token[x]
      /\ \A g \in Hosts : pc'[g] = IF g = h THEN "claim_count" ELSE pc[g]
  BY DEF TypeOK
<1>2. \A g \in Hosts, x \in Contexts : FrameCount(g, x)' = FrameCount(g, x)
  BY DEF FrameCount, ActiveFrames
<1>3. \A g \in Hosts, x \in Contexts : FrameCount(g, x) \in Nat
  BY FramesFinite
<1> USE <1>1, Typing, StepKinds, ThreadContextAssumption
<1>4. TypeOK'
  BY OpNames DEF TypeOK
<1>5. CallInv'
  BY DEF CallInv
<1>6. HoldInv'
  BY DEF HoldInv, CallInv
<1>7. QuietInv'
  BY <1>2, <1>3 DEF QuietInv, CallInv, FrameInv
<1>8. FrameInv'
  BY <1>2, <1>3 DEF FrameInv, HoldInv, CallInv, QuietInv
<1>9. NamedInv'
  BY <1>2, <1>3 DEF NamedInv, CallInv, HoldInv
<1>10. LeaseInv'
  BY DEF LeaseInv, CallInv, MayUse, MayDestroy
<1>11. OwnerInv'
  BY DEF OwnerInv, CallInv, LeaseInv, AttachInv, ReserveInv, PagesInv,
      CanAttach, CanDetach
<1>12. AttachInv'
  BY DEF AttachInv, CallInv, LeaseInv, OwnerInv, PagesInv, CanAttach,
      CanDetach
<1>13. ReserveInv'
  BY DEF ReserveInv, CallInv, HoldInv
<1>14. PagesInv'
  BY DEF PagesInv, CallInv, LeaseInv, OwnerInv, UnmapInv, MayDestroy
<1>15. MapInv'
  BY DEF MapInv, CallInv, LeaseInv, OwnerInv, PagesInv, ReserveInv
<1>16. UnmapInv'
  BY DEF UnmapInv, CallInv, LeaseInv, PagesInv
<1>17. CountInv'
  BY <1>2, <1>3 DEF CountInv, CallInv, HoldInv, FrameInv, QuietInv
<1>18. ScopeUsers' = ScopeUsers /\ CallUsers' = CallUsers /\ TebUsers' = TebUsers
  <2>1. ScopeUsers' = ScopeUsers
    BY DEF ScopeUsers, HoldingFrames
  <2>2. CallUsers' = CallUsers
    BY DEF CallUsers, Owing
  <2>3. \A a \in Tebs : Disowned(a)' <=> Disowned(a)
    BY DEF Disowned, CallInv, LeaseInv, PagesInv, OwnerInv, AttachInv
  <2>4. TebUsers' = TebUsers
    BY <2>3 DEF TebUsers
  <2>5. QED
    BY <2>1, <2>2, <2>4
<1>19. ReferencesExact'
  BY <1>18 DEF ReferencesExact
<1>20. AliveInv'
  BY DEF AliveInv, CallInv, Usable, HasProcess
<1>21. LastErrorSurvives'
  BY DEF LastErrorSurvives, CallInv, OwnerInv, AttachInv, PagesInv, LeaseInv,
      CanAttach, CanDetach
<1>22. QED
  BY <1>4, <1>5, <1>6, <1>7, <1>8, <1>9, <1>10, <1>11, <1>12, <1>13, <1>14,
      <1>15, <1>16, <1>17, <1>19, <1>20, <1>21

(* Another host was faster. *)
LEMMA ClaimLostStep ==
  ASSUME IndInv, NEW h \in Hosts, NEW c \in Contexts,
         pc[h] = "claim",
         ctx[h] = c,
         pc' = [pc EXCEPT ![h] = "idle"],
         op' = [op EXCEPT ![h] = "none"],
         ctx' = [ctx EXCEPT ![h] = None],
         tb' = [tb EXCEPT ![h] = None],
         UNCHANGED <<token, scopeCount, owner, teb, lastError, expected,
                      tebThread, mapped, attached, tebError, refs, alive,
                      chain>>
  PROVE  IndInv'
<1> USE DEF IndInv
<1>1. /\ \A g \in Hosts : pc'[g] = IF g = h THEN "idle" ELSE pc[g]
      /\ \A g \in Hosts : op'[g] = IF g = h THEN "none" ELSE op[g]
      /\ \A g \in Hosts : ctx'[g] = IF g = h THEN None ELSE ctx[g]
      /\ \A g \in Hosts : tb'[g] = IF g = h THEN None ELSE tb[g]
  BY DEF TypeOK
<1>2. \A g \in Hosts, x \in Contexts : FrameCount(g, x)' = FrameCount(g, x)
  BY DEF FrameCount, ActiveFrames
<1>3. \A g \in Hosts, x \in Contexts : FrameCount(g, x) \in Nat
  BY FramesFinite
<1> USE <1>1, Typing, StepKinds, ThreadContextAssumption
<1>4. TypeOK'
  BY OpNames DEF TypeOK
<1>5. CallInv'
  BY DEF CallInv
<1>6. HoldInv'
  BY DEF HoldInv, CallInv
<1>7. QuietInv'
  BY <1>2, <1>3 DEF QuietInv, CallInv, FrameInv
<1>8. FrameInv'
  BY <1>2, <1>3 DEF FrameInv, HoldInv, CallInv, QuietInv
<1>9. NamedInv'
  BY <1>2, <1>3 DEF NamedInv, CallInv, HoldInv
<1>10. LeaseInv'
  BY DEF LeaseInv, CallInv, MayUse, MayDestroy
<1>11. OwnerInv'
  BY DEF OwnerInv, CallInv, LeaseInv, AttachInv, ReserveInv, PagesInv,
      CanAttach, CanDetach
<1>12. AttachInv'
  BY DEF AttachInv, CallInv, LeaseInv, OwnerInv, PagesInv, CanAttach,
      CanDetach
<1>13. ReserveInv'
  BY DEF ReserveInv, CallInv, HoldInv
<1>14. PagesInv'
  BY DEF PagesInv, CallInv, LeaseInv, OwnerInv, UnmapInv, MayDestroy
<1>15. MapInv'
  BY DEF MapInv, CallInv, LeaseInv, OwnerInv, PagesInv, ReserveInv
<1>16. UnmapInv'
  BY DEF UnmapInv, CallInv, LeaseInv, PagesInv
<1>17. CountInv'
  BY <1>2, <1>3 DEF CountInv, CallInv, HoldInv, FrameInv, QuietInv
<1>18. ScopeUsers' = ScopeUsers /\ CallUsers' = CallUsers /\ TebUsers' = TebUsers
  <2>1. ScopeUsers' = ScopeUsers
    BY DEF ScopeUsers, HoldingFrames
  <2>2. CallUsers' = CallUsers
    BY DEF CallUsers, Owing
  <2>3. \A a \in Tebs : Disowned(a)' <=> Disowned(a)
    BY DEF Disowned, CallInv, LeaseInv, PagesInv, OwnerInv, AttachInv
  <2>4. TebUsers' = TebUsers
    BY <2>3 DEF TebUsers
  <2>5. QED
    BY <2>1, <2>2, <2>4
<1>19. ReferencesExact'
  BY <1>18 DEF ReferencesExact
<1>20. AliveInv'
  BY DEF AliveInv, CallInv, Usable, HasProcess
<1>21. LastErrorSurvives'
  BY DEF LastErrorSurvives, CallInv, OwnerInv, AttachInv, PagesInv, LeaseInv,
      CanAttach, CanDetach
<1>22. QED
  BY <1>4, <1>5, <1>6, <1>7, <1>8, <1>9, <1>10, <1>11, <1>12, <1>13, <1>14,
      <1>15, <1>16, <1>17, <1>19, <1>20, <1>21

(* The first scope of the context is counted. *)
LEMMA ClaimCountStep ==
  ASSUME IndInv, NEW h \in Hosts, NEW c \in Contexts,
         pc[h] = "claim_count",
         ctx[h] = c,
         scopeCount' = [scopeCount EXCEPT ![c] = 1],
         pc' = [pc EXCEPT ![h] = "retain"],
         UNCHANGED <<token, owner, teb, lastError, expected, tebThread,
                      mapped, attached, tebError, refs, alive, chain, op, ctx,
                      tb>>
  PROVE  IndInv'
<1> USE DEF IndInv
<1>1. /\ \A x \in Contexts :
            scopeCount'[x] = IF x = c THEN 1
                             ELSE scopeCount[x]
      /\ \A g \in Hosts : pc'[g] = IF g = h THEN "retain" ELSE pc[g]
  BY DEF TypeOK
<1>2. \A g \in Hosts, x \in Contexts : FrameCount(g, x)' = FrameCount(g, x)
  BY DEF FrameCount, ActiveFrames
<1>3. \A g \in Hosts, x \in Contexts : FrameCount(g, x) \in Nat
  BY FramesFinite
<1>4. token[c] = h /\ \A g \in Hosts : g # h /\ pc[g] \notin Loose => ctx[g] # c
  BY StepKinds DEF HoldInv, CallInv
<1> USE <1>1, <1>4, Typing, StepKinds, ThreadContextAssumption
<1>5. TypeOK'
  BY OpNames DEF TypeOK
<1>6. CallInv'
  BY DEF CallInv
<1>7. HoldInv'
  BY DEF HoldInv, CallInv
<1>8. QuietInv'
  BY <1>2, <1>3 DEF QuietInv, CallInv, FrameInv
<1>9. FrameInv'
  BY <1>2, <1>3 DEF FrameInv, HoldInv, CallInv, QuietInv
<1>10. NamedInv'
  BY <1>2, <1>3 DEF NamedInv, CallInv, HoldInv
<1>11. LeaseInv'
  BY DEF LeaseInv, CallInv, MayUse, MayDestroy
<1>12. OwnerInv'
  BY DEF OwnerInv, CallInv, LeaseInv, AttachInv, ReserveInv, PagesInv,
      CanAttach, CanDetach
<1>13. AttachInv'
  BY DEF AttachInv, CallInv, LeaseInv, OwnerInv, PagesInv, CanAttach,
      CanDetach
<1>14. ReserveInv'
  BY DEF ReserveInv, CallInv, HoldInv
<1>15. PagesInv'
  BY DEF PagesInv, CallInv, LeaseInv, OwnerInv, UnmapInv, MayDestroy
<1>16. MapInv'
  BY DEF MapInv, CallInv, LeaseInv, OwnerInv, PagesInv, ReserveInv
<1>17. UnmapInv'
  BY DEF UnmapInv, CallInv, LeaseInv, PagesInv
<1>18. CountInv'
  BY <1>2, <1>3 DEF CountInv, CallInv, HoldInv, FrameInv, QuietInv
<1>19. ScopeUsers' = ScopeUsers /\ CallUsers' = CallUsers /\ TebUsers' = TebUsers
  <2>1. ScopeUsers' = ScopeUsers
    BY DEF ScopeUsers, HoldingFrames
  <2>2. CallUsers' = CallUsers
    BY DEF CallUsers, Owing
  <2>3. \A a \in Tebs : Disowned(a)' <=> Disowned(a)
    BY DEF Disowned, CallInv, LeaseInv, PagesInv, OwnerInv, AttachInv
  <2>4. TebUsers' = TebUsers
    BY <2>3 DEF TebUsers
  <2>5. QED
    BY <2>1, <2>2, <2>4
<1>20. ReferencesExact'
  BY <1>19 DEF ReferencesExact
<1>21. AliveInv'
  BY DEF AliveInv, CallInv, Usable, HasProcess
<1>22. LastErrorSurvives'
  BY DEF LastErrorSurvives, CallInv, OwnerInv, AttachInv, PagesInv, LeaseInv,
      CanAttach, CanDetach
<1>23. QED
  BY <1>5, <1>6, <1>7, <1>8, <1>9, <1>10, <1>11, <1>12, <1>13, <1>14, <1>15,
      <1>16, <1>17, <1>18, <1>20, <1>21, <1>22

(* The host enters a context it has already. *)
LEMMA EnterNestedStep ==
  ASSUME IndInv, NEW h \in Hosts, NEW c \in Contexts,
         pc[h] = "idle",
         Usable(c),
         token[c] = h,
         scopeCount[c] < MaxScopeCount,
         scopeCount' = [scopeCount EXCEPT ![c] = scopeCount[c] + 1],
         pc' = [pc EXCEPT ![h] = "retain"],
         op' = [op EXCEPT ![h] = "enter"],
         ctx' = [ctx EXCEPT ![h] = c],
         tb' = [tb EXCEPT ![h] = None],
         UNCHANGED <<token, owner, teb, lastError, expected, tebThread,
                      mapped, attached, tebError, refs, alive, chain>>
  PROVE  IndInv'
<1> USE DEF IndInv
<1>1. /\ \A x \in Contexts :
            scopeCount'[x] = IF x = c THEN scopeCount[c] + 1
                             ELSE scopeCount[x]
      /\ \A g \in Hosts : pc'[g] = IF g = h THEN "retain" ELSE pc[g]
      /\ \A g \in Hosts : op'[g] = IF g = h THEN "enter" ELSE op[g]
      /\ \A g \in Hosts : ctx'[g] = IF g = h THEN c ELSE ctx[g]
      /\ \A g \in Hosts : tb'[g] = IF g = h THEN None ELSE tb[g]
  BY DEF TypeOK
<1>2. \A g \in Hosts, x \in Contexts : FrameCount(g, x)' = FrameCount(g, x)
  BY DEF FrameCount, ActiveFrames
<1>3. \A g \in Hosts, x \in Contexts : FrameCount(g, x) \in Nat
  BY FramesFinite
<1> USE <1>1, Typing, StepKinds, ThreadContextAssumption
<1>4. TypeOK'
  BY OpNames DEF TypeOK
<1>5. CallInv'
  BY DEF CallInv
<1>6. HoldInv'
  BY DEF HoldInv, CallInv
<1>7. QuietInv'
  BY <1>2, <1>3 DEF QuietInv, CallInv, FrameInv
<1>8. FrameInv'
  BY <1>2, <1>3 DEF FrameInv, HoldInv, CallInv, QuietInv
<1>9. NamedInv'
  BY <1>2, <1>3 DEF NamedInv, CallInv, HoldInv
<1>10. LeaseInv'
  BY DEF LeaseInv, CallInv, MayUse, MayDestroy
<1>11. OwnerInv'
  BY DEF OwnerInv, CallInv, LeaseInv, AttachInv, ReserveInv, PagesInv,
      CanAttach, CanDetach
<1>12. AttachInv'
  BY DEF AttachInv, CallInv, LeaseInv, OwnerInv, PagesInv, CanAttach,
      CanDetach
<1>13. ReserveInv'
  BY DEF ReserveInv, CallInv, HoldInv
<1>14. PagesInv'
  BY DEF PagesInv, CallInv, LeaseInv, OwnerInv, UnmapInv, MayDestroy
<1>15. MapInv'
  BY DEF MapInv, CallInv, LeaseInv, OwnerInv, PagesInv, ReserveInv
<1>16. UnmapInv'
  BY DEF UnmapInv, CallInv, LeaseInv, PagesInv
<1>17. CountInv'
  BY <1>2, <1>3 DEF CountInv, CallInv, HoldInv, FrameInv, QuietInv
<1>18. ScopeUsers' = ScopeUsers /\ CallUsers' = CallUsers /\ TebUsers' = TebUsers
  <2>1. ScopeUsers' = ScopeUsers
    BY DEF ScopeUsers, HoldingFrames
  <2>2. CallUsers' = CallUsers
    BY DEF CallUsers, Owing
  <2>3. \A a \in Tebs : Disowned(a)' <=> Disowned(a)
    BY DEF Disowned, CallInv, LeaseInv, PagesInv, OwnerInv, AttachInv
  <2>4. TebUsers' = TebUsers
    BY <2>3 DEF TebUsers
  <2>5. QED
    BY <2>1, <2>2, <2>4
<1>19. ReferencesExact'
  BY <1>18 DEF ReferencesExact
<1>20. AliveInv'
  BY DEF AliveInv, CallInv, Usable, HasProcess
<1>21. LastErrorSurvives'
  BY DEF LastErrorSurvives, CallInv, OwnerInv, AttachInv, PagesInv, LeaseInv,
      CanAttach, CanDetach
<1>22. QED
  BY <1>4, <1>5, <1>6, <1>7, <1>8, <1>9, <1>10, <1>11, <1>12, <1>13, <1>14,
      <1>15, <1>16, <1>17, <1>19, <1>20, <1>21

(* The process is retained and the scope pushed. *)
LEMMA EnterRetainStep ==
  ASSUME IndInv, NEW h \in Hosts, NEW c \in Contexts,
         pc[h] = "retain",
         ctx[h] = c,
         c \notin Detached,
         refs < MaxReferences,
         refs' = refs + 1,
         Pushed(h, c),
         pc' = [pc EXCEPT ![h] = "idle"],
         op' = [op EXCEPT ![h] = "none"],
         ctx' = [ctx EXCEPT ![h] = None],
         tb' = [tb EXCEPT ![h] = None],
         UNCHANGED <<token, scopeCount, owner, teb, lastError, expected,
                      tebThread, mapped, attached, tebError, alive>>
  PROVE  IndInv'
<1> USE DEF IndInv
<1>1. /\ \A g \in Hosts : pc'[g] = IF g = h THEN "idle" ELSE pc[g]
      /\ \A g \in Hosts : op'[g] = IF g = h THEN "none" ELSE op[g]
      /\ \A g \in Hosts : ctx'[g] = IF g = h THEN None ELSE ctx[g]
      /\ \A g \in Hosts : tb'[g] = IF g = h THEN None ELSE tb[g]
  BY DEF TypeOK
<1>2. \A g \in Hosts, x \in Contexts :
         FrameCount(g, x)' = IF g = h /\ x = c THEN FrameCount(g, x) + 1 ELSE FrameCount(g, x)
  BY DEF Pushed
<1>3. chain' \in [Hosts -> Seq(Frames)]
  BY DEF Pushed
<1>4. \A g \in Hosts, x \in Contexts : FrameCount(g, x) \in Nat
  BY FramesFinite
<1>5. token[c] = h /\ \A g \in Hosts : g # h /\ pc[g] \notin Loose => ctx[g] # c
  BY StepKinds DEF HoldInv, CallInv
<1> USE <1>1, <1>3, <1>5, Typing, StepKinds, ThreadContextAssumption
<1>6. TypeOK'
  <2>1. refs' \in 0 .. MaxReferences
    OBVIOUS
  <2>2. /\ pc' \in [Hosts -> Steps] /\ op' \in [Hosts -> Ops]
        /\ ctx' \in [Hosts -> Contexts \cup {None}]
        /\ tb' \in [Hosts -> Tebs \cup {None}]
    BY OpNames DEF TypeOK
  <2>3. QED
    BY <2>1, <2>2 DEF TypeOK
<1>7. CallInv'
  BY DEF CallInv
<1>8. HoldInv'
  BY DEF HoldInv, CallInv
<1>9. QuietInv'
  BY <1>2, <1>4 DEF QuietInv, CallInv, FrameInv
<1>10. FrameInv'
  BY <1>2, <1>4 DEF FrameInv, HoldInv, CallInv, QuietInv
<1>11. NamedInv'
  BY <1>2, <1>4 DEF NamedInv, CallInv, HoldInv
<1>12. LeaseInv'
  BY DEF LeaseInv, CallInv, MayUse, MayDestroy
<1>13. OwnerInv'
  BY DEF OwnerInv, CallInv, LeaseInv, AttachInv, ReserveInv, PagesInv,
      CanAttach, CanDetach
<1>14. AttachInv'
  BY DEF AttachInv, CallInv, LeaseInv, OwnerInv, PagesInv, CanAttach,
      CanDetach
<1>15. ReserveInv'
  BY DEF ReserveInv, CallInv, HoldInv
<1>16. PagesInv'
  BY DEF PagesInv, CallInv, LeaseInv, OwnerInv, UnmapInv, MayDestroy
<1>17. MapInv'
  <2> SUFFICES ASSUME NEW a \in Tebs, mapped[a]
               PROVE  /\ tebThread[a] # None
                      /\ \/ owner[tebThread[a]] = a
                         \/ \E g \in Hosts : tb'[g] = a /\ pc'[g] \in Lending
    BY DEF MapInv
  <2>1. tebThread[a] # None
    BY DEF MapInv
  <2>2. ASSUME NEW g \in Hosts, tb[g] = a, pc[g] \in Lending
        PROVE  tb'[g] = a /\ pc'[g] \in Lending
    <3>1. g # h
      BY <2>2
    <3>2. QED
      BY <2>2, <3>1
  <2>3. QED
    BY <2>1, <2>2 DEF MapInv
<1>18. UnmapInv'
  <2> SUFFICES ASSUME NEW a \in Tebs, tebThread[a] # None, ~mapped[a]
               PROVE  \E g \in Hosts : tb'[g] = a /\ op'[g] = "destroy"
    BY DEF UnmapInv
  <2>1. PICK g \in Hosts : tb[g] = a /\ op[g] = "destroy"
    BY DEF UnmapInv
  <2>2. g # h
    BY <2>1 DEF CallInv
  <2>3. QED
    BY <2>1, <2>2
<1>19. CountInv'
  <2> SUFFICES ASSUME NEW x \in Contexts
               PROVE  /\ token[x] = Free => scopeCount[x] = 0
                      /\ \A g \in Hosts :
                            token[x] = g =>
                                scopeCount[x] = FrameCount(g, x)' +
                                    (IF ctx'[g] = x /\ pc'[g] \in Claiming THEN 1 ELSE 0)
    BY DEF CountInv
  <2>1. token[x] = Free => scopeCount[x] = 0
    BY DEF CountInv
  <2>2. ASSUME NEW g \in Hosts, token[x] = g
        PROVE  scopeCount[x] = FrameCount(g, x)' +
                   (IF ctx'[g] = x /\ pc'[g] \in Claiming THEN 1 ELSE 0)
    <3>1. CASE g = h /\ x = c
      <4>1. scopeCount[c] = FrameCount(h, c) + 1
        BY <2>2, <3>1 DEF CountInv, CallInv
      <4>2. scopeCount[c] = FrameCount(h, c)' + 0
        BY <1>2, <1>4, <4>1
      <4>3. QED
        BY <3>1, <4>2
    <3>2. CASE ~(g = h /\ x = c)
      <4>1. FrameCount(g, x)' = FrameCount(g, x)
        BY <1>2, <1>4, <3>2
      <4>2. ctx'[g] = x /\ pc'[g] \in Claiming <=> ctx[g] = x /\ pc[g] \in Claiming
        BY <3>2 DEF CallInv
      <4>3. scopeCount[x] = FrameCount(g, x) +
                (IF ctx[g] = x /\ pc[g] \in Claiming THEN 1 ELSE 0)
        BY <2>2 DEF CountInv
      <4>4. QED
        BY <4>1, <4>2, <4>3
    <3>3. QED
      BY <3>1, <3>2
  <2>3. QED
    BY <2>1, <2>2
<1>20. /\ CallUsers' = CallUsers
      /\ TebUsers' = TebUsers
  <2>2. CallUsers' = CallUsers
    BY DEF CallUsers, Owing
  <2>3. \A a \in Tebs : Disowned(a)' <=> Disowned(a)
    BY DEF Disowned, CallInv, LeaseInv, PagesInv, OwnerInv, AttachInv
  <2>4. TebUsers' = TebUsers
    BY <2>3 DEF TebUsers
  <2>6. QED
    BY <2>2, <2>4
<1>21. ReferencesExact'
  <2>1. QED
    BY <1>20, UsersFinite DEF ReferencesExact, Pushed, Popped
<1>22. AliveInv'
  BY DEF AliveInv, CallInv, Usable, HasProcess
<1>23. LastErrorSurvives'
  BY DEF LastErrorSurvives, CallInv, OwnerInv, AttachInv, PagesInv, LeaseInv,
      CanAttach, CanDetach
<1>24. QED
  BY <1>6, <1>7, <1>8, <1>9, <1>10, <1>11, <1>12, <1>13, <1>14, <1>15, <1>16,
      <1>17, <1>18, <1>19, <1>21, <1>22, <1>23

(* A context without a process: the scope is pushed. *)
LEMMA EnterDetachedStep ==
  ASSUME IndInv, NEW h \in Hosts, NEW c \in Contexts,
         pc[h] = "retain",
         ctx[h] = c,
         c \in Detached,
         Pushed(h, c),
         pc' = [pc EXCEPT ![h] = "idle"],
         op' = [op EXCEPT ![h] = "none"],
         ctx' = [ctx EXCEPT ![h] = None],
         tb' = [tb EXCEPT ![h] = None],
         UNCHANGED <<token, scopeCount, owner, teb, lastError, expected,
                      tebThread, mapped, attached, tebError, refs, alive>>
  PROVE  IndInv'
<1> USE DEF IndInv
<1>1. /\ \A g \in Hosts : pc'[g] = IF g = h THEN "idle" ELSE pc[g]
      /\ \A g \in Hosts : op'[g] = IF g = h THEN "none" ELSE op[g]
      /\ \A g \in Hosts : ctx'[g] = IF g = h THEN None ELSE ctx[g]
      /\ \A g \in Hosts : tb'[g] = IF g = h THEN None ELSE tb[g]
  BY DEF TypeOK
<1>2. \A g \in Hosts, x \in Contexts :
         FrameCount(g, x)' = IF g = h /\ x = c THEN FrameCount(g, x) + 1 ELSE FrameCount(g, x)
  BY DEF Pushed
<1>3. chain' \in [Hosts -> Seq(Frames)]
  BY DEF Pushed
<1>4. \A g \in Hosts, x \in Contexts : FrameCount(g, x) \in Nat
  BY FramesFinite
<1>5. token[c] = h /\ \A g \in Hosts : g # h /\ pc[g] \notin Loose => ctx[g] # c
  BY StepKinds DEF HoldInv, CallInv
<1> USE <1>1, <1>3, <1>5, Typing, StepKinds, ThreadContextAssumption
<1>6. TypeOK'
  BY OpNames DEF TypeOK
<1>7. CallInv'
  BY DEF CallInv
<1>8. HoldInv'
  BY DEF HoldInv, CallInv
<1>9. QuietInv'
  BY <1>2, <1>4 DEF QuietInv, CallInv, FrameInv
<1>10. FrameInv'
  BY <1>2, <1>4 DEF FrameInv, HoldInv, CallInv, QuietInv
<1>11. NamedInv'
  BY <1>2, <1>4 DEF NamedInv, CallInv, HoldInv
<1>12. LeaseInv'
  BY DEF LeaseInv, CallInv, MayUse, MayDestroy
<1>13. OwnerInv'
  BY DEF OwnerInv, CallInv, LeaseInv, AttachInv, ReserveInv, PagesInv,
      CanAttach, CanDetach
<1>14. AttachInv'
  BY DEF AttachInv, CallInv, LeaseInv, OwnerInv, PagesInv, CanAttach,
      CanDetach
<1>15. ReserveInv'
  BY DEF ReserveInv, CallInv, HoldInv
<1>16. PagesInv'
  BY DEF PagesInv, CallInv, LeaseInv, OwnerInv, UnmapInv, MayDestroy
<1>17. MapInv'
  BY DEF MapInv, CallInv, LeaseInv, OwnerInv, PagesInv, ReserveInv
<1>18. UnmapInv'
  BY DEF UnmapInv, CallInv, LeaseInv, PagesInv
<1>19. CountInv'
  <2> SUFFICES ASSUME NEW x \in Contexts
               PROVE  /\ token[x] = Free => scopeCount[x] = 0
                      /\ \A g \in Hosts :
                            token[x] = g =>
                                scopeCount[x] = FrameCount(g, x)' +
                                    (IF ctx'[g] = x /\ pc'[g] \in Claiming THEN 1 ELSE 0)
    BY DEF CountInv
  <2>1. token[x] = Free => scopeCount[x] = 0
    BY DEF CountInv
  <2>2. ASSUME NEW g \in Hosts, token[x] = g
        PROVE  scopeCount[x] = FrameCount(g, x)' +
                   (IF ctx'[g] = x /\ pc'[g] \in Claiming THEN 1 ELSE 0)
    <3>1. CASE g = h /\ x = c
      <4>1. scopeCount[c] = FrameCount(h, c) + 1
        BY <2>2, <3>1 DEF CountInv, CallInv
      <4>2. scopeCount[c] = FrameCount(h, c)' + 0
        BY <1>2, <1>4, <4>1
      <4>3. QED
        BY <3>1, <4>2
    <3>2. CASE ~(g = h /\ x = c)
      <4>1. FrameCount(g, x)' = FrameCount(g, x)
        BY <1>2, <1>4, <3>2
      <4>2. ctx'[g] = x /\ pc'[g] \in Claiming <=> ctx[g] = x /\ pc[g] \in Claiming
        BY <3>2 DEF CallInv
      <4>3. scopeCount[x] = FrameCount(g, x) +
                (IF ctx[g] = x /\ pc[g] \in Claiming THEN 1 ELSE 0)
        BY <2>2 DEF CountInv
      <4>4. QED
        BY <4>1, <4>2, <4>3
    <3>3. QED
      BY <3>1, <3>2
  <2>3. QED
    BY <2>1, <2>2
<1>20. /\ CallUsers' = CallUsers
      /\ TebUsers' = TebUsers
  <2>2. CallUsers' = CallUsers
    BY DEF CallUsers, Owing
  <2>3. \A a \in Tebs : Disowned(a)' <=> Disowned(a)
    BY DEF Disowned, CallInv, LeaseInv, PagesInv, OwnerInv, AttachInv
  <2>4. TebUsers' = TebUsers
    BY <2>3 DEF TebUsers
  <2>6. QED
    BY <2>2, <2>4
<1>21. ReferencesExact'
  <2>1. QED
    BY <1>20, UsersFinite DEF ReferencesExact, Pushed, Popped
<1>22. AliveInv'
  BY DEF AliveInv, CallInv, Usable, HasProcess
<1>23. LastErrorSurvives'
  BY DEF LastErrorSurvives, CallInv, OwnerInv, AttachInv, PagesInv, LeaseInv,
      CanAttach, CanDetach
<1>24. QED
  BY <1>6, <1>7, <1>8, <1>9, <1>10, <1>11, <1>12, <1>13, <1>14, <1>15, <1>16,
      <1>17, <1>18, <1>19, <1>21, <1>22, <1>23

(* The process cannot be retained once more. *)
LEMMA EnterRefusedStep ==
  ASSUME IndInv, NEW h \in Hosts, NEW c \in Contexts,
         pc[h] = "retain",
         ctx[h] = c,
         pc' = [pc EXCEPT ![h] = "drop_scope"],
         UNCHANGED <<token, scopeCount, owner, teb, lastError, expected,
                      tebThread, mapped, attached, tebError, refs, alive,
                      chain, op, ctx, tb>>
  PROVE  IndInv'
<1> USE DEF IndInv
<1>1. /\ \A g \in Hosts : pc'[g] = IF g = h THEN "drop_scope" ELSE pc[g]
  BY DEF TypeOK
<1>2. \A g \in Hosts, x \in Contexts : FrameCount(g, x)' = FrameCount(g, x)
  BY DEF FrameCount, ActiveFrames
<1>3. \A g \in Hosts, x \in Contexts : FrameCount(g, x) \in Nat
  BY FramesFinite
<1>4. token[c] = h /\ \A g \in Hosts : g # h /\ pc[g] \notin Loose => ctx[g] # c
  BY StepKinds DEF HoldInv, CallInv
<1> USE <1>1, <1>4, Typing, StepKinds, ThreadContextAssumption
<1>5. TypeOK'
  BY OpNames DEF TypeOK
<1>6. CallInv'
  BY DEF CallInv
<1>7. HoldInv'
  BY DEF HoldInv, CallInv
<1>8. QuietInv'
  BY <1>2, <1>3 DEF QuietInv, CallInv, FrameInv
<1>9. FrameInv'
  BY <1>2, <1>3 DEF FrameInv, HoldInv, CallInv, QuietInv
<1>10. NamedInv'
  BY <1>2, <1>3 DEF NamedInv, CallInv, HoldInv
<1>11. LeaseInv'
  BY DEF LeaseInv, CallInv, MayUse, MayDestroy
<1>12. OwnerInv'
  BY DEF OwnerInv, CallInv, LeaseInv, AttachInv, ReserveInv, PagesInv,
      CanAttach, CanDetach
<1>13. AttachInv'
  BY DEF AttachInv, CallInv, LeaseInv, OwnerInv, PagesInv, CanAttach,
      CanDetach
<1>14. ReserveInv'
  BY DEF ReserveInv, CallInv, HoldInv
<1>15. PagesInv'
  BY DEF PagesInv, CallInv, LeaseInv, OwnerInv, UnmapInv, MayDestroy
<1>16. MapInv'
  BY DEF MapInv, CallInv, LeaseInv, OwnerInv, PagesInv, ReserveInv
<1>17. UnmapInv'
  BY DEF UnmapInv, CallInv, LeaseInv, PagesInv
<1>18. CountInv'
  BY <1>2, <1>3 DEF CountInv, CallInv, HoldInv, FrameInv, QuietInv
<1>19. ScopeUsers' = ScopeUsers /\ CallUsers' = CallUsers /\ TebUsers' = TebUsers
  <2>1. ScopeUsers' = ScopeUsers
    BY DEF ScopeUsers, HoldingFrames
  <2>2. CallUsers' = CallUsers
    BY DEF CallUsers, Owing
  <2>3. \A a \in Tebs : Disowned(a)' <=> Disowned(a)
    BY DEF Disowned, CallInv, LeaseInv, PagesInv, OwnerInv, AttachInv
  <2>4. TebUsers' = TebUsers
    BY <2>3 DEF TebUsers
  <2>5. QED
    BY <2>1, <2>2, <2>4
<1>20. ReferencesExact'
  BY <1>19 DEF ReferencesExact
<1>21. AliveInv'
  BY DEF AliveInv, CallInv, Usable, HasProcess
<1>22. LastErrorSurvives'
  BY DEF LastErrorSurvives, CallInv, OwnerInv, AttachInv, PagesInv, LeaseInv,
      CanAttach, CanDetach
<1>23. QED
  BY <1>5, <1>6, <1>7, <1>8, <1>9, <1>10, <1>11, <1>12, <1>13, <1>14, <1>15,
      <1>16, <1>17, <1>18, <1>20, <1>21, <1>22

(* A scope of a context of the process is popped. *)
LEMMA LeaveAttachedStep ==
  ASSUME IndInv, NEW h \in Hosts, NEW c \in Contexts,
         pc[h] = "idle",
         c \notin Detached,
         token[c] = h,
         Popped(h, c),
         pc' = [pc EXCEPT ![h] = "leave_process"],
         op' = [op EXCEPT ![h] = "leave"],
         ctx' = [ctx EXCEPT ![h] = c],
         tb' = [tb EXCEPT ![h] = None],
         UNCHANGED <<token, scopeCount, owner, teb, lastError, expected,
                      tebThread, mapped, attached, tebError, refs, alive>>
  PROVE  IndInv'
<1> USE DEF IndInv
<1>1. /\ \A g \in Hosts : pc'[g] = IF g = h THEN "leave_process" ELSE pc[g]
      /\ \A g \in Hosts : op'[g] = IF g = h THEN "leave" ELSE op[g]
      /\ \A g \in Hosts : ctx'[g] = IF g = h THEN c ELSE ctx[g]
      /\ \A g \in Hosts : tb'[g] = IF g = h THEN None ELSE tb[g]
  BY DEF TypeOK
<1>2. \A g \in Hosts, x \in Contexts :
         /\ FrameCount(g, x)' \in Nat
         /\ g = h /\ x = c => FrameCount(g, x) = FrameCount(g, x)' + 1
         /\ ~(g = h /\ x = c) => FrameCount(g, x)' = FrameCount(g, x)
  BY DEF Popped
<1>3. chain' \in [Hosts -> Seq(Frames)]
  BY DEF Popped
<1>4. \A g \in Hosts, x \in Contexts : FrameCount(g, x) \in Nat
  BY FramesFinite
<1> USE <1>1, <1>3, Typing, StepKinds, ThreadContextAssumption
<1>5. TypeOK'
  BY OpNames DEF TypeOK
<1>6. CallInv'
  BY DEF CallInv
<1>7. HoldInv'
  BY DEF HoldInv, CallInv
<1>8. QuietInv'
  BY <1>2, <1>4 DEF QuietInv, CallInv, FrameInv
<1>9. FrameInv'
  BY <1>2, <1>4 DEF FrameInv, HoldInv, CallInv, QuietInv
<1>10. NamedInv'
  BY <1>2, <1>4 DEF NamedInv, CallInv, HoldInv
<1>11. LeaseInv'
  BY DEF LeaseInv, CallInv, MayUse, MayDestroy
<1>12. OwnerInv'
  BY DEF OwnerInv, CallInv, LeaseInv, AttachInv, ReserveInv, PagesInv,
      CanAttach, CanDetach
<1>13. AttachInv'
  BY DEF AttachInv, CallInv, LeaseInv, OwnerInv, PagesInv, CanAttach,
      CanDetach
<1>14. ReserveInv'
  BY DEF ReserveInv, CallInv, HoldInv
<1>15. PagesInv'
  BY DEF PagesInv, CallInv, LeaseInv, OwnerInv, UnmapInv, MayDestroy
<1>16. MapInv'
  BY DEF MapInv, CallInv, LeaseInv, OwnerInv, PagesInv, ReserveInv
<1>17. UnmapInv'
  BY DEF UnmapInv, CallInv, LeaseInv, PagesInv
<1>18. CountInv'
  <2> SUFFICES ASSUME NEW x \in Contexts
               PROVE  /\ token[x] = Free => scopeCount[x] = 0
                      /\ \A g \in Hosts :
                            token[x] = g =>
                                scopeCount[x] = FrameCount(g, x)' +
                                    (IF ctx'[g] = x /\ pc'[g] \in Claiming THEN 1 ELSE 0)
    BY DEF CountInv
  <2>1. token[x] = Free => scopeCount[x] = 0
    BY DEF CountInv
  <2>2. ASSUME NEW g \in Hosts, token[x] = g
        PROVE  scopeCount[x] = FrameCount(g, x)' +
                   (IF ctx'[g] = x /\ pc'[g] \in Claiming THEN 1 ELSE 0)
    <3>1. CASE g = h /\ x = c
      <4>1. scopeCount[c] = FrameCount(h, c) + 0
        BY <2>2, <3>1 DEF CountInv, CallInv
      <4>2. scopeCount[c] = FrameCount(h, c)' + 1
        BY <1>2, <1>4, <4>1
      <4>3. QED
        BY <3>1, <4>2
    <3>2. CASE ~(g = h /\ x = c)
      <4>1. FrameCount(g, x)' = FrameCount(g, x)
        BY <1>2, <1>4, <3>2
      <4>2. ctx'[g] = x /\ pc'[g] \in Claiming <=> ctx[g] = x /\ pc[g] \in Claiming
        BY <3>2 DEF CallInv
      <4>3. scopeCount[x] = FrameCount(g, x) +
                (IF ctx[g] = x /\ pc[g] \in Claiming THEN 1 ELSE 0)
        BY <2>2 DEF CountInv
      <4>4. QED
        BY <4>1, <4>2, <4>3
    <3>3. QED
      BY <3>1, <3>2
  <2>3. QED
    BY <2>1, <2>2
<1>19. /\ CallUsers' = CallUsers \cup {h} /\ h \notin CallUsers
      /\ TebUsers' = TebUsers
  <2>2. CallUsers' = CallUsers \cup {h} /\ h \notin CallUsers
    BY DEF CallUsers, Owing
  <2>3. \A a \in Tebs : Disowned(a)' <=> Disowned(a)
    BY DEF Disowned, CallInv, LeaseInv, PagesInv, OwnerInv, AttachInv
  <2>4. TebUsers' = TebUsers
    BY <2>3 DEF TebUsers
  <2>6. QED
    BY <2>2, <2>4
<1>20. ReferencesExact'
  <2>1. Cardinality(CallUsers') = Cardinality(CallUsers) + 1
    BY <1>19, UsersFinite, FS_AddElement
  <2>2. QED
    BY <1>19, <2>1, UsersFinite DEF ReferencesExact, Pushed, Popped
<1>21. AliveInv'
  BY DEF AliveInv, CallInv, Usable, HasProcess
<1>22. LastErrorSurvives'
  BY DEF LastErrorSurvives, CallInv, OwnerInv, AttachInv, PagesInv, LeaseInv,
      CanAttach, CanDetach
<1>23. QED
  BY <1>5, <1>6, <1>7, <1>8, <1>9, <1>10, <1>11, <1>12, <1>13, <1>14, <1>15,
      <1>16, <1>17, <1>18, <1>20, <1>21, <1>22

(* A scope of a context without a process is popped. *)
LEMMA LeaveDetachedStep ==
  ASSUME IndInv, NEW h \in Hosts, NEW c \in Contexts,
         pc[h] = "idle",
         c \in Detached,
         token[c] = h,
         Popped(h, c),
         pc' = [pc EXCEPT ![h] = "drop_scope"],
         op' = [op EXCEPT ![h] = "leave"],
         ctx' = [ctx EXCEPT ![h] = c],
         tb' = [tb EXCEPT ![h] = None],
         UNCHANGED <<token, scopeCount, owner, teb, lastError, expected,
                      tebThread, mapped, attached, tebError, refs, alive>>
  PROVE  IndInv'
<1> USE DEF IndInv
<1>1. /\ \A g \in Hosts : pc'[g] = IF g = h THEN "drop_scope" ELSE pc[g]
      /\ \A g \in Hosts : op'[g] = IF g = h THEN "leave" ELSE op[g]
      /\ \A g \in Hosts : ctx'[g] = IF g = h THEN c ELSE ctx[g]
      /\ \A g \in Hosts : tb'[g] = IF g = h THEN None ELSE tb[g]
  BY DEF TypeOK
<1>2. \A g \in Hosts, x \in Contexts :
         /\ FrameCount(g, x)' \in Nat
         /\ g = h /\ x = c => FrameCount(g, x) = FrameCount(g, x)' + 1
         /\ ~(g = h /\ x = c) => FrameCount(g, x)' = FrameCount(g, x)
  BY DEF Popped
<1>3. chain' \in [Hosts -> Seq(Frames)]
  BY DEF Popped
<1>4. \A g \in Hosts, x \in Contexts : FrameCount(g, x) \in Nat
  BY FramesFinite
<1> USE <1>1, <1>3, Typing, StepKinds, ThreadContextAssumption
<1>5. TypeOK'
  BY OpNames DEF TypeOK
<1>6. CallInv'
  BY DEF CallInv
<1>7. HoldInv'
  BY DEF HoldInv, CallInv
<1>8. QuietInv'
  BY <1>2, <1>4 DEF QuietInv, CallInv, FrameInv
<1>9. FrameInv'
  BY <1>2, <1>4 DEF FrameInv, HoldInv, CallInv, QuietInv
<1>10. NamedInv'
  BY <1>2, <1>4 DEF NamedInv, CallInv, HoldInv
<1>11. LeaseInv'
  BY DEF LeaseInv, CallInv, MayUse, MayDestroy
<1>12. OwnerInv'
  BY DEF OwnerInv, CallInv, LeaseInv, AttachInv, ReserveInv, PagesInv,
      CanAttach, CanDetach
<1>13. AttachInv'
  BY DEF AttachInv, CallInv, LeaseInv, OwnerInv, PagesInv, CanAttach,
      CanDetach
<1>14. ReserveInv'
  BY DEF ReserveInv, CallInv, HoldInv
<1>15. PagesInv'
  BY DEF PagesInv, CallInv, LeaseInv, OwnerInv, UnmapInv, MayDestroy
<1>16. MapInv'
  BY DEF MapInv, CallInv, LeaseInv, OwnerInv, PagesInv, ReserveInv
<1>17. UnmapInv'
  BY DEF UnmapInv, CallInv, LeaseInv, PagesInv
<1>18. CountInv'
  <2> SUFFICES ASSUME NEW x \in Contexts
               PROVE  /\ token[x] = Free => scopeCount[x] = 0
                      /\ \A g \in Hosts :
                            token[x] = g =>
                                scopeCount[x] = FrameCount(g, x)' +
                                    (IF ctx'[g] = x /\ pc'[g] \in Claiming THEN 1 ELSE 0)
    BY DEF CountInv
  <2>1. token[x] = Free => scopeCount[x] = 0
    BY DEF CountInv
  <2>2. ASSUME NEW g \in Hosts, token[x] = g
        PROVE  scopeCount[x] = FrameCount(g, x)' +
                   (IF ctx'[g] = x /\ pc'[g] \in Claiming THEN 1 ELSE 0)
    <3>1. CASE g = h /\ x = c
      <4>1. scopeCount[c] = FrameCount(h, c) + 0
        BY <2>2, <3>1 DEF CountInv, CallInv
      <4>2. scopeCount[c] = FrameCount(h, c)' + 1
        BY <1>2, <1>4, <4>1
      <4>3. QED
        BY <3>1, <4>2
    <3>2. CASE ~(g = h /\ x = c)
      <4>1. FrameCount(g, x)' = FrameCount(g, x)
        BY <1>2, <1>4, <3>2
      <4>2. ctx'[g] = x /\ pc'[g] \in Claiming <=> ctx[g] = x /\ pc[g] \in Claiming
        BY <3>2 DEF CallInv
      <4>3. scopeCount[x] = FrameCount(g, x) +
                (IF ctx[g] = x /\ pc[g] \in Claiming THEN 1 ELSE 0)
        BY <2>2 DEF CountInv
      <4>4. QED
        BY <4>1, <4>2, <4>3
    <3>3. QED
      BY <3>1, <3>2
  <2>3. QED
    BY <2>1, <2>2
<1>19. /\ CallUsers' = CallUsers
      /\ TebUsers' = TebUsers
  <2>2. CallUsers' = CallUsers
    BY DEF CallUsers, Owing
  <2>3. \A a \in Tebs : Disowned(a)' <=> Disowned(a)
    BY DEF Disowned, CallInv, LeaseInv, PagesInv, OwnerInv, AttachInv
  <2>4. TebUsers' = TebUsers
    BY <2>3 DEF TebUsers
  <2>6. QED
    BY <2>2, <2>4
<1>20. ReferencesExact'
  <2>1. QED
    BY <1>19, UsersFinite DEF ReferencesExact, Pushed, Popped
<1>21. AliveInv'
  BY DEF AliveInv, CallInv, Usable, HasProcess
<1>22. LastErrorSurvives'
  BY DEF LastErrorSurvives, CallInv, OwnerInv, AttachInv, PagesInv, LeaseInv,
      CanAttach, CanDetach
<1>23. QED
  BY <1>5, <1>6, <1>7, <1>8, <1>9, <1>10, <1>11, <1>12, <1>13, <1>14, <1>15,
      <1>16, <1>17, <1>18, <1>20, <1>21, <1>22

(* The scope's reference is given back. *)
LEMMA LeaveProcessStep ==
  ASSUME IndInv, NEW h \in Hosts, NEW c \in Contexts,
         pc[h] = "leave_process",
         ctx[h] = c,
         refs > 0,
         refs' = refs - 1,
         pc' = [pc EXCEPT ![h] = "drop_scope"],
         UNCHANGED <<token, scopeCount, owner, teb, lastError, expected,
                      tebThread, mapped, attached, tebError, alive, chain, op,
                      ctx, tb>>
  PROVE  IndInv'
<1> USE DEF IndInv
<1>1. /\ \A g \in Hosts : pc'[g] = IF g = h THEN "drop_scope" ELSE pc[g]
  BY DEF TypeOK
<1>2. \A g \in Hosts, x \in Contexts : FrameCount(g, x)' = FrameCount(g, x)
  BY DEF FrameCount, ActiveFrames
<1>3. \A g \in Hosts, x \in Contexts : FrameCount(g, x) \in Nat
  BY FramesFinite
<1>4. token[c] = h /\ \A g \in Hosts : g # h /\ pc[g] \notin Loose => ctx[g] # c
  BY StepKinds DEF HoldInv, CallInv
<1> USE <1>1, <1>4, Typing, StepKinds, ThreadContextAssumption
<1>5. TypeOK'
  BY OpNames DEF TypeOK
<1>6. CallInv'
  BY DEF CallInv
<1>7. HoldInv'
  BY DEF HoldInv, CallInv
<1>8. QuietInv'
  BY <1>2, <1>3 DEF QuietInv, CallInv, FrameInv
<1>9. FrameInv'
  BY <1>2, <1>3 DEF FrameInv, HoldInv, CallInv, QuietInv
<1>10. NamedInv'
  BY <1>2, <1>3 DEF NamedInv, CallInv, HoldInv
<1>11. LeaseInv'
  BY DEF LeaseInv, CallInv, MayUse, MayDestroy
<1>12. OwnerInv'
  BY DEF OwnerInv, CallInv, LeaseInv, AttachInv, ReserveInv, PagesInv,
      CanAttach, CanDetach
<1>13. AttachInv'
  BY DEF AttachInv, CallInv, LeaseInv, OwnerInv, PagesInv, CanAttach,
      CanDetach
<1>14. ReserveInv'
  BY DEF ReserveInv, CallInv, HoldInv
<1>15. PagesInv'
  BY DEF PagesInv, CallInv, LeaseInv, OwnerInv, UnmapInv, MayDestroy
<1>16. MapInv'
  BY DEF MapInv, CallInv, LeaseInv, OwnerInv, PagesInv, ReserveInv
<1>17. UnmapInv'
  BY DEF UnmapInv, CallInv, LeaseInv, PagesInv
<1>18. CountInv'
  BY <1>2, <1>3 DEF CountInv, CallInv, HoldInv, FrameInv, QuietInv
<1>19. /\ ScopeUsers' = ScopeUsers
      /\ CallUsers' = CallUsers \ {h} /\ h \in CallUsers
      /\ TebUsers' = TebUsers
  <2>1. ScopeUsers' = ScopeUsers
    BY DEF ScopeUsers, HoldingFrames
  <2>2. CallUsers' = CallUsers \ {h} /\ h \in CallUsers
    BY DEF CallUsers, Owing
  <2>3. \A a \in Tebs : Disowned(a)' <=> Disowned(a)
    BY DEF Disowned, CallInv, LeaseInv, PagesInv, OwnerInv, AttachInv
  <2>4. TebUsers' = TebUsers
    BY <2>3 DEF TebUsers
  <2>6. QED
    BY <2>1, <2>2, <2>4
<1>20. ReferencesExact'
  <2>1. Cardinality(CallUsers') = Cardinality(CallUsers) - 1
    BY <1>19, UsersFinite, FS_RemoveElement
  <2>2. QED
    BY <1>19, <2>1, UsersFinite DEF ReferencesExact
<1>21. AliveInv'
  BY DEF AliveInv, CallInv, Usable, HasProcess
<1>22. LastErrorSurvives'
  BY DEF LastErrorSurvives, CallInv, OwnerInv, AttachInv, PagesInv, LeaseInv,
      CanAttach, CanDetach
<1>23. QED
  BY <1>5, <1>6, <1>7, <1>8, <1>9, <1>10, <1>11, <1>12, <1>13, <1>14, <1>15,
      <1>16, <1>17, <1>18, <1>20, <1>21, <1>22

(* The last scope is dropped. *)
LEMMA DropLastStep ==
  ASSUME IndInv, NEW h \in Hosts, NEW c \in Contexts,
         pc[h] = "drop_scope",
         ctx[h] = c,
         scopeCount[c] = 1,
         scopeCount' = [scopeCount EXCEPT ![c] = scopeCount[c] - 1],
         pc' = [pc EXCEPT ![h] = "drop_token"],
         UNCHANGED <<token, owner, teb, lastError, expected, tebThread,
                      mapped, attached, tebError, refs, alive, chain, op, ctx,
                      tb>>
  PROVE  IndInv'
<1> USE DEF IndInv
<1>1. /\ \A x \in Contexts :
            scopeCount'[x] = IF x = c THEN scopeCount[c] - 1
                             ELSE scopeCount[x]
      /\ \A g \in Hosts : pc'[g] = IF g = h THEN "drop_token" ELSE pc[g]
  BY DEF TypeOK
<1>2. \A g \in Hosts, x \in Contexts : FrameCount(g, x)' = FrameCount(g, x)
  BY DEF FrameCount, ActiveFrames
<1>3. \A g \in Hosts, x \in Contexts : FrameCount(g, x) \in Nat
  BY FramesFinite
<1>4. token[c] = h /\ \A g \in Hosts : g # h /\ pc[g] \notin Loose => ctx[g] # c
  BY StepKinds DEF HoldInv, CallInv
<1> USE <1>1, <1>4, Typing, StepKinds, ThreadContextAssumption
<1>5. TypeOK'
  BY OpNames DEF TypeOK
<1>6. CallInv'
  BY DEF CallInv
<1>7. HoldInv'
  BY DEF HoldInv, CallInv
<1>8. QuietInv'
  <2>1. scopeCount[c] = FrameCount(h, c) + 1
    BY DEF CountInv
  <2>2. FrameCount(h, c) = 0
    BY <1>2, <1>3, <2>1
  <2>3. QED
    BY <1>2, <1>3, <2>2 DEF QuietInv
<1>9. FrameInv'
  BY <1>2, <1>3 DEF FrameInv, HoldInv, CallInv, QuietInv
<1>10. NamedInv'
  BY <1>2, <1>3 DEF NamedInv, CallInv, HoldInv
<1>11. LeaseInv'
  BY DEF LeaseInv, CallInv, MayUse, MayDestroy
<1>12. OwnerInv'
  BY DEF OwnerInv, CallInv, LeaseInv, AttachInv, ReserveInv, PagesInv,
      CanAttach, CanDetach
<1>13. AttachInv'
  BY DEF AttachInv, CallInv, LeaseInv, OwnerInv, PagesInv, CanAttach,
      CanDetach
<1>14. ReserveInv'
  BY DEF ReserveInv, CallInv, HoldInv
<1>15. PagesInv'
  BY DEF PagesInv, CallInv, LeaseInv, OwnerInv, UnmapInv, MayDestroy
<1>16. MapInv'
  BY DEF MapInv, CallInv, LeaseInv, OwnerInv, PagesInv, ReserveInv
<1>17. UnmapInv'
  BY DEF UnmapInv, CallInv, LeaseInv, PagesInv
<1>18. CountInv'
  BY <1>2, <1>3 DEF CountInv, CallInv, HoldInv, FrameInv, QuietInv
<1>19. ScopeUsers' = ScopeUsers /\ CallUsers' = CallUsers /\ TebUsers' = TebUsers
  <2>1. ScopeUsers' = ScopeUsers
    BY DEF ScopeUsers, HoldingFrames
  <2>2. CallUsers' = CallUsers
    BY DEF CallUsers, Owing
  <2>3. \A a \in Tebs : Disowned(a)' <=> Disowned(a)
    BY DEF Disowned, CallInv, LeaseInv, PagesInv, OwnerInv, AttachInv
  <2>4. TebUsers' = TebUsers
    BY <2>3 DEF TebUsers
  <2>5. QED
    BY <2>1, <2>2, <2>4
<1>20. ReferencesExact'
  BY <1>19 DEF ReferencesExact
<1>21. AliveInv'
  BY DEF AliveInv, CallInv, Usable, HasProcess
<1>22. LastErrorSurvives'
  BY DEF LastErrorSurvives, CallInv, OwnerInv, AttachInv, PagesInv, LeaseInv,
      CanAttach, CanDetach
<1>23. QED
  BY <1>5, <1>6, <1>7, <1>8, <1>9, <1>10, <1>11, <1>12, <1>13, <1>14, <1>15,
      <1>16, <1>17, <1>18, <1>20, <1>21, <1>22

(* A scope is dropped that is not the last. *)
LEMMA DropScopeStep ==
  ASSUME IndInv, NEW h \in Hosts, NEW c \in Contexts,
         pc[h] = "drop_scope",
         ctx[h] = c,
         scopeCount[c] > 1,
         scopeCount' = [scopeCount EXCEPT ![c] = scopeCount[c] - 1],
         pc' = [pc EXCEPT ![h] = "idle"],
         op' = [op EXCEPT ![h] = "none"],
         ctx' = [ctx EXCEPT ![h] = None],
         tb' = [tb EXCEPT ![h] = None],
         UNCHANGED <<token, owner, teb, lastError, expected, tebThread,
                      mapped, attached, tebError, refs, alive, chain>>
  PROVE  IndInv'
<1> USE DEF IndInv
<1>1. /\ \A x \in Contexts :
            scopeCount'[x] = IF x = c THEN scopeCount[c] - 1
                             ELSE scopeCount[x]
      /\ \A g \in Hosts : pc'[g] = IF g = h THEN "idle" ELSE pc[g]
      /\ \A g \in Hosts : op'[g] = IF g = h THEN "none" ELSE op[g]
      /\ \A g \in Hosts : ctx'[g] = IF g = h THEN None ELSE ctx[g]
      /\ \A g \in Hosts : tb'[g] = IF g = h THEN None ELSE tb[g]
  BY DEF TypeOK
<1>2. \A g \in Hosts, x \in Contexts : FrameCount(g, x)' = FrameCount(g, x)
  BY DEF FrameCount, ActiveFrames
<1>3. \A g \in Hosts, x \in Contexts : FrameCount(g, x) \in Nat
  BY FramesFinite
<1>4. token[c] = h /\ \A g \in Hosts : g # h /\ pc[g] \notin Loose => ctx[g] # c
  BY StepKinds DEF HoldInv, CallInv
<1> USE <1>1, <1>4, Typing, StepKinds, ThreadContextAssumption
<1>5. TypeOK'
  BY OpNames DEF TypeOK
<1>6. CallInv'
  BY DEF CallInv
<1>7. HoldInv'
  BY DEF HoldInv, CallInv
<1>8. QuietInv'
  BY <1>2, <1>3 DEF QuietInv, CallInv, FrameInv
<1>9. FrameInv'
  BY <1>2, <1>3 DEF FrameInv, HoldInv, CallInv, QuietInv
<1>10. NamedInv'
  <2>1. FrameCount(h, c) + 1 = scopeCount[c]
    BY <1>2, <1>3 DEF CountInv
  <2>2. FrameCount(h, c) # 0
    BY <1>2, <1>3, <2>1
  <2>3. QED
    BY <1>2, <1>3, <2>2 DEF NamedInv
<1>11. LeaseInv'
  BY DEF LeaseInv, CallInv, MayUse, MayDestroy
<1>12. OwnerInv'
  BY DEF OwnerInv, CallInv, LeaseInv, AttachInv, ReserveInv, PagesInv,
      CanAttach, CanDetach
<1>13. AttachInv'
  BY DEF AttachInv, CallInv, LeaseInv, OwnerInv, PagesInv, CanAttach,
      CanDetach
<1>14. ReserveInv'
  BY DEF ReserveInv, CallInv, HoldInv
<1>15. PagesInv'
  BY DEF PagesInv, CallInv, LeaseInv, OwnerInv, UnmapInv, MayDestroy
<1>16. MapInv'
  BY DEF MapInv, CallInv, LeaseInv, OwnerInv, PagesInv, ReserveInv
<1>17. UnmapInv'
  BY DEF UnmapInv, CallInv, LeaseInv, PagesInv
<1>18. CountInv'
  BY <1>2, <1>3 DEF CountInv, CallInv, HoldInv, FrameInv, QuietInv
<1>19. ScopeUsers' = ScopeUsers /\ CallUsers' = CallUsers /\ TebUsers' = TebUsers
  <2>1. ScopeUsers' = ScopeUsers
    BY DEF ScopeUsers, HoldingFrames
  <2>2. CallUsers' = CallUsers
    BY DEF CallUsers, Owing
  <2>3. \A a \in Tebs : Disowned(a)' <=> Disowned(a)
    BY DEF Disowned, CallInv, LeaseInv, PagesInv, OwnerInv, AttachInv
  <2>4. TebUsers' = TebUsers
    BY <2>3 DEF TebUsers
  <2>5. QED
    BY <2>1, <2>2, <2>4
<1>20. ReferencesExact'
  BY <1>19 DEF ReferencesExact
<1>21. AliveInv'
  BY DEF AliveInv, CallInv, Usable, HasProcess
<1>22. LastErrorSurvives'
  BY DEF LastErrorSurvives, CallInv, OwnerInv, AttachInv, PagesInv, LeaseInv,
      CanAttach, CanDetach
<1>23. QED
  BY <1>5, <1>6, <1>7, <1>8, <1>9, <1>10, <1>11, <1>12, <1>13, <1>14, <1>15,
      <1>16, <1>17, <1>18, <1>20, <1>21, <1>22

(* The token is free again. *)
LEMMA DropTokenStep ==
  ASSUME IndInv, NEW h \in Hosts, NEW c \in Contexts,
         pc[h] = "drop_token",
         ctx[h] = c,
         token' = [token EXCEPT ![c] = Free],
         pc' = [pc EXCEPT ![h] = "idle"],
         op' = [op EXCEPT ![h] = "none"],
         ctx' = [ctx EXCEPT ![h] = None],
         tb' = [tb EXCEPT ![h] = None],
         UNCHANGED <<scopeCount, owner, teb, lastError, expected, tebThread,
                      mapped, attached, tebError, refs, alive, chain>>
  PROVE  IndInv'
<1> USE DEF IndInv
<1>1. /\ \A x \in Contexts : token'[x] = IF x = c THEN Free ELSE token[x]
      /\ \A g \in Hosts : pc'[g] = IF g = h THEN "idle" ELSE pc[g]
      /\ \A g \in Hosts : op'[g] = IF g = h THEN "none" ELSE op[g]
      /\ \A g \in Hosts : ctx'[g] = IF g = h THEN None ELSE ctx[g]
      /\ \A g \in Hosts : tb'[g] = IF g = h THEN None ELSE tb[g]
  BY DEF TypeOK
<1>2. \A g \in Hosts, x \in Contexts : FrameCount(g, x)' = FrameCount(g, x)
  BY DEF FrameCount, ActiveFrames
<1>3. \A g \in Hosts, x \in Contexts : FrameCount(g, x) \in Nat
  BY FramesFinite
<1>4. token[c] = h /\ \A g \in Hosts : g # h /\ pc[g] \notin Loose => ctx[g] # c
  BY StepKinds DEF HoldInv, CallInv
<1> USE <1>1, <1>4, Typing, StepKinds, ThreadContextAssumption
<1>5. TypeOK'
  BY OpNames DEF TypeOK
<1>6. CallInv'
  BY DEF CallInv
<1>7. HoldInv'
  BY DEF HoldInv, CallInv
<1>8. QuietInv'
  BY <1>2, <1>3 DEF QuietInv, CallInv, FrameInv
<1>9. FrameInv'
  BY <1>2, <1>3 DEF FrameInv, HoldInv, CallInv, QuietInv
<1>10. NamedInv'
  BY <1>2, <1>3 DEF NamedInv, CallInv, HoldInv
<1>11. LeaseInv'
  BY DEF LeaseInv, CallInv, MayUse, MayDestroy
<1>12. OwnerInv'
  BY DEF OwnerInv, CallInv, LeaseInv, AttachInv, ReserveInv, PagesInv,
      CanAttach, CanDetach
<1>13. AttachInv'
  BY DEF AttachInv, CallInv, LeaseInv, OwnerInv, PagesInv, CanAttach,
      CanDetach
<1>14. ReserveInv'
  BY DEF ReserveInv, CallInv, HoldInv
<1>15. PagesInv'
  BY DEF PagesInv, CallInv, LeaseInv, OwnerInv, UnmapInv, MayDestroy
<1>16. MapInv'
  BY DEF MapInv, CallInv, LeaseInv, OwnerInv, PagesInv, ReserveInv
<1>17. UnmapInv'
  BY DEF UnmapInv, CallInv, LeaseInv, PagesInv
<1>18. CountInv'
  BY <1>2, <1>3 DEF CountInv, CallInv, HoldInv, FrameInv, QuietInv
<1>19. ScopeUsers' = ScopeUsers /\ CallUsers' = CallUsers /\ TebUsers' = TebUsers
  <2>1. ScopeUsers' = ScopeUsers
    BY DEF ScopeUsers, HoldingFrames
  <2>2. CallUsers' = CallUsers
    BY DEF CallUsers, Owing
  <2>3. \A a \in Tebs : Disowned(a)' <=> Disowned(a)
    BY DEF Disowned, CallInv, LeaseInv, PagesInv, OwnerInv, AttachInv
  <2>4. TebUsers' = TebUsers
    BY <2>3 DEF TebUsers
  <2>5. QED
    BY <2>1, <2>2, <2>4
<1>20. ReferencesExact'
  BY <1>19 DEF ReferencesExact
<1>21. AliveInv'
  BY DEF AliveInv, CallInv, Usable, HasProcess
<1>22. LastErrorSurvives'
  BY DEF LastErrorSurvives, CallInv, OwnerInv, AttachInv, PagesInv, LeaseInv,
      CanAttach, CanDetach
<1>23. QED
  BY <1>5, <1>6, <1>7, <1>8, <1>9, <1>10, <1>11, <1>12, <1>13, <1>14, <1>15,
      <1>16, <1>17, <1>18, <1>20, <1>21, <1>22

(* The token is free; the unmapped TEB is still to be freed. *)
LEMMA ReleaseUnmappedStep ==
  ASSUME IndInv, NEW h \in Hosts, NEW c \in Contexts, NEW b \in Tebs,
         pc[h] = "release",
         ctx[h] = c,
         tb[h] = b,
         op[h] = "destroy",
         ~mapped[b],
         token' = [token EXCEPT ![c] = Free],
         pc' = [pc EXCEPT ![h] = "destroy_free"],
         UNCHANGED <<scopeCount, owner, teb, lastError, expected, tebThread,
                      mapped, attached, tebError, refs, alive, chain, op, ctx,
                      tb>>
  PROVE  IndInv'
<1> USE DEF IndInv
<1>1. /\ \A x \in Contexts : token'[x] = IF x = c THEN Free ELSE token[x]
      /\ \A g \in Hosts : pc'[g] = IF g = h THEN "destroy_free" ELSE pc[g]
  BY DEF TypeOK
<1>2. \A g \in Hosts, x \in Contexts : FrameCount(g, x)' = FrameCount(g, x)
  BY DEF FrameCount, ActiveFrames
<1>3. \A g \in Hosts, x \in Contexts : FrameCount(g, x) \in Nat
  BY FramesFinite
<1>4. token[c] = h /\ \A g \in Hosts : g # h /\ pc[g] \notin Loose => ctx[g] # c
  BY StepKinds DEF HoldInv, CallInv
<1> USE <1>1, <1>4, Typing, StepKinds, ThreadContextAssumption
<1>5. TypeOK'
  BY OpNames DEF TypeOK
<1>6. CallInv'
  BY DEF CallInv
<1>7. HoldInv'
  BY DEF HoldInv, CallInv
<1>8. QuietInv'
  BY <1>2, <1>3 DEF QuietInv, CallInv, FrameInv
<1>9. FrameInv'
  BY <1>2, <1>3 DEF FrameInv, HoldInv, CallInv, QuietInv
<1>10. NamedInv'
  BY <1>2, <1>3 DEF NamedInv, CallInv, HoldInv
<1>11. LeaseInv'
  BY DEF LeaseInv, CallInv, MayUse, MayDestroy
<1>12. OwnerInv'
  BY DEF OwnerInv, CallInv, LeaseInv, AttachInv, ReserveInv, PagesInv,
      CanAttach, CanDetach
<1>13. AttachInv'
  BY DEF AttachInv, CallInv, LeaseInv, OwnerInv, PagesInv, CanAttach,
      CanDetach
<1>14. ReserveInv'
  BY DEF ReserveInv, CallInv, HoldInv
<1>15. PagesInv'
  BY DEF PagesInv, CallInv, LeaseInv, OwnerInv, UnmapInv, MayDestroy
<1>16. MapInv'
  BY DEF MapInv, CallInv, LeaseInv, OwnerInv, PagesInv, ReserveInv
<1>17. UnmapInv'
  BY DEF UnmapInv, CallInv, LeaseInv, PagesInv
<1>18. CountInv'
  BY <1>2, <1>3 DEF CountInv, CallInv, HoldInv, FrameInv, QuietInv
<1>19. ScopeUsers' = ScopeUsers /\ CallUsers' = CallUsers /\ TebUsers' = TebUsers
  <2>1. ScopeUsers' = ScopeUsers
    BY DEF ScopeUsers, HoldingFrames
  <2>2. CallUsers' = CallUsers
    BY DEF CallUsers, Owing
  <2>3. \A a \in Tebs : Disowned(a)' <=> Disowned(a)
    BY DEF Disowned, CallInv, LeaseInv, PagesInv, OwnerInv, AttachInv
  <2>4. TebUsers' = TebUsers
    BY <2>3 DEF TebUsers
  <2>5. QED
    BY <2>1, <2>2, <2>4
<1>20. ReferencesExact'
  BY <1>19 DEF ReferencesExact
<1>21. AliveInv'
  BY DEF AliveInv, CallInv, Usable, HasProcess
<1>22. LastErrorSurvives'
  BY DEF LastErrorSurvives, CallInv, OwnerInv, AttachInv, PagesInv, LeaseInv,
      CanAttach, CanDetach
<1>23. QED
  BY <1>5, <1>6, <1>7, <1>8, <1>9, <1>10, <1>11, <1>12, <1>13, <1>14, <1>15,
      <1>16, <1>17, <1>18, <1>20, <1>21, <1>22

(* The token is free and the call returns. *)
LEMMA ReleaseInactiveStep ==
  ASSUME IndInv, NEW h \in Hosts, NEW c \in Contexts,
         pc[h] = "release",
         ctx[h] = c,
         op[h] = "destroy" => tb[h] \in Tebs /\ mapped[tb[h]],
         token' = [token EXCEPT ![c] = Free],
         pc' = [pc EXCEPT ![h] = "idle"],
         op' = [op EXCEPT ![h] = "none"],
         ctx' = [ctx EXCEPT ![h] = None],
         tb' = [tb EXCEPT ![h] = None],
         UNCHANGED <<scopeCount, owner, teb, lastError, expected, tebThread,
                      mapped, attached, tebError, refs, alive, chain>>
  PROVE  IndInv'
<1> USE DEF IndInv
<1>1. /\ \A x \in Contexts : token'[x] = IF x = c THEN Free ELSE token[x]
      /\ \A g \in Hosts : pc'[g] = IF g = h THEN "idle" ELSE pc[g]
      /\ \A g \in Hosts : op'[g] = IF g = h THEN "none" ELSE op[g]
      /\ \A g \in Hosts : ctx'[g] = IF g = h THEN None ELSE ctx[g]
      /\ \A g \in Hosts : tb'[g] = IF g = h THEN None ELSE tb[g]
  BY DEF TypeOK
<1>2. \A g \in Hosts, x \in Contexts : FrameCount(g, x)' = FrameCount(g, x)
  BY DEF FrameCount, ActiveFrames
<1>3. \A g \in Hosts, x \in Contexts : FrameCount(g, x) \in Nat
  BY FramesFinite
<1>4. token[c] = h /\ \A g \in Hosts : g # h /\ pc[g] \notin Loose => ctx[g] # c
  BY StepKinds DEF HoldInv, CallInv
<1> USE <1>1, <1>4, Typing, StepKinds, ThreadContextAssumption
<1>5. TypeOK'
  BY OpNames DEF TypeOK
<1>6. CallInv'
  BY DEF CallInv
<1>7. HoldInv'
  BY DEF HoldInv, CallInv
<1>8. QuietInv'
  BY <1>2, <1>3 DEF QuietInv, CallInv, FrameInv
<1>9. FrameInv'
  BY <1>2, <1>3 DEF FrameInv, HoldInv, CallInv, QuietInv
<1>10. NamedInv'
  BY <1>2, <1>3 DEF NamedInv, CallInv, HoldInv
<1>11. LeaseInv'
  BY DEF LeaseInv, CallInv, MayUse, MayDestroy
<1>12. OwnerInv'
  BY DEF OwnerInv, CallInv, LeaseInv, AttachInv, ReserveInv, PagesInv,
      CanAttach, CanDetach
<1>13. AttachInv'
  BY DEF AttachInv, CallInv, LeaseInv, OwnerInv, PagesInv, CanAttach,
      CanDetach
<1>14. ReserveInv'
  BY DEF ReserveInv, CallInv, HoldInv
<1>15. PagesInv'
  BY DEF PagesInv, CallInv, LeaseInv, OwnerInv, UnmapInv, MayDestroy
<1>16. MapInv'
  BY DEF MapInv, CallInv, LeaseInv, OwnerInv, PagesInv, ReserveInv
<1>17. UnmapInv'
  BY DEF UnmapInv, CallInv, LeaseInv, PagesInv
<1>18. CountInv'
  BY <1>2, <1>3 DEF CountInv, CallInv, HoldInv, FrameInv, QuietInv
<1>19. ScopeUsers' = ScopeUsers /\ CallUsers' = CallUsers /\ TebUsers' = TebUsers
  <2>1. ScopeUsers' = ScopeUsers
    BY DEF ScopeUsers, HoldingFrames
  <2>2. CallUsers' = CallUsers
    BY DEF CallUsers, Owing
  <2>3. \A a \in Tebs : Disowned(a)' <=> Disowned(a)
    BY DEF Disowned, CallInv, LeaseInv, PagesInv, OwnerInv, AttachInv
  <2>4. TebUsers' = TebUsers
    BY <2>3 DEF TebUsers
  <2>5. QED
    BY <2>1, <2>2, <2>4
<1>20. ReferencesExact'
  BY <1>19 DEF ReferencesExact
<1>21. AliveInv'
  BY DEF AliveInv, CallInv, Usable, HasProcess
<1>22. LastErrorSurvives'
  BY DEF LastErrorSurvives, CallInv, OwnerInv, AttachInv, PagesInv, LeaseInv,
      CanAttach, CanDetach
<1>23. QED
  BY <1>5, <1>6, <1>7, <1>8, <1>9, <1>10, <1>11, <1>12, <1>13, <1>14, <1>15,
      <1>16, <1>17, <1>18, <1>20, <1>21, <1>22

(* sl_win32_teb_create claims the context. *)
LEMMA CreateStep ==
  ASSUME IndInv, NEW h \in Hosts, NEW c \in Contexts,
         pc[h] = "idle",
         Usable(c),
         token[c] = Free,
         token' = [token EXCEPT ![c] = h],
         pc' = [pc EXCEPT ![h] = "create_check"],
         op' = [op EXCEPT ![h] = "create"],
         ctx' = [ctx EXCEPT ![h] = c],
         tb' = [tb EXCEPT ![h] = None],
         UNCHANGED <<scopeCount, owner, teb, lastError, expected, tebThread,
                      mapped, attached, tebError, refs, alive, chain>>
  PROVE  IndInv'
<1> USE DEF IndInv
<1>1. /\ \A x \in Contexts : token'[x] = IF x = c THEN h ELSE token[x]
      /\ \A g \in Hosts : pc'[g] = IF g = h THEN "create_check" ELSE pc[g]
      /\ \A g \in Hosts : op'[g] = IF g = h THEN "create" ELSE op[g]
      /\ \A g \in Hosts : ctx'[g] = IF g = h THEN c ELSE ctx[g]
      /\ \A g \in Hosts : tb'[g] = IF g = h THEN None ELSE tb[g]
  BY DEF TypeOK
<1>2. \A g \in Hosts, x \in Contexts : FrameCount(g, x)' = FrameCount(g, x)
  BY DEF FrameCount, ActiveFrames
<1>3. \A g \in Hosts, x \in Contexts : FrameCount(g, x) \in Nat
  BY FramesFinite
<1> USE <1>1, Typing, StepKinds, ThreadContextAssumption
<1>4. TypeOK'
  BY OpNames DEF TypeOK
<1>5. CallInv'
  BY DEF CallInv
<1>6. HoldInv'
  BY DEF HoldInv, CallInv
<1>7. QuietInv'
  BY <1>2, <1>3 DEF QuietInv, CallInv, FrameInv
<1>8. FrameInv'
  BY <1>2, <1>3 DEF FrameInv, HoldInv, CallInv, QuietInv
<1>9. NamedInv'
  BY <1>2, <1>3 DEF NamedInv, CallInv, HoldInv
<1>10. LeaseInv'
  BY DEF LeaseInv, CallInv, MayUse, MayDestroy
<1>11. OwnerInv'
  BY DEF OwnerInv, CallInv, LeaseInv, AttachInv, ReserveInv, PagesInv,
      CanAttach, CanDetach
<1>12. AttachInv'
  BY DEF AttachInv, CallInv, LeaseInv, OwnerInv, PagesInv, CanAttach,
      CanDetach
<1>13. ReserveInv'
  BY DEF ReserveInv, CallInv, HoldInv
<1>14. PagesInv'
  BY DEF PagesInv, CallInv, LeaseInv, OwnerInv, UnmapInv, MayDestroy
<1>15. MapInv'
  BY DEF MapInv, CallInv, LeaseInv, OwnerInv, PagesInv, ReserveInv
<1>16. UnmapInv'
  BY DEF UnmapInv, CallInv, LeaseInv, PagesInv
<1>17. CountInv'
  BY <1>2, <1>3 DEF CountInv, CallInv, HoldInv, FrameInv, QuietInv
<1>18. ScopeUsers' = ScopeUsers /\ CallUsers' = CallUsers /\ TebUsers' = TebUsers
  <2>1. ScopeUsers' = ScopeUsers
    BY DEF ScopeUsers, HoldingFrames
  <2>2. CallUsers' = CallUsers
    BY DEF CallUsers, Owing
  <2>3. \A a \in Tebs : Disowned(a)' <=> Disowned(a)
    BY DEF Disowned, CallInv, LeaseInv, PagesInv, OwnerInv, AttachInv
  <2>4. TebUsers' = TebUsers
    BY <2>3 DEF TebUsers
  <2>5. QED
    BY <2>1, <2>2, <2>4
<1>19. ReferencesExact'
  BY <1>18 DEF ReferencesExact
<1>20. AliveInv'
  BY DEF AliveInv, CallInv, Usable, HasProcess
<1>21. LastErrorSurvives'
  BY DEF LastErrorSurvives, CallInv, OwnerInv, AttachInv, PagesInv, LeaseInv,
      CanAttach, CanDetach
<1>22. QED
  BY <1>4, <1>5, <1>6, <1>7, <1>8, <1>9, <1>10, <1>11, <1>12, <1>13, <1>14,
      <1>15, <1>16, <1>17, <1>19, <1>20, <1>21

(* The context has a process and no TEB. *)
LEMMA CreateCheckStep ==
  ASSUME IndInv, NEW h \in Hosts, NEW c \in Contexts,
         pc[h] = "create_check",
         ctx[h] = c,
         c \notin Detached,
         teb[c] = None,
         pc' = [pc EXCEPT ![h] = "create_reserve"],
         UNCHANGED <<token, scopeCount, owner, teb, lastError, expected,
                      tebThread, mapped, attached, tebError, refs, alive,
                      chain, op, ctx, tb>>
  PROVE  IndInv'
<1> USE DEF IndInv
<1>1. /\ \A g \in Hosts : pc'[g] = IF g = h THEN "create_reserve" ELSE pc[g]
  BY DEF TypeOK
<1>2. \A g \in Hosts, x \in Contexts : FrameCount(g, x)' = FrameCount(g, x)
  BY DEF FrameCount, ActiveFrames
<1>3. \A g \in Hosts, x \in Contexts : FrameCount(g, x) \in Nat
  BY FramesFinite
<1>4. token[c] = h /\ \A g \in Hosts : g # h /\ pc[g] \notin Loose => ctx[g] # c
  BY StepKinds DEF HoldInv, CallInv
<1> USE <1>1, <1>4, Typing, StepKinds, ThreadContextAssumption
<1>5. TypeOK'
  BY OpNames DEF TypeOK
<1>6. CallInv'
  BY DEF CallInv
<1>7. HoldInv'
  BY DEF HoldInv, CallInv
<1>8. QuietInv'
  BY <1>2, <1>3 DEF QuietInv, CallInv, FrameInv
<1>9. FrameInv'
  BY <1>2, <1>3 DEF FrameInv, HoldInv, CallInv, QuietInv
<1>10. NamedInv'
  BY <1>2, <1>3 DEF NamedInv, CallInv, HoldInv
<1>11. LeaseInv'
  BY DEF LeaseInv, CallInv, MayUse, MayDestroy
<1>12. OwnerInv'
  BY DEF OwnerInv, CallInv, LeaseInv, AttachInv, ReserveInv, PagesInv,
      CanAttach, CanDetach
<1>13. AttachInv'
  BY DEF AttachInv, CallInv, LeaseInv, OwnerInv, PagesInv, CanAttach,
      CanDetach
<1>14. ReserveInv'
  BY DEF ReserveInv, CallInv, HoldInv
<1>15. PagesInv'
  BY DEF PagesInv, CallInv, LeaseInv, OwnerInv, UnmapInv, MayDestroy
<1>16. MapInv'
  BY DEF MapInv, CallInv, LeaseInv, OwnerInv, PagesInv, ReserveInv
<1>17. UnmapInv'
  BY DEF UnmapInv, CallInv, LeaseInv, PagesInv
<1>18. CountInv'
  BY <1>2, <1>3 DEF CountInv, CallInv, HoldInv, FrameInv, QuietInv
<1>19. ScopeUsers' = ScopeUsers /\ CallUsers' = CallUsers /\ TebUsers' = TebUsers
  <2>1. ScopeUsers' = ScopeUsers
    BY DEF ScopeUsers, HoldingFrames
  <2>2. CallUsers' = CallUsers
    BY DEF CallUsers, Owing
  <2>3. \A a \in Tebs : Disowned(a)' <=> Disowned(a)
    BY DEF Disowned, CallInv, LeaseInv, PagesInv, OwnerInv, AttachInv
  <2>4. TebUsers' = TebUsers
    BY <2>3 DEF TebUsers
  <2>5. QED
    BY <2>1, <2>2, <2>4
<1>20. ReferencesExact'
  BY <1>19 DEF ReferencesExact
<1>21. AliveInv'
  BY DEF AliveInv, CallInv, Usable, HasProcess
<1>22. LastErrorSurvives'
  BY DEF LastErrorSurvives, CallInv, OwnerInv, AttachInv, PagesInv, LeaseInv,
      CanAttach, CanDetach
<1>23. QED
  BY <1>5, <1>6, <1>7, <1>8, <1>9, <1>10, <1>11, <1>12, <1>13, <1>14, <1>15,
      <1>16, <1>17, <1>18, <1>20, <1>21, <1>22

(* The context has no process, or a TEB. *)
LEMMA CreateCheckFailsStep ==
  ASSUME IndInv, NEW h \in Hosts, NEW c \in Contexts,
         pc[h] = "create_check",
         ctx[h] = c,
         pc' = [pc EXCEPT ![h] = "release"],
         UNCHANGED <<token, scopeCount, owner, teb, lastError, expected,
                      tebThread, mapped, attached, tebError, refs, alive,
                      chain, op, ctx, tb>>
  PROVE  IndInv'
<1> USE DEF IndInv
<1>1. /\ \A g \in Hosts : pc'[g] = IF g = h THEN "release" ELSE pc[g]
  BY DEF TypeOK
<1>2. \A g \in Hosts, x \in Contexts : FrameCount(g, x)' = FrameCount(g, x)
  BY DEF FrameCount, ActiveFrames
<1>3. \A g \in Hosts, x \in Contexts : FrameCount(g, x) \in Nat
  BY FramesFinite
<1>4. token[c] = h /\ \A g \in Hosts : g # h /\ pc[g] \notin Loose => ctx[g] # c
  BY StepKinds DEF HoldInv, CallInv
<1> USE <1>1, <1>4, Typing, StepKinds, ThreadContextAssumption
<1>5. TypeOK'
  BY OpNames DEF TypeOK
<1>6. CallInv'
  BY DEF CallInv
<1>7. HoldInv'
  BY DEF HoldInv, CallInv
<1>8. QuietInv'
  BY <1>2, <1>3 DEF QuietInv, CallInv, FrameInv
<1>9. FrameInv'
  BY <1>2, <1>3 DEF FrameInv, HoldInv, CallInv, QuietInv
<1>10. NamedInv'
  BY <1>2, <1>3 DEF NamedInv, CallInv, HoldInv
<1>11. LeaseInv'
  BY DEF LeaseInv, CallInv, MayUse, MayDestroy
<1>12. OwnerInv'
  BY DEF OwnerInv, CallInv, LeaseInv, AttachInv, ReserveInv, PagesInv,
      CanAttach, CanDetach
<1>13. AttachInv'
  BY DEF AttachInv, CallInv, LeaseInv, OwnerInv, PagesInv, CanAttach,
      CanDetach
<1>14. ReserveInv'
  BY DEF ReserveInv, CallInv, HoldInv
<1>15. PagesInv'
  BY DEF PagesInv, CallInv, LeaseInv, OwnerInv, UnmapInv, MayDestroy
<1>16. MapInv'
  BY DEF MapInv, CallInv, LeaseInv, OwnerInv, PagesInv, ReserveInv
<1>17. UnmapInv'
  BY DEF UnmapInv, CallInv, LeaseInv, PagesInv
<1>18. CountInv'
  BY <1>2, <1>3 DEF CountInv, CallInv, HoldInv, FrameInv, QuietInv
<1>19. ScopeUsers' = ScopeUsers /\ CallUsers' = CallUsers /\ TebUsers' = TebUsers
  <2>1. ScopeUsers' = ScopeUsers
    BY DEF ScopeUsers, HoldingFrames
  <2>2. CallUsers' = CallUsers
    BY DEF CallUsers, Owing
  <2>3. \A a \in Tebs : Disowned(a)' <=> Disowned(a)
    BY DEF Disowned, CallInv, LeaseInv, PagesInv, OwnerInv, AttachInv
  <2>4. TebUsers' = TebUsers
    BY <2>3 DEF TebUsers
  <2>5. QED
    BY <2>1, <2>2, <2>4
<1>20. ReferencesExact'
  BY <1>19 DEF ReferencesExact
<1>21. AliveInv'
  BY DEF AliveInv, CallInv, Usable, HasProcess
<1>22. LastErrorSurvives'
  BY DEF LastErrorSurvives, CallInv, OwnerInv, AttachInv, PagesInv, LeaseInv,
      CanAttach, CanDetach
<1>23. QED
  BY <1>5, <1>6, <1>7, <1>8, <1>9, <1>10, <1>11, <1>12, <1>13, <1>14, <1>15,
      <1>16, <1>17, <1>18, <1>20, <1>21, <1>22

(* The ownership is reserved. *)
LEMMA CreateReserveStep ==
  ASSUME IndInv, NEW h \in Hosts, NEW c \in Contexts,
         pc[h] = "create_reserve",
         ctx[h] = c,
         owner[c] = None,
         owner' = [owner EXCEPT ![c] = Reserved],
         pc' = [pc EXCEPT ![h] = "create_retain"],
         UNCHANGED <<token, scopeCount, teb, lastError, expected, tebThread,
                      mapped, attached, tebError, refs, alive, chain, op, ctx,
                      tb>>
  PROVE  IndInv'
<1> USE DEF IndInv
<1>1. /\ \A x \in Contexts : owner'[x] = IF x = c THEN Reserved ELSE owner[x]
      /\ \A g \in Hosts : pc'[g] = IF g = h THEN "create_retain" ELSE pc[g]
  BY DEF TypeOK
<1>2. \A g \in Hosts, x \in Contexts : FrameCount(g, x)' = FrameCount(g, x)
  BY DEF FrameCount, ActiveFrames
<1>3. \A g \in Hosts, x \in Contexts : FrameCount(g, x) \in Nat
  BY FramesFinite
<1>4. token[c] = h /\ \A g \in Hosts : g # h /\ pc[g] \notin Loose => ctx[g] # c
  BY StepKinds DEF HoldInv, CallInv
<1> USE <1>1, <1>4, Typing, StepKinds, ThreadContextAssumption
<1>5. TypeOK'
  BY OpNames DEF TypeOK
<1>6. CallInv'
  BY DEF CallInv
<1>7. HoldInv'
  BY DEF HoldInv, CallInv
<1>8. QuietInv'
  BY <1>2, <1>3 DEF QuietInv, CallInv, FrameInv
<1>9. FrameInv'
  BY <1>2, <1>3 DEF FrameInv, HoldInv, CallInv, QuietInv
<1>10. NamedInv'
  BY <1>2, <1>3 DEF NamedInv, CallInv, HoldInv
<1>11. LeaseInv'
  BY DEF LeaseInv, CallInv, MayUse, MayDestroy
<1>12. OwnerInv'
  BY DEF OwnerInv, CallInv, LeaseInv, AttachInv, ReserveInv, PagesInv,
      CanAttach, CanDetach
<1>13. AttachInv'
  BY DEF AttachInv, CallInv, LeaseInv, OwnerInv, PagesInv, CanAttach,
      CanDetach
<1>14. ReserveInv'
  <2> SUFFICES ASSUME NEW g \in Hosts, pc'[g] \in Reserving
               PROVE  owner'[ctx'[g]] = Reserved
    BY DEF ReserveInv
  <2>1. CASE g = h
    BY <2>1
  <2>2. CASE g # h
    <3>1. pc[g] \in Reserving /\ pc[g] \notin Loose
      BY <2>2 DEF Reserving, Loose
    <3>2. ctx[g] \in Contexts /\ ctx[g] # c
      BY <2>2, <3>1 DEF CallInv
    <3>3. QED
      BY <2>2, <3>1, <3>2 DEF ReserveInv
  <2>3. QED
    BY <2>1, <2>2
<1>15. PagesInv'
  BY DEF PagesInv, CallInv, LeaseInv, OwnerInv, UnmapInv, MayDestroy
<1>16. MapInv'
  BY DEF MapInv, CallInv, LeaseInv, OwnerInv, PagesInv, ReserveInv
<1>17. UnmapInv'
  BY DEF UnmapInv, CallInv, LeaseInv, PagesInv
<1>18. CountInv'
  BY <1>2, <1>3 DEF CountInv, CallInv, HoldInv, FrameInv, QuietInv
<1>19. ScopeUsers' = ScopeUsers /\ CallUsers' = CallUsers /\ TebUsers' = TebUsers
  <2>1. ScopeUsers' = ScopeUsers
    BY DEF ScopeUsers, HoldingFrames
  <2>2. CallUsers' = CallUsers
    BY DEF CallUsers, Owing
  <2>3. \A a \in Tebs : Disowned(a)' <=> Disowned(a)
    BY DEF Disowned, CallInv, LeaseInv, PagesInv, OwnerInv, AttachInv
  <2>4. TebUsers' = TebUsers
    BY <2>3 DEF TebUsers
  <2>5. QED
    BY <2>1, <2>2, <2>4
<1>20. ReferencesExact'
  BY <1>19 DEF ReferencesExact
<1>21. AliveInv'
  BY DEF AliveInv, CallInv, Usable, HasProcess
<1>22. LastErrorSurvives'
  BY DEF LastErrorSurvives, CallInv, OwnerInv, AttachInv, PagesInv, LeaseInv,
      CanAttach, CanDetach
<1>23. QED
  BY <1>5, <1>6, <1>7, <1>8, <1>9, <1>10, <1>11, <1>12, <1>13, <1>14, <1>15,
      <1>16, <1>17, <1>18, <1>20, <1>21, <1>22

(* The context owns a TEB already. *)
LEMMA CreateReserveFailsStep ==
  ASSUME IndInv, NEW h \in Hosts, NEW c \in Contexts,
         pc[h] = "create_reserve",
         ctx[h] = c,
         pc' = [pc EXCEPT ![h] = "release"],
         UNCHANGED <<token, scopeCount, owner, teb, lastError, expected,
                      tebThread, mapped, attached, tebError, refs, alive,
                      chain, op, ctx, tb>>
  PROVE  IndInv'
<1> USE DEF IndInv
<1>1. /\ \A g \in Hosts : pc'[g] = IF g = h THEN "release" ELSE pc[g]
  BY DEF TypeOK
<1>2. \A g \in Hosts, x \in Contexts : FrameCount(g, x)' = FrameCount(g, x)
  BY DEF FrameCount, ActiveFrames
<1>3. \A g \in Hosts, x \in Contexts : FrameCount(g, x) \in Nat
  BY FramesFinite
<1>4. token[c] = h /\ \A g \in Hosts : g # h /\ pc[g] \notin Loose => ctx[g] # c
  BY StepKinds DEF HoldInv, CallInv
<1> USE <1>1, <1>4, Typing, StepKinds, ThreadContextAssumption
<1>5. TypeOK'
  BY OpNames DEF TypeOK
<1>6. CallInv'
  BY DEF CallInv
<1>7. HoldInv'
  BY DEF HoldInv, CallInv
<1>8. QuietInv'
  BY <1>2, <1>3 DEF QuietInv, CallInv, FrameInv
<1>9. FrameInv'
  BY <1>2, <1>3 DEF FrameInv, HoldInv, CallInv, QuietInv
<1>10. NamedInv'
  BY <1>2, <1>3 DEF NamedInv, CallInv, HoldInv
<1>11. LeaseInv'
  BY DEF LeaseInv, CallInv, MayUse, MayDestroy
<1>12. OwnerInv'
  BY DEF OwnerInv, CallInv, LeaseInv, AttachInv, ReserveInv, PagesInv,
      CanAttach, CanDetach
<1>13. AttachInv'
  BY DEF AttachInv, CallInv, LeaseInv, OwnerInv, PagesInv, CanAttach,
      CanDetach
<1>14. ReserveInv'
  BY DEF ReserveInv, CallInv, HoldInv
<1>15. PagesInv'
  BY DEF PagesInv, CallInv, LeaseInv, OwnerInv, UnmapInv, MayDestroy
<1>16. MapInv'
  BY DEF MapInv, CallInv, LeaseInv, OwnerInv, PagesInv, ReserveInv
<1>17. UnmapInv'
  BY DEF UnmapInv, CallInv, LeaseInv, PagesInv
<1>18. CountInv'
  BY <1>2, <1>3 DEF CountInv, CallInv, HoldInv, FrameInv, QuietInv
<1>19. ScopeUsers' = ScopeUsers /\ CallUsers' = CallUsers /\ TebUsers' = TebUsers
  <2>1. ScopeUsers' = ScopeUsers
    BY DEF ScopeUsers, HoldingFrames
  <2>2. CallUsers' = CallUsers
    BY DEF CallUsers, Owing
  <2>3. \A a \in Tebs : Disowned(a)' <=> Disowned(a)
    BY DEF Disowned, CallInv, LeaseInv, PagesInv, OwnerInv, AttachInv
  <2>4. TebUsers' = TebUsers
    BY <2>3 DEF TebUsers
  <2>5. QED
    BY <2>1, <2>2, <2>4
<1>20. ReferencesExact'
  BY <1>19 DEF ReferencesExact
<1>21. AliveInv'
  BY DEF AliveInv, CallInv, Usable, HasProcess
<1>22. LastErrorSurvives'
  BY DEF LastErrorSurvives, CallInv, OwnerInv, AttachInv, PagesInv, LeaseInv,
      CanAttach, CanDetach
<1>23. QED
  BY <1>5, <1>6, <1>7, <1>8, <1>9, <1>10, <1>11, <1>12, <1>13, <1>14, <1>15,
      <1>16, <1>17, <1>18, <1>20, <1>21, <1>22

(* The process is retained for the TEB. *)
LEMMA CreateRetainStep ==
  ASSUME IndInv, NEW h \in Hosts, NEW c \in Contexts,
         pc[h] = "create_retain",
         ctx[h] = c,
         c \notin Detached,
         refs < MaxReferences,
         refs' = refs + 1,
         pc' = [pc EXCEPT ![h] = "create_map"],
         UNCHANGED <<token, scopeCount, owner, teb, lastError, expected,
                      tebThread, mapped, attached, tebError, alive, chain, op,
                      ctx, tb>>
  PROVE  IndInv'
<1> USE DEF IndInv
<1>1. /\ \A g \in Hosts : pc'[g] = IF g = h THEN "create_map" ELSE pc[g]
  BY DEF TypeOK
<1>2. \A g \in Hosts, x \in Contexts : FrameCount(g, x)' = FrameCount(g, x)
  BY DEF FrameCount, ActiveFrames
<1>3. \A g \in Hosts, x \in Contexts : FrameCount(g, x) \in Nat
  BY FramesFinite
<1>4. token[c] = h /\ \A g \in Hosts : g # h /\ pc[g] \notin Loose => ctx[g] # c
  BY StepKinds DEF HoldInv, CallInv
<1> USE <1>1, <1>4, Typing, StepKinds, ThreadContextAssumption
<1>5. TypeOK'
  BY OpNames DEF TypeOK
<1>6. CallInv'
  BY DEF CallInv
<1>7. HoldInv'
  BY DEF HoldInv, CallInv
<1>8. QuietInv'
  BY <1>2, <1>3 DEF QuietInv, CallInv, FrameInv
<1>9. FrameInv'
  BY <1>2, <1>3 DEF FrameInv, HoldInv, CallInv, QuietInv
<1>10. NamedInv'
  BY <1>2, <1>3 DEF NamedInv, CallInv, HoldInv
<1>11. LeaseInv'
  BY DEF LeaseInv, CallInv, MayUse, MayDestroy
<1>12. OwnerInv'
  BY DEF OwnerInv, CallInv, LeaseInv, AttachInv, ReserveInv, PagesInv,
      CanAttach, CanDetach
<1>13. AttachInv'
  BY DEF AttachInv, CallInv, LeaseInv, OwnerInv, PagesInv, CanAttach,
      CanDetach
<1>14. ReserveInv'
  BY DEF ReserveInv, CallInv, HoldInv
<1>15. PagesInv'
  BY DEF PagesInv, CallInv, LeaseInv, OwnerInv, UnmapInv, MayDestroy
<1>16. MapInv'
  BY DEF MapInv, CallInv, LeaseInv, OwnerInv, PagesInv, ReserveInv
<1>17. UnmapInv'
  BY DEF UnmapInv, CallInv, LeaseInv, PagesInv
<1>18. CountInv'
  BY <1>2, <1>3 DEF CountInv, CallInv, HoldInv, FrameInv, QuietInv
<1>19. /\ ScopeUsers' = ScopeUsers
      /\ CallUsers' = CallUsers \cup {h} /\ h \notin CallUsers
      /\ TebUsers' = TebUsers
  <2>1. ScopeUsers' = ScopeUsers
    BY DEF ScopeUsers, HoldingFrames
  <2>2. CallUsers' = CallUsers \cup {h} /\ h \notin CallUsers
    BY DEF CallUsers, Owing
  <2>3. \A a \in Tebs : Disowned(a)' <=> Disowned(a)
    BY DEF Disowned, CallInv, LeaseInv, PagesInv, OwnerInv, AttachInv
  <2>4. TebUsers' = TebUsers
    BY <2>3 DEF TebUsers
  <2>6. QED
    BY <2>1, <2>2, <2>4
<1>20. ReferencesExact'
  <2>1. Cardinality(CallUsers') = Cardinality(CallUsers) + 1
    BY <1>19, UsersFinite, FS_AddElement
  <2>2. QED
    BY <1>19, <2>1, UsersFinite DEF ReferencesExact
<1>21. AliveInv'
  BY DEF AliveInv, CallInv, Usable, HasProcess
<1>22. LastErrorSurvives'
  BY DEF LastErrorSurvives, CallInv, OwnerInv, AttachInv, PagesInv, LeaseInv,
      CanAttach, CanDetach
<1>23. QED
  BY <1>5, <1>6, <1>7, <1>8, <1>9, <1>10, <1>11, <1>12, <1>13, <1>14, <1>15,
      <1>16, <1>17, <1>18, <1>20, <1>21, <1>22

(* The process cannot be retained once more. *)
LEMMA CreateRetainFailsStep ==
  ASSUME IndInv, NEW h \in Hosts, NEW c \in Contexts,
         pc[h] = "create_retain",
         ctx[h] = c,
         pc' = [pc EXCEPT ![h] = "create_unreserve"],
         UNCHANGED <<token, scopeCount, owner, teb, lastError, expected,
                      tebThread, mapped, attached, tebError, refs, alive,
                      chain, op, ctx, tb>>
  PROVE  IndInv'
<1> USE DEF IndInv
<1>1. /\ \A g \in Hosts : pc'[g] = IF g = h THEN "create_unreserve" ELSE pc[g]
  BY DEF TypeOK
<1>2. \A g \in Hosts, x \in Contexts : FrameCount(g, x)' = FrameCount(g, x)
  BY DEF FrameCount, ActiveFrames
<1>3. \A g \in Hosts, x \in Contexts : FrameCount(g, x) \in Nat
  BY FramesFinite
<1>4. token[c] = h /\ \A g \in Hosts : g # h /\ pc[g] \notin Loose => ctx[g] # c
  BY StepKinds DEF HoldInv, CallInv
<1> USE <1>1, <1>4, Typing, StepKinds, ThreadContextAssumption
<1>5. TypeOK'
  BY OpNames DEF TypeOK
<1>6. CallInv'
  BY DEF CallInv
<1>7. HoldInv'
  BY DEF HoldInv, CallInv
<1>8. QuietInv'
  BY <1>2, <1>3 DEF QuietInv, CallInv, FrameInv
<1>9. FrameInv'
  BY <1>2, <1>3 DEF FrameInv, HoldInv, CallInv, QuietInv
<1>10. NamedInv'
  BY <1>2, <1>3 DEF NamedInv, CallInv, HoldInv
<1>11. LeaseInv'
  BY DEF LeaseInv, CallInv, MayUse, MayDestroy
<1>12. OwnerInv'
  BY DEF OwnerInv, CallInv, LeaseInv, AttachInv, ReserveInv, PagesInv,
      CanAttach, CanDetach
<1>13. AttachInv'
  BY DEF AttachInv, CallInv, LeaseInv, OwnerInv, PagesInv, CanAttach,
      CanDetach
<1>14. ReserveInv'
  BY DEF ReserveInv, CallInv, HoldInv
<1>15. PagesInv'
  BY DEF PagesInv, CallInv, LeaseInv, OwnerInv, UnmapInv, MayDestroy
<1>16. MapInv'
  BY DEF MapInv, CallInv, LeaseInv, OwnerInv, PagesInv, ReserveInv
<1>17. UnmapInv'
  BY DEF UnmapInv, CallInv, LeaseInv, PagesInv
<1>18. CountInv'
  BY <1>2, <1>3 DEF CountInv, CallInv, HoldInv, FrameInv, QuietInv
<1>19. ScopeUsers' = ScopeUsers /\ CallUsers' = CallUsers /\ TebUsers' = TebUsers
  <2>1. ScopeUsers' = ScopeUsers
    BY DEF ScopeUsers, HoldingFrames
  <2>2. CallUsers' = CallUsers
    BY DEF CallUsers, Owing
  <2>3. \A a \in Tebs : Disowned(a)' <=> Disowned(a)
    BY DEF Disowned, CallInv, LeaseInv, PagesInv, OwnerInv, AttachInv
  <2>4. TebUsers' = TebUsers
    BY <2>3 DEF TebUsers
  <2>5. QED
    BY <2>1, <2>2, <2>4
<1>20. ReferencesExact'
  BY <1>19 DEF ReferencesExact
<1>21. AliveInv'
  BY DEF AliveInv, CallInv, Usable, HasProcess
<1>22. LastErrorSurvives'
  BY DEF LastErrorSurvives, CallInv, OwnerInv, AttachInv, PagesInv, LeaseInv,
      CanAttach, CanDetach
<1>23. QED
  BY <1>5, <1>6, <1>7, <1>8, <1>9, <1>10, <1>11, <1>12, <1>13, <1>14, <1>15,
      <1>16, <1>17, <1>18, <1>20, <1>21, <1>22

(* The TEB is allocated, mapped and filled in. *)
LEMMA CreateMapStep ==
  ASSUME IndInv, NEW h \in Hosts, NEW c \in Contexts, NEW b \in Tebs,
         pc[h] = "create_map",
         ctx[h] = c,
         tebThread[b] = None,
         tebThread' = [tebThread EXCEPT ![b] = c],
         mapped' = [mapped EXCEPT ![b] = TRUE],
         attached' = [attached EXCEPT ![b] = FALSE],
         tebError' = [tebError EXCEPT ![b] = lastError[c]],
         pc' = [pc EXCEPT ![h] = "create_publish"],
         tb' = [tb EXCEPT ![h] = b],
         UNCHANGED <<token, scopeCount, owner, teb, lastError, expected, refs,
                      alive, chain, op, ctx>>
  PROVE  IndInv'
<1> USE DEF IndInv
<1>1. /\ \A x \in Tebs : tebThread'[x] = IF x = b THEN c ELSE tebThread[x]
      /\ \A x \in Tebs : mapped'[x] <=> x = b \/ mapped[x]
      /\ \A x \in Tebs : attached'[x] <=> x # b /\ attached[x]
      /\ \A x \in Tebs :
            tebError'[x] = IF x = b THEN lastError[c]
                           ELSE tebError[x]
      /\ \A g \in Hosts : pc'[g] = IF g = h THEN "create_publish" ELSE pc[g]
      /\ \A g \in Hosts : tb'[g] = IF g = h THEN b ELSE tb[g]
  BY DEF TypeOK
<1>2. \A g \in Hosts, x \in Contexts : FrameCount(g, x)' = FrameCount(g, x)
  BY DEF FrameCount, ActiveFrames
<1>3. \A g \in Hosts, x \in Contexts : FrameCount(g, x) \in Nat
  BY FramesFinite
<1>4. token[c] = h /\ \A g \in Hosts : g # h /\ pc[g] \notin Loose => ctx[g] # c
  BY StepKinds DEF HoldInv, CallInv
<1> USE <1>1, <1>4, Typing, StepKinds, ThreadContextAssumption
<1>5. TypeOK'
  BY OpNames DEF TypeOK
<1>6. CallInv'
  BY DEF CallInv
<1>7. HoldInv'
  BY DEF HoldInv, CallInv
<1>8. QuietInv'
  BY <1>2, <1>3 DEF QuietInv, CallInv, FrameInv
<1>9. FrameInv'
  BY <1>2, <1>3 DEF FrameInv, HoldInv, CallInv, QuietInv
<1>10. NamedInv'
  BY <1>2, <1>3 DEF NamedInv, CallInv, HoldInv
<1>11. LeaseInv'
  BY DEF LeaseInv, CallInv, MayUse, MayDestroy
<1>12. OwnerInv'
  BY DEF OwnerInv, CallInv, LeaseInv, AttachInv, ReserveInv, PagesInv,
      CanAttach, CanDetach
<1>13. AttachInv'
  BY DEF AttachInv, CallInv, LeaseInv, OwnerInv, PagesInv, CanAttach,
      CanDetach
<1>14. ReserveInv'
  BY DEF ReserveInv, CallInv, HoldInv
<1>15. PagesInv'
  BY DEF PagesInv, CallInv, LeaseInv, OwnerInv, UnmapInv, MayDestroy
<1>16. MapInv'
  BY DEF MapInv, CallInv, LeaseInv, OwnerInv, PagesInv, ReserveInv
<1>17. UnmapInv'
  BY DEF UnmapInv, CallInv, LeaseInv, PagesInv
<1>18. CountInv'
  BY <1>2, <1>3 DEF CountInv, CallInv, HoldInv, FrameInv, QuietInv
<1>19. /\ ScopeUsers' = ScopeUsers
      /\ CallUsers' = CallUsers \ {h} /\ h \in CallUsers
      /\ TebUsers' = TebUsers \cup {b} /\ b \notin TebUsers
  <2>1. ScopeUsers' = ScopeUsers
    BY DEF ScopeUsers, HoldingFrames
  <2>2. CallUsers' = CallUsers \ {h} /\ h \in CallUsers
    BY DEF CallUsers, Owing
  <2>3. \A a \in Tebs : Disowned(a)' <=> (a # b /\ Disowned(a))
    BY DEF Disowned, CallInv, LeaseInv, PagesInv, OwnerInv, AttachInv
  <2>4. TebUsers' = TebUsers \cup {b} /\ b \notin TebUsers
    BY <2>3 DEF TebUsers
  <2>5. QED
    BY <2>1, <2>2, <2>4
<1>20. ReferencesExact'
  <2>1. Cardinality(CallUsers') = Cardinality(CallUsers) - 1
    BY <1>19, UsersFinite, FS_RemoveElement
  <2>2. Cardinality(TebUsers') = Cardinality(TebUsers) + 1
    BY <1>19, UsersFinite, FS_AddElement
  <2>3. QED
    BY <1>19, <2>1, <2>2, UsersFinite DEF ReferencesExact
<1>21. AliveInv'
  BY DEF AliveInv, CallInv, Usable, HasProcess
<1>22. LastErrorSurvives'
  BY DEF LastErrorSurvives, CallInv, OwnerInv, AttachInv, PagesInv, LeaseInv,
      CanAttach, CanDetach
<1>23. QED
  BY <1>5, <1>6, <1>7, <1>8, <1>9, <1>10, <1>11, <1>12, <1>13, <1>14, <1>15,
      <1>16, <1>17, <1>18, <1>20, <1>21, <1>22

(* The TEB cannot be mapped. *)
LEMMA CreateMapFailsStep ==
  ASSUME IndInv, NEW h \in Hosts, NEW c \in Contexts,
         pc[h] = "create_map",
         ctx[h] = c,
         pc' = [pc EXCEPT ![h] = "create_unretain"],
         UNCHANGED <<token, scopeCount, owner, teb, lastError, expected,
                      tebThread, mapped, attached, tebError, refs, alive,
                      chain, op, ctx, tb>>
  PROVE  IndInv'
<1> USE DEF IndInv
<1>1. /\ \A g \in Hosts : pc'[g] = IF g = h THEN "create_unretain" ELSE pc[g]
  BY DEF TypeOK
<1>2. \A g \in Hosts, x \in Contexts : FrameCount(g, x)' = FrameCount(g, x)
  BY DEF FrameCount, ActiveFrames
<1>3. \A g \in Hosts, x \in Contexts : FrameCount(g, x) \in Nat
  BY FramesFinite
<1>4. token[c] = h /\ \A g \in Hosts : g # h /\ pc[g] \notin Loose => ctx[g] # c
  BY StepKinds DEF HoldInv, CallInv
<1> USE <1>1, <1>4, Typing, StepKinds, ThreadContextAssumption
<1>5. TypeOK'
  BY OpNames DEF TypeOK
<1>6. CallInv'
  BY DEF CallInv
<1>7. HoldInv'
  BY DEF HoldInv, CallInv
<1>8. QuietInv'
  BY <1>2, <1>3 DEF QuietInv, CallInv, FrameInv
<1>9. FrameInv'
  BY <1>2, <1>3 DEF FrameInv, HoldInv, CallInv, QuietInv
<1>10. NamedInv'
  BY <1>2, <1>3 DEF NamedInv, CallInv, HoldInv
<1>11. LeaseInv'
  BY DEF LeaseInv, CallInv, MayUse, MayDestroy
<1>12. OwnerInv'
  BY DEF OwnerInv, CallInv, LeaseInv, AttachInv, ReserveInv, PagesInv,
      CanAttach, CanDetach
<1>13. AttachInv'
  BY DEF AttachInv, CallInv, LeaseInv, OwnerInv, PagesInv, CanAttach,
      CanDetach
<1>14. ReserveInv'
  BY DEF ReserveInv, CallInv, HoldInv
<1>15. PagesInv'
  BY DEF PagesInv, CallInv, LeaseInv, OwnerInv, UnmapInv, MayDestroy
<1>16. MapInv'
  BY DEF MapInv, CallInv, LeaseInv, OwnerInv, PagesInv, ReserveInv
<1>17. UnmapInv'
  BY DEF UnmapInv, CallInv, LeaseInv, PagesInv
<1>18. CountInv'
  BY <1>2, <1>3 DEF CountInv, CallInv, HoldInv, FrameInv, QuietInv
<1>19. ScopeUsers' = ScopeUsers /\ CallUsers' = CallUsers /\ TebUsers' = TebUsers
  <2>1. ScopeUsers' = ScopeUsers
    BY DEF ScopeUsers, HoldingFrames
  <2>2. CallUsers' = CallUsers
    BY DEF CallUsers, Owing
  <2>3. \A a \in Tebs : Disowned(a)' <=> Disowned(a)
    BY DEF Disowned, CallInv, LeaseInv, PagesInv, OwnerInv, AttachInv
  <2>4. TebUsers' = TebUsers
    BY <2>3 DEF TebUsers
  <2>5. QED
    BY <2>1, <2>2, <2>4
<1>20. ReferencesExact'
  BY <1>19 DEF ReferencesExact
<1>21. AliveInv'
  BY DEF AliveInv, CallInv, Usable, HasProcess
<1>22. LastErrorSurvives'
  BY DEF LastErrorSurvives, CallInv, OwnerInv, AttachInv, PagesInv, LeaseInv,
      CanAttach, CanDetach
<1>23. QED
  BY <1>5, <1>6, <1>7, <1>8, <1>9, <1>10, <1>11, <1>12, <1>13, <1>14, <1>15,
      <1>16, <1>17, <1>18, <1>20, <1>21, <1>22

(* The reference taken for the TEB is given back. *)
LEMMA CreateUnretainStep ==
  ASSUME IndInv, NEW h \in Hosts, NEW c \in Contexts,
         pc[h] = "create_unretain",
         ctx[h] = c,
         refs > 0,
         refs' = refs - 1,
         pc' = [pc EXCEPT ![h] = "create_unreserve"],
         UNCHANGED <<token, scopeCount, owner, teb, lastError, expected,
                      tebThread, mapped, attached, tebError, alive, chain, op,
                      ctx, tb>>
  PROVE  IndInv'
<1> USE DEF IndInv
<1>1. /\ \A g \in Hosts : pc'[g] = IF g = h THEN "create_unreserve" ELSE pc[g]
  BY DEF TypeOK
<1>2. \A g \in Hosts, x \in Contexts : FrameCount(g, x)' = FrameCount(g, x)
  BY DEF FrameCount, ActiveFrames
<1>3. \A g \in Hosts, x \in Contexts : FrameCount(g, x) \in Nat
  BY FramesFinite
<1>4. token[c] = h /\ \A g \in Hosts : g # h /\ pc[g] \notin Loose => ctx[g] # c
  BY StepKinds DEF HoldInv, CallInv
<1> USE <1>1, <1>4, Typing, StepKinds, ThreadContextAssumption
<1>5. TypeOK'
  BY OpNames DEF TypeOK
<1>6. CallInv'
  BY DEF CallInv
<1>7. HoldInv'
  BY DEF HoldInv, CallInv
<1>8. QuietInv'
  BY <1>2, <1>3 DEF QuietInv, CallInv, FrameInv
<1>9. FrameInv'
  BY <1>2, <1>3 DEF FrameInv, HoldInv, CallInv, QuietInv
<1>10. NamedInv'
  BY <1>2, <1>3 DEF NamedInv, CallInv, HoldInv
<1>11. LeaseInv'
  BY DEF LeaseInv, CallInv, MayUse, MayDestroy
<1>12. OwnerInv'
  BY DEF OwnerInv, CallInv, LeaseInv, AttachInv, ReserveInv, PagesInv,
      CanAttach, CanDetach
<1>13. AttachInv'
  BY DEF AttachInv, CallInv, LeaseInv, OwnerInv, PagesInv, CanAttach,
      CanDetach
<1>14. ReserveInv'
  BY DEF ReserveInv, CallInv, HoldInv
<1>15. PagesInv'
  BY DEF PagesInv, CallInv, LeaseInv, OwnerInv, UnmapInv, MayDestroy
<1>16. MapInv'
  BY DEF MapInv, CallInv, LeaseInv, OwnerInv, PagesInv, ReserveInv
<1>17. UnmapInv'
  BY DEF UnmapInv, CallInv, LeaseInv, PagesInv
<1>18. CountInv'
  BY <1>2, <1>3 DEF CountInv, CallInv, HoldInv, FrameInv, QuietInv
<1>19. /\ ScopeUsers' = ScopeUsers
      /\ CallUsers' = CallUsers \ {h} /\ h \in CallUsers
      /\ TebUsers' = TebUsers
  <2>1. ScopeUsers' = ScopeUsers
    BY DEF ScopeUsers, HoldingFrames
  <2>2. CallUsers' = CallUsers \ {h} /\ h \in CallUsers
    BY DEF CallUsers, Owing
  <2>3. \A a \in Tebs : Disowned(a)' <=> Disowned(a)
    BY DEF Disowned, CallInv, LeaseInv, PagesInv, OwnerInv, AttachInv
  <2>4. TebUsers' = TebUsers
    BY <2>3 DEF TebUsers
  <2>6. QED
    BY <2>1, <2>2, <2>4
<1>20. ReferencesExact'
  <2>1. Cardinality(CallUsers') = Cardinality(CallUsers) - 1
    BY <1>19, UsersFinite, FS_RemoveElement
  <2>2. QED
    BY <1>19, <2>1, UsersFinite DEF ReferencesExact
<1>21. AliveInv'
  BY DEF AliveInv, CallInv, Usable, HasProcess
<1>22. LastErrorSurvives'
  BY DEF LastErrorSurvives, CallInv, OwnerInv, AttachInv, PagesInv, LeaseInv,
      CanAttach, CanDetach
<1>23. QED
  BY <1>5, <1>6, <1>7, <1>8, <1>9, <1>10, <1>11, <1>12, <1>13, <1>14, <1>15,
      <1>16, <1>17, <1>18, <1>20, <1>21, <1>22

(* The reservation is given back. *)
LEMMA CreateUnreserveStep ==
  ASSUME IndInv, NEW h \in Hosts, NEW c \in Contexts,
         pc[h] = "create_unreserve",
         ctx[h] = c,
         owner' = [owner EXCEPT ![c] = None],
         pc' = [pc EXCEPT ![h] = "release"],
         UNCHANGED <<token, scopeCount, teb, lastError, expected, tebThread,
                      mapped, attached, tebError, refs, alive, chain, op, ctx,
                      tb>>
  PROVE  IndInv'
<1> USE DEF IndInv
<1>1. /\ \A x \in Contexts : owner'[x] = IF x = c THEN None ELSE owner[x]
      /\ \A g \in Hosts : pc'[g] = IF g = h THEN "release" ELSE pc[g]
  BY DEF TypeOK
<1>2. \A g \in Hosts, x \in Contexts : FrameCount(g, x)' = FrameCount(g, x)
  BY DEF FrameCount, ActiveFrames
<1>3. \A g \in Hosts, x \in Contexts : FrameCount(g, x) \in Nat
  BY FramesFinite
<1>4. token[c] = h /\ \A g \in Hosts : g # h /\ pc[g] \notin Loose => ctx[g] # c
  BY StepKinds DEF HoldInv, CallInv
<1> USE <1>1, <1>4, Typing, StepKinds, ThreadContextAssumption
<1>5. TypeOK'
  BY OpNames DEF TypeOK
<1>6. CallInv'
  BY DEF CallInv
<1>7. HoldInv'
  BY DEF HoldInv, CallInv
<1>8. QuietInv'
  BY <1>2, <1>3 DEF QuietInv, CallInv, FrameInv
<1>9. FrameInv'
  BY <1>2, <1>3 DEF FrameInv, HoldInv, CallInv, QuietInv
<1>10. NamedInv'
  BY <1>2, <1>3 DEF NamedInv, CallInv, HoldInv
<1>11. LeaseInv'
  BY DEF LeaseInv, CallInv, MayUse, MayDestroy
<1>12. OwnerInv'
  BY DEF OwnerInv, CallInv, LeaseInv, AttachInv, ReserveInv, PagesInv,
      CanAttach, CanDetach
<1>13. AttachInv'
  BY DEF AttachInv, CallInv, LeaseInv, OwnerInv, PagesInv, CanAttach,
      CanDetach
<1>14. ReserveInv'
  <2> SUFFICES ASSUME NEW g \in Hosts, pc'[g] \in Reserving
               PROVE  owner'[ctx'[g]] = Reserved
    BY DEF ReserveInv
  <2>1. CASE g = h
    BY <2>1
  <2>2. CASE g # h
    <3>1. pc[g] \in Reserving /\ pc[g] \notin Loose
      BY <2>2 DEF Reserving, Loose
    <3>2. ctx[g] \in Contexts /\ ctx[g] # c
      BY <2>2, <3>1 DEF CallInv
    <3>3. QED
      BY <2>2, <3>1, <3>2 DEF ReserveInv
  <2>3. QED
    BY <2>1, <2>2
<1>15. PagesInv'
  BY DEF PagesInv, CallInv, LeaseInv, OwnerInv, UnmapInv, MayDestroy
<1>16. MapInv'
  BY DEF MapInv, CallInv, LeaseInv, OwnerInv, PagesInv, ReserveInv
<1>17. UnmapInv'
  BY DEF UnmapInv, CallInv, LeaseInv, PagesInv
<1>18. CountInv'
  BY <1>2, <1>3 DEF CountInv, CallInv, HoldInv, FrameInv, QuietInv
<1>19. ScopeUsers' = ScopeUsers /\ CallUsers' = CallUsers /\ TebUsers' = TebUsers
  <2>1. ScopeUsers' = ScopeUsers
    BY DEF ScopeUsers, HoldingFrames
  <2>2. CallUsers' = CallUsers
    BY DEF CallUsers, Owing
  <2>3. \A a \in Tebs : Disowned(a)' <=> Disowned(a)
    BY DEF Disowned, CallInv, LeaseInv, PagesInv, OwnerInv, AttachInv
  <2>4. TebUsers' = TebUsers
    BY <2>3 DEF TebUsers
  <2>5. QED
    BY <2>1, <2>2, <2>4
<1>20. ReferencesExact'
  BY <1>19 DEF ReferencesExact
<1>21. AliveInv'
  BY DEF AliveInv, CallInv, Usable, HasProcess
<1>22. LastErrorSurvives'
  BY DEF LastErrorSurvives, CallInv, OwnerInv, AttachInv, PagesInv, LeaseInv,
      CanAttach, CanDetach
<1>23. QED
  BY <1>5, <1>6, <1>7, <1>8, <1>9, <1>10, <1>11, <1>12, <1>13, <1>14, <1>15,
      <1>16, <1>17, <1>18, <1>20, <1>21, <1>22

(* The context owns the new TEB. *)
LEMMA CreatePublishStep ==
  ASSUME IndInv, NEW h \in Hosts, NEW c \in Contexts, NEW b \in Tebs,
         pc[h] = "create_publish",
         ctx[h] = c,
         tb[h] = b,
         owner' = [owner EXCEPT ![c] = b],
         pc' = [pc EXCEPT ![h] = "release"],
         UNCHANGED <<token, scopeCount, teb, lastError, expected, tebThread,
                      mapped, attached, tebError, refs, alive, chain, op, ctx,
                      tb>>
  PROVE  IndInv'
<1> USE DEF IndInv
<1>1. /\ \A x \in Contexts : owner'[x] = IF x = c THEN b ELSE owner[x]
      /\ \A g \in Hosts : pc'[g] = IF g = h THEN "release" ELSE pc[g]
  BY DEF TypeOK
<1>2. \A g \in Hosts, x \in Contexts : FrameCount(g, x)' = FrameCount(g, x)
  BY DEF FrameCount, ActiveFrames
<1>3. \A g \in Hosts, x \in Contexts : FrameCount(g, x) \in Nat
  BY FramesFinite
<1>4. token[c] = h /\ \A g \in Hosts : g # h /\ pc[g] \notin Loose => ctx[g] # c
  BY StepKinds DEF HoldInv, CallInv
<1> USE <1>1, <1>4, Typing, StepKinds, ThreadContextAssumption
<1>5. TypeOK'
  BY OpNames DEF TypeOK
<1>6. CallInv'
  BY DEF CallInv
<1>7. HoldInv'
  BY DEF HoldInv, CallInv
<1>8. QuietInv'
  BY <1>2, <1>3 DEF QuietInv, CallInv, FrameInv
<1>9. FrameInv'
  BY <1>2, <1>3 DEF FrameInv, HoldInv, CallInv, QuietInv
<1>10. NamedInv'
  BY <1>2, <1>3 DEF NamedInv, CallInv, HoldInv
<1>11. LeaseInv'
  BY DEF LeaseInv, CallInv, MayUse, MayDestroy
<1>12. OwnerInv'
  BY DEF OwnerInv, CallInv, LeaseInv, AttachInv, ReserveInv, PagesInv,
      CanAttach, CanDetach
<1>13. AttachInv'
  BY DEF AttachInv, CallInv, LeaseInv, OwnerInv, PagesInv, CanAttach,
      CanDetach
<1>14. ReserveInv'
  <2> SUFFICES ASSUME NEW g \in Hosts, pc'[g] \in Reserving
               PROVE  owner'[ctx'[g]] = Reserved
    BY DEF ReserveInv
  <2>1. CASE g = h
    BY <2>1
  <2>2. CASE g # h
    <3>1. pc[g] \in Reserving /\ pc[g] \notin Loose
      BY <2>2 DEF Reserving, Loose
    <3>2. ctx[g] \in Contexts /\ ctx[g] # c
      BY <2>2, <3>1 DEF CallInv
    <3>3. QED
      BY <2>2, <3>1, <3>2 DEF ReserveInv
  <2>3. QED
    BY <2>1, <2>2
<1>15. PagesInv'
  BY DEF PagesInv, CallInv, LeaseInv, OwnerInv, UnmapInv, MayDestroy
<1>16. MapInv'
  BY DEF MapInv, CallInv, LeaseInv, OwnerInv, PagesInv, ReserveInv
<1>17. UnmapInv'
  BY DEF UnmapInv, CallInv, LeaseInv, PagesInv
<1>18. CountInv'
  BY <1>2, <1>3 DEF CountInv, CallInv, HoldInv, FrameInv, QuietInv
<1>19. ScopeUsers' = ScopeUsers /\ CallUsers' = CallUsers /\ TebUsers' = TebUsers
  <2>1. ScopeUsers' = ScopeUsers
    BY DEF ScopeUsers, HoldingFrames
  <2>2. CallUsers' = CallUsers
    BY DEF CallUsers, Owing
  <2>3. \A a \in Tebs : Disowned(a)' <=> Disowned(a)
    BY DEF Disowned, CallInv, LeaseInv, PagesInv, OwnerInv, AttachInv
  <2>4. TebUsers' = TebUsers
    BY <2>3 DEF TebUsers
  <2>5. QED
    BY <2>1, <2>2, <2>4
<1>20. ReferencesExact'
  BY <1>19 DEF ReferencesExact
<1>21. AliveInv'
  BY DEF AliveInv, CallInv, Usable, HasProcess
<1>22. LastErrorSurvives'
  BY DEF LastErrorSurvives, CallInv, OwnerInv, AttachInv, PagesInv, LeaseInv,
      CanAttach, CanDetach
<1>23. QED
  BY <1>5, <1>6, <1>7, <1>8, <1>9, <1>10, <1>11, <1>12, <1>13, <1>14, <1>15,
      <1>16, <1>17, <1>18, <1>20, <1>21, <1>22

(* sl_win32_teb_destroy claims the context of the TEB. *)
LEMMA DestroyStep ==
  ASSUME IndInv, NEW h \in Hosts, NEW c \in Contexts, NEW b \in Tebs,
         pc[h] = "idle",
         MayDestroy(b),
         tebThread[b] = c,
         token[c] = Free,
         token' = [token EXCEPT ![c] = h],
         pc' = [pc EXCEPT ![h] = "destroy_check"],
         op' = [op EXCEPT ![h] = "destroy"],
         ctx' = [ctx EXCEPT ![h] = c],
         tb' = [tb EXCEPT ![h] = b],
         UNCHANGED <<scopeCount, owner, teb, lastError, expected, tebThread,
                      mapped, attached, tebError, refs, alive, chain>>
  PROVE  IndInv'
<1> USE DEF IndInv
<1>1. /\ \A x \in Contexts : token'[x] = IF x = c THEN h ELSE token[x]
      /\ \A g \in Hosts : pc'[g] = IF g = h THEN "destroy_check" ELSE pc[g]
      /\ \A g \in Hosts : op'[g] = IF g = h THEN "destroy" ELSE op[g]
      /\ \A g \in Hosts : ctx'[g] = IF g = h THEN c ELSE ctx[g]
      /\ \A g \in Hosts : tb'[g] = IF g = h THEN b ELSE tb[g]
  BY DEF TypeOK
<1>2. \A g \in Hosts, x \in Contexts : FrameCount(g, x)' = FrameCount(g, x)
  BY DEF FrameCount, ActiveFrames
<1>3. \A g \in Hosts, x \in Contexts : FrameCount(g, x) \in Nat
  BY FramesFinite
<1> USE <1>1, Typing, StepKinds, ThreadContextAssumption
<1>4. TypeOK'
  BY OpNames DEF TypeOK
<1>5. CallInv'
  BY DEF CallInv
<1>6. HoldInv'
  BY DEF HoldInv, CallInv
<1>7. QuietInv'
  BY <1>2, <1>3 DEF QuietInv, CallInv, FrameInv
<1>8. FrameInv'
  BY <1>2, <1>3 DEF FrameInv, HoldInv, CallInv, QuietInv
<1>9. NamedInv'
  BY <1>2, <1>3 DEF NamedInv, CallInv, HoldInv
<1>10. LeaseInv'
  BY DEF LeaseInv, CallInv, MayUse, MayDestroy
<1>11. OwnerInv'
  BY DEF OwnerInv, CallInv, LeaseInv, AttachInv, ReserveInv, PagesInv,
      CanAttach, CanDetach
<1>12. AttachInv'
  BY DEF AttachInv, CallInv, LeaseInv, OwnerInv, PagesInv, CanAttach,
      CanDetach
<1>13. ReserveInv'
  BY DEF ReserveInv, CallInv, HoldInv
<1>14. PagesInv'
  BY DEF PagesInv, CallInv, LeaseInv, OwnerInv, UnmapInv, MayDestroy
<1>15. MapInv'
  BY DEF MapInv, CallInv, LeaseInv, OwnerInv, PagesInv, ReserveInv
<1>16. UnmapInv'
  BY DEF UnmapInv, CallInv, LeaseInv, PagesInv
<1>17. CountInv'
  BY <1>2, <1>3 DEF CountInv, CallInv, HoldInv, FrameInv, QuietInv
<1>18. ScopeUsers' = ScopeUsers /\ CallUsers' = CallUsers /\ TebUsers' = TebUsers
  <2>1. ScopeUsers' = ScopeUsers
    BY DEF ScopeUsers, HoldingFrames
  <2>2. CallUsers' = CallUsers
    BY DEF CallUsers, Owing
  <2>3. \A a \in Tebs : Disowned(a)' <=> Disowned(a)
    BY DEF Disowned, CallInv, LeaseInv, PagesInv, OwnerInv, AttachInv
  <2>4. TebUsers' = TebUsers
    BY <2>3 DEF TebUsers
  <2>5. QED
    BY <2>1, <2>2, <2>4
<1>19. ReferencesExact'
  BY <1>18 DEF ReferencesExact
<1>20. AliveInv'
  BY DEF AliveInv, CallInv, Usable, HasProcess
<1>21. LastErrorSurvives'
  BY DEF LastErrorSurvives, CallInv, OwnerInv, AttachInv, PagesInv, LeaseInv,
      CanAttach, CanDetach
<1>22. QED
  BY <1>4, <1>5, <1>6, <1>7, <1>8, <1>9, <1>10, <1>11, <1>12, <1>13, <1>14,
      <1>15, <1>16, <1>17, <1>19, <1>20, <1>21

(* The TEB is not attached. *)
LEMMA DestroyCheckStep ==
  ASSUME IndInv, NEW h \in Hosts, NEW c \in Contexts, NEW b \in Tebs,
         pc[h] = "destroy_check",
         ctx[h] = c,
         tb[h] = b,
         ~attached[b],
         pc' = [pc EXCEPT ![h] = "destroy_reserve"],
         UNCHANGED <<token, scopeCount, owner, teb, lastError, expected,
                      tebThread, mapped, attached, tebError, refs, alive,
                      chain, op, ctx, tb>>
  PROVE  IndInv'
<1> USE DEF IndInv
<1>1. /\ \A g \in Hosts : pc'[g] = IF g = h THEN "destroy_reserve" ELSE pc[g]
  BY DEF TypeOK
<1>2. \A g \in Hosts, x \in Contexts : FrameCount(g, x)' = FrameCount(g, x)
  BY DEF FrameCount, ActiveFrames
<1>3. \A g \in Hosts, x \in Contexts : FrameCount(g, x) \in Nat
  BY FramesFinite
<1>4. token[c] = h /\ \A g \in Hosts : g # h /\ pc[g] \notin Loose => ctx[g] # c
  BY StepKinds DEF HoldInv, CallInv
<1> USE <1>1, <1>4, Typing, StepKinds, ThreadContextAssumption
<1>5. TypeOK'
  BY OpNames DEF TypeOK
<1>6. CallInv'
  BY DEF CallInv
<1>7. HoldInv'
  BY DEF HoldInv, CallInv
<1>8. QuietInv'
  BY <1>2, <1>3 DEF QuietInv, CallInv, FrameInv
<1>9. FrameInv'
  BY <1>2, <1>3 DEF FrameInv, HoldInv, CallInv, QuietInv
<1>10. NamedInv'
  BY <1>2, <1>3 DEF NamedInv, CallInv, HoldInv
<1>11. LeaseInv'
  BY DEF LeaseInv, CallInv, MayUse, MayDestroy
<1>12. OwnerInv'
  BY DEF OwnerInv, CallInv, LeaseInv, AttachInv, ReserveInv, PagesInv,
      CanAttach, CanDetach
<1>13. AttachInv'
  BY DEF AttachInv, CallInv, LeaseInv, OwnerInv, PagesInv, CanAttach,
      CanDetach
<1>14. ReserveInv'
  BY DEF ReserveInv, CallInv, HoldInv
<1>15. PagesInv'
  BY DEF PagesInv, CallInv, LeaseInv, OwnerInv, UnmapInv, MayDestroy
<1>16. MapInv'
  BY DEF MapInv, CallInv, LeaseInv, OwnerInv, PagesInv, ReserveInv
<1>17. UnmapInv'
  BY DEF UnmapInv, CallInv, LeaseInv, PagesInv
<1>18. CountInv'
  BY <1>2, <1>3 DEF CountInv, CallInv, HoldInv, FrameInv, QuietInv
<1>19. ScopeUsers' = ScopeUsers /\ CallUsers' = CallUsers /\ TebUsers' = TebUsers
  <2>1. ScopeUsers' = ScopeUsers
    BY DEF ScopeUsers, HoldingFrames
  <2>2. CallUsers' = CallUsers
    BY DEF CallUsers, Owing
  <2>3. \A a \in Tebs : Disowned(a)' <=> Disowned(a)
    BY DEF Disowned, CallInv, LeaseInv, PagesInv, OwnerInv, AttachInv
  <2>4. TebUsers' = TebUsers
    BY <2>3 DEF TebUsers
  <2>5. QED
    BY <2>1, <2>2, <2>4
<1>20. ReferencesExact'
  BY <1>19 DEF ReferencesExact
<1>21. AliveInv'
  BY DEF AliveInv, CallInv, Usable, HasProcess
<1>22. LastErrorSurvives'
  BY DEF LastErrorSurvives, CallInv, OwnerInv, AttachInv, PagesInv, LeaseInv,
      CanAttach, CanDetach
<1>23. QED
  BY <1>5, <1>6, <1>7, <1>8, <1>9, <1>10, <1>11, <1>12, <1>13, <1>14, <1>15,
      <1>16, <1>17, <1>18, <1>20, <1>21, <1>22

(* An attached TEB is not destroyed. *)
LEMMA DestroyCheckFailsStep ==
  ASSUME IndInv, NEW h \in Hosts, NEW c \in Contexts, NEW b \in Tebs,
         pc[h] = "destroy_check",
         ctx[h] = c,
         tb[h] = b,
         pc' = [pc EXCEPT ![h] = "release"],
         UNCHANGED <<token, scopeCount, owner, teb, lastError, expected,
                      tebThread, mapped, attached, tebError, refs, alive,
                      chain, op, ctx, tb>>
  PROVE  IndInv'
<1> USE DEF IndInv
<1>1. /\ \A g \in Hosts : pc'[g] = IF g = h THEN "release" ELSE pc[g]
  BY DEF TypeOK
<1>2. \A g \in Hosts, x \in Contexts : FrameCount(g, x)' = FrameCount(g, x)
  BY DEF FrameCount, ActiveFrames
<1>3. \A g \in Hosts, x \in Contexts : FrameCount(g, x) \in Nat
  BY FramesFinite
<1>4. token[c] = h /\ \A g \in Hosts : g # h /\ pc[g] \notin Loose => ctx[g] # c
  BY StepKinds DEF HoldInv, CallInv
<1> USE <1>1, <1>4, Typing, StepKinds, ThreadContextAssumption
<1>5. TypeOK'
  BY OpNames DEF TypeOK
<1>6. CallInv'
  BY DEF CallInv
<1>7. HoldInv'
  BY DEF HoldInv, CallInv
<1>8. QuietInv'
  BY <1>2, <1>3 DEF QuietInv, CallInv, FrameInv
<1>9. FrameInv'
  BY <1>2, <1>3 DEF FrameInv, HoldInv, CallInv, QuietInv
<1>10. NamedInv'
  BY <1>2, <1>3 DEF NamedInv, CallInv, HoldInv
<1>11. LeaseInv'
  BY DEF LeaseInv, CallInv, MayUse, MayDestroy
<1>12. OwnerInv'
  BY DEF OwnerInv, CallInv, LeaseInv, AttachInv, ReserveInv, PagesInv,
      CanAttach, CanDetach
<1>13. AttachInv'
  BY DEF AttachInv, CallInv, LeaseInv, OwnerInv, PagesInv, CanAttach,
      CanDetach
<1>14. ReserveInv'
  BY DEF ReserveInv, CallInv, HoldInv
<1>15. PagesInv'
  BY DEF PagesInv, CallInv, LeaseInv, OwnerInv, UnmapInv, MayDestroy
<1>16. MapInv'
  BY DEF MapInv, CallInv, LeaseInv, OwnerInv, PagesInv, ReserveInv
<1>17. UnmapInv'
  BY DEF UnmapInv, CallInv, LeaseInv, PagesInv
<1>18. CountInv'
  BY <1>2, <1>3 DEF CountInv, CallInv, HoldInv, FrameInv, QuietInv
<1>19. ScopeUsers' = ScopeUsers /\ CallUsers' = CallUsers /\ TebUsers' = TebUsers
  <2>1. ScopeUsers' = ScopeUsers
    BY DEF ScopeUsers, HoldingFrames
  <2>2. CallUsers' = CallUsers
    BY DEF CallUsers, Owing
  <2>3. \A a \in Tebs : Disowned(a)' <=> Disowned(a)
    BY DEF Disowned, CallInv, LeaseInv, PagesInv, OwnerInv, AttachInv
  <2>4. TebUsers' = TebUsers
    BY <2>3 DEF TebUsers
  <2>5. QED
    BY <2>1, <2>2, <2>4
<1>20. ReferencesExact'
  BY <1>19 DEF ReferencesExact
<1>21. AliveInv'
  BY DEF AliveInv, CallInv, Usable, HasProcess
<1>22. LastErrorSurvives'
  BY DEF LastErrorSurvives, CallInv, OwnerInv, AttachInv, PagesInv, LeaseInv,
      CanAttach, CanDetach
<1>23. QED
  BY <1>5, <1>6, <1>7, <1>8, <1>9, <1>10, <1>11, <1>12, <1>13, <1>14, <1>15,
      <1>16, <1>17, <1>18, <1>20, <1>21, <1>22

(* The ownership is reserved for the destruction. *)
LEMMA DestroyReserveStep ==
  ASSUME IndInv, NEW h \in Hosts, NEW c \in Contexts, NEW b \in Tebs,
         pc[h] = "destroy_reserve",
         ctx[h] = c,
         tb[h] = b,
         owner[c] = b,
         owner' = [owner EXCEPT ![c] = Reserved],
         pc' = [pc EXCEPT ![h] = "destroy_unmap"],
         UNCHANGED <<token, scopeCount, teb, lastError, expected, tebThread,
                      mapped, attached, tebError, refs, alive, chain, op, ctx,
                      tb>>
  PROVE  IndInv'
<1> USE DEF IndInv
<1>1. /\ \A x \in Contexts : owner'[x] = IF x = c THEN Reserved ELSE owner[x]
      /\ \A g \in Hosts : pc'[g] = IF g = h THEN "destroy_unmap" ELSE pc[g]
  BY DEF TypeOK
<1>2. \A g \in Hosts, x \in Contexts : FrameCount(g, x)' = FrameCount(g, x)
  BY DEF FrameCount, ActiveFrames
<1>3. \A g \in Hosts, x \in Contexts : FrameCount(g, x) \in Nat
  BY FramesFinite
<1>4. token[c] = h /\ \A g \in Hosts : g # h /\ pc[g] \notin Loose => ctx[g] # c
  BY StepKinds DEF HoldInv, CallInv
<1> USE <1>1, <1>4, Typing, StepKinds, ThreadContextAssumption
<1>5. TypeOK'
  BY OpNames DEF TypeOK
<1>6. CallInv'
  BY DEF CallInv
<1>7. HoldInv'
  BY DEF HoldInv, CallInv
<1>8. QuietInv'
  BY <1>2, <1>3 DEF QuietInv, CallInv, FrameInv
<1>9. FrameInv'
  BY <1>2, <1>3 DEF FrameInv, HoldInv, CallInv, QuietInv
<1>10. NamedInv'
  BY <1>2, <1>3 DEF NamedInv, CallInv, HoldInv
<1>11. LeaseInv'
  BY DEF LeaseInv, CallInv, MayUse, MayDestroy
<1>12. OwnerInv'
  BY DEF OwnerInv, CallInv, LeaseInv, AttachInv, ReserveInv, PagesInv,
      CanAttach, CanDetach
<1>13. AttachInv'
  BY DEF AttachInv, CallInv, LeaseInv, OwnerInv, PagesInv, CanAttach,
      CanDetach
<1>14. ReserveInv'
  <2> SUFFICES ASSUME NEW g \in Hosts, pc'[g] \in Reserving
               PROVE  owner'[ctx'[g]] = Reserved
    BY DEF ReserveInv
  <2>1. CASE g = h
    BY <2>1
  <2>2. CASE g # h
    <3>1. pc[g] \in Reserving /\ pc[g] \notin Loose
      BY <2>2 DEF Reserving, Loose
    <3>2. ctx[g] \in Contexts /\ ctx[g] # c
      BY <2>2, <3>1 DEF CallInv
    <3>3. QED
      BY <2>2, <3>1, <3>2 DEF ReserveInv
  <2>3. QED
    BY <2>1, <2>2
<1>15. PagesInv'
  BY DEF PagesInv, CallInv, LeaseInv, OwnerInv, UnmapInv, MayDestroy
<1>16. MapInv'
  BY DEF MapInv, CallInv, LeaseInv, OwnerInv, PagesInv, ReserveInv
<1>17. UnmapInv'
  BY DEF UnmapInv, CallInv, LeaseInv, PagesInv
<1>18. CountInv'
  BY <1>2, <1>3 DEF CountInv, CallInv, HoldInv, FrameInv, QuietInv
<1>19. ScopeUsers' = ScopeUsers /\ CallUsers' = CallUsers /\ TebUsers' = TebUsers
  <2>1. ScopeUsers' = ScopeUsers
    BY DEF ScopeUsers, HoldingFrames
  <2>2. CallUsers' = CallUsers
    BY DEF CallUsers, Owing
  <2>3. \A a \in Tebs : Disowned(a)' <=> Disowned(a)
    BY DEF Disowned, CallInv, LeaseInv, PagesInv, OwnerInv, AttachInv
  <2>4. TebUsers' = TebUsers
    BY <2>3 DEF TebUsers
  <2>5. QED
    BY <2>1, <2>2, <2>4
<1>20. ReferencesExact'
  BY <1>19 DEF ReferencesExact
<1>21. AliveInv'
  BY DEF AliveInv, CallInv, Usable, HasProcess
<1>22. LastErrorSurvives'
  BY DEF LastErrorSurvives, CallInv, OwnerInv, AttachInv, PagesInv, LeaseInv,
      CanAttach, CanDetach
<1>23. QED
  BY <1>5, <1>6, <1>7, <1>8, <1>9, <1>10, <1>11, <1>12, <1>13, <1>14, <1>15,
      <1>16, <1>17, <1>18, <1>20, <1>21, <1>22

(* The context does not own the TEB. *)
LEMMA DestroyReserveFailsStep ==
  ASSUME IndInv, NEW h \in Hosts, NEW c \in Contexts, NEW b \in Tebs,
         pc[h] = "destroy_reserve",
         ctx[h] = c,
         tb[h] = b,
         pc' = [pc EXCEPT ![h] = "release"],
         UNCHANGED <<token, scopeCount, owner, teb, lastError, expected,
                      tebThread, mapped, attached, tebError, refs, alive,
                      chain, op, ctx, tb>>
  PROVE  IndInv'
<1> USE DEF IndInv
<1>1. /\ \A g \in Hosts : pc'[g] = IF g = h THEN "release" ELSE pc[g]
  BY DEF TypeOK
<1>2. \A g \in Hosts, x \in Contexts : FrameCount(g, x)' = FrameCount(g, x)
  BY DEF FrameCount, ActiveFrames
<1>3. \A g \in Hosts, x \in Contexts : FrameCount(g, x) \in Nat
  BY FramesFinite
<1>4. token[c] = h /\ \A g \in Hosts : g # h /\ pc[g] \notin Loose => ctx[g] # c
  BY StepKinds DEF HoldInv, CallInv
<1> USE <1>1, <1>4, Typing, StepKinds, ThreadContextAssumption
<1>5. TypeOK'
  BY OpNames DEF TypeOK
<1>6. CallInv'
  BY DEF CallInv
<1>7. HoldInv'
  BY DEF HoldInv, CallInv
<1>8. QuietInv'
  BY <1>2, <1>3 DEF QuietInv, CallInv, FrameInv
<1>9. FrameInv'
  BY <1>2, <1>3 DEF FrameInv, HoldInv, CallInv, QuietInv
<1>10. NamedInv'
  BY <1>2, <1>3 DEF NamedInv, CallInv, HoldInv
<1>11. LeaseInv'
  BY DEF LeaseInv, CallInv, MayUse, MayDestroy
<1>12. OwnerInv'
  BY DEF OwnerInv, CallInv, LeaseInv, AttachInv, ReserveInv, PagesInv,
      CanAttach, CanDetach
<1>13. AttachInv'
  BY DEF AttachInv, CallInv, LeaseInv, OwnerInv, PagesInv, CanAttach,
      CanDetach
<1>14. ReserveInv'
  BY DEF ReserveInv, CallInv, HoldInv
<1>15. PagesInv'
  BY DEF PagesInv, CallInv, LeaseInv, OwnerInv, UnmapInv, MayDestroy
<1>16. MapInv'
  BY DEF MapInv, CallInv, LeaseInv, OwnerInv, PagesInv, ReserveInv
<1>17. UnmapInv'
  BY DEF UnmapInv, CallInv, LeaseInv, PagesInv
<1>18. CountInv'
  BY <1>2, <1>3 DEF CountInv, CallInv, HoldInv, FrameInv, QuietInv
<1>19. ScopeUsers' = ScopeUsers /\ CallUsers' = CallUsers /\ TebUsers' = TebUsers
  <2>1. ScopeUsers' = ScopeUsers
    BY DEF ScopeUsers, HoldingFrames
  <2>2. CallUsers' = CallUsers
    BY DEF CallUsers, Owing
  <2>3. \A a \in Tebs : Disowned(a)' <=> Disowned(a)
    BY DEF Disowned, CallInv, LeaseInv, PagesInv, OwnerInv, AttachInv
  <2>4. TebUsers' = TebUsers
    BY <2>3 DEF TebUsers
  <2>5. QED
    BY <2>1, <2>2, <2>4
<1>20. ReferencesExact'
  BY <1>19 DEF ReferencesExact
<1>21. AliveInv'
  BY DEF AliveInv, CallInv, Usable, HasProcess
<1>22. LastErrorSurvives'
  BY DEF LastErrorSurvives, CallInv, OwnerInv, AttachInv, PagesInv, LeaseInv,
      CanAttach, CanDetach
<1>23. QED
  BY <1>5, <1>6, <1>7, <1>8, <1>9, <1>10, <1>11, <1>12, <1>13, <1>14, <1>15,
      <1>16, <1>17, <1>18, <1>20, <1>21, <1>22

(* The pages of the TEB go. *)
LEMMA DestroyUnmapStep ==
  ASSUME IndInv, NEW h \in Hosts, NEW c \in Contexts, NEW b \in Tebs,
         pc[h] = "destroy_unmap",
         ctx[h] = c,
         tb[h] = b,
         mapped' = [mapped EXCEPT ![b] = FALSE],
         pc' = [pc EXCEPT ![h] = "destroy_disown"],
         UNCHANGED <<token, scopeCount, owner, teb, lastError, expected,
                      tebThread, attached, tebError, refs, alive, chain, op,
                      ctx, tb>>
  PROVE  IndInv'
<1> USE DEF IndInv
<1>1. /\ \A x \in Tebs : mapped'[x] <=> x # b /\ mapped[x]
      /\ \A g \in Hosts : pc'[g] = IF g = h THEN "destroy_disown" ELSE pc[g]
  BY DEF TypeOK
<1>2. \A g \in Hosts, x \in Contexts : FrameCount(g, x)' = FrameCount(g, x)
  BY DEF FrameCount, ActiveFrames
<1>3. \A g \in Hosts, x \in Contexts : FrameCount(g, x) \in Nat
  BY FramesFinite
<1>4. token[c] = h /\ \A g \in Hosts : g # h /\ pc[g] \notin Loose => ctx[g] # c
  BY StepKinds DEF HoldInv, CallInv
<1> USE <1>1, <1>4, Typing, StepKinds, ThreadContextAssumption
<1>5. TypeOK'
  BY OpNames DEF TypeOK
<1>6. CallInv'
  BY DEF CallInv
<1>7. HoldInv'
  BY DEF HoldInv, CallInv
<1>8. QuietInv'
  BY <1>2, <1>3 DEF QuietInv, CallInv, FrameInv
<1>9. FrameInv'
  BY <1>2, <1>3 DEF FrameInv, HoldInv, CallInv, QuietInv
<1>10. NamedInv'
  BY <1>2, <1>3 DEF NamedInv, CallInv, HoldInv
<1>11. LeaseInv'
  BY DEF LeaseInv, CallInv, MayUse, MayDestroy
<1>12. OwnerInv'
  BY DEF OwnerInv, CallInv, LeaseInv, AttachInv, ReserveInv, PagesInv,
      CanAttach, CanDetach
<1>13. AttachInv'
  BY DEF AttachInv, CallInv, LeaseInv, OwnerInv, PagesInv, CanAttach,
      CanDetach
<1>14. ReserveInv'
  BY DEF ReserveInv, CallInv, HoldInv
<1>15. PagesInv'
  BY DEF PagesInv, CallInv, LeaseInv, OwnerInv, UnmapInv, MayDestroy
<1>16. MapInv'
  BY DEF MapInv, CallInv, LeaseInv, OwnerInv, PagesInv, ReserveInv
<1>17. UnmapInv'
  BY DEF UnmapInv, CallInv, LeaseInv, PagesInv
<1>18. CountInv'
  BY <1>2, <1>3 DEF CountInv, CallInv, HoldInv, FrameInv, QuietInv
<1>19. ScopeUsers' = ScopeUsers /\ CallUsers' = CallUsers /\ TebUsers' = TebUsers
  <2>1. ScopeUsers' = ScopeUsers
    BY DEF ScopeUsers, HoldingFrames
  <2>2. CallUsers' = CallUsers
    BY DEF CallUsers, Owing
  <2>3. \A a \in Tebs : Disowned(a)' <=> Disowned(a)
    BY DEF Disowned, CallInv, LeaseInv, PagesInv, OwnerInv, AttachInv
  <2>4. TebUsers' = TebUsers
    BY <2>3 DEF TebUsers
  <2>5. QED
    BY <2>1, <2>2, <2>4
<1>20. ReferencesExact'
  BY <1>19 DEF ReferencesExact
<1>21. AliveInv'
  BY DEF AliveInv, CallInv, Usable, HasProcess
<1>22. LastErrorSurvives'
  BY DEF LastErrorSurvives, CallInv, OwnerInv, AttachInv, PagesInv, LeaseInv,
      CanAttach, CanDetach
<1>23. QED
  BY <1>5, <1>6, <1>7, <1>8, <1>9, <1>10, <1>11, <1>12, <1>13, <1>14, <1>15,
      <1>16, <1>17, <1>18, <1>20, <1>21, <1>22

(* munmap fails. *)
LEMMA DestroyUnmapFailsStep ==
  ASSUME IndInv, NEW h \in Hosts, NEW c \in Contexts, NEW b \in Tebs,
         pc[h] = "destroy_unmap",
         ctx[h] = c,
         tb[h] = b,
         pc' = [pc EXCEPT ![h] = "destroy_restore"],
         UNCHANGED <<token, scopeCount, owner, teb, lastError, expected,
                      tebThread, mapped, attached, tebError, refs, alive,
                      chain, op, ctx, tb>>
  PROVE  IndInv'
<1> USE DEF IndInv
<1>1. /\ \A g \in Hosts : pc'[g] = IF g = h THEN "destroy_restore" ELSE pc[g]
  BY DEF TypeOK
<1>2. \A g \in Hosts, x \in Contexts : FrameCount(g, x)' = FrameCount(g, x)
  BY DEF FrameCount, ActiveFrames
<1>3. \A g \in Hosts, x \in Contexts : FrameCount(g, x) \in Nat
  BY FramesFinite
<1>4. token[c] = h /\ \A g \in Hosts : g # h /\ pc[g] \notin Loose => ctx[g] # c
  BY StepKinds DEF HoldInv, CallInv
<1> USE <1>1, <1>4, Typing, StepKinds, ThreadContextAssumption
<1>5. TypeOK'
  BY OpNames DEF TypeOK
<1>6. CallInv'
  BY DEF CallInv
<1>7. HoldInv'
  BY DEF HoldInv, CallInv
<1>8. QuietInv'
  BY <1>2, <1>3 DEF QuietInv, CallInv, FrameInv
<1>9. FrameInv'
  BY <1>2, <1>3 DEF FrameInv, HoldInv, CallInv, QuietInv
<1>10. NamedInv'
  BY <1>2, <1>3 DEF NamedInv, CallInv, HoldInv
<1>11. LeaseInv'
  BY DEF LeaseInv, CallInv, MayUse, MayDestroy
<1>12. OwnerInv'
  BY DEF OwnerInv, CallInv, LeaseInv, AttachInv, ReserveInv, PagesInv,
      CanAttach, CanDetach
<1>13. AttachInv'
  BY DEF AttachInv, CallInv, LeaseInv, OwnerInv, PagesInv, CanAttach,
      CanDetach
<1>14. ReserveInv'
  BY DEF ReserveInv, CallInv, HoldInv
<1>15. PagesInv'
  BY DEF PagesInv, CallInv, LeaseInv, OwnerInv, UnmapInv, MayDestroy
<1>16. MapInv'
  BY DEF MapInv, CallInv, LeaseInv, OwnerInv, PagesInv, ReserveInv
<1>17. UnmapInv'
  BY DEF UnmapInv, CallInv, LeaseInv, PagesInv
<1>18. CountInv'
  BY <1>2, <1>3 DEF CountInv, CallInv, HoldInv, FrameInv, QuietInv
<1>19. ScopeUsers' = ScopeUsers /\ CallUsers' = CallUsers /\ TebUsers' = TebUsers
  <2>1. ScopeUsers' = ScopeUsers
    BY DEF ScopeUsers, HoldingFrames
  <2>2. CallUsers' = CallUsers
    BY DEF CallUsers, Owing
  <2>3. \A a \in Tebs : Disowned(a)' <=> Disowned(a)
    BY DEF Disowned, CallInv, LeaseInv, PagesInv, OwnerInv, AttachInv
  <2>4. TebUsers' = TebUsers
    BY <2>3 DEF TebUsers
  <2>5. QED
    BY <2>1, <2>2, <2>4
<1>20. ReferencesExact'
  BY <1>19 DEF ReferencesExact
<1>21. AliveInv'
  BY DEF AliveInv, CallInv, Usable, HasProcess
<1>22. LastErrorSurvives'
  BY DEF LastErrorSurvives, CallInv, OwnerInv, AttachInv, PagesInv, LeaseInv,
      CanAttach, CanDetach
<1>23. QED
  BY <1>5, <1>6, <1>7, <1>8, <1>9, <1>10, <1>11, <1>12, <1>13, <1>14, <1>15,
      <1>16, <1>17, <1>18, <1>20, <1>21, <1>22

(* The context owns its TEB again. *)
LEMMA DestroyRestoreStep ==
  ASSUME IndInv, NEW h \in Hosts, NEW c \in Contexts, NEW b \in Tebs,
         pc[h] = "destroy_restore",
         ctx[h] = c,
         tb[h] = b,
         owner' = [owner EXCEPT ![c] = b],
         pc' = [pc EXCEPT ![h] = "release"],
         UNCHANGED <<token, scopeCount, teb, lastError, expected, tebThread,
                      mapped, attached, tebError, refs, alive, chain, op, ctx,
                      tb>>
  PROVE  IndInv'
<1> USE DEF IndInv
<1>1. /\ \A x \in Contexts : owner'[x] = IF x = c THEN b ELSE owner[x]
      /\ \A g \in Hosts : pc'[g] = IF g = h THEN "release" ELSE pc[g]
  BY DEF TypeOK
<1>2. \A g \in Hosts, x \in Contexts : FrameCount(g, x)' = FrameCount(g, x)
  BY DEF FrameCount, ActiveFrames
<1>3. \A g \in Hosts, x \in Contexts : FrameCount(g, x) \in Nat
  BY FramesFinite
<1>4. token[c] = h /\ \A g \in Hosts : g # h /\ pc[g] \notin Loose => ctx[g] # c
  BY StepKinds DEF HoldInv, CallInv
<1> USE <1>1, <1>4, Typing, StepKinds, ThreadContextAssumption
<1>5. TypeOK'
  BY OpNames DEF TypeOK
<1>6. CallInv'
  BY DEF CallInv
<1>7. HoldInv'
  BY DEF HoldInv, CallInv
<1>8. QuietInv'
  BY <1>2, <1>3 DEF QuietInv, CallInv, FrameInv
<1>9. FrameInv'
  BY <1>2, <1>3 DEF FrameInv, HoldInv, CallInv, QuietInv
<1>10. NamedInv'
  BY <1>2, <1>3 DEF NamedInv, CallInv, HoldInv
<1>11. LeaseInv'
  BY DEF LeaseInv, CallInv, MayUse, MayDestroy
<1>12. OwnerInv'
  BY DEF OwnerInv, CallInv, LeaseInv, AttachInv, ReserveInv, PagesInv,
      CanAttach, CanDetach
<1>13. AttachInv'
  BY DEF AttachInv, CallInv, LeaseInv, OwnerInv, PagesInv, CanAttach,
      CanDetach
<1>14. ReserveInv'
  <2> SUFFICES ASSUME NEW g \in Hosts, pc'[g] \in Reserving
               PROVE  owner'[ctx'[g]] = Reserved
    BY DEF ReserveInv
  <2>1. CASE g = h
    BY <2>1
  <2>2. CASE g # h
    <3>1. pc[g] \in Reserving /\ pc[g] \notin Loose
      BY <2>2 DEF Reserving, Loose
    <3>2. ctx[g] \in Contexts /\ ctx[g] # c
      BY <2>2, <3>1 DEF CallInv
    <3>3. QED
      BY <2>2, <3>1, <3>2 DEF ReserveInv
  <2>3. QED
    BY <2>1, <2>2
<1>15. PagesInv'
  BY DEF PagesInv, CallInv, LeaseInv, OwnerInv, UnmapInv, MayDestroy
<1>16. MapInv'
  BY DEF MapInv, CallInv, LeaseInv, OwnerInv, PagesInv, ReserveInv
<1>17. UnmapInv'
  BY DEF UnmapInv, CallInv, LeaseInv, PagesInv
<1>18. CountInv'
  BY <1>2, <1>3 DEF CountInv, CallInv, HoldInv, FrameInv, QuietInv
<1>19. ScopeUsers' = ScopeUsers /\ CallUsers' = CallUsers /\ TebUsers' = TebUsers
  <2>1. ScopeUsers' = ScopeUsers
    BY DEF ScopeUsers, HoldingFrames
  <2>2. CallUsers' = CallUsers
    BY DEF CallUsers, Owing
  <2>3. \A a \in Tebs : Disowned(a)' <=> Disowned(a)
    BY DEF Disowned, CallInv, LeaseInv, PagesInv, OwnerInv, AttachInv
  <2>4. TebUsers' = TebUsers
    BY <2>3 DEF TebUsers
  <2>5. QED
    BY <2>1, <2>2, <2>4
<1>20. ReferencesExact'
  BY <1>19 DEF ReferencesExact
<1>21. AliveInv'
  BY DEF AliveInv, CallInv, Usable, HasProcess
<1>22. LastErrorSurvives'
  BY DEF LastErrorSurvives, CallInv, OwnerInv, AttachInv, PagesInv, LeaseInv,
      CanAttach, CanDetach
<1>23. QED
  BY <1>5, <1>6, <1>7, <1>8, <1>9, <1>10, <1>11, <1>12, <1>13, <1>14, <1>15,
      <1>16, <1>17, <1>18, <1>20, <1>21, <1>22

(* The context owns no TEB any more. *)
LEMMA DestroyDisownStep ==
  ASSUME IndInv, NEW h \in Hosts, NEW c \in Contexts, NEW b \in Tebs,
         pc[h] = "destroy_disown",
         ctx[h] = c,
         tb[h] = b,
         owner' = [owner EXCEPT ![c] = None],
         pc' = [pc EXCEPT ![h] = "destroy_unretain"],
         UNCHANGED <<token, scopeCount, teb, lastError, expected, tebThread,
                      mapped, attached, tebError, refs, alive, chain, op, ctx,
                      tb>>
  PROVE  IndInv'
<1> USE DEF IndInv
<1>1. /\ \A x \in Contexts : owner'[x] = IF x = c THEN None ELSE owner[x]
      /\ \A g \in Hosts : pc'[g] = IF g = h THEN "destroy_unretain" ELSE pc[g]
  BY DEF TypeOK
<1>2. \A g \in Hosts, x \in Contexts : FrameCount(g, x)' = FrameCount(g, x)
  BY DEF FrameCount, ActiveFrames
<1>3. \A g \in Hosts, x \in Contexts : FrameCount(g, x) \in Nat
  BY FramesFinite
<1>4. token[c] = h /\ \A g \in Hosts : g # h /\ pc[g] \notin Loose => ctx[g] # c
  BY StepKinds DEF HoldInv, CallInv
<1> USE <1>1, <1>4, Typing, StepKinds, ThreadContextAssumption
<1>5. TypeOK'
  BY OpNames DEF TypeOK
<1>6. CallInv'
  BY DEF CallInv
<1>7. HoldInv'
  BY DEF HoldInv, CallInv
<1>8. QuietInv'
  BY <1>2, <1>3 DEF QuietInv, CallInv, FrameInv
<1>9. FrameInv'
  BY <1>2, <1>3 DEF FrameInv, HoldInv, CallInv, QuietInv
<1>10. NamedInv'
  BY <1>2, <1>3 DEF NamedInv, CallInv, HoldInv
<1>11. LeaseInv'
  BY DEF LeaseInv, CallInv, MayUse, MayDestroy
<1>12. OwnerInv'
  BY DEF OwnerInv, CallInv, LeaseInv, AttachInv, ReserveInv, PagesInv,
      CanAttach, CanDetach
<1>13. AttachInv'
  BY DEF AttachInv, CallInv, LeaseInv, OwnerInv, PagesInv, CanAttach,
      CanDetach
<1>14. ReserveInv'
  <2> SUFFICES ASSUME NEW g \in Hosts, pc'[g] \in Reserving
               PROVE  owner'[ctx'[g]] = Reserved
    BY DEF ReserveInv
  <2>1. CASE g = h
    BY <2>1
  <2>2. CASE g # h
    <3>1. pc[g] \in Reserving /\ pc[g] \notin Loose
      BY <2>2 DEF Reserving, Loose
    <3>2. ctx[g] \in Contexts /\ ctx[g] # c
      BY <2>2, <3>1 DEF CallInv
    <3>3. QED
      BY <2>2, <3>1, <3>2 DEF ReserveInv
  <2>3. QED
    BY <2>1, <2>2
<1>15. PagesInv'
  BY DEF PagesInv, CallInv, LeaseInv, OwnerInv, UnmapInv, MayDestroy
<1>16. MapInv'
  BY DEF MapInv, CallInv, LeaseInv, OwnerInv, PagesInv, ReserveInv
<1>17. UnmapInv'
  BY DEF UnmapInv, CallInv, LeaseInv, PagesInv
<1>18. CountInv'
  BY <1>2, <1>3 DEF CountInv, CallInv, HoldInv, FrameInv, QuietInv
<1>19. ScopeUsers' = ScopeUsers /\ CallUsers' = CallUsers /\ TebUsers' = TebUsers
  <2>1. ScopeUsers' = ScopeUsers
    BY DEF ScopeUsers, HoldingFrames
  <2>2. CallUsers' = CallUsers
    BY DEF CallUsers, Owing
  <2>3. \A a \in Tebs : Disowned(a)' <=> Disowned(a)
    BY DEF Disowned, CallInv, LeaseInv, PagesInv, OwnerInv, AttachInv
  <2>4. TebUsers' = TebUsers
    BY <2>3 DEF TebUsers
  <2>5. QED
    BY <2>1, <2>2, <2>4
<1>20. ReferencesExact'
  BY <1>19 DEF ReferencesExact
<1>21. AliveInv'
  BY DEF AliveInv, CallInv, Usable, HasProcess
<1>22. LastErrorSurvives'
  BY DEF LastErrorSurvives, CallInv, OwnerInv, AttachInv, PagesInv, LeaseInv,
      CanAttach, CanDetach
<1>23. QED
  BY <1>5, <1>6, <1>7, <1>8, <1>9, <1>10, <1>11, <1>12, <1>13, <1>14, <1>15,
      <1>16, <1>17, <1>18, <1>20, <1>21, <1>22

(* The reference of the TEB is given back. *)
LEMMA DestroyUnretainStep ==
  ASSUME IndInv, NEW h \in Hosts, NEW c \in Contexts, NEW b \in Tebs,
         pc[h] = "destroy_unretain",
         ctx[h] = c,
         tb[h] = b,
         refs > 0,
         refs' = refs - 1,
         pc' = [pc EXCEPT ![h] = "release"],
         UNCHANGED <<token, scopeCount, owner, teb, lastError, expected,
                      tebThread, mapped, attached, tebError, alive, chain, op,
                      ctx, tb>>
  PROVE  IndInv'
<1> USE DEF IndInv
<1>1. /\ \A g \in Hosts : pc'[g] = IF g = h THEN "release" ELSE pc[g]
  BY DEF TypeOK
<1>2. \A g \in Hosts, x \in Contexts : FrameCount(g, x)' = FrameCount(g, x)
  BY DEF FrameCount, ActiveFrames
<1>3. \A g \in Hosts, x \in Contexts : FrameCount(g, x) \in Nat
  BY FramesFinite
<1>4. token[c] = h /\ \A g \in Hosts : g # h /\ pc[g] \notin Loose => ctx[g] # c
  BY StepKinds DEF HoldInv, CallInv
<1> USE <1>1, <1>4, Typing, StepKinds, ThreadContextAssumption
<1>5. TypeOK'
  BY OpNames DEF TypeOK
<1>6. CallInv'
  BY DEF CallInv
<1>7. HoldInv'
  BY DEF HoldInv, CallInv
<1>8. QuietInv'
  BY <1>2, <1>3 DEF QuietInv, CallInv, FrameInv
<1>9. FrameInv'
  BY <1>2, <1>3 DEF FrameInv, HoldInv, CallInv, QuietInv
<1>10. NamedInv'
  BY <1>2, <1>3 DEF NamedInv, CallInv, HoldInv
<1>11. LeaseInv'
  BY DEF LeaseInv, CallInv, MayUse, MayDestroy
<1>12. OwnerInv'
  BY DEF OwnerInv, CallInv, LeaseInv, AttachInv, ReserveInv, PagesInv,
      CanAttach, CanDetach
<1>13. AttachInv'
  BY DEF AttachInv, CallInv, LeaseInv, OwnerInv, PagesInv, CanAttach,
      CanDetach
<1>14. ReserveInv'
  BY DEF ReserveInv, CallInv, HoldInv
<1>15. PagesInv'
  BY DEF PagesInv, CallInv, LeaseInv, OwnerInv, UnmapInv, MayDestroy
<1>16. MapInv'
  BY DEF MapInv, CallInv, LeaseInv, OwnerInv, PagesInv, ReserveInv
<1>17. UnmapInv'
  BY DEF UnmapInv, CallInv, LeaseInv, PagesInv
<1>18. CountInv'
  BY <1>2, <1>3 DEF CountInv, CallInv, HoldInv, FrameInv, QuietInv
<1>19. /\ ScopeUsers' = ScopeUsers
      /\ CallUsers' = CallUsers
      /\ TebUsers' = TebUsers \ {b} /\ b \in TebUsers
  <2>1. ScopeUsers' = ScopeUsers
    BY DEF ScopeUsers, HoldingFrames
  <2>2. CallUsers' = CallUsers
    BY DEF CallUsers, Owing
  <2>3. \A a \in Tebs : Disowned(a)' <=> (a = b \/ Disowned(a))
    BY DEF Disowned, CallInv, LeaseInv, PagesInv
  <2>4. ~Disowned(b)
    BY DEF Disowned, CallInv, LeaseInv
  <2>5. TebUsers' = TebUsers \ {b} /\ b \in TebUsers
    BY <2>3, <2>4 DEF TebUsers, LeaseInv, CallInv
  <2>6. QED
    BY <2>1, <2>2, <2>5
<1>20. ReferencesExact'
  <2>1. IsFiniteSet(TebUsers) /\ b \in TebUsers
    BY <1>19, UsersFinite
  <2>2. Cardinality(TebUsers \ {b}) = Cardinality(TebUsers) - 1
    BY ONLY <2>1, FS_RemoveElement
  <2>3. QED
    BY <1>19, <2>2, UsersFinite DEF ReferencesExact
<1>21. AliveInv'
  BY DEF AliveInv, CallInv, Usable, HasProcess
<1>22. LastErrorSurvives'
  BY DEF LastErrorSurvives, CallInv, OwnerInv, AttachInv, PagesInv, LeaseInv,
      CanAttach, CanDetach
<1>23. QED
  BY <1>5, <1>6, <1>7, <1>8, <1>9, <1>10, <1>11, <1>12, <1>13, <1>14, <1>15,
      <1>16, <1>17, <1>18, <1>20, <1>21, <1>22

(* The TEB object is freed. *)
LEMMA DestroyFreeStep ==
  ASSUME IndInv, NEW h \in Hosts, NEW c \in Contexts, NEW b \in Tebs,
         pc[h] = "destroy_free",
         ctx[h] = c,
         tb[h] = b,
         tebThread' = [tebThread EXCEPT ![b] = None],
         tebError' = [tebError EXCEPT ![b] = 0],
         pc' = [pc EXCEPT ![h] = "idle"],
         op' = [op EXCEPT ![h] = "none"],
         ctx' = [ctx EXCEPT ![h] = None],
         tb' = [tb EXCEPT ![h] = None],
         UNCHANGED <<token, scopeCount, owner, teb, lastError, expected,
                      mapped, attached, refs, alive, chain>>
  PROVE  IndInv'
<1> USE DEF IndInv
<1>1. /\ \A x \in Tebs : tebThread'[x] = IF x = b THEN None ELSE tebThread[x]
      /\ \A x \in Tebs : tebError'[x] = IF x = b THEN 0 ELSE tebError[x]
      /\ \A g \in Hosts : pc'[g] = IF g = h THEN "idle" ELSE pc[g]
      /\ \A g \in Hosts : op'[g] = IF g = h THEN "none" ELSE op[g]
      /\ \A g \in Hosts : ctx'[g] = IF g = h THEN None ELSE ctx[g]
      /\ \A g \in Hosts : tb'[g] = IF g = h THEN None ELSE tb[g]
  BY DEF TypeOK
<1>2. \A g \in Hosts, x \in Contexts : FrameCount(g, x)' = FrameCount(g, x)
  BY DEF FrameCount, ActiveFrames
<1>3. \A g \in Hosts, x \in Contexts : FrameCount(g, x) \in Nat
  BY FramesFinite
<1> USE <1>1, Typing, StepKinds, ThreadContextAssumption
<1>4. TypeOK'
  BY OpNames DEF TypeOK
<1>5. CallInv'
  BY DEF CallInv
<1>6. HoldInv'
  BY DEF HoldInv, CallInv
<1>7. QuietInv'
  BY <1>2, <1>3 DEF QuietInv, CallInv, FrameInv
<1>8. FrameInv'
  BY <1>2, <1>3 DEF FrameInv, HoldInv, CallInv, QuietInv
<1>9. NamedInv'
  BY <1>2, <1>3 DEF NamedInv, CallInv, HoldInv
<1>10. LeaseInv'
  BY DEF LeaseInv, CallInv, MayUse, MayDestroy
<1>11. OwnerInv'
  BY DEF OwnerInv, CallInv, LeaseInv, AttachInv, ReserveInv, PagesInv,
      CanAttach, CanDetach
<1>12. AttachInv'
  BY DEF AttachInv, CallInv, LeaseInv, OwnerInv, PagesInv, CanAttach,
      CanDetach
<1>13. ReserveInv'
  BY DEF ReserveInv, CallInv, HoldInv
<1>14. PagesInv'
  BY DEF PagesInv, CallInv, LeaseInv, OwnerInv, UnmapInv, MayDestroy
<1>15. MapInv'
  BY DEF MapInv, CallInv, LeaseInv, OwnerInv, PagesInv, ReserveInv
<1>16. UnmapInv'
  BY DEF UnmapInv, CallInv, LeaseInv, PagesInv
<1>17. CountInv'
  BY <1>2, <1>3 DEF CountInv, CallInv, HoldInv, FrameInv, QuietInv
<1>18. ScopeUsers' = ScopeUsers /\ CallUsers' = CallUsers /\ TebUsers' = TebUsers
  <2>1. ScopeUsers' = ScopeUsers
    BY DEF ScopeUsers, HoldingFrames
  <2>2. CallUsers' = CallUsers
    BY DEF CallUsers, Owing
  <2>3. \A a \in Tebs \ {b} : Disowned(a)' <=> Disowned(a)
    BY DEF Disowned, CallInv, LeaseInv, PagesInv, OwnerInv, AttachInv
  <2>4. Disowned(b)
    BY DEF Disowned, CallInv, PagesInv
  <2>5. TebUsers' = TebUsers
    BY <2>3, <2>4 DEF TebUsers
  <2>6. QED
    BY <2>1, <2>2, <2>5
<1>19. ReferencesExact'
  BY <1>18 DEF ReferencesExact
<1>20. AliveInv'
  BY DEF AliveInv, CallInv, Usable, HasProcess
<1>21. LastErrorSurvives'
  BY DEF LastErrorSurvives, CallInv, OwnerInv, AttachInv, PagesInv, LeaseInv,
      CanAttach, CanDetach
<1>22. QED
  BY <1>4, <1>5, <1>6, <1>7, <1>8, <1>9, <1>10, <1>11, <1>12, <1>13, <1>14,
      <1>15, <1>16, <1>17, <1>19, <1>20, <1>21

(* sl_win32_thread_attach_teb claims the context. *)
LEMMA AttachStep ==
  ASSUME IndInv, NEW h \in Hosts, NEW c \in Contexts, NEW b \in Tebs,
         pc[h] = "idle",
         MayUse(b),
         token[c] = Free,
         token' = [token EXCEPT ![c] = h],
         pc' = [pc EXCEPT ![h] = "attach"],
         op' = [op EXCEPT ![h] = "attach"],
         ctx' = [ctx EXCEPT ![h] = c],
         tb' = [tb EXCEPT ![h] = b],
         UNCHANGED <<scopeCount, owner, teb, lastError, expected, tebThread,
                      mapped, attached, tebError, refs, alive, chain>>
  PROVE  IndInv'
<1> USE DEF IndInv
<1>1. /\ \A x \in Contexts : token'[x] = IF x = c THEN h ELSE token[x]
      /\ \A g \in Hosts : pc'[g] = IF g = h THEN "attach" ELSE pc[g]
      /\ \A g \in Hosts : op'[g] = IF g = h THEN "attach" ELSE op[g]
      /\ \A g \in Hosts : ctx'[g] = IF g = h THEN c ELSE ctx[g]
      /\ \A g \in Hosts : tb'[g] = IF g = h THEN b ELSE tb[g]
  BY DEF TypeOK
<1>2. \A g \in Hosts, x \in Contexts : FrameCount(g, x)' = FrameCount(g, x)
  BY DEF FrameCount, ActiveFrames
<1>3. \A g \in Hosts, x \in Contexts : FrameCount(g, x) \in Nat
  BY FramesFinite
<1> USE <1>1, Typing, StepKinds, ThreadContextAssumption
<1>4. TypeOK'
  BY OpNames DEF TypeOK
<1>5. CallInv'
  BY DEF CallInv
<1>6. HoldInv'
  BY DEF HoldInv, CallInv
<1>7. QuietInv'
  BY <1>2, <1>3 DEF QuietInv, CallInv, FrameInv
<1>8. FrameInv'
  BY <1>2, <1>3 DEF FrameInv, HoldInv, CallInv, QuietInv
<1>9. NamedInv'
  BY <1>2, <1>3 DEF NamedInv, CallInv, HoldInv
<1>10. LeaseInv'
  BY DEF LeaseInv, CallInv, MayUse, MayDestroy
<1>11. OwnerInv'
  BY DEF OwnerInv, CallInv, LeaseInv, AttachInv, ReserveInv, PagesInv,
      CanAttach, CanDetach
<1>12. AttachInv'
  BY DEF AttachInv, CallInv, LeaseInv, OwnerInv, PagesInv, CanAttach,
      CanDetach
<1>13. ReserveInv'
  BY DEF ReserveInv, CallInv, HoldInv
<1>14. PagesInv'
  BY DEF PagesInv, CallInv, LeaseInv, OwnerInv, UnmapInv, MayDestroy
<1>15. MapInv'
  BY DEF MapInv, CallInv, LeaseInv, OwnerInv, PagesInv, ReserveInv
<1>16. UnmapInv'
  BY DEF UnmapInv, CallInv, LeaseInv, PagesInv
<1>17. CountInv'
  BY <1>2, <1>3 DEF CountInv, CallInv, HoldInv, FrameInv, QuietInv
<1>18. ScopeUsers' = ScopeUsers /\ CallUsers' = CallUsers /\ TebUsers' = TebUsers
  <2>1. ScopeUsers' = ScopeUsers
    BY DEF ScopeUsers, HoldingFrames
  <2>2. CallUsers' = CallUsers
    BY DEF CallUsers, Owing
  <2>3. \A a \in Tebs : Disowned(a)' <=> Disowned(a)
    BY DEF Disowned, CallInv, LeaseInv, PagesInv, OwnerInv, AttachInv
  <2>4. TebUsers' = TebUsers
    BY <2>3 DEF TebUsers
  <2>5. QED
    BY <2>1, <2>2, <2>4
<1>19. ReferencesExact'
  BY <1>18 DEF ReferencesExact
<1>20. AliveInv'
  BY DEF AliveInv, CallInv, Usable, HasProcess
<1>21. LastErrorSurvives'
  BY DEF LastErrorSurvives, CallInv, OwnerInv, AttachInv, PagesInv, LeaseInv,
      CanAttach, CanDetach
<1>22. QED
  BY <1>4, <1>5, <1>6, <1>7, <1>8, <1>9, <1>10, <1>11, <1>12, <1>13, <1>14,
      <1>15, <1>16, <1>17, <1>19, <1>20, <1>21

(* The TEB is attached to its context. *)
LEMMA AttachTebStep ==
  ASSUME IndInv, NEW h \in Hosts, NEW c \in Contexts, NEW b \in Tebs,
         pc[h] = "attach",
         ctx[h] = c,
         tb[h] = b,
         CanAttach(c, b),
         teb' = [teb EXCEPT ![c] = b],
         attached' = [attached EXCEPT ![b] = TRUE],
         tebError' = [tebError EXCEPT ![b] = lastError[c]],
         pc' = [pc EXCEPT ![h] = "release"],
         UNCHANGED <<token, scopeCount, owner, lastError, expected, tebThread,
                      mapped, refs, alive, chain, op, ctx, tb>>
  PROVE  IndInv'
<1> USE DEF IndInv
<1>1. /\ \A x \in Contexts : teb'[x] = IF x = c THEN b ELSE teb[x]
      /\ \A x \in Tebs : attached'[x] <=> x = b \/ attached[x]
      /\ \A x \in Tebs :
            tebError'[x] = IF x = b THEN lastError[c]
                           ELSE tebError[x]
      /\ \A g \in Hosts : pc'[g] = IF g = h THEN "release" ELSE pc[g]
  BY DEF TypeOK
<1>2. \A g \in Hosts, x \in Contexts : FrameCount(g, x)' = FrameCount(g, x)
  BY DEF FrameCount, ActiveFrames
<1>3. \A g \in Hosts, x \in Contexts : FrameCount(g, x) \in Nat
  BY FramesFinite
<1>4. token[c] = h /\ \A g \in Hosts : g # h /\ pc[g] \notin Loose => ctx[g] # c
  BY StepKinds DEF HoldInv, CallInv
<1> USE <1>1, <1>4, Typing, StepKinds, ThreadContextAssumption
<1>5. TypeOK'
  BY OpNames DEF TypeOK
<1>6. CallInv'
  BY DEF CallInv
<1>7. HoldInv'
  BY DEF HoldInv, CallInv
<1>8. QuietInv'
  BY <1>2, <1>3 DEF QuietInv, CallInv, FrameInv
<1>9. FrameInv'
  BY <1>2, <1>3 DEF FrameInv, HoldInv, CallInv, QuietInv
<1>10. NamedInv'
  BY <1>2, <1>3 DEF NamedInv, CallInv, HoldInv
<1>11. LeaseInv'
  BY DEF LeaseInv, CallInv, MayUse, MayDestroy
<1>12. OwnerInv'
  BY DEF OwnerInv, CallInv, LeaseInv, AttachInv, ReserveInv, PagesInv,
      CanAttach, CanDetach
<1>13. AttachInv'
  BY DEF AttachInv, CallInv, LeaseInv, OwnerInv, PagesInv, CanAttach,
      CanDetach
<1>14. ReserveInv'
  BY DEF ReserveInv, CallInv, HoldInv
<1>15. PagesInv'
  BY DEF PagesInv, CallInv, LeaseInv, OwnerInv, UnmapInv, MayDestroy
<1>16. MapInv'
  BY DEF MapInv, CallInv, LeaseInv, OwnerInv, PagesInv, ReserveInv
<1>17. UnmapInv'
  BY DEF UnmapInv, CallInv, LeaseInv, PagesInv
<1>18. CountInv'
  BY <1>2, <1>3 DEF CountInv, CallInv, HoldInv, FrameInv, QuietInv
<1>19. ScopeUsers' = ScopeUsers /\ CallUsers' = CallUsers /\ TebUsers' = TebUsers
  <2>1. ScopeUsers' = ScopeUsers
    BY DEF ScopeUsers, HoldingFrames
  <2>2. CallUsers' = CallUsers
    BY DEF CallUsers, Owing
  <2>3. \A a \in Tebs : Disowned(a)' <=> Disowned(a)
    BY DEF Disowned, CallInv, LeaseInv, PagesInv, OwnerInv, AttachInv
  <2>4. TebUsers' = TebUsers
    BY <2>3 DEF TebUsers
  <2>5. QED
    BY <2>1, <2>2, <2>4
<1>20. ReferencesExact'
  BY <1>19 DEF ReferencesExact
<1>21. AliveInv'
  BY DEF AliveInv, CallInv, Usable, HasProcess
<1>22. LastErrorSurvives'
  BY DEF LastErrorSurvives, CallInv, OwnerInv, AttachInv, PagesInv, LeaseInv,
      CanAttach, CanDetach
<1>23. QED
  BY <1>5, <1>6, <1>7, <1>8, <1>9, <1>10, <1>11, <1>12, <1>13, <1>14, <1>15,
      <1>16, <1>17, <1>18, <1>20, <1>21, <1>22

(* The TEB is of another context, or one is attached. *)
LEMMA AttachRefusedStep ==
  ASSUME IndInv, NEW h \in Hosts, NEW c \in Contexts, NEW b \in Tebs,
         pc[h] = "attach",
         ctx[h] = c,
         tb[h] = b,
         pc' = [pc EXCEPT ![h] = "release"],
         UNCHANGED <<token, scopeCount, owner, teb, lastError, expected,
                      tebThread, mapped, attached, tebError, refs, alive,
                      chain, op, ctx, tb>>
  PROVE  IndInv'
<1> USE DEF IndInv
<1>1. /\ \A g \in Hosts : pc'[g] = IF g = h THEN "release" ELSE pc[g]
  BY DEF TypeOK
<1>2. \A g \in Hosts, x \in Contexts : FrameCount(g, x)' = FrameCount(g, x)
  BY DEF FrameCount, ActiveFrames
<1>3. \A g \in Hosts, x \in Contexts : FrameCount(g, x) \in Nat
  BY FramesFinite
<1>4. token[c] = h /\ \A g \in Hosts : g # h /\ pc[g] \notin Loose => ctx[g] # c
  BY StepKinds DEF HoldInv, CallInv
<1> USE <1>1, <1>4, Typing, StepKinds, ThreadContextAssumption
<1>5. TypeOK'
  BY OpNames DEF TypeOK
<1>6. CallInv'
  BY DEF CallInv
<1>7. HoldInv'
  BY DEF HoldInv, CallInv
<1>8. QuietInv'
  BY <1>2, <1>3 DEF QuietInv, CallInv, FrameInv
<1>9. FrameInv'
  BY <1>2, <1>3 DEF FrameInv, HoldInv, CallInv, QuietInv
<1>10. NamedInv'
  BY <1>2, <1>3 DEF NamedInv, CallInv, HoldInv
<1>11. LeaseInv'
  BY DEF LeaseInv, CallInv, MayUse, MayDestroy
<1>12. OwnerInv'
  BY DEF OwnerInv, CallInv, LeaseInv, AttachInv, ReserveInv, PagesInv,
      CanAttach, CanDetach
<1>13. AttachInv'
  BY DEF AttachInv, CallInv, LeaseInv, OwnerInv, PagesInv, CanAttach,
      CanDetach
<1>14. ReserveInv'
  BY DEF ReserveInv, CallInv, HoldInv
<1>15. PagesInv'
  BY DEF PagesInv, CallInv, LeaseInv, OwnerInv, UnmapInv, MayDestroy
<1>16. MapInv'
  BY DEF MapInv, CallInv, LeaseInv, OwnerInv, PagesInv, ReserveInv
<1>17. UnmapInv'
  BY DEF UnmapInv, CallInv, LeaseInv, PagesInv
<1>18. CountInv'
  BY <1>2, <1>3 DEF CountInv, CallInv, HoldInv, FrameInv, QuietInv
<1>19. ScopeUsers' = ScopeUsers /\ CallUsers' = CallUsers /\ TebUsers' = TebUsers
  <2>1. ScopeUsers' = ScopeUsers
    BY DEF ScopeUsers, HoldingFrames
  <2>2. CallUsers' = CallUsers
    BY DEF CallUsers, Owing
  <2>3. \A a \in Tebs : Disowned(a)' <=> Disowned(a)
    BY DEF Disowned, CallInv, LeaseInv, PagesInv, OwnerInv, AttachInv
  <2>4. TebUsers' = TebUsers
    BY <2>3 DEF TebUsers
  <2>5. QED
    BY <2>1, <2>2, <2>4
<1>20. ReferencesExact'
  BY <1>19 DEF ReferencesExact
<1>21. AliveInv'
  BY DEF AliveInv, CallInv, Usable, HasProcess
<1>22. LastErrorSurvives'
  BY DEF LastErrorSurvives, CallInv, OwnerInv, AttachInv, PagesInv, LeaseInv,
      CanAttach, CanDetach
<1>23. QED
  BY <1>5, <1>6, <1>7, <1>8, <1>9, <1>10, <1>11, <1>12, <1>13, <1>14, <1>15,
      <1>16, <1>17, <1>18, <1>20, <1>21, <1>22

(* sl_win32_thread_detach_teb claims the context. *)
LEMMA DetachStep ==
  ASSUME IndInv, NEW h \in Hosts, NEW c \in Contexts, NEW b \in Tebs,
         pc[h] = "idle",
         MayUse(b),
         token[c] = Free,
         token' = [token EXCEPT ![c] = h],
         pc' = [pc EXCEPT ![h] = "detach"],
         op' = [op EXCEPT ![h] = "detach"],
         ctx' = [ctx EXCEPT ![h] = c],
         tb' = [tb EXCEPT ![h] = b],
         UNCHANGED <<scopeCount, owner, teb, lastError, expected, tebThread,
                      mapped, attached, tebError, refs, alive, chain>>
  PROVE  IndInv'
<1> USE DEF IndInv
<1>1. /\ \A x \in Contexts : token'[x] = IF x = c THEN h ELSE token[x]
      /\ \A g \in Hosts : pc'[g] = IF g = h THEN "detach" ELSE pc[g]
      /\ \A g \in Hosts : op'[g] = IF g = h THEN "detach" ELSE op[g]
      /\ \A g \in Hosts : ctx'[g] = IF g = h THEN c ELSE ctx[g]
      /\ \A g \in Hosts : tb'[g] = IF g = h THEN b ELSE tb[g]
  BY DEF TypeOK
<1>2. \A g \in Hosts, x \in Contexts : FrameCount(g, x)' = FrameCount(g, x)
  BY DEF FrameCount, ActiveFrames
<1>3. \A g \in Hosts, x \in Contexts : FrameCount(g, x) \in Nat
  BY FramesFinite
<1> USE <1>1, Typing, StepKinds, ThreadContextAssumption
<1>4. TypeOK'
  BY OpNames DEF TypeOK
<1>5. CallInv'
  BY DEF CallInv
<1>6. HoldInv'
  BY DEF HoldInv, CallInv
<1>7. QuietInv'
  BY <1>2, <1>3 DEF QuietInv, CallInv, FrameInv
<1>8. FrameInv'
  BY <1>2, <1>3 DEF FrameInv, HoldInv, CallInv, QuietInv
<1>9. NamedInv'
  BY <1>2, <1>3 DEF NamedInv, CallInv, HoldInv
<1>10. LeaseInv'
  BY DEF LeaseInv, CallInv, MayUse, MayDestroy
<1>11. OwnerInv'
  BY DEF OwnerInv, CallInv, LeaseInv, AttachInv, ReserveInv, PagesInv,
      CanAttach, CanDetach
<1>12. AttachInv'
  BY DEF AttachInv, CallInv, LeaseInv, OwnerInv, PagesInv, CanAttach,
      CanDetach
<1>13. ReserveInv'
  BY DEF ReserveInv, CallInv, HoldInv
<1>14. PagesInv'
  BY DEF PagesInv, CallInv, LeaseInv, OwnerInv, UnmapInv, MayDestroy
<1>15. MapInv'
  BY DEF MapInv, CallInv, LeaseInv, OwnerInv, PagesInv, ReserveInv
<1>16. UnmapInv'
  BY DEF UnmapInv, CallInv, LeaseInv, PagesInv
<1>17. CountInv'
  BY <1>2, <1>3 DEF CountInv, CallInv, HoldInv, FrameInv, QuietInv
<1>18. ScopeUsers' = ScopeUsers /\ CallUsers' = CallUsers /\ TebUsers' = TebUsers
  <2>1. ScopeUsers' = ScopeUsers
    BY DEF ScopeUsers, HoldingFrames
  <2>2. CallUsers' = CallUsers
    BY DEF CallUsers, Owing
  <2>3. \A a \in Tebs : Disowned(a)' <=> Disowned(a)
    BY DEF Disowned, CallInv, LeaseInv, PagesInv, OwnerInv, AttachInv
  <2>4. TebUsers' = TebUsers
    BY <2>3 DEF TebUsers
  <2>5. QED
    BY <2>1, <2>2, <2>4
<1>19. ReferencesExact'
  BY <1>18 DEF ReferencesExact
<1>20. AliveInv'
  BY DEF AliveInv, CallInv, Usable, HasProcess
<1>21. LastErrorSurvives'
  BY DEF LastErrorSurvives, CallInv, OwnerInv, AttachInv, PagesInv, LeaseInv,
      CanAttach, CanDetach
<1>22. QED
  BY <1>4, <1>5, <1>6, <1>7, <1>8, <1>9, <1>10, <1>11, <1>12, <1>13, <1>14,
      <1>15, <1>16, <1>17, <1>19, <1>20, <1>21

(* The TEB is detached and the last error copied back. *)
LEMMA DetachTebStep ==
  ASSUME IndInv, NEW h \in Hosts, NEW c \in Contexts, NEW b \in Tebs,
         pc[h] = "detach",
         ctx[h] = c,
         tb[h] = b,
         CanDetach(c, b),
         teb' = [teb EXCEPT ![c] = None],
         lastError' = [lastError EXCEPT ![c] = tebError[b]],
         attached' = [attached EXCEPT ![b] = FALSE],
         pc' = [pc EXCEPT ![h] = "release"],
         UNCHANGED <<token, scopeCount, owner, expected, tebThread, mapped,
                      tebError, refs, alive, chain, op, ctx, tb>>
  PROVE  IndInv'
<1> USE DEF IndInv
<1>1. /\ \A x \in Contexts : teb'[x] = IF x = c THEN None ELSE teb[x]
      /\ \A x \in Contexts :
            lastError'[x] = IF x = c THEN tebError[b]
                            ELSE lastError[x]
      /\ \A x \in Tebs : attached'[x] <=> x # b /\ attached[x]
      /\ \A g \in Hosts : pc'[g] = IF g = h THEN "release" ELSE pc[g]
  BY DEF TypeOK
<1>2. \A g \in Hosts, x \in Contexts : FrameCount(g, x)' = FrameCount(g, x)
  BY DEF FrameCount, ActiveFrames
<1>3. \A g \in Hosts, x \in Contexts : FrameCount(g, x) \in Nat
  BY FramesFinite
<1>4. token[c] = h /\ \A g \in Hosts : g # h /\ pc[g] \notin Loose => ctx[g] # c
  BY StepKinds DEF HoldInv, CallInv
<1> USE <1>1, <1>4, Typing, StepKinds, ThreadContextAssumption
<1>5. TypeOK'
  BY OpNames DEF TypeOK
<1>6. CallInv'
  BY DEF CallInv
<1>7. HoldInv'
  BY DEF HoldInv, CallInv
<1>8. QuietInv'
  BY <1>2, <1>3 DEF QuietInv, CallInv, FrameInv
<1>9. FrameInv'
  BY <1>2, <1>3 DEF FrameInv, HoldInv, CallInv, QuietInv
<1>10. NamedInv'
  BY <1>2, <1>3 DEF NamedInv, CallInv, HoldInv
<1>11. LeaseInv'
  BY DEF LeaseInv, CallInv, MayUse, MayDestroy
<1>12. OwnerInv'
  BY DEF OwnerInv, CallInv, LeaseInv, AttachInv, ReserveInv, PagesInv,
      CanAttach, CanDetach
<1>13. AttachInv'
  BY DEF AttachInv, CallInv, LeaseInv, OwnerInv, PagesInv, CanAttach,
      CanDetach
<1>14. ReserveInv'
  BY DEF ReserveInv, CallInv, HoldInv
<1>15. PagesInv'
  BY DEF PagesInv, CallInv, LeaseInv, OwnerInv, UnmapInv, MayDestroy
<1>16. MapInv'
  BY DEF MapInv, CallInv, LeaseInv, OwnerInv, PagesInv, ReserveInv
<1>17. UnmapInv'
  BY DEF UnmapInv, CallInv, LeaseInv, PagesInv
<1>18. CountInv'
  BY <1>2, <1>3 DEF CountInv, CallInv, HoldInv, FrameInv, QuietInv
<1>19. ScopeUsers' = ScopeUsers /\ CallUsers' = CallUsers /\ TebUsers' = TebUsers
  <2>1. ScopeUsers' = ScopeUsers
    BY DEF ScopeUsers, HoldingFrames
  <2>2. CallUsers' = CallUsers
    BY DEF CallUsers, Owing
  <2>3. \A a \in Tebs : Disowned(a)' <=> Disowned(a)
    BY DEF Disowned, CallInv, LeaseInv, PagesInv, OwnerInv, AttachInv
  <2>4. TebUsers' = TebUsers
    BY <2>3 DEF TebUsers
  <2>5. QED
    BY <2>1, <2>2, <2>4
<1>20. ReferencesExact'
  BY <1>19 DEF ReferencesExact
<1>21. AliveInv'
  BY DEF AliveInv, CallInv, Usable, HasProcess
<1>22. LastErrorSurvives'
  BY DEF LastErrorSurvives, CallInv, OwnerInv, AttachInv, PagesInv, LeaseInv,
      CanAttach, CanDetach
<1>23. QED
  BY <1>5, <1>6, <1>7, <1>8, <1>9, <1>10, <1>11, <1>12, <1>13, <1>14, <1>15,
      <1>16, <1>17, <1>18, <1>20, <1>21, <1>22

(* The TEB is not the one of the context. *)
LEMMA DetachRefusedStep ==
  ASSUME IndInv, NEW h \in Hosts, NEW c \in Contexts, NEW b \in Tebs,
         pc[h] = "detach",
         ctx[h] = c,
         tb[h] = b,
         pc' = [pc EXCEPT ![h] = "release"],
         UNCHANGED <<token, scopeCount, owner, teb, lastError, expected,
                      tebThread, mapped, attached, tebError, refs, alive,
                      chain, op, ctx, tb>>
  PROVE  IndInv'
<1> USE DEF IndInv
<1>1. /\ \A g \in Hosts : pc'[g] = IF g = h THEN "release" ELSE pc[g]
  BY DEF TypeOK
<1>2. \A g \in Hosts, x \in Contexts : FrameCount(g, x)' = FrameCount(g, x)
  BY DEF FrameCount, ActiveFrames
<1>3. \A g \in Hosts, x \in Contexts : FrameCount(g, x) \in Nat
  BY FramesFinite
<1>4. token[c] = h /\ \A g \in Hosts : g # h /\ pc[g] \notin Loose => ctx[g] # c
  BY StepKinds DEF HoldInv, CallInv
<1> USE <1>1, <1>4, Typing, StepKinds, ThreadContextAssumption
<1>5. TypeOK'
  BY OpNames DEF TypeOK
<1>6. CallInv'
  BY DEF CallInv
<1>7. HoldInv'
  BY DEF HoldInv, CallInv
<1>8. QuietInv'
  BY <1>2, <1>3 DEF QuietInv, CallInv, FrameInv
<1>9. FrameInv'
  BY <1>2, <1>3 DEF FrameInv, HoldInv, CallInv, QuietInv
<1>10. NamedInv'
  BY <1>2, <1>3 DEF NamedInv, CallInv, HoldInv
<1>11. LeaseInv'
  BY DEF LeaseInv, CallInv, MayUse, MayDestroy
<1>12. OwnerInv'
  BY DEF OwnerInv, CallInv, LeaseInv, AttachInv, ReserveInv, PagesInv,
      CanAttach, CanDetach
<1>13. AttachInv'
  BY DEF AttachInv, CallInv, LeaseInv, OwnerInv, PagesInv, CanAttach,
      CanDetach
<1>14. ReserveInv'
  BY DEF ReserveInv, CallInv, HoldInv
<1>15. PagesInv'
  BY DEF PagesInv, CallInv, LeaseInv, OwnerInv, UnmapInv, MayDestroy
<1>16. MapInv'
  BY DEF MapInv, CallInv, LeaseInv, OwnerInv, PagesInv, ReserveInv
<1>17. UnmapInv'
  BY DEF UnmapInv, CallInv, LeaseInv, PagesInv
<1>18. CountInv'
  BY <1>2, <1>3 DEF CountInv, CallInv, HoldInv, FrameInv, QuietInv
<1>19. ScopeUsers' = ScopeUsers /\ CallUsers' = CallUsers /\ TebUsers' = TebUsers
  <2>1. ScopeUsers' = ScopeUsers
    BY DEF ScopeUsers, HoldingFrames
  <2>2. CallUsers' = CallUsers
    BY DEF CallUsers, Owing
  <2>3. \A a \in Tebs : Disowned(a)' <=> Disowned(a)
    BY DEF Disowned, CallInv, LeaseInv, PagesInv, OwnerInv, AttachInv
  <2>4. TebUsers' = TebUsers
    BY <2>3 DEF TebUsers
  <2>5. QED
    BY <2>1, <2>2, <2>4
<1>20. ReferencesExact'
  BY <1>19 DEF ReferencesExact
<1>21. AliveInv'
  BY DEF AliveInv, CallInv, Usable, HasProcess
<1>22. LastErrorSurvives'
  BY DEF LastErrorSurvives, CallInv, OwnerInv, AttachInv, PagesInv, LeaseInv,
      CanAttach, CanDetach
<1>23. QED
  BY <1>5, <1>6, <1>7, <1>8, <1>9, <1>10, <1>11, <1>12, <1>13, <1>14, <1>15,
      <1>16, <1>17, <1>18, <1>20, <1>21, <1>22

(* A guest without a TEB sets its last error. *)
LEMMA SetOwnErrorStep ==
  ASSUME IndInv, NEW c \in Contexts, NEW e \in Errors,
         teb[c] = None,
         lastError' = [lastError EXCEPT ![c] = e],
         expected' = [expected EXCEPT ![c] = e],
         UNCHANGED <<token, scopeCount, owner, teb, tebThread, mapped,
                      attached, tebError, refs, alive, chain, pc, op, ctx,
                      tb>>
  PROVE  IndInv'
<1> USE DEF IndInv
<1>1. /\ \A x \in Contexts : lastError'[x] = IF x = c THEN e ELSE lastError[x]
      /\ \A x \in Contexts : expected'[x] = IF x = c THEN e ELSE expected[x]
  BY DEF TypeOK
<1>2. \A g \in Hosts, x \in Contexts : FrameCount(g, x)' = FrameCount(g, x)
  BY DEF FrameCount, ActiveFrames
<1>3. \A g \in Hosts, x \in Contexts : FrameCount(g, x) \in Nat
  BY FramesFinite
<1> USE <1>1, Typing, StepKinds, ThreadContextAssumption
<1>4. TypeOK'
  BY OpNames DEF TypeOK
<1>5. CallInv'
  BY DEF CallInv
<1>6. HoldInv'
  BY DEF HoldInv, CallInv
<1>7. QuietInv'
  BY <1>2, <1>3 DEF QuietInv, CallInv, FrameInv
<1>8. FrameInv'
  BY <1>2, <1>3 DEF FrameInv, HoldInv, CallInv, QuietInv
<1>9. NamedInv'
  BY <1>2, <1>3 DEF NamedInv, CallInv, HoldInv
<1>10. LeaseInv'
  BY DEF LeaseInv, CallInv, MayUse, MayDestroy
<1>11. OwnerInv'
  BY DEF OwnerInv, CallInv, LeaseInv, AttachInv, ReserveInv, PagesInv,
      CanAttach, CanDetach
<1>12. AttachInv'
  BY DEF AttachInv, CallInv, LeaseInv, OwnerInv, PagesInv, CanAttach,
      CanDetach
<1>13. ReserveInv'
  BY DEF ReserveInv, CallInv, HoldInv
<1>14. PagesInv'
  BY DEF PagesInv, CallInv, LeaseInv, OwnerInv, UnmapInv, MayDestroy
<1>15. MapInv'
  BY DEF MapInv, CallInv, LeaseInv, OwnerInv, PagesInv, ReserveInv
<1>16. UnmapInv'
  BY DEF UnmapInv, CallInv, LeaseInv, PagesInv
<1>17. CountInv'
  BY <1>2, <1>3 DEF CountInv, CallInv, HoldInv, FrameInv, QuietInv
<1>18. ScopeUsers' = ScopeUsers /\ CallUsers' = CallUsers /\ TebUsers' = TebUsers
  <2>1. ScopeUsers' = ScopeUsers
    BY DEF ScopeUsers, HoldingFrames
  <2>2. CallUsers' = CallUsers
    BY DEF CallUsers, Owing
  <2>3. \A a \in Tebs : Disowned(a)' <=> Disowned(a)
    BY DEF Disowned, CallInv, LeaseInv, PagesInv, OwnerInv, AttachInv
  <2>4. TebUsers' = TebUsers
    BY <2>3 DEF TebUsers
  <2>5. QED
    BY <2>1, <2>2, <2>4
<1>19. ReferencesExact'
  BY <1>18 DEF ReferencesExact
<1>20. AliveInv'
  BY DEF AliveInv, CallInv, Usable, HasProcess
<1>21. LastErrorSurvives'
  BY DEF LastErrorSurvives, CallInv, OwnerInv, AttachInv, PagesInv, LeaseInv,
      CanAttach, CanDetach
<1>22. QED
  BY <1>4, <1>5, <1>6, <1>7, <1>8, <1>9, <1>10, <1>11, <1>12, <1>13, <1>14,
      <1>15, <1>16, <1>17, <1>19, <1>20, <1>21

(* A guest sets the last error in its TEB. *)
LEMMA SetTebErrorStep ==
  ASSUME IndInv, NEW c \in Contexts, NEW b \in Tebs, NEW e \in Errors,
         teb[c] = b,
         expected' = [expected EXCEPT ![c] = e],
         tebError' = [tebError EXCEPT ![b] = e],
         UNCHANGED <<token, scopeCount, owner, teb, lastError, tebThread,
                      mapped, attached, refs, alive, chain, pc, op, ctx, tb>>
  PROVE  IndInv'
<1> USE DEF IndInv
<1>1. /\ \A x \in Contexts : expected'[x] = IF x = c THEN e ELSE expected[x]
      /\ \A x \in Tebs : tebError'[x] = IF x = b THEN e ELSE tebError[x]
  BY DEF TypeOK
<1>2. \A g \in Hosts, x \in Contexts : FrameCount(g, x)' = FrameCount(g, x)
  BY DEF FrameCount, ActiveFrames
<1>3. \A g \in Hosts, x \in Contexts : FrameCount(g, x) \in Nat
  BY FramesFinite
<1> USE <1>1, Typing, StepKinds, ThreadContextAssumption
<1>4. TypeOK'
  BY OpNames DEF TypeOK
<1>5. CallInv'
  BY DEF CallInv
<1>6. HoldInv'
  BY DEF HoldInv, CallInv
<1>7. QuietInv'
  BY <1>2, <1>3 DEF QuietInv, CallInv, FrameInv
<1>8. FrameInv'
  BY <1>2, <1>3 DEF FrameInv, HoldInv, CallInv, QuietInv
<1>9. NamedInv'
  BY <1>2, <1>3 DEF NamedInv, CallInv, HoldInv
<1>10. LeaseInv'
  BY DEF LeaseInv, CallInv, MayUse, MayDestroy
<1>11. OwnerInv'
  BY DEF OwnerInv, CallInv, LeaseInv, AttachInv, ReserveInv, PagesInv,
      CanAttach, CanDetach
<1>12. AttachInv'
  BY DEF AttachInv, CallInv, LeaseInv, OwnerInv, PagesInv, CanAttach,
      CanDetach
<1>13. ReserveInv'
  BY DEF ReserveInv, CallInv, HoldInv
<1>14. PagesInv'
  BY DEF PagesInv, CallInv, LeaseInv, OwnerInv, UnmapInv, MayDestroy
<1>15. MapInv'
  BY DEF MapInv, CallInv, LeaseInv, OwnerInv, PagesInv, ReserveInv
<1>16. UnmapInv'
  BY DEF UnmapInv, CallInv, LeaseInv, PagesInv
<1>17. CountInv'
  BY <1>2, <1>3 DEF CountInv, CallInv, HoldInv, FrameInv, QuietInv
<1>18. ScopeUsers' = ScopeUsers /\ CallUsers' = CallUsers /\ TebUsers' = TebUsers
  <2>1. ScopeUsers' = ScopeUsers
    BY DEF ScopeUsers, HoldingFrames
  <2>2. CallUsers' = CallUsers
    BY DEF CallUsers, Owing
  <2>3. \A a \in Tebs : Disowned(a)' <=> Disowned(a)
    BY DEF Disowned, CallInv, LeaseInv, PagesInv, OwnerInv, AttachInv
  <2>4. TebUsers' = TebUsers
    BY <2>3 DEF TebUsers
  <2>5. QED
    BY <2>1, <2>2, <2>4
<1>19. ReferencesExact'
  BY <1>18 DEF ReferencesExact
<1>20. AliveInv'
  BY DEF AliveInv, CallInv, Usable, HasProcess
<1>21. LastErrorSurvives'
  BY DEF LastErrorSurvives, CallInv, OwnerInv, AttachInv, PagesInv, LeaseInv,
      CanAttach, CanDetach
<1>22. QED
  BY <1>4, <1>5, <1>6, <1>7, <1>8, <1>9, <1>10, <1>11, <1>12, <1>13, <1>14,
      <1>15, <1>16, <1>17, <1>19, <1>20, <1>21

(* The process is destroyed. *)
LEMMA ProcessDestroyStep ==
  ASSUME IndInv,
         refs = 0,
         \A g \in Hosts : ~(pc[g] \in Joining /\ ctx[g] \notin Detached),
         alive' = FALSE,
         UNCHANGED <<token, scopeCount, owner, teb, lastError, expected,
                      tebThread, mapped, attached, tebError, refs, chain, pc,
                      op, ctx, tb>>
  PROVE  IndInv'
<1> USE DEF IndInv
<1>1. \A g \in Hosts, x \in Contexts : FrameCount(g, x)' = FrameCount(g, x)
  BY DEF FrameCount, ActiveFrames
<1>2. \A g \in Hosts, x \in Contexts : FrameCount(g, x) \in Nat
  BY FramesFinite
<1> USE Typing, StepKinds, ThreadContextAssumption
<1>3. TypeOK'
  BY OpNames DEF TypeOK
<1>4. CallInv'
  BY DEF CallInv
<1>5. HoldInv'
  BY DEF HoldInv, CallInv
<1>6. QuietInv'
  BY <1>1, <1>2 DEF QuietInv, CallInv, FrameInv
<1>7. FrameInv'
  BY <1>1, <1>2 DEF FrameInv, HoldInv, CallInv, QuietInv
<1>8. NamedInv'
  BY <1>1, <1>2 DEF NamedInv, CallInv, HoldInv
<1>9. LeaseInv'
  BY DEF LeaseInv, CallInv, MayUse, MayDestroy
<1>10. OwnerInv'
  BY DEF OwnerInv, CallInv, LeaseInv, AttachInv, ReserveInv, PagesInv,
      CanAttach, CanDetach
<1>11. AttachInv'
  BY DEF AttachInv, CallInv, LeaseInv, OwnerInv, PagesInv, CanAttach,
      CanDetach
<1>12. ReserveInv'
  BY DEF ReserveInv, CallInv, HoldInv
<1>13. PagesInv'
  BY DEF PagesInv, CallInv, LeaseInv, OwnerInv, UnmapInv, MayDestroy
<1>14. MapInv'
  BY DEF MapInv, CallInv, LeaseInv, OwnerInv, PagesInv, ReserveInv
<1>15. UnmapInv'
  BY DEF UnmapInv, CallInv, LeaseInv, PagesInv
<1>16. CountInv'
  BY <1>1, <1>2 DEF CountInv, CallInv, HoldInv, FrameInv, QuietInv
<1>17. ScopeUsers' = ScopeUsers /\ CallUsers' = CallUsers /\ TebUsers' = TebUsers
  <2>1. ScopeUsers' = ScopeUsers
    BY DEF ScopeUsers, HoldingFrames
  <2>2. CallUsers' = CallUsers
    BY DEF CallUsers, Owing
  <2>3. \A a \in Tebs : Disowned(a)' <=> Disowned(a)
    BY DEF Disowned, CallInv, LeaseInv, PagesInv, OwnerInv, AttachInv
  <2>4. TebUsers' = TebUsers
    BY <2>3 DEF TebUsers
  <2>5. QED
    BY <2>1, <2>2, <2>4
<1>18. ReferencesExact'
  BY <1>17 DEF ReferencesExact
<1>19. AliveInv'
  BY DEF AliveInv, CallInv, Usable, HasProcess
<1>20. LastErrorSurvives'
  BY DEF LastErrorSurvives, CallInv, OwnerInv, AttachInv, PagesInv, LeaseInv,
      CanAttach, CanDetach
<1>21. QED
  BY <1>3, <1>4, <1>5, <1>6, <1>7, <1>8, <1>9, <1>10, <1>11, <1>12, <1>13,
      <1>14, <1>15, <1>16, <1>18, <1>19, <1>20

-----------------------------------------------------------------------------
(* At the start no context is in use. *)
LEMMA InitInd == Init => IndInv
<1> SUFFICES ASSUME Init PROVE IndInv
  OBVIOUS
<1> USE StepKinds, ThreadContextAssumption
<1>1. TypeOK
  BY OpNames DEF Init, TypeOK
<1>2. \A h \in Hosts, x \in Contexts : FrameCount(h, x) = 0
  <2> SUFFICES ASSUME NEW h \in Hosts, NEW x \in Contexts
               PROVE  FrameCount(h, x) = 0
    OBVIOUS
  <2>1. ActiveFrames(h, x) = {}
    BY DEF Init, ActiveFrames
  <2>2. QED
    BY <1>1, <2>1, FramesFinite
<1>3. CallInv
  BY DEF Init, CallInv
<1>4. HoldInv /\ QuietInv /\ FrameInv /\ NamedInv /\ CountInv
  BY <1>2 DEF Init, HoldInv, QuietInv, FrameInv, NamedInv, CountInv
<1>5. LeaseInv /\ OwnerInv /\ AttachInv /\ ReserveInv
  BY DEF Init, LeaseInv, OwnerInv, AttachInv, ReserveInv
<1>6. PagesInv /\ MapInv /\ UnmapInv
  BY DEF Init, PagesInv, MapInv, UnmapInv
<1>7. ReferencesExact
  <2>1. ScopeUsers = {}
    BY DEF Init, ScopeUsers, HoldingFrames
  <2>2. CallUsers = {} /\ TebUsers = {}
    BY DEF Init, CallUsers, TebUsers
  <2>3. Cardinality({}) = 0
    BY FS_EmptySet
  <2>4. refs = 0
    BY DEF Init
  <2>5. QED
    BY <2>1, <2>2, <2>3, <2>4 DEF ReferencesExact
<1>8. AliveInv
  BY DEF Init, AliveInv
<1>9. LastErrorSurvives
  BY DEF Init, LastErrorSurvives
<1>10. QED
  BY <1>1, <1>3, <1>4, <1>5, <1>6, <1>7, <1>8, <1>9 DEF IndInv

(* A step that changes nothing keeps the invariant. *)
LEMMA StutterInd ==
  ASSUME IndInv, UNCHANGED vars
  PROVE  IndInv'
<1> USE DEF IndInv, vars, contextVars, tebVars, processVars, callVars
<1>1. \A h \in Hosts, x \in Contexts : FrameCount(h, x)' = FrameCount(h, x)
  BY DEF FrameCount, ActiveFrames
<1>2. TypeOK' /\ CallInv' /\ HoldInv'
  BY DEF TypeOK, CallInv, HoldInv
<1>3. QuietInv' /\ FrameInv' /\ NamedInv' /\ CountInv'
  BY <1>1 DEF QuietInv, FrameInv, NamedInv, CountInv
<1>4. LeaseInv' /\ OwnerInv' /\ AttachInv' /\ ReserveInv'
  BY DEF LeaseInv, OwnerInv, AttachInv, ReserveInv
<1>5. PagesInv' /\ MapInv' /\ UnmapInv'
  BY DEF PagesInv, MapInv, UnmapInv
<1>6. ReferencesExact'
  BY DEF ReferencesExact, ScopeUsers, HoldingFrames, CallUsers, TebUsers,
         Disowned
<1>7. AliveInv' /\ LastErrorSurvives'
  BY DEF AliveInv, LastErrorSurvives
<1>8. QED
  BY <1>2, <1>3, <1>4, <1>5, <1>6, <1>7

(* Whoever is about to give a reference back has one. *)
LEMMA ReferenceHeld ==
  ASSUME IndInv, NEW h \in Hosts, pc[h] \in Owing \/ pc[h] = "destroy_unretain"
  PROVE  refs > 0
<1> USE DEF IndInv
<1>1. CASE pc[h] \in Owing
  <2>1. h \in CallUsers
    BY <1>1 DEF CallUsers, Owing
  <2>2. Cardinality(CallUsers) # 0
    BY <2>1, UsersFinite
  <2>3. QED
    BY <2>2, UsersFinite DEF ReferencesExact
<1>2. CASE pc[h] = "destroy_unretain"
  <2>1. op[h] = "destroy" /\ tb[h] \in Tebs
    BY <1>2, StepKinds DEF CallInv
  <2>2. ~Disowned(tb[h]) /\ tebThread[tb[h]] # None
    BY <1>2, <2>1, ThreadContextAssumption DEF Disowned, LeaseInv
  <2>3. tb[h] \in TebUsers
    BY <2>1, <2>2 DEF TebUsers
  <2>4. Cardinality(TebUsers) # 0
    BY <2>3, UsersFinite
  <2>5. QED
    BY <2>4, UsersFinite DEF ReferencesExact
<1>3. QED
  BY <1>1, <1>2

(* A scope is dropped from a count that is not zero. *)
LEMMA ScopeHeld ==
  ASSUME IndInv, NEW h \in Hosts, pc[h] = "drop_scope"
  PROVE  scopeCount[ctx[h]] > 0 /\ token[ctx[h]] = h
<1> USE StepKinds, ThreadContextAssumption DEF IndInv
<1>1. ctx[h] \in Contexts /\ token[ctx[h]] = h
  BY DEF CallInv, HoldInv
<1>2. FrameCount(h, ctx[h]) \in Nat
  BY FramesFinite
<1>3. scopeCount[ctx[h]] = FrameCount(h, ctx[h]) + 1
  BY <1>1 DEF CountInv
<1>4. QED
  BY <1>1, <1>2, <1>3

-----------------------------------------------------------------------------
(* The steps of a call, action by action. *)

LEMMA ClaimTokenInd ==
  ASSUME IndInv, NEW h \in Hosts, ClaimToken(h)
  PROVE  IndInv'
<1>1. ctx[h] \in Contexts
  BY StepKinds DEF ClaimToken, IndInv, CallInv
<1>2. QED
  BY <1>1, ClaimTokenStep
     DEF ClaimToken, Goto, contextVars, tebVars, processVars

LEMMA ClaimLostInd ==
  ASSUME IndInv, NEW h \in Hosts, ClaimLost(h)
  PROVE  IndInv'
<1>1. ctx[h] \in Contexts
  BY StepKinds DEF ClaimLost, IndInv, CallInv
<1>2. QED
  BY <1>1, ClaimLostStep
     DEF ClaimLost, Finish, contextVars, tebVars, processVars

LEMMA ClaimCountInd ==
  ASSUME IndInv, NEW h \in Hosts, ClaimCount(h)
  PROVE  IndInv'
<1>1. ctx[h] \in Contexts
  BY StepKinds DEF ClaimCount, IndInv, CallInv
<1>2. QED
  BY <1>1, ClaimCountStep
     DEF ClaimCount, Goto, contextVars, tebVars, processVars

LEMMA EnterRefusedInd ==
  ASSUME IndInv, NEW h \in Hosts, EnterRefused(h)
  PROVE  IndInv'
<1>1. ctx[h] \in Contexts
  BY StepKinds DEF EnterRefused, IndInv, CallInv
<1>2. QED
  BY <1>1, EnterRefusedStep
     DEF EnterRefused, Goto, contextVars, tebVars, processVars

LEMMA LeaveProcessInd ==
  ASSUME IndInv, NEW h \in Hosts, LeaveProcess(h)
  PROVE  IndInv'
<1>1. ctx[h] \in Contexts
  BY StepKinds DEF LeaveProcess, IndInv, CallInv
<1>2. refs > 0
  BY ReferenceHeld, StepKinds DEF LeaveProcess
<1>3. QED
  BY <1>1, <1>2, LeaveProcessStep
     DEF LeaveProcess, Release, Goto, contextVars, tebVars, processVars

LEMMA DropScopeInd ==
  ASSUME IndInv, NEW h \in Hosts, DropScope(h)
  PROVE  IndInv'
<1>1. PICK c \in Contexts : c = ctx[h]
  BY StepKinds DEF DropScope, IndInv, CallInv
<1>2. scopeCount[c] > 0 /\ scopeCount[c] \in Nat
  BY <1>1, ScopeHeld, Typing DEF DropScope, IndInv
<1>3. /\ pc[h] = "drop_scope" /\ ctx[h] = c
      /\ scopeCount' = [scopeCount EXCEPT ![c] = scopeCount[c] - 1]
      /\ UNCHANGED <<token, owner, teb, lastError, expected, tebThread, mapped, attached,
                     tebError, refs, alive, chain>>
  BY <1>1 DEF DropScope, tebVars, processVars
<1>4. CASE scopeCount[c] = 1
  BY <1>1, <1>3, <1>4, DropLastStep DEF DropScope, Goto
<1>5. CASE scopeCount[c] > 1
  <2>1. Finish(h)
    BY <1>1, <1>5 DEF DropScope
  <2>2. QED
    BY <1>3, <1>5, <2>1, DropScopeStep DEF Finish
<1>6. QED
  BY <1>2, <1>4, <1>5

LEMMA DropTokenInd ==
  ASSUME IndInv, NEW h \in Hosts, DropToken(h)
  PROVE  IndInv'
<1>1. ctx[h] \in Contexts
  BY StepKinds DEF DropToken, IndInv, CallInv
<1>2. QED
  BY <1>1, DropTokenStep
     DEF DropToken, Finish, contextVars, tebVars, processVars

LEMMA CreateCheckInd ==
  ASSUME IndInv, NEW h \in Hosts, CreateCheck(h)
  PROVE  IndInv'
<1>1. ctx[h] \in Contexts
  BY StepKinds DEF CreateCheck, IndInv, CallInv
<1>2. CASE ctx[h] \notin Detached /\ teb[ctx[h]] = None
  BY <1>1, <1>2, CreateCheckStep
     DEF CreateCheck, Goto, HasProcess, contextVars, tebVars, processVars
<1>3. CASE ~(ctx[h] \notin Detached /\ teb[ctx[h]] = None)
  BY <1>1, <1>3, CreateCheckFailsStep
     DEF CreateCheck, Goto, HasProcess, contextVars, tebVars, processVars
<1>4. QED
  BY <1>2, <1>3

LEMMA CreateReserveInd ==
  ASSUME IndInv, NEW h \in Hosts, CreateReserve(h)
  PROVE  IndInv'
<1>1. ctx[h] \in Contexts
  BY StepKinds DEF CreateReserve, IndInv, CallInv
<1>2. CASE owner[ctx[h]] = None
  BY <1>1, <1>2, CreateReserveStep
     DEF CreateReserve, Goto, contextVars, tebVars, processVars
<1>3. CASE owner[ctx[h]] # None
  BY <1>1, <1>3, CreateReserveFailsStep
     DEF CreateReserve, Goto, contextVars, tebVars, processVars
<1>4. QED
  BY <1>2, <1>3

LEMMA CreateRetainInd ==
  ASSUME IndInv, NEW h \in Hosts, CreateRetain(h)
  PROVE  IndInv'
<1>1. ctx[h] \in Contexts
  BY StepKinds DEF CreateRetain, IndInv, CallInv
<1>2. ctx[h] \notin Detached
  BY StepKinds DEF CreateRetain, IndInv, CallInv
<1>3. CASE refs < MaxReferences
  BY <1>1, <1>2, <1>3, CreateRetainStep
     DEF CreateRetain, Goto, CanRetain, Retain, HasProcess, contextVars,
         tebVars, processVars
<1>4. CASE ~(refs < MaxReferences)
  BY <1>1, <1>2, <1>4, CreateRetainFailsStep
     DEF CreateRetain, Goto, CanRetain, Retain, HasProcess, contextVars,
         tebVars, processVars
<1>5. QED
  BY <1>3, <1>4, <1>2

LEMMA CreateMapFailsInd ==
  ASSUME IndInv, NEW h \in Hosts, CreateMapFails(h)
  PROVE  IndInv'
<1>1. ctx[h] \in Contexts
  BY StepKinds DEF CreateMapFails, IndInv, CallInv
<1>2. QED
  BY <1>1, CreateMapFailsStep
     DEF CreateMapFails, Goto, contextVars, tebVars, processVars

LEMMA CreateUnretainInd ==
  ASSUME IndInv, NEW h \in Hosts, CreateUnretain(h)
  PROVE  IndInv'
<1>1. ctx[h] \in Contexts
  BY StepKinds DEF CreateUnretain, IndInv, CallInv
<1>2. refs > 0
  BY ReferenceHeld, StepKinds DEF CreateUnretain
<1>3. QED
  BY <1>1, <1>2, CreateUnretainStep
     DEF CreateUnretain, Release, Goto, contextVars, tebVars, processVars

LEMMA CreateUnreserveInd ==
  ASSUME IndInv, NEW h \in Hosts, CreateUnreserve(h)
  PROVE  IndInv'
<1>1. ctx[h] \in Contexts
  BY StepKinds DEF CreateUnreserve, IndInv, CallInv
<1>2. QED
  BY <1>1, CreateUnreserveStep
     DEF CreateUnreserve, Goto, contextVars, tebVars, processVars

LEMMA CreatePublishInd ==
  ASSUME IndInv, NEW h \in Hosts, CreatePublish(h)
  PROVE  IndInv'
<1>1. ctx[h] \in Contexts /\ tb[h] \in Tebs
  BY StepKinds DEF CreatePublish, IndInv, CallInv
<1>2. QED
  BY <1>1, CreatePublishStep
     DEF CreatePublish, Goto, contextVars, tebVars, processVars

LEMMA DestroyCheckInd ==
  ASSUME IndInv, NEW h \in Hosts, DestroyCheck(h)
  PROVE  IndInv'
<1>1. ctx[h] \in Contexts /\ tb[h] \in Tebs
  BY StepKinds DEF DestroyCheck, IndInv, CallInv
<1>2. CASE ~attached[tb[h]]
  BY <1>1, <1>2, DestroyCheckStep
     DEF DestroyCheck, Goto, contextVars, tebVars, processVars
<1>3. CASE attached[tb[h]]
  BY <1>1, <1>3, DestroyCheckFailsStep
     DEF DestroyCheck, Goto, contextVars, tebVars, processVars
<1>4. QED
  BY <1>2, <1>3

LEMMA DestroyReserveInd ==
  ASSUME IndInv, NEW h \in Hosts, DestroyReserve(h)
  PROVE  IndInv'
<1>1. ctx[h] \in Contexts /\ tb[h] \in Tebs
  BY StepKinds DEF DestroyReserve, IndInv, CallInv
<1>2. CASE owner[ctx[h]] = tb[h]
  BY <1>1, <1>2, DestroyReserveStep
     DEF DestroyReserve, Goto, contextVars, tebVars, processVars
<1>3. CASE owner[ctx[h]] # tb[h]
  BY <1>1, <1>3, DestroyReserveFailsStep
     DEF DestroyReserve, Goto, contextVars, tebVars, processVars
<1>4. QED
  BY <1>2, <1>3

LEMMA DestroyUnmapInd ==
  ASSUME IndInv, NEW h \in Hosts, DestroyUnmap(h)
  PROVE  IndInv'
<1>1. ctx[h] \in Contexts /\ tb[h] \in Tebs
  BY StepKinds DEF DestroyUnmap, IndInv, CallInv
<1>2. QED
  BY <1>1, DestroyUnmapStep
     DEF DestroyUnmap, Goto, contextVars, tebVars, processVars

LEMMA DestroyUnmapFailsInd ==
  ASSUME IndInv, NEW h \in Hosts, DestroyUnmapFails(h)
  PROVE  IndInv'
<1>1. ctx[h] \in Contexts /\ tb[h] \in Tebs
  BY StepKinds DEF DestroyUnmapFails, IndInv, CallInv
<1>2. QED
  BY <1>1, DestroyUnmapFailsStep
     DEF DestroyUnmapFails, Goto, contextVars, tebVars, processVars

LEMMA DestroyRestoreInd ==
  ASSUME IndInv, NEW h \in Hosts, DestroyRestore(h)
  PROVE  IndInv'
<1>1. ctx[h] \in Contexts /\ tb[h] \in Tebs
  BY StepKinds DEF DestroyRestore, IndInv, CallInv
<1>2. QED
  BY <1>1, DestroyRestoreStep
     DEF DestroyRestore, Goto, contextVars, tebVars, processVars

LEMMA DestroyDisownInd ==
  ASSUME IndInv, NEW h \in Hosts, DestroyDisown(h)
  PROVE  IndInv'
<1>1. ctx[h] \in Contexts /\ tb[h] \in Tebs
  BY StepKinds DEF DestroyDisown, IndInv, CallInv
<1>2. QED
  BY <1>1, DestroyDisownStep
     DEF DestroyDisown, Goto, contextVars, tebVars, processVars

LEMMA DestroyUnretainInd ==
  ASSUME IndInv, NEW h \in Hosts, DestroyUnretain(h)
  PROVE  IndInv'
<1>1. ctx[h] \in Contexts /\ tb[h] \in Tebs
  BY StepKinds DEF DestroyUnretain, IndInv, CallInv
<1>2. refs > 0
  BY ReferenceHeld, StepKinds DEF DestroyUnretain
<1>3. QED
  BY <1>1, <1>2, DestroyUnretainStep
     DEF DestroyUnretain, Release, Goto, contextVars, tebVars, processVars

LEMMA DestroyFreeInd ==
  ASSUME IndInv, NEW h \in Hosts, DestroyFree(h)
  PROVE  IndInv'
<1>1. ctx[h] \in Contexts /\ tb[h] \in Tebs
  BY StepKinds DEF DestroyFree, IndInv, CallInv
<1>2. QED
  BY <1>1, DestroyFreeStep
     DEF DestroyFree, Finish, contextVars, tebVars, processVars

LEMMA AttachTebInd ==
  ASSUME IndInv, NEW h \in Hosts, AttachTeb(h)
  PROVE  IndInv'
<1>1. ctx[h] \in Contexts /\ tb[h] \in Tebs
  BY StepKinds DEF AttachTeb, IndInv, CallInv
<1>2. CASE CanAttach(ctx[h], tb[h])
  BY <1>1, <1>2, AttachTebStep
     DEF AttachTeb, Goto, contextVars, tebVars, processVars
<1>3. CASE ~CanAttach(ctx[h], tb[h])
  BY <1>1, <1>3, AttachRefusedStep
     DEF AttachTeb, Goto, contextVars, tebVars, processVars
<1>4. QED
  BY <1>2, <1>3

LEMMA DetachTebInd ==
  ASSUME IndInv, NEW h \in Hosts, DetachTeb(h)
  PROVE  IndInv'
<1>1. ctx[h] \in Contexts /\ tb[h] \in Tebs
  BY StepKinds DEF DetachTeb, IndInv, CallInv
<1>2. CASE CanDetach(ctx[h], tb[h])
  BY <1>1, <1>2, DetachTebStep
     DEF DetachTeb, Goto, contextVars, tebVars, processVars
<1>3. CASE ~CanDetach(ctx[h], tb[h])
  BY <1>1, <1>3, DetachRefusedStep
     DEF DetachTeb, Goto, contextVars, tebVars, processVars
<1>4. QED
  BY <1>2, <1>3

LEMMA ReleaseInactiveInd ==
  ASSUME IndInv, NEW h \in Hosts, ReleaseInactive(h)
  PROVE  IndInv'
<1>1. ctx[h] \in Contexts /\ (op[h] = "destroy" => tb[h] \in Tebs)
  BY StepKinds DEF ReleaseInactive, IndInv, CallInv
<1>2. CASE op[h] = "destroy" /\ ~mapped[tb[h]]
  BY <1>1, <1>2, ReleaseUnmappedStep
     DEF ReleaseInactive, Goto, contextVars, tebVars, processVars
<1>3. CASE ~(op[h] = "destroy" /\ ~mapped[tb[h]])
  BY <1>1, <1>3, ReleaseInactiveStep
     DEF ReleaseInactive, Finish, contextVars, tebVars, processVars
<1>4. QED
  BY <1>2, <1>3

LEMMA CreateMapInd ==
  ASSUME IndInv, NEW h \in Hosts, CreateMap(h)
  PROVE  IndInv'
<1>1. ctx[h] \in Contexts
  BY StepKinds DEF CreateMap, IndInv, CallInv
<1>2. PICK b \in Tebs :
        /\ tebThread[b] = None
        /\ tebThread' = [tebThread EXCEPT ![b] = ctx[h]]
        /\ mapped' = [mapped EXCEPT ![b] = TRUE]
        /\ attached' = [attached EXCEPT ![b] = FALSE]
        /\ tebError' = [tebError EXCEPT ![b] = lastError[ctx[h]]]
        /\ tb' = [tb EXCEPT ![h] = b]
  BY DEF CreateMap
<1>3. QED
  BY <1>1, <1>2, CreateMapStep DEF CreateMap, contextVars, processVars

(* The calls that begin. *)
LEMMA BeginInd ==
  ASSUME IndInv, NEW h \in Hosts,
         \/ \E c \in Contexts : Enter(h, c) \/ EnterNested(h, c) \/ Create(h, c)
         \/ \E b \in Tebs : Destroy(h, b)
         \/ \E c \in Contexts, b \in Tebs : Attach(h, c, b) \/ Detach(h, c, b)
  PROVE  IndInv'
<1> USE DEF Begin, ClaimInactive, contextVars, tebVars, processVars
<1>1. ASSUME NEW c \in Contexts, Enter(h, c) PROVE IndInv'
  BY <1>1, EnterStep DEF Enter
<1>2. ASSUME NEW c \in Contexts, EnterNested(h, c) PROVE IndInv'
  BY <1>2, EnterNestedStep DEF EnterNested
<1>3. ASSUME NEW c \in Contexts, Create(h, c) PROVE IndInv'
  BY <1>3, CreateStep DEF Create
<1>4. ASSUME NEW b \in Tebs, Destroy(h, b) PROVE IndInv'
  <2>1. tebThread[b] \in Contexts
    BY <1>4, Typing DEF Destroy, MayDestroy, IndInv
  <2>2. QED
    BY <1>4, <2>1, DestroyStep DEF Destroy
<1>5. ASSUME NEW c \in Contexts, NEW b \in Tebs, Attach(h, c, b) PROVE IndInv'
  BY <1>5, AttachStep DEF Attach
<1>6. ASSUME NEW c \in Contexts, NEW b \in Tebs, Detach(h, c, b) PROVE IndInv'
  BY <1>6, DetachStep DEF Detach
<1>7. QED
  BY <1>1, <1>2, <1>3, <1>4, <1>5, <1>6

(* A scope that is entered finds a free token of the host. *)
LEMMA EnterRetainInd ==
  ASSUME IndInv, RoomInv, NEW h \in Hosts, EnterRetain(h)
  PROVE  IndInv'
<1> DEFINE f == [scope |-> FreeScope(h), context |-> ctx[h]]
<1>1. ctx[h] \in Contexts
  BY StepKinds DEF EnterRetain, IndInv, CallInv
<1>2. \E s \in Scopes : ~InChain(h, s)
  BY DEF EnterRetain, RoomInv, Finding
<1>3. FreeScope(h) \in Scopes
  BY <1>2 DEF FreeScope
<1>4. f \in Frames /\ f.context = ctx[h]
  BY <1>1, <1>3 DEF Frames
<1>5. chain' = [chain EXCEPT ![h] = <<f>> \o chain[h]]
  BY DEF EnterRetain, Push
<1> HIDE DEF f
<1>6. Pushed(h, ctx[h])
  BY <1>4, <1>5, PushScope DEF IndInv
<1>7. CASE ctx[h] \in Detached
  BY <1>1, <1>6, <1>7, EnterDetachedStep
     DEF EnterRetain, Retain, HasProcess, Finish, contextVars, tebVars
<1>8. CASE ctx[h] \notin Detached
  BY <1>1, <1>6, <1>8, EnterRetainStep
     DEF EnterRetain, CanRetain, Retain, HasProcess, Finish, contextVars, tebVars
<1>9. QED
  BY <1>7, <1>8

LEMMA LeaveInd ==
  ASSUME IndInv, NEW h \in Hosts, Leave(h)
  PROVE  IndInv'
<1>1. chain[h] \in Seq(Frames) /\ chain[h] # <<>>
  BY Typing DEF Leave, IndInv
<1>2. Head(chain[h]) \in Frames
  BY <1>1
<1>3. PICK c \in Contexts : c = Head(chain[h]).context
  BY <1>2 DEF Frames
<1>4. Current(h) = c
  BY <1>1, <1>3 DEF Current
<1>5. Popped(h, c)
  BY <1>1, <1>3, PopScope DEF Leave, IndInv
<1>6. CASE c \in Detached
  BY <1>4, <1>5, <1>6, LeaveDetachedStep
     DEF Leave, Begin, HasProcess, contextVars, tebVars, processVars
<1>7. CASE c \notin Detached
  BY <1>4, <1>5, <1>7, LeaveAttachedStep
     DEF Leave, Begin, HasProcess, contextVars, tebVars, processVars
<1>8. QED
  BY <1>6, <1>7

LEMMA SetLastErrorInd ==
  ASSUME IndInv, NEW h \in Hosts, NEW e \in Errors, SetLastError(h, e)
  PROVE  IndInv'
<1>1. chain[h] \in Seq(Frames) /\ chain[h] # <<>>
  BY Typing DEF SetLastError, IndInv
<1>2. Head(chain[h]) \in Frames
  BY <1>1
<1>3. PICK c \in Contexts : c = Head(chain[h]).context
  BY <1>2 DEF Frames
<1>4. Current(h) = c
  BY <1>1, <1>3 DEF Current
<1>5. CASE teb[c] = None
  BY <1>4, <1>5, SetOwnErrorStep DEF SetLastError, processVars, callVars
<1>6. CASE teb[c] # None
  <2>1. teb[c] \in Tebs
    BY <1>6, Typing DEF IndInv
  <2>2. QED
    BY <1>4, <1>6, <2>1, SetTebErrorStep
       DEF SetLastError, processVars, callVars
<1>7. QED
  BY <1>5, <1>6

LEMMA ProcessDestroyInd ==
  ASSUME IndInv, ProcessDestroy
  PROVE  IndInv'
BY ProcessDestroyStep
   DEF ProcessDestroy, Retaining, Joining, HasProcess, contextVars, tebVars, callVars

-----------------------------------------------------------------------------
(* A host that is entering a context has a scope token left. *)
LEMMA RoomKept ==
  ASSUME TypeOK, RoomInv, NEW h \in Hosts,
         \A g \in Hosts : g # h => pc'[g] = pc[g] /\ chain'[g] = chain[g],
         pc'[h] \in Finding => /\ chain'[h] = chain[h]
                               /\ pc[h] \in Finding \/ \E s \in Scopes : ~InChain(h, s)
  PROVE  RoomInv'
BY DEF RoomInv, InChain

LEMMA RoomScope ==
  ASSUME TypeOK, RoomInv, NEW h \in Hosts, Scope(h)
  PROVE  RoomInv'
<1> USE DEF TypeOK, Goto, Begin, Finish, Finding
<1>1. ASSUME NEW c \in Contexts, Enter(h, c) PROVE RoomInv'
  BY <1>1, RoomKept DEF Enter
<1>2. ASSUME NEW c \in Contexts, EnterNested(h, c) PROVE RoomInv'
  BY <1>2, RoomKept DEF EnterNested
<1>3. CASE ClaimToken(h)
  BY <1>3, RoomKept DEF ClaimToken
<1>4. CASE ClaimLost(h)
  BY <1>4, RoomKept DEF ClaimLost
<1>5. CASE ClaimCount(h)
  BY <1>5, RoomKept DEF ClaimCount
<1>6. CASE EnterRetain(h)
  BY <1>6, RoomKept DEF EnterRetain, Push
<1>7. CASE EnterRefused(h)
  BY <1>7, RoomKept DEF EnterRefused
<1>8. CASE Leave(h)
  <2>1. pc'[h] \notin Finding
    BY <1>8 DEF Leave
  <2>2. \A g \in Hosts : g # h => pc'[g] = pc[g] /\ chain'[g] = chain[g]
    BY <1>8 DEF Leave
  <2>3. QED
    BY <2>1, <2>2, RoomKept
<1>9. CASE LeaveProcess(h)
  BY <1>9, RoomKept DEF LeaveProcess
<1>10. CASE DropScope(h)
  BY <1>10, RoomKept DEF DropScope
<1>11. CASE DropToken(h)
  BY <1>11, RoomKept DEF DropToken
<1>12. QED
  BY <1>1, <1>2, <1>3, <1>4, <1>5, <1>6, <1>7, <1>8, <1>9, <1>10, <1>11
     DEF Scope

LEMMA RoomTeb ==
  ASSUME TypeOK, RoomInv, NEW h \in Hosts, Teb(h)
  PROVE  RoomInv'
<1>1. Aside(h)
  <2> USE DEF TypeOK, Goto, Begin, Finish, Finding, Aside
  <2>1. ASSUME NEW c \in Contexts, Create(h, c) PROVE Aside(h)
    BY <2>1 DEF Create
  <2>2. ASSUME NEW b \in Tebs, Destroy(h, b) PROVE Aside(h)
    BY <2>2 DEF Destroy
  <2>3. ASSUME NEW c \in Contexts, NEW b \in Tebs, Attach(h, c, b) PROVE Aside(h)
    BY <2>3 DEF Attach
  <2>4. ASSUME NEW c \in Contexts, NEW b \in Tebs, Detach(h, c, b) PROVE Aside(h)
    BY <2>4 DEF Detach
  <2>5. CASE CreateCheck(h)
    BY <2>5 DEF CreateCheck
  <2>6. CASE CreateReserve(h)
    BY <2>6 DEF CreateReserve
  <2>7. CASE CreateRetain(h)
    BY <2>7 DEF CreateRetain
  <2>8. CASE CreateMap(h)
    BY <2>8 DEF CreateMap
  <2>9. CASE CreateMapFails(h)
    BY <2>9 DEF CreateMapFails
  <2>10. CASE CreateUnretain(h)
    BY <2>10 DEF CreateUnretain
  <2>11. CASE CreateUnreserve(h)
    BY <2>11 DEF CreateUnreserve
  <2>12. CASE CreatePublish(h)
    BY <2>12 DEF CreatePublish
  <2>13. CASE DestroyCheck(h)
    BY <2>13 DEF DestroyCheck
  <2>14. CASE DestroyReserve(h)
    BY <2>14 DEF DestroyReserve
  <2>15. CASE DestroyUnmap(h)
    BY <2>15 DEF DestroyUnmap
  <2>16. CASE DestroyUnmapFails(h)
    BY <2>16 DEF DestroyUnmapFails
  <2>17. CASE DestroyRestore(h)
    BY <2>17 DEF DestroyRestore
  <2>18. CASE DestroyDisown(h)
    BY <2>18 DEF DestroyDisown
  <2>19. CASE DestroyUnretain(h)
    BY <2>19 DEF DestroyUnretain
  <2>20. CASE DestroyFree(h)
    BY <2>20 DEF DestroyFree
  <2>21. CASE AttachTeb(h)
    BY <2>21 DEF AttachTeb
  <2>22. CASE DetachTeb(h)
    BY <2>22 DEF DetachTeb
  <2>23. CASE ReleaseInactive(h)
    BY <2>23 DEF ReleaseInactive
  <2>24. QED
    BY <2>1, <2>2, <2>3, <2>4, <2>5, <2>6, <2>7, <2>8, <2>9, <2>10, <2>11,
       <2>12, <2>13, <2>14, <2>15, <2>16, <2>17, <2>18, <2>19, <2>20, <2>21,
       <2>22, <2>23
       DEF Teb
<1>2. QED
  BY <1>1, RoomKept DEF Aside

(* Every step preserves the inductive invariant. *)
LEMMA ScopeInd ==
  ASSUME IndInv, RoomInv, NEW h \in Hosts, Scope(h)
  PROVE  IndInv'
BY BeginInd, ClaimTokenInd, ClaimLostInd, ClaimCountInd, EnterRetainInd,
   EnterRefusedInd, LeaveInd, LeaveProcessInd, DropScopeInd, DropTokenInd
   DEF Scope

LEMMA TebInd ==
  ASSUME IndInv, NEW h \in Hosts, Teb(h)
  PROVE  IndInv'
BY BeginInd, CreateCheckInd, CreateReserveInd, CreateRetainInd, CreateMapInd,
   CreateMapFailsInd, CreateUnretainInd, CreateUnreserveInd, CreatePublishInd,
   DestroyCheckInd, DestroyReserveInd, DestroyUnmapInd, DestroyUnmapFailsInd,
   DestroyRestoreInd, DestroyDisownInd, DestroyUnretainInd, DestroyFreeInd,
   AttachTebInd, DetachTebInd, ReleaseInactiveInd
   DEF Teb

LEMMA NextInd ==
  ASSUME IndInv, RoomInv, Next
  PROVE  IndInv' /\ RoomInv'
<1>1. ASSUME NEW h \in Hosts, Scope(h) PROVE IndInv' /\ RoomInv'
  BY <1>1, ScopeInd, RoomScope DEF IndInv
<1>2. ASSUME NEW h \in Hosts, Teb(h) PROVE IndInv' /\ RoomInv'
  BY <1>2, TebInd, RoomTeb DEF IndInv
<1>3. ASSUME NEW h \in Hosts, Guest(h) PROVE IndInv' /\ RoomInv'
  <2>1. PICK e \in Errors : SetLastError(h, e)
    BY <1>3 DEF Guest
  <2>2. IndInv'
    BY <2>1, SetLastErrorInd
  <2>3. pc' = pc /\ chain' = chain
    BY <2>1 DEF SetLastError, callVars
  <2>4. RoomInv'
    BY <2>3 DEF RoomInv, InChain
  <2>5. QED
    BY <2>2, <2>4
<1>4. CASE ProcessDestroy
  <2>1. IndInv'
    BY <1>4, ProcessDestroyInd
  <2>2. pc' = pc /\ chain' = chain
    BY <1>4 DEF ProcessDestroy, callVars
  <2>3. RoomInv'
    BY <2>2 DEF RoomInv, InChain
  <2>4. QED
    BY <2>1, <2>3
<1>5. QED
  BY <1>1, <1>2, <1>3, <1>4 DEF Next

(* The inductive invariant of contexts and TEBs: what a call holds at each *)
(* of its steps, how the token of a context, the scopes of the hosts and   *)
(* the ownership, the mapping and the attachment of TEBs go together, and  *)
(* what every counter counts.                                              *)
THEOREM InductiveInvariant == Spec => [](IndInv /\ RoomInv)
<1>1. Init => IndInv /\ RoomInv
  BY InitInd DEF Init, RoomInv, Finding
<1>2. IndInv /\ RoomInv /\ [Next]_vars => IndInv' /\ RoomInv'
  <2> SUFFICES ASSUME IndInv, RoomInv, [Next]_vars PROVE IndInv' /\ RoomInv'
    OBVIOUS
  <2>1. CASE Next
    BY <2>1, NextInd
  <2>2. CASE UNCHANGED vars
    BY <2>2, StutterInd DEF vars, callVars, RoomInv, InChain
  <2>3. QED
    BY <2>1, <2>2
<1>3. QED
  BY <1>1, <1>2, PTL DEF Spec

(* The context of a call that is not entering or leaving has no scope.     *)
LEMMA NoScope ==
  ASSUME IndInv, NEW h \in Hosts, pc[h] \notin Loose, pc[h] \notin Claiming
  PROVE  ctx[h] \in Contexts /\ token[ctx[h]] = h /\ scopeCount[ctx[h]] = 0
<1>1. ctx[h] \in Contexts /\ token[ctx[h]] = h
  BY DEF IndInv, CallInv, HoldInv, Loose
<1>2. FrameCount(h, ctx[h]) = 0
  BY <1>1 DEF IndInv, QuietInv
<1>3. scopeCount[ctx[h]] = FrameCount(h, ctx[h]) + 0
  BY <1>1 DEF IndInv, CountInv
<1>4. QED
  BY <1>1, <1>2, <1>3

(* However entering, leaving, creating and destroying interleave and fail, *)
(* a context is used by the host that its host_thread_token names,         *)
(* active_scope_count and active_references count the scopes and the       *)
(* users of the process, no consistency check of context.c and process.c   *)
(* aborts, and the process outlives its users.                             *)
THEOREM SafeContexts == Spec => []ContextsAreSafe
<1>1. ASSUME IndInv PROVE ContextOnOneHost
  <2> USE <1>1 DEF IndInv
  <2>1. ASSUME NEW c \in Contexts, NEW h \in Hosts, ActiveFrames(h, c) # {}
        PROVE  token[c] = h
    BY <2>1, FramesFinite DEF FrameInv
  <2>2. ASSUME NEW c \in Contexts, token[c] # Free
        PROVE  \/ ActiveFrames(token[c], c) # {}
               \/ ctx[token[c]] = c /\ pc[token[c]] \notin {"idle", "claim", "destroy_free"}
    <3>1. PICK h \in Hosts : token[c] = h
      BY <2>2, Typing
    <3>2. CASE FrameCount(h, c) # 0
      BY <3>1, <3>2, FramesFinite
    <3>3. CASE ctx[h] = c /\ pc[h] \notin Loose
      BY <3>1, <3>3 DEF Loose
    <3>4. QED
      BY <3>1, <3>2, <3>3 DEF NamedInv
  <2>3. QED
    BY <2>1, <2>2 DEF ContextOnOneHost
<1>2. ASSUME IndInv PROVE ScopeCountExact
  <2> USE <1>2 DEF IndInv
  <2> SUFFICES ASSUME NEW c \in Contexts
               PROVE  scopeCount[c] =
                          IF token[c] = Free THEN 0
                          ELSE Cardinality(ActiveFrames(token[c], c)) +
                               (IF ctx[token[c]] = c /\ pc[token[c]] \in Claiming THEN 1 ELSE 0)
    BY DEF ScopeCountExact
  <2>1. CASE token[c] = Free
    BY <2>1 DEF CountInv
  <2>2. CASE token[c] # Free
    <3>1. PICK h \in Hosts : token[c] = h
      BY <2>2, Typing
    <3>2. scopeCount[c] = FrameCount(h, c) +
              (IF ctx[h] = c /\ pc[h] \in Claiming THEN 1 ELSE 0)
      BY <3>1 DEF CountInv
    <3>3. QED
      BY <2>2, <3>1, <3>2 DEF FrameCount
  <2>3. QED
    BY <2>1, <2>2
<1>3. ASSUME IndInv PROVE NoAbort
  <2> SUFFICES ASSUME NEW h \in Hosts
               PROVE  /\ pc[h] = "drop_scope" => scopeCount[ctx[h]] > 0 /\ token[ctx[h]] = h
                      /\ pc[h] \in {"create_check", "destroy_check", "attach", "detach"} =>
                             scopeCount[ctx[h]] = 0
                      /\ pc[h] = "release" => token[ctx[h]] = h /\ scopeCount[ctx[h]] = 0
                      /\ pc[h] \in {"leave_process", "create_unretain", "destroy_unretain"} =>
                             refs > 0
    BY DEF NoAbort
  <2>1. pc[h] = "drop_scope" => scopeCount[ctx[h]] > 0 /\ token[ctx[h]] = h
    BY <1>3, ScopeHeld
  <2>2. ASSUME pc[h] \in {"create_check", "destroy_check", "attach", "detach", "release"}
        PROVE  token[ctx[h]] = h /\ scopeCount[ctx[h]] = 0
    BY <1>3, <2>2, NoScope, StepKinds
  <2>3. ASSUME pc[h] \in {"leave_process", "create_unretain", "destroy_unretain"}
        PROVE  refs > 0
    BY <1>3, <2>3, ReferenceHeld, StepKinds
  <2>4. QED
    BY <2>1, <2>2, <2>3
<1>4. ASSUME IndInv PROVE ProcessOutlivesUsers
  <2> SUFFICES ASSUME ~alive
               PROVE  ScopeUsers = {} /\ CallUsers = {} /\ TebUsers = {}
    BY DEF ProcessOutlivesUsers
  <2> USE <1>4 DEF IndInv
  <2>1. refs = 0
    BY DEF AliveInv
  <2>2. /\ IsFiniteSet(ScopeUsers) /\ IsFiniteSet(CallUsers) /\ IsFiniteSet(TebUsers)
        /\ Cardinality(ScopeUsers) \in Nat /\ Cardinality(CallUsers) \in Nat
        /\ Cardinality(TebUsers) \in Nat
    BY UsersFinite, FS_CardinalityType
  <2>3. /\ Cardinality(ScopeUsers) = 0 /\ Cardinality(CallUsers) = 0
        /\ Cardinality(TebUsers) = 0
    BY <2>1, <2>2 DEF ReferencesExact
  <2>4. QED
    BY ONLY <2>2, <2>3, FS_EmptySet
<1>5. ASSUME IndInv PROVE ContextsAreSafe
  BY <1>1, <1>2, <1>3, <1>4, <1>5 DEF IndInv, CountsExact, ContextsAreSafe
<1>6. QED
  BY <1>5, InductiveInvariant, PTL

(* sl_win32_teb_create and sl_win32_teb_destroy: a context owns at most    *)
(* one mapped TEB, and the TEB a guest context points to is mapped,        *)
(* attached and its own, whatever the other host threads do.               *)
THEOREM SafeTebs == Spec => []TebsAreSafe
<1>1. ASSUME IndInv PROVE GuestTebIsMapped
  BY <1>1, Typing, ThreadContextAssumption
     DEF IndInv, OwnerInv, GuestTebIsMapped
<1>2. ASSUME IndInv PROVE OneTebPerContext
  <2> USE <1>2, StepKinds, ThreadContextAssumption DEF IndInv
  <2> SUFFICES ASSUME NEW a \in Tebs, NEW b \in Tebs, mapped[a], mapped[b],
                      tebThread[a] = tebThread[b]
               PROVE  a = b
    BY DEF OneTebPerContext
  <2>1. PICK c \in Contexts : tebThread[a] = c /\ tebThread[b] = c
    BY Typing DEF MapInv
  <2>2. ASSUME NEW g \in Hosts, NEW d \in Tebs, tb[g] = d, pc[g] \in Lending,
               tebThread[d] = c
        PROVE  ctx[g] = c /\ token[c] = g /\ owner[c] = Reserved
    <3>1. pc[g] \in Reserving /\ pc[g] \notin Loose
      BY <2>2 DEF Lending, Reserving, Loose
    <3>2. op[g] \in {"create", "destroy"}
      BY <2>2 DEF Lending, CallInv, Undoing
    <3>3. ctx[g] = c
      BY <2>2, <3>2 DEF LeaseInv
    <3>4. QED
      BY <3>1, <3>3 DEF HoldInv, ReserveInv
  <2>3. CASE owner[c] = a
    <3>1. owner[c] # Reserved
      BY <2>3
    <3>2. owner[c] = b
      BY <2>1, <2>2, <3>1 DEF MapInv
    <3>3. QED
      BY <2>3, <3>2
  <2>4. CASE owner[c] # a
    <3>1. PICK g \in Hosts : tb[g] = a /\ pc[g] \in Lending
      BY <2>1, <2>4 DEF MapInv
    <3>2. token[c] = g /\ owner[c] = Reserved
      BY <2>1, <2>2, <3>1
    <3>3. PICK i \in Hosts : tb[i] = b /\ pc[i] \in Lending
      BY <2>1, <3>2 DEF MapInv
    <3>4. token[c] = i
      BY <2>1, <2>2, <3>3
    <3>5. QED
      BY <3>1, <3>2, <3>3, <3>4
  <2>5. QED
    BY <2>3, <2>4
<1>3. QED
  BY <1>1, <1>2, InductiveInvariant, PTL DEF TebsAreSafe

(* The last error a guest has set is the one it reads, across attaching,   *)
(* detaching and replacing its TEB and moving to another host thread.      *)
THEOREM LastErrorKept == Spec => []LastErrorSurvives
<1>1. IndInv => LastErrorSurvives
  BY DEF IndInv
<1>2. QED
  BY <1>1, InductiveInvariant, PTL
=============================================================================
