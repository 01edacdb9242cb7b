-------------------------- MODULE ExceptionDispatch --------------------------
(***************************************************************************)
(* Structured exceptions of one guest thread: RaiseException and its       *)
(* dispatch, RtlUnwindEx and its walk, the unhandled exception filter, and *)
(* the list of handler links (win64_unwind.c) that lets a guest handler    *)
(* unwind past the host frames that called it.                             *)
(*                                                                         *)
(* The stack is a sequence, oldest frame first; a position stands for an   *)
(* address, and an older frame has the greater stack pointer.  A guest     *)
(* frame says where its unwind data claim its caller to be, which is the   *)
(* next position unless the frame is damaged.  A host frame is a running   *)
(* dispatch or unwind.  A guest handler is itself a function with an       *)
(* exception handler.  Handlers edit the exception record's flags but not  *)
(* the context records they are given (long jumps are unsupported).        *)
(***************************************************************************)
EXTENDS Naturals, Sequences, FiniteSets

CONSTANTS GuestKinds,   \* what guest functions there are (GuestKind)
          MaxStack,     \* bound: frames on the stack
          MaxDepth      \* frames one walk visits (256 in the code)

\* A function with unwind data, naming a handler for either pass or not, or
\* a leaf, which has none.
GuestKind == [kind : {"function"}, eh : BOOLEAN, uh : BOOLEAN]
               \cup [kind : {"leaf"}, eh : {FALSE}, uh : {FALSE}]

ASSUME ExceptionAssumption ==
  GuestKinds \subseteq GuestKind /\ MaxStack \in Nat /\ MaxDepth \in Nat \ {0}

VARIABLES stack,        \* the frames, oldest first
          active,       \* sl_active_handler_unwind_link: 0 or a host frame
          filter,       \* is an unhandled exception filter set?
          aborted,      \* the process has called abort()
          last          \* what the last step resumed (history)

vars == <<stack, active, filter, aborted, last>>

NULL == 0
ThreadEntry == 0        \* the host code that called the guest's first frame
Outside == MaxStack + 1 \* a caller outside the guest stack's bounds
ExitUnwind == 0         \* the NULL target frame

Flags == {"NONCONTINUABLE", "UNWINDING", "EXIT_UNWIND", "TARGET_UNWIND"}
Dispositions == {"ContinueExecution", "ContinueSearch", "NestedOrCollided"}

Guest(kind, eh, uh, caller) ==
  [kind |-> kind, eh |-> eh, uh |-> uh, caller |-> caller]

\* A dispatch or an unwind: where it started and where it is, the record's
\* flags and the walk's own copy of them, its handler link, and the frames
\* whose handlers it has run (history).
Host(op, at, flags, target) ==
  [kind |-> "host", op |-> op, phase |-> "walk", at |-> at, from |-> at,
   raised |-> at, depth |-> 0, flags |-> flags, own |-> flags,
   target |-> target, previous |-> NULL, ran |-> {}]

Nothing == [kind |-> "none"]

Top == stack[Len(stack)]
Here == Len(stack)
Below == SubSeq(stack, 1, Len(stack) - 1)
IsGuest(i) == i # ThreadEntry /\ stack[i].kind # "host"
Intact(i) == stack[i].caller = i - 1

Running == ~aborted /\ IsGuest(Here)
Walking == ~aborted /\ Top.kind = "host" /\ Top.phase = "walk"

Init ==
  /\ \E k \in GuestKinds : stack = <<Guest(k.kind, k.eh, k.uh, ThreadEntry)>>
  /\ active = NULL
  /\ filter \in BOOLEAN
  /\ aborted = FALSE
  /\ last = Nothing

Abort ==
  /\ aborted' = TRUE
  /\ last' = Nothing
  /\ UNCHANGED <<stack, active, filter>>

----------------------------------------------------------------------------
(* Guest code between the calls it makes. *)

Call(k) ==
  /\ Running
  /\ Here < MaxStack
  /\ stack' = Append(stack, Guest(k.kind, k.eh, k.uh, Here))
  /\ last' = Nothing
  /\ UNCHANGED <<active, filter, aborted>>

Return ==
  /\ Running
  /\ IsGuest(Here - 1)
  /\ Intact(Here)
  /\ stack' = Below
  /\ last' = Nothing
  /\ UNCHANGED <<active, filter, aborted>>

\* The running function spoils its frame; at most one frame is spoilt.  A
\* caller that is the frame itself stands for any that is not older, which a
\* leaf's, one word above, cannot be; one that skips frames would be a chain
\* the guest built on purpose.
Damage(caller) ==
  /\ Running
  /\ \A i \in 1 .. Here : IsGuest(i) => Intact(i)
  /\ caller # Here - 1
  /\ caller = Here => Top.kind = "function"
  /\ stack' = [stack EXCEPT ![Here].caller = caller]
  /\ last' = Nothing
  /\ UNCHANGED <<active, filter, aborted>>

SetUnhandledExceptionFilter(f) ==
  /\ Running
  /\ f # filter
  /\ filter' = f
  /\ last' = Nothing
  /\ UNCHANGED <<stack, active, aborted>>

----------------------------------------------------------------------------
(* The handler links. *)

\* sl_win64_execute_handler up to the call: a link in this host frame, whose
\* guest_unwind_origin is the frame being walked.
ExecuteHandler(h) ==
  /\ stack' = Below \o <<[h EXCEPT !.phase = "handler",
                                   !.previous = active,
                                   !.ran = @ \cup {h.at}],
                         Guest("function", TRUE, FALSE, Here)>>
  /\ active' = Here
  /\ last' = Nothing
  /\ UNCHANGED <<filter, aborted>>

\* The rest of it, after the handler called from host frame p returned.
PopLink(p) == IF active = p THEN stack[p].previous ELSE NULL

\* sl_win64_take_handler_unwind_origin: where an unwind starts, and the link
\* it leaves.
UnwindOrigin == IF active = NULL THEN Here ELSE stack[active].at
TakeLinkMutant == active
TakeLink == NULL

----------------------------------------------------------------------------
(* The walks. *)

\* The unwound stack pointer lies in the stack and has grown.
CallerIsOlder(i) == stack[i].caller < i
Advance(h) == [h EXCEPT !.at = stack[h.at].caller, !.depth = @ + 1,
                        !.phase = "walk"]

\* Going on wherever the unwind data lead, and without counting.
MoveOnMutant(h) ==
  IF stack[h.at].caller # Outside
  THEN /\ stack' = Append(Below, [Advance(h) EXCEPT !.depth = h.depth])
       /\ last' = Nothing
       /\ UNCHANGED <<active, filter, aborted>>
  ELSE Abort

MoveOn(h) ==
  IF CallerIsOlder(h.at)
  THEN /\ stack' = Append(Below, Advance(h))
       /\ last' = Nothing
       /\ UNCHANGED <<active, filter, aborted>>
  ELSE Abort

RaiseException(noncontinuable) ==
  /\ Running
  /\ Here + 2 <= MaxStack
  /\ stack' = Append(stack, Host("dispatch", Here,
                IF noncontinuable THEN {"NONCONTINUABLE"} ELSE {}, NULL))
  /\ last' = Nothing
  /\ UNCHANGED <<active, filter, aborted>>

\* The walk has left the guest's modules, or has gone on for too long: the
\* unhandled exception filter decides.
CallFilter(h) ==
  IF filter
  THEN /\ stack' = Below \o <<[h EXCEPT !.phase = "filter"],
                              Guest("function", TRUE, FALSE, Here)>>
       /\ last' = Nothing
       /\ UNCHANGED <<active, filter, aborted>>
  ELSE Abort

WalkEnds(h) == h.depth >= MaxDepth \/ ~IsGuest(h.at)

DispatchStep ==
  /\ Walking
  /\ Top.op = "dispatch"
  /\ IF WalkEnds(Top) THEN CallFilter(Top)
     ELSE IF stack[Top.at].eh /\ CallerIsOlder(Top.at)
     THEN ExecuteHandler([Top EXCEPT !.flags = Top.own])
     ELSE MoveOn(Top)

\* RtlUnwindEx: an unwind from a handler starts in the frame the handler was
\* called for.
RtlUnwindEx(target, flags) ==
  LET origin == UnwindOrigin
      own == (flags \cap {"NONCONTINUABLE"}) \cup {"UNWINDING"}
               \cup (IF target = ExitUnwind THEN {"EXIT_UNWIND"} ELSE {})
  IN  /\ Running
      /\ Here + 2 <= MaxStack
      /\ IF target > origin
         THEN Abort
         ELSE /\ stack' = Append(stack,
                   [Host("unwind", origin, own, target) EXCEPT
                      !.raised = IF active # NULL /\ stack[active].op = "dispatch"
                                 THEN stack[active].from ELSE origin])
              /\ active' = TakeLink
              /\ last' = Nothing
              /\ UNCHANGED <<filter, aborted>>

\* Resume at frame i; the frames above it are gone.
Resume(i, what) ==
  /\ stack' = SubSeq(stack, 1, i)
  /\ last' = what

\* The frames whose termination handlers an unwind from `from' to `to' owes,
\* told from the stack alone.
Owed(from, to) == {i \in to .. from : IsGuest(i) /\ stack[i].uh}

ResumeAtTarget(h) ==
  Resume(h.target,
         [kind |-> "unwind", ran |-> h.ran, owed |-> Owed(h.from, h.target),
          intact |-> \A i \in h.target + 1 .. h.from :
                        IsGuest(i) /\ Intact(i),
          abandoned |-> Owed(h.raised, h.target)])

AtTarget(h) == h.target # ExitUnwind /\ h.at = h.target

Arrive(h) == ResumeAtTarget(h) /\ UNCHANGED <<active, filter, aborted>>

Leave(h) == IF AtTarget(h) THEN Arrive(h) ELSE MoveOn(h)

\* The target is resumed before its own termination handler has run.
LeaveFunctionMutant(h) ==
  IF stack[h.at].uh /\ ~AtTarget(h) THEN ExecuteHandler(h) ELSE Leave(h)

\* A function's termination handler runs before it is left or resumed.
LeaveFunction(h) ==
  IF stack[h.at].uh
  THEN ExecuteHandler([h EXCEPT !.flags = @ \cup
                                  {f \in {"TARGET_UNWIND"} : AtTarget(h)}])
  ELSE Leave(h)

\* sl_win64_unwind_to_frame, one frame.
UnwindStep ==
  /\ Walking
  /\ Top.op = "unwind"
  /\ LET h == Top
     IN  IF WalkEnds(h) THEN Abort
         ELSE IF stack[h.at].kind = "leaf" THEN Leave(h)
         ELSE IF ~CallerIsOlder(h.at) \/ h.at < h.target THEN Abort
         ELSE LeaveFunction(h)

----------------------------------------------------------------------------
(* Handlers and filters return to the host frame that called them. *)

\* The record's flags are put back whatever the handler left in them.
FlagsAfterMutant(h, edited) == edited
FlagsAfter(h, edited) == h.own

Continue(h) ==
  /\ Resume(Here - 2, [kind |-> "continue", own |-> h.own])
  /\ UNCHANGED <<filter, aborted>>

HandlerReturns(disposition, edited) ==
  LET p == Here - 1
      h == [stack[p] EXCEPT !.flags = FlagsAfter(stack[p], edited)]
      next == SubSeq(stack, 1, p - 1)
  IN  /\ Running
      /\ p # ThreadEntry
      /\ stack[p].kind = "host"
      /\ stack[p].phase = "handler"
      /\ CASE h.op = "dispatch" /\ disposition = "ContinueExecution"
                /\ "NONCONTINUABLE" \notin h.flags ->
                /\ Continue(h)
                /\ active' = PopLink(p)
           [] disposition = "ContinueSearch" /\ AtTarget(h) ->
                /\ ResumeAtTarget(h)
                /\ active' = PopLink(p)
                /\ UNCHANGED <<filter, aborted>>
           [] disposition = "ContinueSearch" /\ ~AtTarget(h) ->
                /\ stack' = Append(next, Advance(h))
                /\ active' = PopLink(p)
                /\ last' = Nothing
                /\ UNCHANGED <<filter, aborted>>
           [] OTHER -> Abort

\* UnhandledExceptionFilter's answer; any value but "continue" ends the
\* process.
FilterReturns(continue, edited) ==
  LET p == Here - 1
      h == [stack[p] EXCEPT !.flags = FlagsAfter(stack[p], edited)]
  IN  /\ Running
      /\ p # ThreadEntry
      /\ stack[p].kind = "host"
      /\ stack[p].phase = "filter"
      /\ IF continue /\ "NONCONTINUABLE" \notin h.flags
         THEN Continue(h) /\ UNCHANGED active
         ELSE Abort

GuestStep ==
  \/ \E k \in GuestKinds : Call(k)
  \/ Return
  \/ \E c \in {Here, Outside} : Damage(c)
  \/ \E f \in BOOLEAN : SetUnhandledExceptionFilter(f)
  \/ \E n \in BOOLEAN : RaiseException(n)
  \/ \E t \in 0 .. Here, f \in {{}, Flags} : RtlUnwindEx(t, f)
  \/ \E d \in Dispositions, f \in {{}, Flags} : HandlerReturns(d, f)
  \/ \E c \in BOOLEAN, f \in {{}, Flags} : FilterReturns(c, f)

Next == GuestStep \/ DispatchStep \/ UnwindStep

\* The host code runs on; guest code may stop anywhere.
Spec == Init /\ [][Next]_vars /\ WF_vars(DispatchStep) /\ WF_vars(UnwindStep)

----------------------------------------------------------------------------
(* Properties. *)

InHandler(p) == stack[p].kind = "host" /\ stack[p].phase = "handler"

\* The active handler link, and the previous link of every running handler,
\* belong to a handler call that is still on the stack: no unwind and no
\* return leaves a pointer into host frames that are gone.
LinksAreLive ==
  /\ active # NULL => active \in 1 .. Here /\ InHandler(active)
  /\ \A p \in 1 .. Here : InHandler(p) /\ stack[p].previous # NULL =>
       stack[p].previous < p /\ InHandler(stack[p].previous)

\* An unwind that succeeds resumes in its target and in no host frame, having
\* run the termination handler of each frame it passed, from the frame it
\* started in to the target, and of no other.
UnwindIsExact ==
  last.kind = "unwind" =>
    /\ IsGuest(Here)
    /\ last.ran \subseteq last.owed
    /\ last.intact => last.ran = last.owed

\* Each handler sees the flags of its own walk, whatever earlier handlers
\* wrote into the record: TARGET_UNWIND in the target and only there,
\* NONCONTINUABLE if and only if it was raised so; and an exception raised
\* noncontinuable never resumes where it was raised.
FlagsAreTruthful ==
  /\ \A p \in 1 .. Here : InHandler(p) =>
       LET h == stack[p] IN
       /\ h.flags \ {"TARGET_UNWIND"} = h.own
       /\ "TARGET_UNWIND" \in h.flags <=> h.op = "unwind" /\ AtTarget(h)
       /\ h.op = "dispatch" => "UNWINDING" \notin h.flags
  /\ last.kind = "continue" => "NONCONTINUABLE" \notin last.own

\* The unhandled filter is the last resort: when it runs, every exception
\* handler between the raise and the nearest older host frame has been asked,
\* unless the walk hit its depth limit or met a damaged frame.
FilterIsLastResort ==
  \A p \in 1 .. Here :
    stack[p].kind = "host" /\ stack[p].phase = "filter" =>
      LET h == stack[p] IN
      (h.depth < MaxDepth /\ \A i \in h.at + 1 .. h.from : IsGuest(i) /\ Intact(i)) =>
        /\ ~IsGuest(h.at)
        /\ h.ran = {i \in h.at + 1 .. h.from : stack[i].eh}

\* A walk comes to an end: whatever the chain of frames looks like, the host
\* code hands control to a handler, resumes the guest or aborts.
WalksEnd == Walking ~> ~Walking

\* When an exception handler unwinds to its frame, the termination handler of
\* every frame from the raise to that frame has run, as the second pass of
\* docs/ARCHITECTURE.md promises ("second-pass termination handlers").
AbandonedFramesAreTerminated ==
  last.kind = "unwind" /\ last.intact => last.abandoned \subseteq last.ran

\* Both passes ask the handlers they must and no others: an unwind has run
\* those of the frames it passed, a dispatch those of the frames it searched
\* before it turned to the filter.
WalksAreExact == UnwindIsExact /\ FilterIsLastResort
=============================================================================
