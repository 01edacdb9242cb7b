------------------------------- MODULE Worker -------------------------------
(***************************************************************************)
(* sl_runtime_run_trusted_worker (src/src/runtime.c): the parent clones a  *)
(* worker process, the worker sets up signals, TEB and GS, calls the guest *)
(* entry and reports on a pipe, the parent reads the pipe, reaps the       *)
(* worker and classifies what happened.  Signals may arrive at any time,   *)
(* the guest may return, exit or crash, and every system call that the     *)
(* code checks may fail.                                                   *)
(*                                                                         *)
(* Kernel behaviour the code relies on (external): a blocked signal stays  *)
(* pending; a fault whose signal is blocked kills the process; a handler   *)
(* runs with its sa_mask blocked and, with SA_RESETHAND, once; a write of  *)
(* at most PIPE_BUF bytes is atomic; a read returns end of file when no    *)
(* write end is open.  waitpid cannot fail for a caller that keeps the     *)
(* default SIGCHLD disposition, which the call checks, and has no other    *)
(* thread, which the header asks for.                                      *)
(***************************************************************************)
EXTENDS Integers, Sequences

CONSTANTS
    CrashSignals,   \* sl_runtime_crash_signals
    OtherSignals,   \* signals whose default action ends the process
    ReservedSignals,\* those of them that libc's sigfillset leaves out
    SIGKILL,        \* the signal that cannot be blocked
    ExitCodes,      \* what the guest passes to ExitProcess, 32 bits
    MaxSignals      \* bound: signals sent to one worker

ASSUME WorkerAssumption ==
    /\ CrashSignals \subseteq 1 .. 64
    /\ OtherSignals \subseteq 1 .. 64
    /\ CrashSignals \cap OtherSignals = {}
    /\ ReservedSignals \subseteq OtherSignals
    /\ SIGKILL \in 1 .. 64 /\ SIGKILL \notin CrashSignals \cup OtherSignals
    /\ ExitCodes \subseteq Nat
    /\ MaxSignals \in Nat

Signals == CrashSignals \cup OtherSignals \cup {SIGKILL}

CrashExitCode(s) == 128 + s    \* runtime_crash_exit_code
ReportLost == 126

VARIABLES
    \* the parent
    ppc,        \* its next step
    stacks,     \* the guarded stacks that are mapped
    parentEnds, \* the pipe ends it has open
    parentMask, \* TRUE: it blocks all signals
    savedMask,  \* the mask it had before the call
    maskOk,     \* its mask has been restored
    frozen,     \* its handle table is prepared for clone
    refs,       \* its references on the process object
    records,    \* the records it has read
    readOk,     \* no read has failed
    result,     \* the status it returns, and the report it fills in
    \* the worker
    cpc,        \* its next step; "none" before clone, "ended" after exit
    childEnds,  \* the pipe ends it has open
    childFrozen,\* its copy of the handle table is still frozen
    blocked,    \* TRUE: it blocks all signals; in the handler, its sa_mask
    handlers,   \* the crash signals with runtime_crash_signal_handler
    armed, handling, \* sl_runtime_crash_state
    hsig,       \* the signal its crash handler handles
    teb,        \* "none", "created", "attached"
    gs,         \* "host", "teb"
    gsState,    \* "unchanged", "attempted", "restored"
    status,     \* "ok" or "failed"
    exit,       \* how it ended, what waitpid will say
    \* between them
    pipe,       \* records in the pipe
    pending,    \* signals pending for the worker
    sent,       \* signals sent so far
    \* for the properties
    cause,      \* what ended the guest
    lost        \* a report could not be written

parentVars == <<ppc, stacks, parentEnds, parentMask, savedMask, maskOk, frozen, refs,
                records, readOk, result>>
signalVars == <<blocked, handlers, armed, handling, hsig>>
guestVars  == <<teb, gs, gsState, status>>
childVars  == <<cpc, childEnds, childFrozen, signalVars, guestVars, exit>>
linkVars   == <<pipe, pending, sent>>
ghostVars  == <<cause, lost>>
vars == <<parentVars, childVars, linkVars, ghostVars>>

Fact(kind, n) == [outcome |-> kind, number |-> n]
NoFact == Fact("none", 0)

ParentSteps == {"retain", "stack", "signal_stack", "pipe", "block", "freeze",
                "clone", "thaw", "unmask", "close_write", "read", "extra",
                "close_read", "wait", "cleanup", "classify", "done"}
ChildSteps  == {"none", "start", "reset", "install", "arm", "unmask", "image_base",
                "create_teb", "attach_teb", "install_gs", "enter", "guest",
                "restore_gs", "detach_teb", "destroy_teb", "block", "disarm",
                "report", "handler", "handler_write", "exit", "ended"}
Outcomes    == {"none", "returned", "failed", "exited", "signalled", "killed"}
Statuses    == {"none", "ok", "invalid_state", "memory", "io", "environment",
                "process_creation", "protocol"}
Facts       == [outcome : Outcomes, number : Nat]

TypeOK ==
    /\ ppc \in ParentSteps
    /\ stacks \subseteq {"stack", "signal"}
    /\ parentEnds \subseteq {"read", "write"}
    /\ parentMask \in BOOLEAN /\ savedMask \in BOOLEAN /\ maskOk \in BOOLEAN /\ frozen \in BOOLEAN
    /\ refs \in 0 .. 1
    /\ records \in Seq(Facts) /\ Len(records) =< 2
    /\ readOk \in BOOLEAN
    /\ result \in [status : Statuses, report : Facts]
    /\ cpc \in ChildSteps
    /\ childEnds \subseteq {"read", "write"}
    /\ childFrozen \in BOOLEAN
    /\ blocked \in BOOLEAN
    /\ handlers \subseteq CrashSignals
    /\ armed \in BOOLEAN /\ handling \in BOOLEAN
    /\ hsig \in CrashSignals \cup {0}
    /\ teb \in {"none", "created", "attached"}
    /\ gs \in {"host", "teb"}
    /\ gsState \in {"unchanged", "attempted", "restored"}
    /\ status \in {"ok", "failed"}
    /\ exit \in Facts
    /\ pipe \in Seq(Facts)
    /\ pending \subseteq Signals
    /\ sent \in 0 .. MaxSignals
    /\ cause \in Facts /\ lost \in BOOLEAN

-----------------------------------------------------------------------------
NoWorker ==
    /\ cpc = "none"
    /\ childEnds = {} /\ childFrozen = FALSE
    /\ blocked = TRUE /\ handlers = {} /\ armed = FALSE /\ handling = FALSE /\ hsig = 0
    /\ teb = "none" /\ gs = "host" /\ gsState = "unchanged" /\ status = "ok"
    /\ exit = NoFact
    /\ pipe = <<>> /\ pending = {} /\ sent = 0
    /\ cause = NoFact /\ lost = FALSE

Init ==
    /\ ppc = "retain"
    /\ stacks = {} /\ parentEnds = {}
    /\ parentMask = FALSE /\ savedMask = FALSE /\ maskOk = TRUE /\ frozen = FALSE
    /\ refs = 0
    /\ records = <<>> /\ readOk = TRUE
    /\ result = [status |-> "none", report |-> NoFact]
    /\ NoWorker

-----------------------------------------------------------------------------
(* The parent, up to the clone.  Every failure undoes what was set up.     *)

Fail(s) ==
    /\ ppc' = "done"
    /\ result' = [status |-> s, report |-> NoFact]

ParentOnly == UNCHANGED <<childVars, linkVars, ghostVars>>

RetainProcess ==
    /\ ppc = "retain"
    /\ \/ refs' = refs + 1 /\ ppc' = "stack" /\ result' = result
       \/ refs' = refs /\ Fail("invalid_state")    \* a check fails, or retain does
    /\ UNCHANGED <<stacks, parentEnds, parentMask, savedMask, maskOk, frozen, records, readOk>>
    /\ ParentOnly

CreateStack ==
    /\ ppc = "stack"
    /\ \/ stacks' = stacks \cup {"stack"} /\ refs' = refs /\ ppc' = "signal_stack" /\ result' = result
       \/ stacks' = stacks /\ refs' = refs - 1 /\ Fail("memory")
    /\ UNCHANGED <<parentEnds, parentMask, savedMask, maskOk, frozen, records, readOk>>
    /\ ParentOnly

CreateSignalStack ==
    /\ ppc = "signal_stack"
    /\ \/ stacks' = stacks \cup {"signal"} /\ refs' = refs /\ ppc' = "pipe" /\ result' = result
       \/ stacks' = stacks \ {"stack"} /\ refs' = refs - 1 /\ Fail("memory")
    /\ UNCHANGED <<parentEnds, parentMask, savedMask, maskOk, frozen, records, readOk>>
    /\ ParentOnly

OpenPipe ==
    /\ ppc = "pipe"
    /\ \/ /\ parentEnds' = {"read", "write"} /\ ppc' = "block"
          /\ UNCHANGED <<stacks, refs, result>>
       \/ /\ stacks' = {} /\ refs' = refs - 1 /\ Fail("io")
          /\ parentEnds' = parentEnds
    /\ UNCHANGED <<parentMask, savedMask, maskOk, frozen, records, readOk>>
    /\ ParentOnly

\* Both pipe ends and both stacks go, and the reference.
Unwind == parentEnds' = {} /\ stacks' = {} /\ refs' = refs - 1

BlockSignals ==
    /\ ppc = "block"
    /\ \/ /\ parentMask' = TRUE /\ savedMask' = parentMask /\ ppc' = "freeze"
          /\ UNCHANGED <<parentEnds, stacks, refs, result>>
       \/ UNCHANGED <<parentMask, savedMask>> /\ Unwind /\ Fail("environment")
    /\ UNCHANGED <<maskOk, frozen, records, readOk>>
    /\ ParentOnly

PrepareClone ==
    /\ ppc = "freeze"
    /\ \/ /\ frozen' = TRUE /\ ppc' = "clone"
          /\ UNCHANGED <<parentMask, maskOk, parentEnds, stacks, refs, result>>
       \/ /\ frozen' = frozen
          /\ \/ parentMask' = savedMask /\ maskOk' = TRUE /\ Fail("invalid_state")
             \/ parentMask' = parentMask /\ maskOk' = FALSE /\ Fail("environment")
          /\ Unwind
    /\ UNCHANGED <<savedMask, records, readOk>>
    /\ ParentOnly

\* The worker starts as a copy of the parent: same pipe ends, same mask,
\* same frozen handle table.
Clone ==
    /\ ppc = "clone"
    /\ ppc' = "thaw"
    /\ \/ /\ cpc' = "start"
          /\ childEnds' = parentEnds
          /\ childFrozen' = frozen
          /\ blocked' = parentMask
       \/ UNCHANGED <<cpc, childEnds, childFrozen, blocked>>
    /\ UNCHANGED <<stacks, parentEnds, parentMask, savedMask, maskOk, frozen, refs, records, readOk,
                   result, handlers, armed, handling, hsig, guestVars, exit,
                   linkVars, ghostVars>>

\* Mutant: the parent's handle table stays frozen.
StayFrozen ==
    /\ ppc = "thaw"
    /\ ppc' = "unmask"
    /\ UNCHANGED <<stacks, parentEnds, parentMask, savedMask, maskOk, frozen, refs,
                   records, readOk, result>>
    /\ ParentOnly

CompleteClone ==
    /\ ppc = "thaw"
    /\ frozen' = FALSE
    /\ ppc' = "unmask"
    /\ UNCHANGED <<stacks, parentEnds, parentMask, savedMask, maskOk, refs, records, readOk, result>>
    /\ ParentOnly

RestoreMask ==
    /\ ppc = "unmask"
    /\ \/ parentMask' = savedMask /\ maskOk' = TRUE
       \/ parentMask' = parentMask /\ maskOk' = FALSE
    /\ IF cpc = "none"
       THEN Unwind /\ Fail(IF maskOk' THEN "process_creation" ELSE "environment")
       ELSE ppc' = "close_write" /\ UNCHANGED <<parentEnds, stacks, refs, result>>
    /\ UNCHANGED <<savedMask, frozen, records, readOk>>
    /\ ParentOnly

\* Mutant: the parent keeps its write end while it reads.
KeepWriteEnd ==
    /\ ppc = "close_write"
    /\ ppc' = "read"
    /\ UNCHANGED <<stacks, parentEnds, parentMask, savedMask, maskOk, frozen, refs,
                   records, readOk, result>>
    /\ ParentOnly

CloseWriteEnd ==
    /\ ppc = "close_write"
    /\ parentEnds' = parentEnds \ {"write"}
    /\ ppc' = "read"
    /\ UNCHANGED <<stacks, parentMask, savedMask, maskOk, frozen, refs, records, readOk, result>>
    /\ ParentOnly

-----------------------------------------------------------------------------
(* The parent after the clone: read_worker_report, wait_for_worker and the *)
(* classification.                                                         *)

EndOfFile == pipe = <<>> /\ "write" \notin parentEnds \cup childEnds

\* One record or end of file; then the byte that must not follow.
ReadReport ==
    /\ ppc \in {"read", "extra"}
    /\ \/ /\ pipe # <<>>
          /\ records' = Append(records, Head(pipe))
          /\ pipe' = Tail(pipe)
          /\ ppc' = IF ppc = "read" THEN "extra" ELSE "close_read"
       \/ /\ EndOfFile
          /\ ppc' = "close_read"
          /\ UNCHANGED <<records, pipe>>
    /\ readOk' = readOk
    /\ UNCHANGED <<stacks, parentEnds, parentMask, savedMask, maskOk, frozen, refs, result,
                   childVars, pending, sent, ghostVars>>

ReadFails ==
    /\ ppc \in {"read", "extra"}
    /\ readOk' = FALSE
    /\ ppc' = "close_read"
    /\ UNCHANGED <<stacks, parentEnds, parentMask, savedMask, maskOk, frozen, refs,
                   records, result>>
    /\ ParentOnly

CloseReadEnd ==
    /\ ppc = "close_read"
    /\ parentEnds' = parentEnds \ {"read"}
    /\ ppc' = "wait"
    /\ UNCHANGED <<stacks, parentMask, savedMask, maskOk, frozen, refs, records, readOk, result>>
    /\ ParentOnly

WaitForWorker ==
    /\ ppc = "wait"
    /\ cpc = "ended"
    /\ ppc' = "cleanup"
    /\ UNCHANGED <<stacks, parentEnds, parentMask, savedMask, maskOk, frozen, refs, records, readOk, result>>
    /\ ParentOnly

Cleanup ==
    /\ ppc = "cleanup"
    /\ stacks' = {}
    /\ refs' = refs - 1
    /\ ppc' = "classify"
    /\ UNCHANGED <<parentEnds, parentMask, savedMask, maskOk, frozen, records, readOk, result>>
    /\ ParentOnly

\* wire_report_is_valid and wire_exit_status_is_valid
ExpectedExitCode(wire) ==
    IF wire.outcome = "signalled" THEN CrashExitCode(wire.number) ELSE 0

WireIsValid(wire) ==
    /\ wire.outcome \in {"returned", "failed", "signalled"}
    /\ wire.outcome = "signalled" => wire.number \in CrashSignals
    /\ exit = Fact("exited", ExpectedExitCode(wire))

Classification ==
    CASE ~maskOk -> [status |-> "environment", report |-> NoFact]
      [] maskOk /\ ~readOk -> [status |-> "io", report |-> NoFact]
      [] maskOk /\ readOk /\ exit.outcome = "killed" /\ records = <<>> ->
            [status |-> "ok", report |-> Fact("signalled", exit.number)]
      [] maskOk /\ readOk /\ exit.outcome = "exited" /\ records = <<>> ->
            [status |-> "ok", report |-> exit]
      [] maskOk /\ readOk /\ exit.outcome = "exited" /\ Len(records) = 1
           /\ WireIsValid(records[1]) ->
            [status |-> "ok", report |-> records[1]]
      [] OTHER -> [status |-> "protocol", report |-> NoFact]

Classify ==
    /\ ppc = "classify"
    /\ result' = Classification
    /\ ppc' = "done"
    /\ UNCHANGED <<stacks, parentEnds, parentMask, savedMask, maskOk, frozen, refs, records, readOk>>
    /\ ParentOnly

-----------------------------------------------------------------------------
(* The worker: run_worker_child.                                           *)

Child(step) == cpc' = step /\ UNCHANGED <<parentVars, linkVars>>

\* A step of the set-up may fail; what is left of it is then skipped.
Failed == status' = "failed"

Start ==
    /\ cpc = "start"
    /\ childFrozen' = FALSE
    /\ childEnds' = childEnds \ {"read"}
    /\ Child("reset")
    /\ UNCHANGED <<signalVars, guestVars, exit, ghostVars>>

ResetSignals ==
    /\ cpc = "reset"
    /\ blocked' = TRUE
    /\ \/ Child("install") /\ status' = status
       \/ Child("block") /\ Failed
    /\ UNCHANGED <<childEnds, childFrozen, handlers, armed, handling, hsig,
                   teb, gs, gsState, exit, ghostVars>>

\* sigaltstack, the crash state, and one sigaction per crash signal.
InstallHandlers ==
    /\ cpc = "install"
    /\ armed' = FALSE /\ handling' = FALSE
    /\ \/ handlers' = CrashSignals /\ Child("arm") /\ status' = status
       \/ /\ \E some \in SUBSET CrashSignals :
               some # CrashSignals /\ handlers' = some
          /\ Child("block") /\ Failed
    /\ UNCHANGED <<childEnds, childFrozen, blocked, hsig, teb, gs, gsState, exit, ghostVars>>

Arm ==
    /\ cpc = "arm"
    /\ armed' = TRUE
    /\ Child("unmask")
    /\ UNCHANGED <<childEnds, childFrozen, blocked, handlers, handling, hsig,
                   guestVars, exit, ghostVars>>

Unmask ==
    /\ cpc = "unmask"
    /\ \/ blocked' = FALSE /\ Child("image_base") /\ UNCHANGED <<armed, status>>
       \/ blocked' = blocked /\ armed' = FALSE /\ Child("block") /\ Failed
    /\ UNCHANGED <<childEnds, childFrozen, handlers, handling, hsig, teb, gs,
                   gsState, exit, ghostVars>>

SetImageBase ==
    /\ cpc = "image_base"
    /\ \/ Child("create_teb") /\ status' = status
       \/ Child("block") /\ Failed
    /\ UNCHANGED <<childEnds, childFrozen, signalVars, teb, gs, gsState, exit, ghostVars>>

CreateTeb ==
    /\ cpc = "create_teb"
    /\ \/ teb' = "created" /\ Child("attach_teb") /\ status' = status
       \/ teb' = teb /\ Child("block") /\ Failed
    /\ UNCHANGED <<childEnds, childFrozen, signalVars, gs, gsState, exit, ghostVars>>

AttachTeb ==
    /\ cpc = "attach_teb"
    /\ \/ teb' = "attached" /\ Child("install_gs") /\ status' = status
       \/ teb' = teb /\ Child("destroy_teb") /\ Failed
    /\ UNCHANGED <<childEnds, childFrozen, signalVars, gs, gsState, exit, ghostVars>>

\* get_gs_base fails; or set_gs_base fails; or the base is set but cannot be
\* verified; or all is well.
InstallGs ==
    /\ cpc = "install_gs"
    /\ \/ UNCHANGED <<gs, gsState>> /\ Child("detach_teb") /\ Failed
       \/ gs' \in {"host", "teb"} /\ gsState' = "attempted" /\ Child("restore_gs") /\ Failed
       \/ gs' = "teb" /\ gsState' = "attempted" /\ Child("enter") /\ status' = status
    /\ UNCHANGED <<childEnds, childFrozen, signalVars, teb, exit, ghostVars>>

\* sl_runtime_call_trusted_entry: enter the context, run the guest, leave.
EnterGuest ==
    /\ cpc = "enter"
    /\ \/ Child("guest") /\ status' = status
       \/ Child("restore_gs") /\ Failed
    /\ UNCHANGED <<childEnds, childFrozen, signalVars, teb, gs, gsState, exit, ghostVars>>

GuestReturns ==
    /\ cpc = "guest"
    /\ \/ status' = status
       \/ Failed
    /\ Child("restore_gs")
    /\ UNCHANGED <<childEnds, childFrozen, signalVars, teb, gs, gsState, exit, ghostVars>>

\* Mutant: the TEB is torn down although GS may still point to it.
RestoreGsUnverified ==
    /\ cpc = "restore_gs"
    /\ gs' \in {"host", "teb"} /\ gsState' = "restored" /\ status' = status
    /\ Child("detach_teb")
    /\ UNCHANGED <<childEnds, childFrozen, signalVars, teb, exit, ghostVars>>

RestoreGs ==
    /\ cpc = "restore_gs"
    /\ \/ /\ gs' = "host" /\ gsState' = "restored" /\ status' = status
          /\ Child("detach_teb")
       \/ gs' \in {"host", "teb"} /\ gsState' = gsState /\ Child("block") /\ Failed
    /\ UNCHANGED <<childEnds, childFrozen, signalVars, teb, exit, ghostVars>>

DetachTeb ==
    /\ cpc = "detach_teb"
    /\ \/ teb' = "created" /\ Child("destroy_teb") /\ status' = status
       \/ teb' = teb /\ Child("block") /\ Failed
    /\ UNCHANGED <<childEnds, childFrozen, signalVars, gs, gsState, exit, ghostVars>>

DestroyTeb ==
    /\ cpc = "destroy_teb"
    /\ \/ teb' = "none" /\ status' = status
       \/ teb' = teb /\ Failed
    /\ Child("block")
    /\ UNCHANGED <<childEnds, childFrozen, signalVars, gs, gsState, exit, ghostVars>>

-----------------------------------------------------------------------------
(* Ways to end: write_worker_report_and_exit, ExitProcess, a signal.       *)

Ended(fact) == cpc' = "ended" /\ exit' = fact /\ childEnds' = {}

Outcome == Fact(IF status = "ok" THEN "returned" ELSE "failed", 0)

\* Mutant: crash reporting is disarmed with signals still deliverable.
ReportUnblocked ==
    /\ cpc = "block"
    /\ cpc' = "disarm" /\ cause' = Outcome
    /\ UNCHANGED <<parentVars, linkVars, childEnds, childFrozen, signalVars, guestVars,
                   exit, lost>>

BlockForReport ==
    /\ cpc = "block"
    /\ \/ blocked' = TRUE /\ cpc' = "disarm" /\ cause' = Outcome
          /\ UNCHANGED <<exit, childEnds, lost>>
       \/ blocked' = blocked /\ Ended(Fact("exited", ReportLost)) /\ lost' = TRUE /\ cause' = cause
    /\ UNCHANGED <<parentVars, linkVars, childFrozen, handlers, armed, handling, hsig, guestVars>>

Disarm ==
    /\ cpc = "disarm"
    /\ armed' = FALSE
    /\ Child("report")
    /\ UNCHANGED <<childEnds, childFrozen, blocked, handlers, handling, hsig,
                   guestVars, exit, ghostVars>>

\* The record is written and the process exits with 0, in two system calls.
WriteReport ==
    /\ cpc = "report"
    /\ \/ /\ pipe' = Append(pipe, Outcome)
          /\ cpc' = "exit"
          /\ UNCHANGED <<exit, childEnds, lost>>
       \/ /\ Ended(Fact("exited", ReportLost))
          /\ lost' = TRUE
          /\ pipe' = pipe
    /\ UNCHANGED <<parentVars, pending, sent, childFrozen, signalVars, guestVars, cause>>

\* exit_group truncates the code to eight bits.
ExitProcess ==
    /\ cpc = "guest"
    /\ \E code \in ExitCodes :
         /\ Ended(Fact("exited", code % 256))
         /\ cause' = Fact("exited", code % 256)
    /\ UNCHANGED <<parentVars, linkVars, childFrozen, signalVars, guestVars, lost>>

Killed(s) ==
    /\ Ended(Fact("killed", s))
    /\ cause' = Fact("signalled", s)
    /\ UNCHANGED <<parentVars, pipe, sent, childFrozen, signalVars, guestVars, lost>>

\* runtime_crash_signal_handler is entered with sa_mask blocked, which is all
\* but the signals libc reserves (see Blocks), and, by SA_RESETHAND, its own
\* disposition reset.
Handle(s) ==
    /\ cpc' = "handler"
    /\ hsig' = s
    /\ blocked' = TRUE
    /\ handlers' = handlers \ {s}
    /\ cause' = Fact("signalled", s)
    /\ UNCHANGED <<parentVars, pipe, sent, childEnds, childFrozen, armed, handling,
                   guestVars, exit, lost>>

\* The worker's own masks are set by the raw system call and hold every
\* signal; the crash handler's is what sigfillset made of sa_mask.
Blocks(s) ==
    /\ blocked
    /\ s # SIGKILL
    /\ hsig = 0 \/ s \notin ReservedSignals

Running == cpc \notin {"none", "ended"}

Send(s) ==
    /\ Running
    /\ sent < MaxSignals
    /\ sent' = sent + 1
    /\ pending' = pending \cup {s}
    /\ UNCHANGED <<parentVars, childVars, pipe, ghostVars>>

Deliver(s) ==
    /\ Running
    /\ s \in pending
    /\ ~Blocks(s)
    /\ pending' = pending \ {s}
    /\ IF s \in handlers THEN Handle(s) ELSE Killed(s)

\* The guest, or the handler itself, faults.
Fault(s) ==
    /\ cpc \in {"guest", "handler", "handler_write"}
    /\ pending' = pending
    /\ IF s \in handlers /\ ~Blocks(s) THEN Handle(s) ELSE Killed(s)

HandlerStart ==
    /\ cpc = "handler"
    /\ IF ~armed \/ handling
       THEN /\ Ended(Fact("exited", CrashExitCode(hsig)))
            /\ UNCHANGED <<handling, lost>>
       ELSE /\ handling' = TRUE
            /\ cpc' = "handler_write"
            /\ UNCHANGED <<exit, childEnds, lost>>
    /\ UNCHANGED <<parentVars, linkVars, childFrozen, blocked, handlers, armed, hsig,
                   guestVars, cause>>

\* The result of the write is not looked at.
HandlerWrite ==
    /\ cpc = "handler_write"
    /\ cpc' = "exit"
    /\ \/ pipe' = Append(pipe, Fact("signalled", hsig)) /\ lost' = lost
       \/ pipe' = pipe /\ lost' = TRUE
    /\ UNCHANGED <<parentVars, pending, sent, childEnds, childFrozen, signalVars,
                   guestVars, exit, cause>>

\* The exit that follows a report: 0, or 128 + signal in the handler.
ExitAfterReport ==
    /\ cpc = "exit"
    /\ Ended(Fact("exited", IF hsig = 0 THEN 0 ELSE CrashExitCode(hsig)))
    /\ UNCHANGED <<parentVars, linkVars, childFrozen, signalVars, guestVars, ghostVars>>

-----------------------------------------------------------------------------
\* The caller runs another worker on the same process.
Again ==
    /\ ppc = "done"
    /\ ppc' = "retain"
    /\ records' = <<>> /\ readOk' = TRUE /\ maskOk' = TRUE /\ savedMask' = parentMask
    /\ result' = [status |-> "none", report |-> NoFact]
    /\ cpc' = "none"
    /\ childEnds' = {} /\ childFrozen' = FALSE
    /\ blocked' = TRUE /\ handlers' = {} /\ armed' = FALSE /\ handling' = FALSE /\ hsig' = 0
    /\ teb' = "none" /\ gs' = "host" /\ gsState' = "unchanged" /\ status' = "ok"
    /\ exit' = NoFact
    /\ pipe' = <<>> /\ pending' = {} /\ sent' = 0
    /\ cause' = NoFact /\ lost' = FALSE
    /\ UNCHANGED <<stacks, parentEnds, parentMask, frozen, refs>>

Parent ==
    \/ RetainProcess \/ CreateStack \/ CreateSignalStack \/ OpenPipe
    \/ BlockSignals \/ PrepareClone \/ Clone \/ CompleteClone \/ RestoreMask
    \/ CloseWriteEnd \/ ReadReport \/ CloseReadEnd \/ WaitForWorker \/ Cleanup
    \/ Classify

WorkerSetUp ==
    \/ Start \/ ResetSignals \/ InstallHandlers \/ Arm \/ Unmask \/ SetImageBase
    \/ CreateTeb \/ AttachTeb \/ InstallGs \/ EnterGuest

WorkerEnd ==
    \/ GuestReturns \/ RestoreGs \/ DetachTeb \/ DestroyTeb
    \/ BlockForReport \/ Disarm \/ WriteReport
    \/ ExitProcess
    \/ HandlerStart \/ HandlerWrite \/ ExitAfterReport

Kernel ==
    \/ \E s \in Signals : Send(s) \/ Deliver(s)
    \/ \E s \in CrashSignals : Fault(s)

Next == Parent \/ ReadFails \/ WorkerSetUp \/ WorkerEnd \/ Kernel \/ Again

\* The parent is scheduled and its reads do not have to fail.  Nothing is assumed of the worker: the guest may
\* run for ever, and the call has no timeout.
Spec == Init /\ [][Next]_vars /\ WF_vars(Parent)

-----------------------------------------------------------------------------
(* Properties.                                                             *)

\* What the caller is told is what ended the guest: a return or an internal
\* failure, ExitProcess with that code, or that signal.  In particular no
\* signal, at whatever step of the worker it arrives, is reported as an exit
\* or as a return.  (A report that could not be written is the exception:
\* the parent then sees the exit code alone.)
OutcomeIsTruthful ==
    (ppc = "done" /\ result.status = "ok" /\ ~lost) => result.report = cause

\* The parent finds the protocol broken only if a signal that could not be
\* held back hit the worker between its report and its exit: SIGKILL, or, when
\* the report is the crash handler's, a signal that its sa_mask does not hold.
\* A worker that reported a return or a failure is safe from the latter.
ProtocolErrorMeansKilled ==
    (ppc = "done" /\ result.status = "protocol") =>
        /\ exit.outcome = "killed"
        /\ Len(records) = 1
        /\ \/ exit.number = SIGKILL
           \/ exit.number \in ReservedSignals /\ records[1].outcome = "signalled"

\* The worker publishes a single wire record, whatever interrupts it.
AtMostOneRecord == Len(records) + Len(pipe) =< 1

\* Every way out of the call gives back both stacks, both pipe ends and the
\* process reference, thaws the handle table, restores the caller's signal
\* mask unless it returns that it could not, and leaves no worker behind.
NothingLeaks ==
    ppc = "done" =>
        /\ stacks = {} /\ parentEnds = {} /\ refs = 0 /\ ~frozen
        /\ parentMask = savedMask \/ result.status = "environment"
        /\ cpc \in {"none", "ended"}

\* The guest runs with its TEB attached and in GS, an empty signal mask, the
\* crash handlers installed and armed, a handle table that is not frozen,
\* and without the read end of the pipe.
GuestEnvironment ==
    cpc = "guest" =>
        /\ teb = "attached" /\ gs = "teb"
        /\ ~blocked /\ handlers = CrashSignals /\ armed /\ ~handling
        /\ ~childFrozen
        /\ childEnds = {"write"}

\* GS never points to a TEB that has been detached or unmapped.
GsNeverDangles == gs = "teb" => teb = "attached"

\* A worker that has ended, however it ended, is reaped and the call returns.
EndedWorkerIsReaped == cpc = "ended" ~> ppc = "done"

(* What run_trusted_worker tells its caller is what happened, from a       *)
(* single record, and a broken protocol is reported only for a worker that *)
(* was killed.                                                             *)
ReportIsTruthful ==
    /\ OutcomeIsTruthful
    /\ ProtocolErrorMeansKilled
    /\ AtMostOneRecord

(* Whatever fails or arrives in the worker, the guest never runs in a      *)
(* half-built environment, and GS leaves the TEB before the TEB goes.      *)
GuestIsSafe == TypeOK /\ GuestEnvironment /\ GsNeverDangles
=============================================================================
