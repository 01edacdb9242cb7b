---------------------------- MODULE WorkerProofs ----------------------------
(***************************************************************************)
(* Safety of run_trusted_worker for every set of crash signals and of      *)
(* other signals, every exit code of the guest and any number of signals   *)
(* sent to the worker.                                                     *)
(***************************************************************************)
EXTENDS Worker, TLAPS

(* Steps of the parent and of the worker, by what has been set up. *)
Early   == {"retain", "stack", "signal_stack", "pipe", "block"}
Masked  == {"freeze", "clone", "thaw", "unmask"}
Drained == {"close_read", "wait", "cleanup", "classify"}
Cloned  == {"close_write", "read", "extra"} \cup Drained
Unread  == Early \cup Masked \cup {"close_write", "read"}
Piped   == {"block"} \cup Masked \cup {"close_write"}
Released == {"retain", "classify", "done"}
Endless == {"retain", "stack", "signal_stack", "pipe", "wait", "cleanup",
            "classify", "done"}
Exposed == {"image_base", "create_teb", "attach_teb", "install_gs", "enter",
            "guest", "restore_gs", "detach_teb", "destroy_teb"}
Crashing == {"handler", "handler_write"}

(* What the parent holds at each step. *)
ResourceInv ==
    /\ ppc \in Released \cup {"stack"} => stacks = {}
    /\ ppc = "signal_stack" => stacks = {"stack"}
    /\ ppc \in Endless => parentEnds = {}
    /\ ppc \in Piped => parentEnds = {"read", "write"}
    /\ ppc \in {"read", "extra", "close_read"} => parentEnds = {"read"}
    /\ refs = IF ppc \in Released THEN 0 ELSE 1
    /\ frozen <=> ppc \in {"clone", "thaw"}

(* The parent blocks all signals from "block" to "unmask". *)
MaskInv ==
    /\ ppc \in Early => parentMask = savedMask
    /\ ppc \in Masked => parentMask
    /\ ppc \in Cloned /\ maskOk => parentMask = savedMask
    /\ ppc = "done" => parentMask = savedMask \/ result.status = "environment"

(* There is a worker from the clone on, it has ended when the parent has   *)
(* drained the pipe, and the result is classified from what was drained.   *)
ForkInv ==
    /\ ppc \in Early \cup {"freeze", "clone"} => cpc = "none"
    /\ ppc \in Cloned => cpc # "none"
    /\ ppc \in {"cleanup", "classify"} => cpc = "ended"
    /\ ppc \in Unread => records = <<>>
    /\ ppc = "extra" => records # <<>>
    /\ ppc \in Drained /\ readOk => cpc = "ended" /\ pipe = <<>>
    /\ ppc = "done" => cpc \in {"none", "ended"}
    /\ ppc = "done" /\ result.status \in {"ok", "protocol"} =>
          /\ cpc = "ended" /\ maskOk /\ readOk /\ pipe = <<>>
          /\ result = Classification

(* The worker has its write end exactly while it runs. *)
ChildInv ==
    /\ cpc = "none" =>
          /\ childEnds = {} /\ blocked /\ hsig = 0
          /\ teb = "none" /\ gs = "host"
    /\ cpc = "start" => childEnds = {"read", "write"}
    /\ Running /\ cpc # "start" => childEnds = {"write"} /\ ~childFrozen
    /\ cpc = "ended" => childEnds = {}

(* Signals are deliverable only while crash reporting is armed, and the    *)
(* crash handler runs alone.                                               *)
SignalInv ==
    /\ cpc \in Exposed => ~blocked
    /\ Running /\ ~blocked => /\ cpc \in Exposed \cup {"block"}
                              /\ handlers = CrashSignals /\ armed /\ ~handling
    /\ cpc \in {"arm", "unmask"} => handlers = CrashSignals /\ ~handling
    /\ cpc = "unmask" => armed
    /\ cpc = "handler" => armed /\ ~handling
    /\ cpc \in Crashing => hsig \in CrashSignals /\ cause = Fact("signalled", hsig)
    /\ Running /\ cpc \notin Crashing \cup {"exit"} => hsig = 0

(* GS points to the TEB only between its attachment and its detachment. *)
GuestInv ==
    /\ gs = "teb" => teb = "attached"
    /\ cpc \in {"install_gs", "enter", "guest", "restore_gs", "detach_teb"} =>
          teb = "attached"
    /\ cpc \in {"start", "reset", "install", "arm", "unmask", "image_base",
                "create_teb", "attach_teb", "install_gs", "detach_teb", "destroy_teb"} =>
          gs = "host"
    /\ cpc \in {"enter", "guest"} => gs = "teb"

NoRecord     == records = <<>> /\ pipe = <<>>
OneRecord(r) == \/ records = <<>> /\ pipe = <<r>>
                \/ records = <<r>> /\ pipe = <<>>

(* A signal that may hit a worker that has written record r. *)
Unstoppable(s, r) == \/ s = SIGKILL
                     \/ s \in ReservedSignals /\ r.outcome = "signalled"

(* One record at most, and with the exit status it tells the cause. *)
RecordInv ==
    /\ cpc # "exit" /\ cpc # "ended" => NoRecord
    /\ cpc \in {"disarm", "report"} => cause = Outcome
    /\ cpc = "exit" =>
          /\ OneRecord(cause) \/ (NoRecord /\ lost)
          /\ hsig = 0 => cause.outcome \in {"returned", "failed"}
          /\ hsig # 0 => hsig \in CrashSignals /\ cause = Fact("signalled", hsig)
    /\ cpc = "ended" =>
          \/ /\ exit.outcome = "killed"
             /\ cause = Fact("signalled", exit.number)
             /\ NoRecord \/ \E r \in Facts : OneRecord(r) /\ Unstoppable(exit.number, r)
          \/ /\ exit.outcome = "exited"
             /\ NoRecord
             /\ lost \/ cause = exit
          \/ /\ OneRecord(cause)
             /\ WireIsValid(cause)

(* TypeOK by parts: the parent, the worker, and what is between them. *)
ParentType ==
    /\ ppc \in ParentSteps
    /\ stacks \subseteq {"stack", "signal"}
    /\ parentEnds \subseteq {"read", "write"}
    /\ parentMask \in BOOLEAN /\ savedMask \in BOOLEAN /\ maskOk \in BOOLEAN
    /\ frozen \in BOOLEAN /\ readOk \in BOOLEAN
    /\ refs \in 0 .. 1
    /\ result \in [status : Statuses, report : Facts]

ChildType ==
    /\ cpc \in ChildSteps
    /\ childEnds \subseteq {"read", "write"}
    /\ childFrozen \in BOOLEAN /\ blocked \in BOOLEAN
    /\ armed \in BOOLEAN /\ handling \in BOOLEAN
    /\ handlers \subseteq CrashSignals
    /\ hsig \in CrashSignals \cup {0}
    /\ teb \in {"none", "created", "attached"}
    /\ gs \in {"host", "teb"}
    /\ gsState \in {"unchanged", "attempted", "restored"}
    /\ status \in {"ok", "failed"}
    /\ exit \in Facts /\ cause \in Facts /\ lost \in BOOLEAN

LinkType ==
    /\ records \in Seq(Facts) /\ Len(records) =< 2
    /\ pipe \in Seq(Facts)
    /\ pending \subseteq Signals
    /\ sent \in 0 .. MaxSignals

IndInv ==
    /\ ParentType
    /\ ChildType
    /\ LinkType
    /\ ResourceInv
    /\ MaskInv
    /\ ForkInv
    /\ ChildInv
    /\ SignalInv
    /\ GuestInv
    /\ RecordInv

-----------------------------------------------------------------------------
(* Which steps of the parent are of which kind. *)
LEMMA ParentKinds ==
  /\ "retain" \in Early \cap Released \cap Unread \cap Endless \cap
         ParentSteps
  /\ "retain" \notin Masked \cup Drained \cup Cloned \cup Piped
  /\ "stack" \in Early \cap Unread \cap Endless \cap ParentSteps
  /\ "stack" \notin Masked \cup Drained \cup Cloned \cup Piped \cup Released
  /\ "signal_stack" \in Early \cap Unread \cap Endless \cap ParentSteps
  /\ "signal_stack" \notin Masked \cup Drained \cup Cloned \cup Piped \cup
         Released
  /\ "pipe" \in Early \cap Unread \cap Endless \cap ParentSteps
  /\ "pipe" \notin Masked \cup Drained \cup Cloned \cup Piped \cup Released
  /\ "block" \in Early \cap Piped \cap Unread \cap ParentSteps
  /\ "block" \notin Masked \cup Drained \cup Cloned \cup Released \cup
         Endless
  /\ "freeze" \in Masked \cap Piped \cap Unread \cap ParentSteps
  /\ "freeze" \notin Early \cup Drained \cup Cloned \cup Released \cup
         Endless
  /\ "clone" \in Masked \cap Piped \cap Unread \cap ParentSteps
  /\ "clone" \notin Early \cup Drained \cup Cloned \cup Released \cup
         Endless
  /\ "thaw" \in Masked \cap Piped \cap Unread \cap ParentSteps
  /\ "thaw" \notin Early \cup Drained \cup Cloned \cup Released \cup Endless
  /\ "unmask" \in Masked \cap Piped \cap Unread \cap ParentSteps
  /\ "unmask" \notin Early \cup Drained \cup Cloned \cup Released \cup
         Endless
  /\ "close_write" \in Cloned \cap Piped \cap Unread \cap ParentSteps
  /\ "close_write" \notin Early \cup Masked \cup Drained \cup Released \cup
         Endless
  /\ "read" \in Cloned \cap Unread \cap ParentSteps
  /\ "read" \notin Early \cup Masked \cup Drained \cup Piped \cup Released
         \cup Endless
  /\ "extra" \in Cloned \cap ParentSteps
  /\ "extra" \notin Early \cup Masked \cup Drained \cup Piped \cup Released
         \cup Unread \cup Endless
  /\ "close_read" \in Drained \cap Cloned \cap ParentSteps
  /\ "close_read" \notin Early \cup Masked \cup Piped \cup Released \cup
         Unread \cup Endless
  /\ "wait" \in Drained \cap Cloned \cap Endless \cap ParentSteps
  /\ "wait" \notin Early \cup Masked \cup Piped \cup Released \cup Unread
  /\ "cleanup" \in Drained \cap Cloned \cap Endless \cap ParentSteps
  /\ "cleanup" \notin Early \cup Masked \cup Piped \cup Released \cup Unread
  /\ "classify" \in Drained \cap Cloned \cap Released \cap Endless \cap
         ParentSteps
  /\ "classify" \notin Early \cup Masked \cup Piped \cup Unread
  /\ "done" \in Released \cap Endless \cap ParentSteps
  /\ "done" \notin Early \cup Masked \cup Drained \cup Cloned \cup Piped
         \cup Unread
BY DEF Early, Masked, Drained, Cloned, Piped, Released, Unread, Endless,
      ParentSteps

(* Which steps of the worker are of which kind. *)
LEMMA ChildKinds ==
  /\ "none" \in ChildSteps
  /\ "none" \notin Exposed \cup Crashing
  /\ "start" \in ChildSteps
  /\ "start" \notin Exposed \cup Crashing
  /\ "reset" \in ChildSteps
  /\ "reset" \notin Exposed \cup Crashing
  /\ "install" \in ChildSteps
  /\ "install" \notin Exposed \cup Crashing
  /\ "arm" \in ChildSteps
  /\ "arm" \notin Exposed \cup Crashing
  /\ "unmask" \in ChildSteps
  /\ "unmask" \notin Exposed \cup Crashing
  /\ "image_base" \in Exposed \cap ChildSteps
  /\ "image_base" \notin Crashing
  /\ "create_teb" \in Exposed \cap ChildSteps
  /\ "create_teb" \notin Crashing
  /\ "attach_teb" \in Exposed \cap ChildSteps
  /\ "attach_teb" \notin Crashing
  /\ "install_gs" \in Exposed \cap ChildSteps
  /\ "install_gs" \notin Crashing
  /\ "enter" \in Exposed \cap ChildSteps
  /\ "enter" \notin Crashing
  /\ "guest" \in Exposed \cap ChildSteps
  /\ "guest" \notin Crashing
  /\ "restore_gs" \in Exposed \cap ChildSteps
  /\ "restore_gs" \notin Crashing
  /\ "detach_teb" \in Exposed \cap ChildSteps
  /\ "detach_teb" \notin Crashing
  /\ "destroy_teb" \in Exposed \cap ChildSteps
  /\ "destroy_teb" \notin Crashing
  /\ "block" \in ChildSteps
  /\ "block" \notin Exposed \cup Crashing
  /\ "disarm" \in ChildSteps
  /\ "disarm" \notin Exposed \cup Crashing
  /\ "report" \in ChildSteps
  /\ "report" \notin Exposed \cup Crashing
  /\ "handler" \in Crashing \cap ChildSteps
  /\ "handler" \notin Exposed
  /\ "handler_write" \in Crashing \cap ChildSteps
  /\ "handler_write" \notin Exposed
  /\ "exit" \in ChildSteps
  /\ "exit" \notin Exposed \cup Crashing
  /\ "ended" \in ChildSteps
  /\ "ended" \notin Exposed \cup Crashing
BY DEF Exposed, Crashing, ChildSteps

-----------------------------------------------------------------------------
(* The facts the worker and the parent speak of. *)
LEMMA FactTypes ==
  /\ \A k \in Outcomes, n \in Nat : Fact(k, n) \in Facts
  /\ NoFact \in Facts
  /\ \A s \in Signals : s \in Nat /\ Fact("signalled", s) \in Facts
                        /\ Fact("killed", s) \in Facts
                        /\ Fact("exited", CrashExitCode(s)) \in Facts
  /\ \A s \in CrashSignals : s \in Signals
  /\ \A n \in ExitCodes : Fact("exited", n % 256) \in Facts
  /\ Fact("exited", 0) \in Facts /\ Fact("exited", ReportLost) \in Facts
  /\ Fact("returned", 0) \in Facts /\ Fact("failed", 0) \in Facts
BY WorkerAssumption
   DEF Fact, NoFact, Facts, Outcomes, Signals, CrashExitCode, ReportLost

(* The statuses the parent returns. *)
LEMMA StatusNames ==
  /\ "none" \in Statuses
  /\ "ok" \in Statuses
  /\ "invalid_state" \in Statuses
  /\ "memory" \in Statuses
  /\ "io" \in Statuses
  /\ "environment" \in Statuses
  /\ "process_creation" \in Statuses
  /\ "protocol" \in Statuses
BY DEF Statuses

(* The parent takes a reference on the process object, or refuses. *)
LEMMA RetainProcessInd ==
  ASSUME IndInv, RetainProcess
  PROVE  IndInv'
<1> USE DEF IndInv
<1>1. UNCHANGED <<cpc, childEnds, childFrozen, blocked, handlers, armed,
            handling, hsig, teb, gs, gsState, status, exit, cause,
            lost, pipe, pending, sent, records>>
  BY DEF RetainProcess, ParentOnly, Fail, Running, parentVars, childVars,
      signalVars, guestVars, linkVars, ghostVars
<1>2. ParentType'
  BY ParentKinds, StatusNames, FactTypes DEF ParentType, RetainProcess,
      ParentOnly, Fail, Running, parentVars, childVars, signalVars, guestVars,
      linkVars, ghostVars, ResourceInv
<1>3. ChildType'
  BY <1>1 DEF ChildType
<1>4. LinkType'
  BY <1>1 DEF LinkType
<1>5. ResourceInv'
  BY ParentKinds, ChildKinds, WorkerAssumption DEF ResourceInv, RetainProcess,
      ParentOnly, Fail, Running, parentVars, childVars, signalVars, guestVars,
      linkVars, ghostVars, ParentType
<1>6. MaskInv'
  BY ParentKinds, ChildKinds, WorkerAssumption DEF MaskInv, RetainProcess,
      ParentOnly, Fail, Running, parentVars, childVars, signalVars, guestVars,
      linkVars, ghostVars, ParentType
<1>7. ForkInv'
  BY ParentKinds, ChildKinds, WorkerAssumption DEF ForkInv, RetainProcess,
      ParentOnly, Fail, Running, parentVars, childVars, signalVars, guestVars,
      linkVars, ghostVars, ResourceInv, ChildInv, RecordInv, NoRecord,
      OneRecord
<1>8. ChildInv'
  BY <1>1 DEF ChildInv, Running
<1>9. SignalInv'
  BY <1>1 DEF SignalInv, Running
<1>10. GuestInv'
  BY <1>1 DEF GuestInv
<1>11. RecordInv'
  BY <1>1 DEF RecordInv, NoRecord, OneRecord, Outcome, WireIsValid
<1>12. QED
  BY <1>2, <1>3, <1>4, <1>5, <1>6, <1>7, <1>8, <1>9, <1>10, <1>11

(* The parent maps the guest stack. *)
LEMMA CreateStackInd ==
  ASSUME IndInv, CreateStack
  PROVE  IndInv'
<1> USE DEF IndInv
<1>1. UNCHANGED <<cpc, childEnds, childFrozen, blocked, handlers, armed,
            handling, hsig, teb, gs, gsState, status, exit, cause,
            lost, pipe, pending, sent, records>>
  BY DEF CreateStack, ParentOnly, Fail, Running, parentVars, childVars,
      signalVars, guestVars, linkVars, ghostVars
<1>2. ParentType'
  <2>1. refs = 1
    BY ParentKinds DEF CreateStack, ResourceInv
  <2>2. refs' \in 0 .. 1
    BY <2>1 DEF CreateStack, Fail
  <2>3. result' \in [status : Statuses, report : Facts]
    BY StatusNames, FactTypes DEF CreateStack, Fail, ParentType
  <2>4. ppc' \in ParentSteps
    BY ParentKinds DEF CreateStack, Fail
  <2>5. QED
    BY <2>2, <2>3, <2>4 DEF CreateStack, Fail, ParentType
<1>3. ChildType'
  BY <1>1 DEF ChildType
<1>4. LinkType'
  BY <1>1 DEF LinkType
<1>5. ResourceInv'
  <2>1. refs = 1 /\ stacks = {} /\ parentEnds = {} /\ frozen = FALSE
    BY ParentKinds DEF CreateStack, ResourceInv
  <2>2. CASE ppc' = "done"
    <3>1. refs' = 0 /\ stacks' = {} /\ parentEnds' = {} /\ frozen' = FALSE
      BY <2>1, <2>2 DEF CreateStack, Fail, Unwind
    <3>2. QED
      BY <2>2, <3>1, ParentKinds DEF ResourceInv
  <2>3. CASE ppc' # "done"
    BY <2>1, <2>3, ParentKinds DEF CreateStack, Fail, ResourceInv
  <2>4. QED
    BY <2>2, <2>3
<1>6. MaskInv'
  BY ParentKinds, ChildKinds, WorkerAssumption DEF MaskInv, CreateStack,
      ParentOnly, Fail, Running, parentVars, childVars, signalVars, guestVars,
      linkVars, ghostVars, ParentType
<1>7. ForkInv'
  BY ParentKinds, ChildKinds, WorkerAssumption DEF ForkInv, CreateStack,
      ParentOnly, Fail, Running, parentVars, childVars, signalVars, guestVars,
      linkVars, ghostVars, ResourceInv, ChildInv, RecordInv, NoRecord,
      OneRecord
<1>8. ChildInv'
  BY <1>1 DEF ChildInv, Running
<1>9. SignalInv'
  BY <1>1 DEF SignalInv, Running
<1>10. GuestInv'
  BY <1>1 DEF GuestInv
<1>11. RecordInv'
  BY <1>1 DEF RecordInv, NoRecord, OneRecord, Outcome, WireIsValid
<1>12. QED
  BY <1>2, <1>3, <1>4, <1>5, <1>6, <1>7, <1>8, <1>9, <1>10, <1>11

(* The parent maps the signal stack, or unmaps the guest stack. *)
LEMMA CreateSignalStackInd ==
  ASSUME IndInv, CreateSignalStack
  PROVE  IndInv'
<1> USE DEF IndInv
<1>1. UNCHANGED <<cpc, childEnds, childFrozen, blocked, handlers, armed,
            handling, hsig, teb, gs, gsState, status, exit, cause,
            lost, pipe, pending, sent, records>>
  BY DEF CreateSignalStack, ParentOnly, Fail, Running, parentVars, childVars,
      signalVars, guestVars, linkVars, ghostVars
<1>2. ParentType'
  <2>1. refs = 1
    BY ParentKinds DEF CreateSignalStack, ResourceInv
  <2>2. refs' \in 0 .. 1
    BY <2>1 DEF CreateSignalStack, Fail
  <2>3. result' \in [status : Statuses, report : Facts]
    BY StatusNames, FactTypes DEF CreateSignalStack, Fail, ParentType
  <2>4. ppc' \in ParentSteps
    BY ParentKinds DEF CreateSignalStack, Fail
  <2>5. QED
    BY <2>2, <2>3, <2>4 DEF CreateSignalStack, Fail, ParentType
<1>3. ChildType'
  BY <1>1 DEF ChildType
<1>4. LinkType'
  BY <1>1 DEF LinkType
<1>5. ResourceInv'
  BY ParentKinds, ChildKinds, WorkerAssumption DEF ResourceInv,
      CreateSignalStack, ParentOnly, Fail, Running, parentVars, childVars,
      signalVars, guestVars, linkVars, ghostVars, ParentType
<1>6. MaskInv'
  BY ParentKinds, ChildKinds, WorkerAssumption DEF MaskInv, CreateSignalStack,
      ParentOnly, Fail, Running, parentVars, childVars, signalVars, guestVars,
      linkVars, ghostVars, ParentType
<1>7. ForkInv'
  BY ParentKinds, ChildKinds, WorkerAssumption DEF ForkInv, CreateSignalStack,
      ParentOnly, Fail, Running, parentVars, childVars, signalVars, guestVars,
      linkVars, ghostVars, ResourceInv, ChildInv, RecordInv, NoRecord,
      OneRecord
<1>8. ChildInv'
  BY <1>1 DEF ChildInv, Running
<1>9. SignalInv'
  BY <1>1 DEF SignalInv, Running
<1>10. GuestInv'
  BY <1>1 DEF GuestInv
<1>11. RecordInv'
  BY <1>1 DEF RecordInv, NoRecord, OneRecord, Outcome, WireIsValid
<1>12. QED
  BY <1>2, <1>3, <1>4, <1>5, <1>6, <1>7, <1>8, <1>9, <1>10, <1>11

(* The parent opens the report pipe, or undoes the stacks. *)
LEMMA OpenPipeInd ==
  ASSUME IndInv, OpenPipe
  PROVE  IndInv'
<1> USE DEF IndInv
<1>1. UNCHANGED <<cpc, childEnds, childFrozen, blocked, handlers, armed,
            handling, hsig, teb, gs, gsState, status, exit, cause,
            lost, pipe, pending, sent, records>>
  BY DEF OpenPipe, ParentOnly, Fail, Running, parentVars, childVars,
      signalVars, guestVars, linkVars, ghostVars
<1>2. ParentType'
  <2>1. refs = 1
    BY ParentKinds DEF OpenPipe, ResourceInv
  <2>2. refs' \in 0 .. 1
    BY <2>1 DEF OpenPipe, Fail
  <2>3. result' \in [status : Statuses, report : Facts]
    BY StatusNames, FactTypes DEF OpenPipe, Fail, ParentType
  <2>4. ppc' \in ParentSteps
    BY ParentKinds DEF OpenPipe, Fail
  <2>5. QED
    BY <2>2, <2>3, <2>4 DEF OpenPipe, Fail, ParentType
<1>3. ChildType'
  BY <1>1 DEF ChildType
<1>4. LinkType'
  BY <1>1 DEF LinkType
<1>5. ResourceInv'
  <2>1. refs = 1 /\ parentEnds = {} /\ frozen = FALSE
    BY ParentKinds DEF OpenPipe, ResourceInv
  <2>2. CASE ppc' = "done"
    <3>1. refs' = 0 /\ stacks' = {} /\ parentEnds' = {} /\ frozen' = FALSE
      BY <2>1, <2>2 DEF OpenPipe, Fail, Unwind
    <3>2. QED
      BY <2>2, <3>1, ParentKinds DEF ResourceInv
  <2>3. CASE ppc' # "done"
    BY <2>1, <2>3, ParentKinds DEF OpenPipe, Fail, ResourceInv
  <2>4. QED
    BY <2>2, <2>3
<1>6. MaskInv'
  BY ParentKinds, ChildKinds, WorkerAssumption DEF MaskInv, OpenPipe,
      ParentOnly, Fail, Running, parentVars, childVars, signalVars, guestVars,
      linkVars, ghostVars, ParentType
<1>7. ForkInv'
  BY ParentKinds, ChildKinds, WorkerAssumption DEF ForkInv, OpenPipe,
      ParentOnly, Fail, Running, parentVars, childVars, signalVars, guestVars,
      linkVars, ghostVars, ResourceInv, ChildInv, RecordInv, NoRecord,
      OneRecord
<1>8. ChildInv'
  BY <1>1 DEF ChildInv, Running
<1>9. SignalInv'
  BY <1>1 DEF SignalInv, Running
<1>10. GuestInv'
  BY <1>1 DEF GuestInv
<1>11. RecordInv'
  BY <1>1 DEF RecordInv, NoRecord, OneRecord, Outcome, WireIsValid
<1>12. QED
  BY <1>2, <1>3, <1>4, <1>5, <1>6, <1>7, <1>8, <1>9, <1>10, <1>11

(* The parent blocks all signals. *)
LEMMA BlockSignalsInd ==
  ASSUME IndInv, BlockSignals
  PROVE  IndInv'
<1> USE DEF IndInv
<1>1. UNCHANGED <<cpc, childEnds, childFrozen, blocked, handlers, armed,
            handling, hsig, teb, gs, gsState, status, exit, cause,
            lost, pipe, pending, sent, records>>
  BY DEF BlockSignals, ParentOnly, Fail, Unwind, Running, parentVars,
      childVars, signalVars, guestVars, linkVars, ghostVars
<1>2. ParentType'
  <2>1. refs = 1
    BY ParentKinds DEF BlockSignals, Unwind, ResourceInv
  <2>2. refs' \in 0 .. 1
    BY <2>1 DEF BlockSignals, Unwind, Fail
  <2>3. result' \in [status : Statuses, report : Facts]
    BY StatusNames, FactTypes DEF BlockSignals, Unwind, Fail, ParentType
  <2>4. ppc' \in ParentSteps
    BY ParentKinds DEF BlockSignals, Unwind, Fail
  <2>5. QED
    BY <2>2, <2>3, <2>4 DEF BlockSignals, Unwind, Fail, ParentType
<1>3. ChildType'
  BY <1>1 DEF ChildType
<1>4. LinkType'
  BY <1>1 DEF LinkType
<1>5. ResourceInv'
  BY ParentKinds, ChildKinds, WorkerAssumption DEF ResourceInv, BlockSignals,
      ParentOnly, Fail, Unwind, Running, parentVars, childVars, signalVars,
      guestVars, linkVars, ghostVars, ParentType
<1>6. MaskInv'
  BY ParentKinds, ChildKinds, WorkerAssumption DEF MaskInv, BlockSignals,
      ParentOnly, Fail, Unwind, Running, parentVars, childVars, signalVars,
      guestVars, linkVars, ghostVars, ParentType
<1>7. ForkInv'
  BY ParentKinds, ChildKinds, WorkerAssumption DEF ForkInv, BlockSignals,
      ParentOnly, Fail, Unwind, Running, parentVars, childVars, signalVars,
      guestVars, linkVars, ghostVars, ResourceInv, ChildInv, RecordInv,
      NoRecord, OneRecord
<1>8. ChildInv'
  BY <1>1 DEF ChildInv, Running
<1>9. SignalInv'
  BY <1>1 DEF SignalInv, Running
<1>10. GuestInv'
  BY <1>1 DEF GuestInv
<1>11. RecordInv'
  BY <1>1 DEF RecordInv, NoRecord, OneRecord, Outcome, WireIsValid
<1>12. QED
  BY <1>2, <1>3, <1>4, <1>5, <1>6, <1>7, <1>8, <1>9, <1>10, <1>11

(* The parent freezes its handle table for the clone. *)
LEMMA PrepareCloneInd ==
  ASSUME IndInv, PrepareClone
  PROVE  IndInv'
<1> USE DEF IndInv
<1>1. UNCHANGED <<cpc, childEnds, childFrozen, blocked, handlers, armed,
            handling, hsig, teb, gs, gsState, status, exit, cause,
            lost, pipe, pending, sent, records>>
  BY DEF PrepareClone, ParentOnly, Fail, Unwind, Running, parentVars,
      childVars, signalVars, guestVars, linkVars, ghostVars
<1>2. ParentType'
  <2>1. refs = 1
    BY ParentKinds DEF PrepareClone, Unwind, ResourceInv
  <2>2. refs' \in 0 .. 1
    BY <2>1 DEF PrepareClone, Unwind, Fail
  <2>3. result' \in [status : Statuses, report : Facts]
    BY StatusNames, FactTypes DEF PrepareClone, Unwind, Fail, ParentType
  <2>4. ppc' \in ParentSteps
    BY ParentKinds DEF PrepareClone, Unwind, Fail
  <2>5. QED
    BY <2>2, <2>3, <2>4 DEF PrepareClone, Unwind, Fail, ParentType
<1>3. ChildType'
  BY <1>1 DEF ChildType
<1>4. LinkType'
  BY <1>1 DEF LinkType
<1>5. ResourceInv'
  BY ParentKinds, ChildKinds, WorkerAssumption DEF ResourceInv, PrepareClone,
      ParentOnly, Fail, Unwind, Running, parentVars, childVars, signalVars,
      guestVars, linkVars, ghostVars, ParentType
<1>6. MaskInv'
  <2>1. parentMask
    BY ParentKinds DEF PrepareClone, MaskInv
  <2>2. CASE ppc' = "clone" /\ parentMask' = parentMask
    BY <2>1, <2>2, ParentKinds DEF MaskInv
  <2>3. CASE ppc' = "done" /\ parentMask' = savedMask /\ savedMask' = savedMask
    BY <2>3, ParentKinds DEF MaskInv
  <2>4. CASE ppc' = "done" /\ result'.status = "environment"
    BY <2>4, ParentKinds DEF MaskInv
  <2>5. QED
    BY <2>2, <2>3, <2>4 DEF PrepareClone, Fail
<1>7. ForkInv'
  BY ParentKinds, ChildKinds, WorkerAssumption DEF ForkInv, PrepareClone,
      ParentOnly, Fail, Unwind, Running, parentVars, childVars, signalVars,
      guestVars, linkVars, ghostVars, ResourceInv, ChildInv, RecordInv,
      NoRecord, OneRecord
<1>8. ChildInv'
  BY <1>1 DEF ChildInv, Running
<1>9. SignalInv'
  BY <1>1 DEF SignalInv, Running
<1>10. GuestInv'
  BY <1>1 DEF GuestInv
<1>11. RecordInv'
  BY <1>1 DEF RecordInv, NoRecord, OneRecord, Outcome, WireIsValid
<1>12. QED
  BY <1>2, <1>3, <1>4, <1>5, <1>6, <1>7, <1>8, <1>9, <1>10, <1>11

(* The clone: a worker with the parent's ends, mask and frozen table. *)
LEMMA CloneInd ==
  ASSUME IndInv, Clone
  PROVE  IndInv'
<1> USE DEF IndInv
<1>1. ParentType'
  BY ParentKinds, StatusNames, FactTypes DEF ParentType, Clone, ParentOnly,
      Running, parentVars, childVars, signalVars, guestVars, linkVars,
      ghostVars, ResourceInv
<1>2. ChildType'
  <2>1. /\ cpc' \in ChildSteps
        /\ childEnds' \in {childEnds, parentEnds}
        /\ childFrozen' \in {childFrozen, frozen}
        /\ blocked' \in {blocked, parentMask}
    BY ChildKinds DEF Clone, ChildType
  <2>2. /\ childEnds' \subseteq {"read", "write"}
        /\ childFrozen' \in BOOLEAN /\ blocked' \in BOOLEAN
    BY <2>1 DEF ChildType, ParentType
  <2>3. UNCHANGED <<handlers, armed, handling, hsig, teb, gs, gsState, status, exit,
                    cause, lost>>
    BY DEF Clone, guestVars, ghostVars
  <2>4. QED
    BY <2>1, <2>2, <2>3 DEF ChildType
<1>3. LinkType'
  BY WorkerAssumption, FactTypes DEF LinkType, Clone, ParentOnly, Running,
      parentVars, childVars, signalVars, guestVars, linkVars, ghostVars,
      RecordInv, ForkInv, NoRecord, OneRecord, Outcome, SignalInv
<1>4. ResourceInv'
  BY ParentKinds, ChildKinds, WorkerAssumption DEF ResourceInv, Clone,
      ParentOnly, Running, parentVars, childVars, signalVars, guestVars,
      linkVars, ghostVars, ParentType
<1>5. MaskInv'
  BY ParentKinds, ChildKinds, WorkerAssumption DEF MaskInv, Clone, ParentOnly,
      Running, parentVars, childVars, signalVars, guestVars, linkVars,
      ghostVars, ParentType
<1>6. ForkInv'
  BY ParentKinds, ChildKinds, WorkerAssumption DEF ForkInv, Clone, ParentOnly,
      Running, parentVars, childVars, signalVars, guestVars, linkVars,
      ghostVars, ResourceInv, ChildInv, RecordInv, NoRecord, OneRecord
<1>7. ChildInv'
  BY ParentKinds, ChildKinds, WorkerAssumption DEF ChildInv, Clone,
      ParentOnly, Running, parentVars, childVars, signalVars, guestVars,
      linkVars, ghostVars, ForkInv, MaskInv, ResourceInv
<1>8. SignalInv'
  BY ParentKinds, ChildKinds, WorkerAssumption DEF SignalInv, Clone,
      ParentOnly, Running, parentVars, childVars, signalVars, guestVars,
      linkVars, ghostVars, ChildInv, ForkInv, MaskInv, Fact, ChildType
<1>9. GuestInv'
  <2>1. gs = "host" /\ UNCHANGED gs
    BY ParentKinds DEF Clone, guestVars, ForkInv, ChildInv
  <2>2. cpc' = "start" \/ cpc' = "none"
    BY ParentKinds DEF Clone, ForkInv
  <2>3. QED
    BY <2>1, <2>2 DEF GuestInv
<1>10. RecordInv'
  BY ParentKinds, ChildKinds, WorkerAssumption DEF RecordInv, Clone,
      ParentOnly, Running, parentVars, childVars, signalVars, guestVars,
      linkVars, ghostVars, NoRecord, OneRecord, ForkInv, SignalInv, ChildInv,
      ChildType, WireIsValid, ExpectedExitCode, Fact, Outcome, CrashExitCode
<1>11. QED
  BY <1>1, <1>2, <1>3, <1>4, <1>5, <1>6, <1>7, <1>8, <1>9, <1>10

(* The parent thaws its handle table. *)
LEMMA CompleteCloneInd ==
  ASSUME IndInv, CompleteClone
  PROVE  IndInv'
<1> USE DEF IndInv
<1>1. UNCHANGED <<cpc, childEnds, childFrozen, blocked, handlers, armed,
            handling, hsig, teb, gs, gsState, status, exit, cause,
            lost, pipe, pending, sent, records>>
  BY DEF CompleteClone, ParentOnly, Running, parentVars, childVars,
      signalVars, guestVars, linkVars, ghostVars
<1>2. ParentType'
  BY ParentKinds, StatusNames, FactTypes DEF ParentType, CompleteClone,
      ParentOnly, Running, parentVars, childVars, signalVars, guestVars,
      linkVars, ghostVars, ResourceInv
<1>3. ChildType'
  BY <1>1 DEF ChildType
<1>4. LinkType'
  BY <1>1 DEF LinkType
<1>5. ResourceInv'
  BY ParentKinds, ChildKinds, WorkerAssumption DEF ResourceInv, CompleteClone,
      ParentOnly, Running, parentVars, childVars, signalVars, guestVars,
      linkVars, ghostVars, ParentType
<1>6. MaskInv'
  BY ParentKinds, ChildKinds, WorkerAssumption DEF MaskInv, CompleteClone,
      ParentOnly, Running, parentVars, childVars, signalVars, guestVars,
      linkVars, ghostVars, ParentType
<1>7. ForkInv'
  BY ParentKinds, ChildKinds, WorkerAssumption DEF ForkInv, CompleteClone,
      ParentOnly, Running, parentVars, childVars, signalVars, guestVars,
      linkVars, ghostVars, ResourceInv, ChildInv, RecordInv, NoRecord,
      OneRecord
<1>8. ChildInv'
  BY <1>1 DEF ChildInv, Running
<1>9. SignalInv'
  BY <1>1 DEF SignalInv, Running
<1>10. GuestInv'
  BY <1>1 DEF GuestInv
<1>11. RecordInv'
  BY <1>1 DEF RecordInv, NoRecord, OneRecord, Outcome, WireIsValid
<1>12. QED
  BY <1>2, <1>3, <1>4, <1>5, <1>6, <1>7, <1>8, <1>9, <1>10, <1>11

(* The parent restores its mask; without a worker it unwinds. *)
LEMMA RestoreMaskInd ==
  ASSUME IndInv, RestoreMask
  PROVE  IndInv'
<1> USE DEF IndInv
<1>1. UNCHANGED <<cpc, childEnds, childFrozen, blocked, handlers, armed,
            handling, hsig, teb, gs, gsState, status, exit, cause,
            lost, pipe, pending, sent, records>>
  BY DEF RestoreMask, ParentOnly, Fail, Unwind, Running, parentVars,
      childVars, signalVars, guestVars, linkVars, ghostVars
<1>2. ParentType'
  <2>1. refs = 1
    BY ParentKinds DEF RestoreMask, Unwind, ResourceInv
  <2>2. refs' \in 0 .. 1
    BY <2>1 DEF RestoreMask, Unwind, Fail
  <2>3. result' \in [status : Statuses, report : Facts]
    BY StatusNames, FactTypes DEF RestoreMask, Unwind, Fail, ParentType
  <2>4. ppc' \in ParentSteps
    BY ParentKinds DEF RestoreMask, Unwind, Fail
  <2>5. QED
    BY <2>2, <2>3, <2>4 DEF RestoreMask, Unwind, Fail, ParentType
<1>3. ChildType'
  BY <1>1 DEF ChildType
<1>4. LinkType'
  BY <1>1 DEF LinkType
<1>5. ResourceInv'
  BY ParentKinds, ChildKinds, WorkerAssumption DEF ResourceInv, RestoreMask,
      ParentOnly, Fail, Unwind, Running, parentVars, childVars, signalVars,
      guestVars, linkVars, ghostVars, ParentType
<1>6. MaskInv'
  <2>1. CASE ppc' \in {"done", "close_write"} /\ parentMask' = savedMask /\ savedMask' = savedMask
    BY <2>1, ParentKinds DEF MaskInv
  <2>2. CASE ppc' = "done" /\ result'.status = "environment"
    BY <2>2, ParentKinds DEF MaskInv
  <2>3. CASE ppc' = "close_write" /\ maskOk' = FALSE
    BY <2>3, ParentKinds DEF MaskInv
  <2>4. ppc' \in {"done", "close_write"} /\ savedMask' = savedMask
    BY DEF RestoreMask, Fail
  <2>5. CASE parentMask' = savedMask /\ maskOk' = TRUE
    BY <2>1, <2>4, <2>5
  <2>6. CASE maskOk' = FALSE
    <3>1. CASE cpc = "none"
      <4>1. result'.status = "environment"
        BY <2>6, <3>1 DEF RestoreMask, Fail
      <4>2. ppc' = "done"
        BY <3>1 DEF RestoreMask, Fail
      <4>3. QED
        BY <2>2, <4>1, <4>2
    <3>2. CASE cpc # "none"
      BY <2>3, <2>6, <3>2 DEF RestoreMask
    <3>3. QED
      BY <3>1, <3>2
  <2>7. QED
    BY <2>5, <2>6 DEF RestoreMask
<1>7. ForkInv'
  <2>1. records' = <<>> /\ cpc' = cpc
    BY <1>1, ParentKinds DEF RestoreMask, ForkInv
  <2>2. CASE cpc = "none"
    <3>1. ppc' = "done" /\ result'.status \in {"process_creation", "environment"}
      BY <2>2 DEF RestoreMask, Fail
    <3>2. QED
      BY <2>1, <2>2, <3>1, ParentKinds DEF ForkInv
  <2>3. CASE cpc # "none"
    <3>1. ppc' = "close_write"
      BY <2>3 DEF RestoreMask
    <3>2. QED
      BY <2>1, <2>3, <3>1, ParentKinds DEF ForkInv
  <2>4. QED
    BY <2>2, <2>3
<1>8. ChildInv'
  BY <1>1 DEF ChildInv, Running
<1>9. SignalInv'
  BY <1>1 DEF SignalInv, Running
<1>10. GuestInv'
  BY <1>1 DEF GuestInv
<1>11. RecordInv'
  BY <1>1 DEF RecordInv, NoRecord, OneRecord, Outcome, WireIsValid
<1>12. QED
  BY <1>2, <1>3, <1>4, <1>5, <1>6, <1>7, <1>8, <1>9, <1>10, <1>11

(* The parent closes its write end. *)
LEMMA CloseWriteEndInd ==
  ASSUME IndInv, CloseWriteEnd
  PROVE  IndInv'
<1> USE DEF IndInv
<1>1. UNCHANGED <<cpc, childEnds, childFrozen, blocked, handlers, armed,
            handling, hsig, teb, gs, gsState, status, exit, cause,
            lost, pipe, pending, sent, records>>
  BY DEF CloseWriteEnd, ParentOnly, Running, parentVars, childVars,
      signalVars, guestVars, linkVars, ghostVars
<1>2. ParentType'
  BY ParentKinds, StatusNames, FactTypes DEF ParentType, CloseWriteEnd,
      ParentOnly, Running, parentVars, childVars, signalVars, guestVars,
      linkVars, ghostVars, ResourceInv
<1>3. ChildType'
  BY <1>1 DEF ChildType
<1>4. LinkType'
  BY <1>1 DEF LinkType
<1>5. ResourceInv'
  BY ParentKinds, ChildKinds, WorkerAssumption DEF ResourceInv, CloseWriteEnd,
      ParentOnly, Running, parentVars, childVars, signalVars, guestVars,
      linkVars, ghostVars, ParentType
<1>6. MaskInv'
  BY ParentKinds, ChildKinds, WorkerAssumption DEF MaskInv, CloseWriteEnd,
      ParentOnly, Running, parentVars, childVars, signalVars, guestVars,
      linkVars, ghostVars, ParentType
<1>7. ForkInv'
  BY ParentKinds, ChildKinds, WorkerAssumption DEF ForkInv, CloseWriteEnd,
      ParentOnly, Running, parentVars, childVars, signalVars, guestVars,
      linkVars, ghostVars, ResourceInv, ChildInv, RecordInv, NoRecord,
      OneRecord
<1>8. ChildInv'
  BY <1>1 DEF ChildInv, Running
<1>9. SignalInv'
  BY <1>1 DEF SignalInv, Running
<1>10. GuestInv'
  BY <1>1 DEF GuestInv
<1>11. RecordInv'
  BY <1>1 DEF RecordInv, NoRecord, OneRecord, Outcome, WireIsValid
<1>12. QED
  BY <1>2, <1>3, <1>4, <1>5, <1>6, <1>7, <1>8, <1>9, <1>10, <1>11

(* The parent reads a record or the end of file. *)
LEMMA ReadReportInd ==
  ASSUME IndInv, ReadReport
  PROVE  IndInv'
<1> USE DEF IndInv
<1>1. UNCHANGED <<cpc, childEnds, childFrozen, blocked, handlers, armed,
            handling, hsig, teb, gs, gsState, status, exit, cause,
            lost, pending, sent>>
  BY DEF ReadReport, ParentOnly, EndOfFile, Running, parentVars, childVars,
      signalVars, guestVars, linkVars, ghostVars
<1>2. ParentType'
  BY ParentKinds, StatusNames, FactTypes DEF ParentType, ReadReport,
      ParentOnly, EndOfFile, Running, parentVars, childVars, signalVars,
      guestVars, linkVars, ghostVars, ResourceInv
<1>3. ChildType'
  BY <1>1 DEF ChildType
<1>4. LinkType'
  BY WorkerAssumption, FactTypes DEF LinkType, ReadReport, ParentOnly,
      EndOfFile, Running, parentVars, childVars, signalVars, guestVars,
      linkVars, ghostVars, RecordInv, ForkInv, NoRecord, OneRecord, Outcome,
      SignalInv
<1>5. ResourceInv'
  BY ParentKinds, ChildKinds, WorkerAssumption DEF ResourceInv, ReadReport,
      ParentOnly, EndOfFile, Running, parentVars, childVars, signalVars,
      guestVars, linkVars, ghostVars, ParentType
<1>6. MaskInv'
  BY ParentKinds, ChildKinds, WorkerAssumption DEF MaskInv, ReadReport,
      ParentOnly, EndOfFile, Running, parentVars, childVars, signalVars,
      guestVars, linkVars, ghostVars, ParentType
<1>7. ForkInv'
  <2>1. /\ ppc \in {"read", "extra"} /\ cpc # "none"
        /\ ppc = "read" => records = <<>>
        /\ ppc = "extra" => records # <<>>
        /\ "write" \notin parentEnds
    BY ParentKinds DEF ReadReport, ForkInv, ResourceInv
  <2>2. CASE pipe = <<>>
    <3>1. ppc' = "close_read" /\ pipe' = <<>> /\ "write" \notin childEnds
      BY <2>2 DEF ReadReport, EndOfFile
    <3>2. cpc = "ended"
      BY <2>1, <3>1 DEF ChildInv, Running
    <3>3. QED
      BY <1>1, <3>1, <3>2, ParentKinds DEF ForkInv
  <2>3. CASE pipe # <<>>
    <3>1. PICK r : pipe = <<r>> /\ records = <<>>
      BY <2>3 DEF RecordInv, NoRecord, OneRecord
    <3>2. ppc' = "extra" /\ records' = Append(records, Head(pipe))
      BY <2>1, <2>3, <3>1 DEF ReadReport, EndOfFile
    <3>3. records' # <<>>
      BY <3>1, <3>2
    <3>4. QED
      BY <1>1, <2>1, <3>2, <3>3, ParentKinds DEF ForkInv
  <2>4. QED
    BY <2>2, <2>3
<1>8. ChildInv'
  BY <1>1 DEF ChildInv, Running
<1>9. SignalInv'
  BY <1>1 DEF SignalInv, Running
<1>10. GuestInv'
  BY <1>1 DEF GuestInv
<1>11. RecordInv'
  BY ParentKinds, ChildKinds, WorkerAssumption DEF RecordInv, ReadReport,
      ParentOnly, EndOfFile, Running, parentVars, childVars, signalVars,
      guestVars, linkVars, ghostVars, NoRecord, OneRecord, ForkInv, SignalInv,
      ChildInv, ChildType, WireIsValid, ExpectedExitCode, Fact, Outcome,
      CrashExitCode
<1>12. QED
  BY <1>2, <1>3, <1>4, <1>5, <1>6, <1>7, <1>8, <1>9, <1>10, <1>11

(* A read of the parent fails. *)
LEMMA ReadFailsInd ==
  ASSUME IndInv, ReadFails
  PROVE  IndInv'
<1> USE DEF IndInv
<1>1. UNCHANGED <<cpc, childEnds, childFrozen, blocked, handlers, armed,
            handling, hsig, teb, gs, gsState, status, exit, cause,
            lost, pipe, pending, sent, records>>
  BY DEF ReadFails, ParentOnly, Running, parentVars, childVars, signalVars,
      guestVars, linkVars, ghostVars
<1>2. ParentType'
  BY ParentKinds, StatusNames, FactTypes DEF ParentType, ReadFails,
      ParentOnly, Running, parentVars, childVars, signalVars, guestVars,
      linkVars, ghostVars, ResourceInv
<1>3. ChildType'
  BY <1>1 DEF ChildType
<1>4. LinkType'
  BY <1>1 DEF LinkType
<1>5. ResourceInv'
  BY ParentKinds, ChildKinds, WorkerAssumption DEF ResourceInv, ReadFails,
      ParentOnly, Running, parentVars, childVars, signalVars, guestVars,
      linkVars, ghostVars, ParentType
<1>6. MaskInv'
  BY ParentKinds, ChildKinds, WorkerAssumption DEF MaskInv, ReadFails,
      ParentOnly, Running, parentVars, childVars, signalVars, guestVars,
      linkVars, ghostVars, ParentType
<1>7. ForkInv'
  BY ParentKinds, ChildKinds, WorkerAssumption DEF ForkInv, ReadFails,
      ParentOnly, Running, parentVars, childVars, signalVars, guestVars,
      linkVars, ghostVars, ResourceInv, ChildInv, RecordInv, NoRecord,
      OneRecord
<1>8. ChildInv'
  BY <1>1 DEF ChildInv, Running
<1>9. SignalInv'
  BY <1>1 DEF SignalInv, Running
<1>10. GuestInv'
  BY <1>1 DEF GuestInv
<1>11. RecordInv'
  BY <1>1 DEF RecordInv, NoRecord, OneRecord, Outcome, WireIsValid
<1>12. QED
  BY <1>2, <1>3, <1>4, <1>5, <1>6, <1>7, <1>8, <1>9, <1>10, <1>11

(* The parent closes its read end. *)
LEMMA CloseReadEndInd ==
  ASSUME IndInv, CloseReadEnd
  PROVE  IndInv'
<1> USE DEF IndInv
<1>1. UNCHANGED <<cpc, childEnds, childFrozen, blocked, handlers, armed,
            handling, hsig, teb, gs, gsState, status, exit, cause,
            lost, pipe, pending, sent, records>>
  BY DEF CloseReadEnd, ParentOnly, Running, parentVars, childVars, signalVars,
      guestVars, linkVars, ghostVars
<1>2. ParentType'
  BY ParentKinds, StatusNames, FactTypes DEF ParentType, CloseReadEnd,
      ParentOnly, Running, parentVars, childVars, signalVars, guestVars,
      linkVars, ghostVars, ResourceInv
<1>3. ChildType'
  BY <1>1 DEF ChildType
<1>4. LinkType'
  BY <1>1 DEF LinkType
<1>5. ResourceInv'
  BY ParentKinds, ChildKinds, WorkerAssumption DEF ResourceInv, CloseReadEnd,
      ParentOnly, Running, parentVars, childVars, signalVars, guestVars,
      linkVars, ghostVars, ParentType
<1>6. MaskInv'
  BY ParentKinds, ChildKinds, WorkerAssumption DEF MaskInv, CloseReadEnd,
      ParentOnly, Running, parentVars, childVars, signalVars, guestVars,
      linkVars, ghostVars, ParentType
<1>7. ForkInv'
  BY ParentKinds, ChildKinds, WorkerAssumption DEF ForkInv, CloseReadEnd,
      ParentOnly, Running, parentVars, childVars, signalVars, guestVars,
      linkVars, ghostVars, ResourceInv, ChildInv, RecordInv, NoRecord,
      OneRecord
<1>8. ChildInv'
  BY <1>1 DEF ChildInv, Running
<1>9. SignalInv'
  BY <1>1 DEF SignalInv, Running
<1>10. GuestInv'
  BY <1>1 DEF GuestInv
<1>11. RecordInv'
  BY <1>1 DEF RecordInv, NoRecord, OneRecord, Outcome, WireIsValid
<1>12. QED
  BY <1>2, <1>3, <1>4, <1>5, <1>6, <1>7, <1>8, <1>9, <1>10, <1>11

(* The parent reaps the worker. *)
LEMMA WaitForWorkerInd ==
  ASSUME IndInv, WaitForWorker
  PROVE  IndInv'
<1> USE DEF IndInv
<1>1. UNCHANGED <<cpc, childEnds, childFrozen, blocked, handlers, armed,
            handling, hsig, teb, gs, gsState, status, exit, cause,
            lost, pipe, pending, sent, records>>
  BY DEF WaitForWorker, ParentOnly, Running, parentVars, childVars,
      signalVars, guestVars, linkVars, ghostVars
<1>2. ParentType'
  BY ParentKinds, StatusNames, FactTypes DEF ParentType, WaitForWorker,
      ParentOnly, Running, parentVars, childVars, signalVars, guestVars,
      linkVars, ghostVars, ResourceInv
<1>3. ChildType'
  BY <1>1 DEF ChildType
<1>4. LinkType'
  BY <1>1 DEF LinkType
<1>5. ResourceInv'
  BY ParentKinds, ChildKinds, WorkerAssumption DEF ResourceInv, WaitForWorker,
      ParentOnly, Running, parentVars, childVars, signalVars, guestVars,
      linkVars, ghostVars, ParentType
<1>6. MaskInv'
  BY ParentKinds, ChildKinds, WorkerAssumption DEF MaskInv, WaitForWorker,
      ParentOnly, Running, parentVars, childVars, signalVars, guestVars,
      linkVars, ghostVars, ParentType
<1>7. ForkInv'
  BY ParentKinds, ChildKinds, WorkerAssumption DEF ForkInv, WaitForWorker,
      ParentOnly, Running, parentVars, childVars, signalVars, guestVars,
      linkVars, ghostVars, ResourceInv, ChildInv, RecordInv, NoRecord,
      OneRecord
<1>8. ChildInv'
  BY <1>1 DEF ChildInv, Running
<1>9. SignalInv'
  BY <1>1 DEF SignalInv, Running
<1>10. GuestInv'
  BY <1>1 DEF GuestInv
<1>11. RecordInv'
  BY <1>1 DEF RecordInv, NoRecord, OneRecord, Outcome, WireIsValid
<1>12. QED
  BY <1>2, <1>3, <1>4, <1>5, <1>6, <1>7, <1>8, <1>9, <1>10, <1>11

(* The parent gives the stacks and the reference back. *)
LEMMA CleanupInd ==
  ASSUME IndInv, Cleanup
  PROVE  IndInv'
<1> USE DEF IndInv
<1>1. UNCHANGED <<cpc, childEnds, childFrozen, blocked, handlers, armed,
            handling, hsig, teb, gs, gsState, status, exit, cause,
            lost, pipe, pending, sent, records>>
  BY DEF Cleanup, ParentOnly, Running, parentVars, childVars, signalVars,
      guestVars, linkVars, ghostVars
<1>2. ParentType'
  BY ParentKinds, StatusNames, FactTypes DEF ParentType, Cleanup, ParentOnly,
      Running, parentVars, childVars, signalVars, guestVars, linkVars,
      ghostVars, ResourceInv
<1>3. ChildType'
  BY <1>1 DEF ChildType
<1>4. LinkType'
  BY <1>1 DEF LinkType
<1>5. ResourceInv'
  BY ParentKinds, ChildKinds, WorkerAssumption DEF ResourceInv, Cleanup,
      ParentOnly, Running, parentVars, childVars, signalVars, guestVars,
      linkVars, ghostVars, ParentType
<1>6. MaskInv'
  BY ParentKinds, ChildKinds, WorkerAssumption DEF MaskInv, Cleanup,
      ParentOnly, Running, parentVars, childVars, signalVars, guestVars,
      linkVars, ghostVars, ParentType
<1>7. ForkInv'
  BY ParentKinds, ChildKinds, WorkerAssumption DEF ForkInv, Cleanup,
      ParentOnly, Running, parentVars, childVars, signalVars, guestVars,
      linkVars, ghostVars, ResourceInv, ChildInv, RecordInv, NoRecord,
      OneRecord
<1>8. ChildInv'
  BY <1>1 DEF ChildInv, Running
<1>9. SignalInv'
  BY <1>1 DEF SignalInv, Running
<1>10. GuestInv'
  BY <1>1 DEF GuestInv
<1>11. RecordInv'
  BY <1>1 DEF RecordInv, NoRecord, OneRecord, Outcome, WireIsValid
<1>12. QED
  BY <1>2, <1>3, <1>4, <1>5, <1>6, <1>7, <1>8, <1>9, <1>10, <1>11

(* The parent classifies what it has read and reaped. *)
LEMMA ClassifyInd ==
  ASSUME IndInv, Classify
  PROVE  IndInv'
<1> USE DEF IndInv
<1>1. UNCHANGED <<cpc, childEnds, childFrozen, blocked, handlers, armed,
            handling, hsig, teb, gs, gsState, status, exit, cause,
            lost, pipe, pending, sent, records>>
  BY DEF Classify, ParentOnly, Running, parentVars, childVars, signalVars,
      guestVars, linkVars, ghostVars
<1>2. ParentType'
  <2>1. \A i \in 1 .. Len(records) : records[i] \in Facts
    BY DEF LinkType
  <2>2. exit.number \in Nat
    BY DEF ChildType, Facts
  <2>3. Fact("signalled", exit.number) \in Facts /\ NoFact \in Facts /\ exit \in Facts
    BY <2>2, FactTypes DEF Outcomes, ChildType
  <2>4. Classification \in [status : Statuses, report : Facts]
    BY <2>1, <2>3, StatusNames DEF Classification, LinkType
  <2>5. QED
    BY <2>4, ParentKinds DEF Classify, ParentType
<1>3. ChildType'
  BY <1>1 DEF ChildType
<1>4. LinkType'
  BY <1>1 DEF LinkType
<1>5. ResourceInv'
  BY ParentKinds, ChildKinds, WorkerAssumption DEF ResourceInv, Classify,
      ParentOnly, Running, parentVars, childVars, signalVars, guestVars,
      linkVars, ghostVars, ParentType
<1>6. MaskInv'
  <2>1. CASE maskOk
    BY <2>1, ParentKinds DEF Classify, MaskInv
  <2>2. CASE ~maskOk
    <3>1. result'.status = "environment" /\ ppc' = "done"
      BY <2>2 DEF Classify, Classification
    <3>2. QED
      BY <3>1, ParentKinds DEF MaskInv
  <2>3. QED
    BY <2>1, <2>2
<1>7. ForkInv'
  <2>1. /\ ppc = "classify" /\ ppc' = "done" /\ result' = Classification
        /\ UNCHANGED <<maskOk, readOk>>
    BY DEF Classify
  <2>2. cpc = "ended" /\ (readOk => pipe = <<>>)
    BY <2>1, ParentKinds DEF ForkInv
  <2>3. Classification' = Classification
    BY <1>1, <2>1 DEF Classification, WireIsValid, ExpectedExitCode
  <2>4. Classification.status \in {"ok", "protocol"} => maskOk /\ readOk
    BY DEF Classification
  <2>5. QED
    BY <1>1, <2>1, <2>2, <2>3, <2>4, ParentKinds DEF ForkInv
<1>8. ChildInv'
  BY <1>1 DEF ChildInv, Running
<1>9. SignalInv'
  BY <1>1 DEF SignalInv, Running
<1>10. GuestInv'
  BY <1>1 DEF GuestInv
<1>11. RecordInv'
  BY <1>1 DEF RecordInv, NoRecord, OneRecord, Outcome, WireIsValid
<1>12. QED
  BY <1>2, <1>3, <1>4, <1>5, <1>6, <1>7, <1>8, <1>9, <1>10, <1>11

(* The worker thaws its table and closes its read end. *)
LEMMA StartInd ==
  ASSUME IndInv, Start
  PROVE  IndInv'
<1> USE DEF IndInv
<1>1. UNCHANGED <<ppc, stacks, parentEnds, parentMask, savedMask, maskOk,
            frozen, refs, readOk, result, records, pipe, pending,
            sent>>
  BY DEF Start, Child, Failed, Ended, Running, parentVars, childVars,
      signalVars, guestVars, linkVars, ghostVars
<1>2. ParentType'
  BY <1>1 DEF ParentType
<1>3. ChildType'
  BY ChildKinds, FactTypes, WorkerAssumption DEF ChildType, Start, Child,
      Failed, Ended, Running, parentVars, childVars, signalVars, guestVars,
      linkVars, ghostVars, SignalInv, Outcome
<1>4. LinkType'
  BY <1>1 DEF LinkType
<1>5. ResourceInv'
  BY <1>1 DEF ResourceInv
<1>6. MaskInv'
  BY <1>1 DEF MaskInv
<1>7. ForkInv'
  BY ParentKinds, ChildKinds, WorkerAssumption DEF ForkInv, Start, Child,
      Failed, Ended, Running, parentVars, childVars, signalVars, guestVars,
      linkVars, ghostVars, ResourceInv, ChildInv, RecordInv, NoRecord,
      OneRecord
<1>8. ChildInv'
  BY ParentKinds, ChildKinds, WorkerAssumption DEF ChildInv, Start, Child,
      Failed, Ended, Running, parentVars, childVars, signalVars, guestVars,
      linkVars, ghostVars, ForkInv, MaskInv, ResourceInv
<1>9. SignalInv'
  BY ParentKinds, ChildKinds, WorkerAssumption DEF SignalInv, Start, Child,
      Failed, Ended, Running, parentVars, childVars, signalVars, guestVars,
      linkVars, ghostVars, ChildInv, ForkInv, MaskInv, Fact, ChildType
<1>10. GuestInv'
  BY ParentKinds, ChildKinds, WorkerAssumption DEF GuestInv, Start, Child,
      Failed, Ended, Running, parentVars, childVars, signalVars, guestVars,
      linkVars, ghostVars, ChildInv
<1>11. RecordInv'
  BY ParentKinds, ChildKinds, WorkerAssumption DEF RecordInv, Start, Child,
      Failed, Ended, Running, parentVars, childVars, signalVars, guestVars,
      linkVars, ghostVars, NoRecord, OneRecord, ForkInv, SignalInv, ChildInv,
      ChildType, WireIsValid, ExpectedExitCode, Fact, Outcome, CrashExitCode
<1>12. QED
  BY <1>2, <1>3, <1>4, <1>5, <1>6, <1>7, <1>8, <1>9, <1>10, <1>11

(* The worker resets its signal dispositions, all blocked. *)
LEMMA ResetSignalsInd ==
  ASSUME IndInv, ResetSignals
  PROVE  IndInv'
<1> USE DEF IndInv
<1>1. UNCHANGED <<ppc, stacks, parentEnds, parentMask, savedMask, maskOk,
            frozen, refs, readOk, result, records, pipe, pending,
            sent>>
  BY DEF ResetSignals, Child, Failed, Ended, Running, parentVars, childVars,
      signalVars, guestVars, linkVars, ghostVars
<1>2. ParentType'
  BY <1>1 DEF ParentType
<1>3. ChildType'
  BY ChildKinds, FactTypes, WorkerAssumption DEF ChildType, ResetSignals,
      Child, Failed, Ended, Running, parentVars, childVars, signalVars,
      guestVars, linkVars, ghostVars, SignalInv, Outcome
<1>4. LinkType'
  BY <1>1 DEF LinkType
<1>5. ResourceInv'
  BY <1>1 DEF ResourceInv
<1>6. MaskInv'
  BY <1>1 DEF MaskInv
<1>7. ForkInv'
  BY ParentKinds, ChildKinds, WorkerAssumption DEF ForkInv, ResetSignals,
      Child, Failed, Ended, Running, parentVars, childVars, signalVars,
      guestVars, linkVars, ghostVars, ResourceInv, ChildInv, RecordInv,
      NoRecord, OneRecord
<1>8. ChildInv'
  BY ParentKinds, ChildKinds, WorkerAssumption DEF ChildInv, ResetSignals,
      Child, Failed, Ended, Running, parentVars, childVars, signalVars,
      guestVars, linkVars, ghostVars, ForkInv, MaskInv, ResourceInv
<1>9. SignalInv'
  BY ParentKinds, ChildKinds, WorkerAssumption DEF SignalInv, ResetSignals,
      Child, Failed, Ended, Running, parentVars, childVars, signalVars,
      guestVars, linkVars, ghostVars, ChildInv, ForkInv, MaskInv, Fact,
      ChildType
<1>10. GuestInv'
  BY ParentKinds, ChildKinds, WorkerAssumption DEF GuestInv, ResetSignals,
      Child, Failed, Ended, Running, parentVars, childVars, signalVars,
      guestVars, linkVars, ghostVars, ChildInv
<1>11. RecordInv'
  BY ParentKinds, ChildKinds, WorkerAssumption DEF RecordInv, ResetSignals,
      Child, Failed, Ended, Running, parentVars, childVars, signalVars,
      guestVars, linkVars, ghostVars, NoRecord, OneRecord, ForkInv, SignalInv,
      ChildInv, ChildType, WireIsValid, ExpectedExitCode, Fact, Outcome,
      CrashExitCode
<1>12. QED
  BY <1>2, <1>3, <1>4, <1>5, <1>6, <1>7, <1>8, <1>9, <1>10, <1>11

(* The worker installs the crash handlers, or only some of them. *)
LEMMA InstallHandlersInd ==
  ASSUME IndInv, InstallHandlers
  PROVE  IndInv'
<1> USE DEF IndInv
<1>1. UNCHANGED <<ppc, stacks, parentEnds, parentMask, savedMask, maskOk,
            frozen, refs, readOk, result, records, pipe, pending,
            sent>>
  BY DEF InstallHandlers, Child, Failed, Ended, Running, parentVars,
      childVars, signalVars, guestVars, linkVars, ghostVars
<1>2. ParentType'
  BY <1>1 DEF ParentType
<1>3. ChildType'
  BY ChildKinds, FactTypes, WorkerAssumption DEF ChildType, InstallHandlers,
      Child, Failed, Ended, Running, parentVars, childVars, signalVars,
      guestVars, linkVars, ghostVars, SignalInv, Outcome
<1>4. LinkType'
  BY <1>1 DEF LinkType
<1>5. ResourceInv'
  BY <1>1 DEF ResourceInv
<1>6. MaskInv'
  BY <1>1 DEF MaskInv
<1>7. ForkInv'
  BY ParentKinds, ChildKinds, WorkerAssumption DEF ForkInv, InstallHandlers,
      Child, Failed, Ended, Running, parentVars, childVars, signalVars,
      guestVars, linkVars, ghostVars, ResourceInv, ChildInv, RecordInv,
      NoRecord, OneRecord
<1>8. ChildInv'
  BY ParentKinds, ChildKinds, WorkerAssumption DEF ChildInv, InstallHandlers,
      Child, Failed, Ended, Running, parentVars, childVars, signalVars,
      guestVars, linkVars, ghostVars, ForkInv, MaskInv, ResourceInv
<1>9. SignalInv'
  BY ParentKinds, ChildKinds, WorkerAssumption DEF SignalInv, InstallHandlers,
      Child, Failed, Ended, Running, parentVars, childVars, signalVars,
      guestVars, linkVars, ghostVars, ChildInv, ForkInv, MaskInv, Fact,
      ChildType
<1>10. GuestInv'
  BY ParentKinds, ChildKinds, WorkerAssumption DEF GuestInv, InstallHandlers,
      Child, Failed, Ended, Running, parentVars, childVars, signalVars,
      guestVars, linkVars, ghostVars, ChildInv
<1>11. RecordInv'
  BY ParentKinds, ChildKinds, WorkerAssumption DEF RecordInv, InstallHandlers,
      Child, Failed, Ended, Running, parentVars, childVars, signalVars,
      guestVars, linkVars, ghostVars, NoRecord, OneRecord, ForkInv, SignalInv,
      ChildInv, ChildType, WireIsValid, ExpectedExitCode, Fact, Outcome,
      CrashExitCode
<1>12. QED
  BY <1>2, <1>3, <1>4, <1>5, <1>6, <1>7, <1>8, <1>9, <1>10, <1>11

(* The worker arms crash reporting. *)
LEMMA ArmInd ==
  ASSUME IndInv, Arm
  PROVE  IndInv'
<1> USE DEF IndInv
<1>1. UNCHANGED <<ppc, stacks, parentEnds, parentMask, savedMask, maskOk,
            frozen, refs, readOk, result, records, pipe, pending,
            sent>>
  BY DEF Arm, Child, Failed, Ended, Running, parentVars, childVars,
      signalVars, guestVars, linkVars, ghostVars
<1>2. ParentType'
  BY <1>1 DEF ParentType
<1>3. ChildType'
  BY ChildKinds, FactTypes, WorkerAssumption DEF ChildType, Arm, Child,
      Failed, Ended, Running, parentVars, childVars, signalVars, guestVars,
      linkVars, ghostVars, SignalInv, Outcome
<1>4. LinkType'
  BY <1>1 DEF LinkType
<1>5. ResourceInv'
  BY <1>1 DEF ResourceInv
<1>6. MaskInv'
  BY <1>1 DEF MaskInv
<1>7. ForkInv'
  BY ParentKinds, ChildKinds, WorkerAssumption DEF ForkInv, Arm, Child,
      Failed, Ended, Running, parentVars, childVars, signalVars, guestVars,
      linkVars, ghostVars, ResourceInv, ChildInv, RecordInv, NoRecord,
      OneRecord
<1>8. ChildInv'
  BY ParentKinds, ChildKinds, WorkerAssumption DEF ChildInv, Arm, Child,
      Failed, Ended, Running, parentVars, childVars, signalVars, guestVars,
      linkVars, ghostVars, ForkInv, MaskInv, ResourceInv
<1>9. SignalInv'
  BY ParentKinds, ChildKinds, WorkerAssumption DEF SignalInv, Arm, Child,
      Failed, Ended, Running, parentVars, childVars, signalVars, guestVars,
      linkVars, ghostVars, ChildInv, ForkInv, MaskInv, Fact, ChildType
<1>10. GuestInv'
  BY ParentKinds, ChildKinds, WorkerAssumption DEF GuestInv, Arm, Child,
      Failed, Ended, Running, parentVars, childVars, signalVars, guestVars,
      linkVars, ghostVars, ChildInv
<1>11. RecordInv'
  BY ParentKinds, ChildKinds, WorkerAssumption DEF RecordInv, Arm, Child,
      Failed, Ended, Running, parentVars, childVars, signalVars, guestVars,
      linkVars, ghostVars, NoRecord, OneRecord, ForkInv, SignalInv, ChildInv,
      ChildType, WireIsValid, ExpectedExitCode, Fact, Outcome, CrashExitCode
<1>12. QED
  BY <1>2, <1>3, <1>4, <1>5, <1>6, <1>7, <1>8, <1>9, <1>10, <1>11

(* The worker unblocks all signals, or disarms again. *)
LEMMA UnmaskInd ==
  ASSUME IndInv, Unmask
  PROVE  IndInv'
<1> USE DEF IndInv
<1>1. UNCHANGED <<ppc, stacks, parentEnds, parentMask, savedMask, maskOk,
            frozen, refs, readOk, result, records, pipe, pending,
            sent>>
  BY DEF Unmask, Child, Failed, Ended, Running, parentVars, childVars,
      signalVars, guestVars, linkVars, ghostVars
<1>2. ParentType'
  BY <1>1 DEF ParentType
<1>3. ChildType'
  BY ChildKinds, FactTypes, WorkerAssumption DEF ChildType, Unmask, Child,
      Failed, Ended, Running, parentVars, childVars, signalVars, guestVars,
      linkVars, ghostVars, SignalInv, Outcome
<1>4. LinkType'
  BY <1>1 DEF LinkType
<1>5. ResourceInv'
  BY <1>1 DEF ResourceInv
<1>6. MaskInv'
  BY <1>1 DEF MaskInv
<1>7. ForkInv'
  BY ParentKinds, ChildKinds, WorkerAssumption DEF ForkInv, Unmask, Child,
      Failed, Ended, Running, parentVars, childVars, signalVars, guestVars,
      linkVars, ghostVars, ResourceInv, ChildInv, RecordInv, NoRecord,
      OneRecord
<1>8. ChildInv'
  BY ParentKinds, ChildKinds, WorkerAssumption DEF ChildInv, Unmask, Child,
      Failed, Ended, Running, parentVars, childVars, signalVars, guestVars,
      linkVars, ghostVars, ForkInv, MaskInv, ResourceInv
<1>9. SignalInv'
  BY ParentKinds, ChildKinds, WorkerAssumption DEF SignalInv, Unmask, Child,
      Failed, Ended, Running, parentVars, childVars, signalVars, guestVars,
      linkVars, ghostVars, ChildInv, ForkInv, MaskInv, Fact, ChildType
<1>10. GuestInv'
  BY ParentKinds, ChildKinds, WorkerAssumption DEF GuestInv, Unmask, Child,
      Failed, Ended, Running, parentVars, childVars, signalVars, guestVars,
      linkVars, ghostVars, ChildInv
<1>11. RecordInv'
  BY ParentKinds, ChildKinds, WorkerAssumption DEF RecordInv, Unmask, Child,
      Failed, Ended, Running, parentVars, childVars, signalVars, guestVars,
      linkVars, ghostVars, NoRecord, OneRecord, ForkInv, SignalInv, ChildInv,
      ChildType, WireIsValid, ExpectedExitCode, Fact, Outcome, CrashExitCode
<1>12. QED
  BY <1>2, <1>3, <1>4, <1>5, <1>6, <1>7, <1>8, <1>9, <1>10, <1>11

(* The worker sets the image base. *)
LEMMA SetImageBaseInd ==
  ASSUME IndInv, SetImageBase
  PROVE  IndInv'
<1> USE DEF IndInv
<1>1. UNCHANGED <<ppc, stacks, parentEnds, parentMask, savedMask, maskOk,
            frozen, refs, readOk, result, records, pipe, pending,
            sent>>
  BY DEF SetImageBase, Child, Failed, Ended, Running, parentVars, childVars,
      signalVars, guestVars, linkVars, ghostVars
<1>2. ParentType'
  BY <1>1 DEF ParentType
<1>3. ChildType'
  BY ChildKinds, FactTypes, WorkerAssumption DEF ChildType, SetImageBase,
      Child, Failed, Ended, Running, parentVars, childVars, signalVars,
      guestVars, linkVars, ghostVars, SignalInv, Outcome
<1>4. LinkType'
  BY <1>1 DEF LinkType
<1>5. ResourceInv'
  BY <1>1 DEF ResourceInv
<1>6. MaskInv'
  BY <1>1 DEF MaskInv
<1>7. ForkInv'
  BY ParentKinds, ChildKinds, WorkerAssumption DEF ForkInv, SetImageBase,
      Child, Failed, Ended, Running, parentVars, childVars, signalVars,
      guestVars, linkVars, ghostVars, ResourceInv, ChildInv, RecordInv,
      NoRecord, OneRecord
<1>8. ChildInv'
  BY ParentKinds, ChildKinds, WorkerAssumption DEF ChildInv, SetImageBase,
      Child, Failed, Ended, Running, parentVars, childVars, signalVars,
      guestVars, linkVars, ghostVars, ForkInv, MaskInv, ResourceInv
<1>9. SignalInv'
  BY ParentKinds, ChildKinds, WorkerAssumption DEF SignalInv, SetImageBase,
      Child, Failed, Ended, Running, parentVars, childVars, signalVars,
      guestVars, linkVars, ghostVars, ChildInv, ForkInv, MaskInv, Fact,
      ChildType
<1>10. GuestInv'
  BY ParentKinds, ChildKinds, WorkerAssumption DEF GuestInv, SetImageBase,
      Child, Failed, Ended, Running, parentVars, childVars, signalVars,
      guestVars, linkVars, ghostVars, ChildInv
<1>11. RecordInv'
  BY ParentKinds, ChildKinds, WorkerAssumption DEF RecordInv, SetImageBase,
      Child, Failed, Ended, Running, parentVars, childVars, signalVars,
      guestVars, linkVars, ghostVars, NoRecord, OneRecord, ForkInv, SignalInv,
      ChildInv, ChildType, WireIsValid, ExpectedExitCode, Fact, Outcome,
      CrashExitCode
<1>12. QED
  BY <1>2, <1>3, <1>4, <1>5, <1>6, <1>7, <1>8, <1>9, <1>10, <1>11

(* The worker creates its TEB. *)
LEMMA CreateTebInd ==
  ASSUME IndInv, CreateTeb
  PROVE  IndInv'
<1> USE DEF IndInv
<1>1. UNCHANGED <<ppc, stacks, parentEnds, parentMask, savedMask, maskOk,
            frozen, refs, readOk, result, records, pipe, pending,
            sent>>
  BY DEF CreateTeb, Child, Failed, Ended, Running, parentVars, childVars,
      signalVars, guestVars, linkVars, ghostVars
<1>2. ParentType'
  BY <1>1 DEF ParentType
<1>3. ChildType'
  BY ChildKinds, FactTypes, WorkerAssumption DEF ChildType, CreateTeb, Child,
      Failed, Ended, Running, parentVars, childVars, signalVars, guestVars,
      linkVars, ghostVars, SignalInv, Outcome
<1>4. LinkType'
  BY <1>1 DEF LinkType
<1>5. ResourceInv'
  BY <1>1 DEF ResourceInv
<1>6. MaskInv'
  BY <1>1 DEF MaskInv
<1>7. ForkInv'
  BY ParentKinds, ChildKinds, WorkerAssumption DEF ForkInv, CreateTeb, Child,
      Failed, Ended, Running, parentVars, childVars, signalVars, guestVars,
      linkVars, ghostVars, ResourceInv, ChildInv, RecordInv, NoRecord,
      OneRecord
<1>8. ChildInv'
  BY ParentKinds, ChildKinds, WorkerAssumption DEF ChildInv, CreateTeb, Child,
      Failed, Ended, Running, parentVars, childVars, signalVars, guestVars,
      linkVars, ghostVars, ForkInv, MaskInv, ResourceInv
<1>9. SignalInv'
  BY ParentKinds, ChildKinds, WorkerAssumption DEF SignalInv, CreateTeb,
      Child, Failed, Ended, Running, parentVars, childVars, signalVars,
      guestVars, linkVars, ghostVars, ChildInv, ForkInv, MaskInv, Fact,
      ChildType
<1>10. GuestInv'
  BY ParentKinds, ChildKinds, WorkerAssumption DEF GuestInv, CreateTeb, Child,
      Failed, Ended, Running, parentVars, childVars, signalVars, guestVars,
      linkVars, ghostVars, ChildInv
<1>11. RecordInv'
  BY ParentKinds, ChildKinds, WorkerAssumption DEF RecordInv, CreateTeb,
      Child, Failed, Ended, Running, parentVars, childVars, signalVars,
      guestVars, linkVars, ghostVars, NoRecord, OneRecord, ForkInv, SignalInv,
      ChildInv, ChildType, WireIsValid, ExpectedExitCode, Fact, Outcome,
      CrashExitCode
<1>12. QED
  BY <1>2, <1>3, <1>4, <1>5, <1>6, <1>7, <1>8, <1>9, <1>10, <1>11

(* The worker attaches its TEB. *)
LEMMA AttachTebInd ==
  ASSUME IndInv, AttachTeb
  PROVE  IndInv'
<1> USE DEF IndInv
<1>1. UNCHANGED <<ppc, stacks, parentEnds, parentMask, savedMask, maskOk,
            frozen, refs, readOk, result, records, pipe, pending,
            sent>>
  BY DEF AttachTeb, Child, Failed, Ended, Running, parentVars, childVars,
      signalVars, guestVars, linkVars, ghostVars
<1>2. ParentType'
  BY <1>1 DEF ParentType
<1>3. ChildType'
  BY ChildKinds, FactTypes, WorkerAssumption DEF ChildType, AttachTeb, Child,
      Failed, Ended, Running, parentVars, childVars, signalVars, guestVars,
      linkVars, ghostVars, SignalInv, Outcome
<1>4. LinkType'
  BY <1>1 DEF LinkType
<1>5. ResourceInv'
  BY <1>1 DEF ResourceInv
<1>6. MaskInv'
  BY <1>1 DEF MaskInv
<1>7. ForkInv'
  BY ParentKinds, ChildKinds, WorkerAssumption DEF ForkInv, AttachTeb, Child,
      Failed, Ended, Running, parentVars, childVars, signalVars, guestVars,
      linkVars, ghostVars, ResourceInv, ChildInv, RecordInv, NoRecord,
      OneRecord
<1>8. ChildInv'
  BY ParentKinds, ChildKinds, WorkerAssumption DEF ChildInv, AttachTeb, Child,
      Failed, Ended, Running, parentVars, childVars, signalVars, guestVars,
      linkVars, ghostVars, ForkInv, MaskInv, ResourceInv
<1>9. SignalInv'
  BY ParentKinds, ChildKinds, WorkerAssumption DEF SignalInv, AttachTeb,
      Child, Failed, Ended, Running, parentVars, childVars, signalVars,
      guestVars, linkVars, ghostVars, ChildInv, ForkInv, MaskInv, Fact,
      ChildType
<1>10. GuestInv'
  BY ParentKinds, ChildKinds, WorkerAssumption DEF GuestInv, AttachTeb, Child,
      Failed, Ended, Running, parentVars, childVars, signalVars, guestVars,
      linkVars, ghostVars, ChildInv
<1>11. RecordInv'
  BY ParentKinds, ChildKinds, WorkerAssumption DEF RecordInv, AttachTeb,
      Child, Failed, Ended, Running, parentVars, childVars, signalVars,
      guestVars, linkVars, ghostVars, NoRecord, OneRecord, ForkInv, SignalInv,
      ChildInv, ChildType, WireIsValid, ExpectedExitCode, Fact, Outcome,
      CrashExitCode
<1>12. QED
  BY <1>2, <1>3, <1>4, <1>5, <1>6, <1>7, <1>8, <1>9, <1>10, <1>11

(* The worker points GS to its TEB. *)
LEMMA InstallGsInd ==
  ASSUME IndInv, InstallGs
  PROVE  IndInv'
<1> USE DEF IndInv
<1>1. UNCHANGED <<ppc, stacks, parentEnds, parentMask, savedMask, maskOk,
            frozen, refs, readOk, result, records, pipe, pending,
            sent>>
  BY DEF InstallGs, Child, Failed, Ended, Running, parentVars, childVars,
      signalVars, guestVars, linkVars, ghostVars
<1>2. ParentType'
  BY <1>1 DEF ParentType
<1>3. ChildType'
  BY ChildKinds, FactTypes, WorkerAssumption DEF ChildType, InstallGs, Child,
      Failed, Ended, Running, parentVars, childVars, signalVars, guestVars,
      linkVars, ghostVars, SignalInv, Outcome
<1>4. LinkType'
  BY <1>1 DEF LinkType
<1>5. ResourceInv'
  BY <1>1 DEF ResourceInv
<1>6. MaskInv'
  BY <1>1 DEF MaskInv
<1>7. ForkInv'
  BY ParentKinds, ChildKinds, WorkerAssumption DEF ForkInv, InstallGs, Child,
      Failed, Ended, Running, parentVars, childVars, signalVars, guestVars,
      linkVars, ghostVars, ResourceInv, ChildInv, RecordInv, NoRecord,
      OneRecord
<1>8. ChildInv'
  BY ParentKinds, ChildKinds, WorkerAssumption DEF ChildInv, InstallGs, Child,
      Failed, Ended, Running, parentVars, childVars, signalVars, guestVars,
      linkVars, ghostVars, ForkInv, MaskInv, ResourceInv
<1>9. SignalInv'
  BY ParentKinds, ChildKinds, WorkerAssumption DEF SignalInv, InstallGs,
      Child, Failed, Ended, Running, parentVars, childVars, signalVars,
      guestVars, linkVars, ghostVars, ChildInv, ForkInv, MaskInv, Fact,
      ChildType
<1>10. GuestInv'
  BY ParentKinds, ChildKinds, WorkerAssumption DEF GuestInv, InstallGs, Child,
      Failed, Ended, Running, parentVars, childVars, signalVars, guestVars,
      linkVars, ghostVars, ChildInv
<1>11. RecordInv'
  BY ParentKinds, ChildKinds, WorkerAssumption DEF RecordInv, InstallGs,
      Child, Failed, Ended, Running, parentVars, childVars, signalVars,
      guestVars, linkVars, ghostVars, NoRecord, OneRecord, ForkInv, SignalInv,
      ChildInv, ChildType, WireIsValid, ExpectedExitCode, Fact, Outcome,
      CrashExitCode
<1>12. QED
  BY <1>2, <1>3, <1>4, <1>5, <1>6, <1>7, <1>8, <1>9, <1>10, <1>11

(* The worker enters the guest. *)
LEMMA EnterGuestInd ==
  ASSUME IndInv, EnterGuest
  PROVE  IndInv'
<1> USE DEF IndInv
<1>1. UNCHANGED <<ppc, stacks, parentEnds, parentMask, savedMask, maskOk,
            frozen, refs, readOk, result, records, pipe, pending,
            sent>>
  BY DEF EnterGuest, Child, Failed, Ended, Running, parentVars, childVars,
      signalVars, guestVars, linkVars, ghostVars
<1>2. ParentType'
  BY <1>1 DEF ParentType
<1>3. ChildType'
  BY ChildKinds, FactTypes, WorkerAssumption DEF ChildType, EnterGuest, Child,
      Failed, Ended, Running, parentVars, childVars, signalVars, guestVars,
      linkVars, ghostVars, SignalInv, Outcome
<1>4. LinkType'
  BY <1>1 DEF LinkType
<1>5. ResourceInv'
  BY <1>1 DEF ResourceInv
<1>6. MaskInv'
  BY <1>1 DEF MaskInv
<1>7. ForkInv'
  BY ParentKinds, ChildKinds, WorkerAssumption DEF ForkInv, EnterGuest, Child,
      Failed, Ended, Running, parentVars, childVars, signalVars, guestVars,
      linkVars, ghostVars, ResourceInv, ChildInv, RecordInv, NoRecord,
      OneRecord
<1>8. ChildInv'
  BY ParentKinds, ChildKinds, WorkerAssumption DEF ChildInv, EnterGuest,
      Child, Failed, Ended, Running, parentVars, childVars, signalVars,
      guestVars, linkVars, ghostVars, ForkInv, MaskInv, ResourceInv
<1>9. SignalInv'
  BY ParentKinds, ChildKinds, WorkerAssumption DEF SignalInv, EnterGuest,
      Child, Failed, Ended, Running, parentVars, childVars, signalVars,
      guestVars, linkVars, ghostVars, ChildInv, ForkInv, MaskInv, Fact,
      ChildType
<1>10. GuestInv'
  BY ParentKinds, ChildKinds, WorkerAssumption DEF GuestInv, EnterGuest,
      Child, Failed, Ended, Running, parentVars, childVars, signalVars,
      guestVars, linkVars, ghostVars, ChildInv
<1>11. RecordInv'
  BY ParentKinds, ChildKinds, WorkerAssumption DEF RecordInv, EnterGuest,
      Child, Failed, Ended, Running, parentVars, childVars, signalVars,
      guestVars, linkVars, ghostVars, NoRecord, OneRecord, ForkInv, SignalInv,
      ChildInv, ChildType, WireIsValid, ExpectedExitCode, Fact, Outcome,
      CrashExitCode
<1>12. QED
  BY <1>2, <1>3, <1>4, <1>5, <1>6, <1>7, <1>8, <1>9, <1>10, <1>11

(* The guest returns. *)
LEMMA GuestReturnsInd ==
  ASSUME IndInv, GuestReturns
  PROVE  IndInv'
<1> USE DEF IndInv
<1>1. UNCHANGED <<ppc, stacks, parentEnds, parentMask, savedMask, maskOk,
            frozen, refs, readOk, result, records, pipe, pending,
            sent>>
  BY DEF GuestReturns, Child, Failed, Ended, Running, parentVars, childVars,
      signalVars, guestVars, linkVars, ghostVars
<1>2. ParentType'
  BY <1>1 DEF ParentType
<1>3. ChildType'
  BY ChildKinds, FactTypes, WorkerAssumption DEF ChildType, GuestReturns,
      Child, Failed, Ended, Running, parentVars, childVars, signalVars,
      guestVars, linkVars, ghostVars, SignalInv, Outcome
<1>4. LinkType'
  BY <1>1 DEF LinkType
<1>5. ResourceInv'
  BY <1>1 DEF ResourceInv
<1>6. MaskInv'
  BY <1>1 DEF MaskInv
<1>7. ForkInv'
  BY ParentKinds, ChildKinds, WorkerAssumption DEF ForkInv, GuestReturns,
      Child, Failed, Ended, Running, parentVars, childVars, signalVars,
      guestVars, linkVars, ghostVars, ResourceInv, ChildInv, RecordInv,
      NoRecord, OneRecord
<1>8. ChildInv'
  BY ParentKinds, ChildKinds, WorkerAssumption DEF ChildInv, GuestReturns,
      Child, Failed, Ended, Running, parentVars, childVars, signalVars,
      guestVars, linkVars, ghostVars, ForkInv, MaskInv, ResourceInv
<1>9. SignalInv'
  BY ParentKinds, ChildKinds, WorkerAssumption DEF SignalInv, GuestReturns,
      Child, Failed, Ended, Running, parentVars, childVars, signalVars,
      guestVars, linkVars, ghostVars, ChildInv, ForkInv, MaskInv, Fact,
      ChildType
<1>10. GuestInv'
  BY ParentKinds, ChildKinds, WorkerAssumption DEF GuestInv, GuestReturns,
      Child, Failed, Ended, Running, parentVars, childVars, signalVars,
      guestVars, linkVars, ghostVars, ChildInv
<1>11. RecordInv'
  BY ParentKinds, ChildKinds, WorkerAssumption DEF RecordInv, GuestReturns,
      Child, Failed, Ended, Running, parentVars, childVars, signalVars,
      guestVars, linkVars, ghostVars, NoRecord, OneRecord, ForkInv, SignalInv,
      ChildInv, ChildType, WireIsValid, ExpectedExitCode, Fact, Outcome,
      CrashExitCode
<1>12. QED
  BY <1>2, <1>3, <1>4, <1>5, <1>6, <1>7, <1>8, <1>9, <1>10, <1>11

(* The worker restores GS, or leaves the TEB alone. *)
LEMMA RestoreGsInd ==
  ASSUME IndInv, RestoreGs
  PROVE  IndInv'
<1> USE DEF IndInv
<1>1. UNCHANGED <<ppc, stacks, parentEnds, parentMask, savedMask, maskOk,
            frozen, refs, readOk, result, records, pipe, pending,
            sent>>
  BY DEF RestoreGs, Child, Failed, Ended, Running, parentVars, childVars,
      signalVars, guestVars, linkVars, ghostVars
<1>2. ParentType'
  BY <1>1 DEF ParentType
<1>3. ChildType'
  BY ChildKinds, FactTypes, WorkerAssumption DEF ChildType, RestoreGs, Child,
      Failed, Ended, Running, parentVars, childVars, signalVars, guestVars,
      linkVars, ghostVars, SignalInv, Outcome
<1>4. LinkType'
  BY <1>1 DEF LinkType
<1>5. ResourceInv'
  BY <1>1 DEF ResourceInv
<1>6. MaskInv'
  BY <1>1 DEF MaskInv
<1>7. ForkInv'
  BY ParentKinds, ChildKinds, WorkerAssumption DEF ForkInv, RestoreGs, Child,
      Failed, Ended, Running, parentVars, childVars, signalVars, guestVars,
      linkVars, ghostVars, ResourceInv, ChildInv, RecordInv, NoRecord,
      OneRecord
<1>8. ChildInv'
  BY ParentKinds, ChildKinds, WorkerAssumption DEF ChildInv, RestoreGs, Child,
      Failed, Ended, Running, parentVars, childVars, signalVars, guestVars,
      linkVars, ghostVars, ForkInv, MaskInv, ResourceInv
<1>9. SignalInv'
  BY ParentKinds, ChildKinds, WorkerAssumption DEF SignalInv, RestoreGs,
      Child, Failed, Ended, Running, parentVars, childVars, signalVars,
      guestVars, linkVars, ghostVars, ChildInv, ForkInv, MaskInv, Fact,
      ChildType
<1>10. GuestInv'
  BY ParentKinds, ChildKinds, WorkerAssumption DEF GuestInv, RestoreGs, Child,
      Failed, Ended, Running, parentVars, childVars, signalVars, guestVars,
      linkVars, ghostVars, ChildInv
<1>11. RecordInv'
  BY ParentKinds, ChildKinds, WorkerAssumption DEF RecordInv, RestoreGs,
      Child, Failed, Ended, Running, parentVars, childVars, signalVars,
      guestVars, linkVars, ghostVars, NoRecord, OneRecord, ForkInv, SignalInv,
      ChildInv, ChildType, WireIsValid, ExpectedExitCode, Fact, Outcome,
      CrashExitCode
<1>12. QED
  BY <1>2, <1>3, <1>4, <1>5, <1>6, <1>7, <1>8, <1>9, <1>10, <1>11

(* The worker detaches its TEB. *)
LEMMA DetachTebInd ==
  ASSUME IndInv, DetachTeb
  PROVE  IndInv'
<1> USE DEF IndInv
<1>1. UNCHANGED <<ppc, stacks, parentEnds, parentMask, savedMask, maskOk,
            frozen, refs, readOk, result, records, pipe, pending,
            sent>>
  BY DEF DetachTeb, Child, Failed, Ended, Running, parentVars, childVars,
      signalVars, guestVars, linkVars, ghostVars
<1>2. ParentType'
  BY <1>1 DEF ParentType
<1>3. ChildType'
  BY ChildKinds, FactTypes, WorkerAssumption DEF ChildType, DetachTeb, Child,
      Failed, Ended, Running, parentVars, childVars, signalVars, guestVars,
      linkVars, ghostVars, SignalInv, Outcome
<1>4. LinkType'
  BY <1>1 DEF LinkType
<1>5. ResourceInv'
  BY <1>1 DEF ResourceInv
<1>6. MaskInv'
  BY <1>1 DEF MaskInv
<1>7. ForkInv'
  BY ParentKinds, ChildKinds, WorkerAssumption DEF ForkInv, DetachTeb, Child,
      Failed, Ended, Running, parentVars, childVars, signalVars, guestVars,
      linkVars, ghostVars, ResourceInv, ChildInv, RecordInv, NoRecord,
      OneRecord
<1>8. ChildInv'
  BY ParentKinds, ChildKinds, WorkerAssumption DEF ChildInv, DetachTeb, Child,
      Failed, Ended, Running, parentVars, childVars, signalVars, guestVars,
      linkVars, ghostVars, ForkInv, MaskInv, ResourceInv
<1>9. SignalInv'
  BY ParentKinds, ChildKinds, WorkerAssumption DEF SignalInv, DetachTeb,
      Child, Failed, Ended, Running, parentVars, childVars, signalVars,
      guestVars, linkVars, ghostVars, ChildInv, ForkInv, MaskInv, Fact,
      ChildType
<1>10. GuestInv'
  BY ParentKinds, ChildKinds, WorkerAssumption DEF GuestInv, DetachTeb, Child,
      Failed, Ended, Running, parentVars, childVars, signalVars, guestVars,
      linkVars, ghostVars, ChildInv
<1>11. RecordInv'
  BY ParentKinds, ChildKinds, WorkerAssumption DEF RecordInv, DetachTeb,
      Child, Failed, Ended, Running, parentVars, childVars, signalVars,
      guestVars, linkVars, ghostVars, NoRecord, OneRecord, ForkInv, SignalInv,
      ChildInv, ChildType, WireIsValid, ExpectedExitCode, Fact, Outcome,
      CrashExitCode
<1>12. QED
  BY <1>2, <1>3, <1>4, <1>5, <1>6, <1>7, <1>8, <1>9, <1>10, <1>11

(* The worker destroys its TEB. *)
LEMMA DestroyTebInd ==
  ASSUME IndInv, DestroyTeb
  PROVE  IndInv'
<1> USE DEF IndInv
<1>1. UNCHANGED <<ppc, stacks, parentEnds, parentMask, savedMask, maskOk,
            frozen, refs, readOk, result, records, pipe, pending,
            sent>>
  BY DEF DestroyTeb, Child, Failed, Ended, Running, parentVars, childVars,
      signalVars, guestVars, linkVars, ghostVars
<1>2. ParentType'
  BY <1>1 DEF ParentType
<1>3. ChildType'
  BY ChildKinds, FactTypes, WorkerAssumption DEF ChildType, DestroyTeb, Child,
      Failed, Ended, Running, parentVars, childVars, signalVars, guestVars,
      linkVars, ghostVars, SignalInv, Outcome
<1>4. LinkType'
  BY <1>1 DEF LinkType
<1>5. ResourceInv'
  BY <1>1 DEF ResourceInv
<1>6. MaskInv'
  BY <1>1 DEF MaskInv
<1>7. ForkInv'
  BY ParentKinds, ChildKinds, WorkerAssumption DEF ForkInv, DestroyTeb, Child,
      Failed, Ended, Running, parentVars, childVars, signalVars, guestVars,
      linkVars, ghostVars, ResourceInv, ChildInv, RecordInv, NoRecord,
      OneRecord
<1>8. ChildInv'
  BY ParentKinds, ChildKinds, WorkerAssumption DEF ChildInv, DestroyTeb,
      Child, Failed, Ended, Running, parentVars, childVars, signalVars,
      guestVars, linkVars, ghostVars, ForkInv, MaskInv, ResourceInv
<1>9. SignalInv'
  BY ParentKinds, ChildKinds, WorkerAssumption DEF SignalInv, DestroyTeb,
      Child, Failed, Ended, Running, parentVars, childVars, signalVars,
      guestVars, linkVars, ghostVars, ChildInv, ForkInv, MaskInv, Fact,
      ChildType
<1>10. GuestInv'
  BY ParentKinds, ChildKinds, WorkerAssumption DEF GuestInv, DestroyTeb,
      Child, Failed, Ended, Running, parentVars, childVars, signalVars,
      guestVars, linkVars, ghostVars, ChildInv
<1>11. RecordInv'
  BY ParentKinds, ChildKinds, WorkerAssumption DEF RecordInv, DestroyTeb,
      Child, Failed, Ended, Running, parentVars, childVars, signalVars,
      guestVars, linkVars, ghostVars, NoRecord, OneRecord, ForkInv, SignalInv,
      ChildInv, ChildType, WireIsValid, ExpectedExitCode, Fact, Outcome,
      CrashExitCode
<1>12. QED
  BY <1>2, <1>3, <1>4, <1>5, <1>6, <1>7, <1>8, <1>9, <1>10, <1>11

(* The worker blocks all signals before it reports. *)
LEMMA BlockForReportInd ==
  ASSUME IndInv, BlockForReport
  PROVE  IndInv'
<1> USE DEF IndInv
<1>1. UNCHANGED <<ppc, stacks, parentEnds, parentMask, savedMask, maskOk,
            frozen, refs, readOk, result, records, pipe, pending,
            sent>>
  BY DEF BlockForReport, Child, Failed, Ended, Running, parentVars, childVars,
      signalVars, guestVars, linkVars, ghostVars
<1>2. ParentType'
  BY <1>1 DEF ParentType
<1>3. ChildType'
  BY ChildKinds, FactTypes, WorkerAssumption DEF ChildType, BlockForReport,
      Child, Failed, Ended, Running, parentVars, childVars, signalVars,
      guestVars, linkVars, ghostVars, SignalInv, Outcome
<1>4. LinkType'
  BY <1>1 DEF LinkType
<1>5. ResourceInv'
  BY <1>1 DEF ResourceInv
<1>6. MaskInv'
  BY <1>1 DEF MaskInv
<1>7. ForkInv'
  BY ParentKinds, ChildKinds, WorkerAssumption DEF ForkInv, BlockForReport,
      Child, Failed, Ended, Running, parentVars, childVars, signalVars,
      guestVars, linkVars, ghostVars, ResourceInv, ChildInv, RecordInv,
      NoRecord, OneRecord
<1>8. ChildInv'
  BY ParentKinds, ChildKinds, WorkerAssumption DEF ChildInv, BlockForReport,
      Child, Failed, Ended, Running, parentVars, childVars, signalVars,
      guestVars, linkVars, ghostVars, ForkInv, MaskInv, ResourceInv
<1>9. SignalInv'
  BY ParentKinds, ChildKinds, WorkerAssumption DEF SignalInv, BlockForReport,
      Child, Failed, Ended, Running, parentVars, childVars, signalVars,
      guestVars, linkVars, ghostVars, ChildInv, ForkInv, MaskInv, Fact,
      ChildType
<1>10. GuestInv'
  BY ParentKinds, ChildKinds, WorkerAssumption DEF GuestInv, BlockForReport,
      Child, Failed, Ended, Running, parentVars, childVars, signalVars,
      guestVars, linkVars, ghostVars, ChildInv
<1>11. RecordInv'
  BY ParentKinds, ChildKinds, WorkerAssumption DEF RecordInv, BlockForReport,
      Child, Failed, Ended, Running, parentVars, childVars, signalVars,
      guestVars, linkVars, ghostVars, NoRecord, OneRecord, ForkInv, SignalInv,
      ChildInv, ChildType, WireIsValid, ExpectedExitCode, Fact, Outcome,
      CrashExitCode
<1>12. QED
  BY <1>2, <1>3, <1>4, <1>5, <1>6, <1>7, <1>8, <1>9, <1>10, <1>11

(* The worker disarms crash reporting. *)
LEMMA DisarmInd ==
  ASSUME IndInv, Disarm
  PROVE  IndInv'
<1> USE DEF IndInv
<1>1. UNCHANGED <<ppc, stacks, parentEnds, parentMask, savedMask, maskOk,
            frozen, refs, readOk, result, records, pipe, pending,
            sent>>
  BY DEF Disarm, Child, Failed, Ended, Running, parentVars, childVars,
      signalVars, guestVars, linkVars, ghostVars
<1>2. ParentType'
  BY <1>1 DEF ParentType
<1>3. ChildType'
  BY ChildKinds, FactTypes, WorkerAssumption DEF ChildType, Disarm, Child,
      Failed, Ended, Running, parentVars, childVars, signalVars, guestVars,
      linkVars, ghostVars, SignalInv, Outcome
<1>4. LinkType'
  BY <1>1 DEF LinkType
<1>5. ResourceInv'
  BY <1>1 DEF ResourceInv
<1>6. MaskInv'
  BY <1>1 DEF MaskInv
<1>7. ForkInv'
  BY ParentKinds, ChildKinds, WorkerAssumption DEF ForkInv, Disarm, Child,
      Failed, Ended, Running, parentVars, childVars, signalVars, guestVars,
      linkVars, ghostVars, ResourceInv, ChildInv, RecordInv, NoRecord,
      OneRecord
<1>8. ChildInv'
  BY ParentKinds, ChildKinds, WorkerAssumption DEF ChildInv, Disarm, Child,
      Failed, Ended, Running, parentVars, childVars, signalVars, guestVars,
      linkVars, ghostVars, ForkInv, MaskInv, ResourceInv
<1>9. SignalInv'
  BY ParentKinds, ChildKinds, WorkerAssumption DEF SignalInv, Disarm, Child,
      Failed, Ended, Running, parentVars, childVars, signalVars, guestVars,
      linkVars, ghostVars, ChildInv, ForkInv, MaskInv, Fact, ChildType
<1>10. GuestInv'
  BY ParentKinds, ChildKinds, WorkerAssumption DEF GuestInv, Disarm, Child,
      Failed, Ended, Running, parentVars, childVars, signalVars, guestVars,
      linkVars, ghostVars, ChildInv
<1>11. RecordInv'
  BY ParentKinds, ChildKinds, WorkerAssumption DEF RecordInv, Disarm, Child,
      Failed, Ended, Running, parentVars, childVars, signalVars, guestVars,
      linkVars, ghostVars, NoRecord, OneRecord, ForkInv, SignalInv, ChildInv,
      ChildType, WireIsValid, ExpectedExitCode, Fact, Outcome, CrashExitCode
<1>12. QED
  BY <1>2, <1>3, <1>4, <1>5, <1>6, <1>7, <1>8, <1>9, <1>10, <1>11

(* The worker writes its record. *)
LEMMA WriteReportInd ==
  ASSUME IndInv, WriteReport
  PROVE  IndInv'
<1> USE DEF IndInv
<1>1. UNCHANGED <<ppc, stacks, parentEnds, parentMask, savedMask, maskOk,
            frozen, refs, readOk, result, records, sent>>
  BY DEF WriteReport, Child, Failed, Ended, Running, parentVars, childVars,
      signalVars, guestVars, linkVars, ghostVars
<1>2. ParentType'
  BY <1>1 DEF ParentType
<1>3. ChildType'
  BY ChildKinds, FactTypes, WorkerAssumption DEF ChildType, WriteReport,
      Child, Failed, Ended, Running, parentVars, childVars, signalVars,
      guestVars, linkVars, ghostVars, SignalInv, Outcome
<1>4. LinkType'
  <2>1. Outcome \in Facts
    BY FactTypes DEF Outcome, Outcomes
  <2>2. pipe' \in Seq(Facts)
    BY <2>1 DEF WriteReport, LinkType
  <2>3. QED
    BY <1>1, <2>2 DEF WriteReport, LinkType
<1>5. ResourceInv'
  BY <1>1 DEF ResourceInv
<1>6. MaskInv'
  BY <1>1 DEF MaskInv
<1>7. ForkInv'
  BY ParentKinds, ChildKinds, WorkerAssumption DEF ForkInv, WriteReport,
      Child, Failed, Ended, Running, parentVars, childVars, signalVars,
      guestVars, linkVars, ghostVars, ResourceInv, ChildInv, RecordInv,
      NoRecord, OneRecord
<1>8. ChildInv'
  BY ParentKinds, ChildKinds, WorkerAssumption DEF ChildInv, WriteReport,
      Child, Failed, Ended, Running, parentVars, childVars, signalVars,
      guestVars, linkVars, ghostVars, ForkInv, MaskInv, ResourceInv
<1>9. SignalInv'
  BY ParentKinds, ChildKinds, WorkerAssumption DEF SignalInv, WriteReport,
      Child, Failed, Ended, Running, parentVars, childVars, signalVars,
      guestVars, linkVars, ghostVars, ChildInv, ForkInv, MaskInv, Fact,
      ChildType
<1>10. GuestInv'
  BY ParentKinds, ChildKinds, WorkerAssumption DEF GuestInv, WriteReport,
      Child, Failed, Ended, Running, parentVars, childVars, signalVars,
      guestVars, linkVars, ghostVars, ChildInv
<1>11. RecordInv'
  BY ParentKinds, ChildKinds, WorkerAssumption DEF RecordInv, WriteReport,
      Child, Failed, Ended, Running, parentVars, childVars, signalVars,
      guestVars, linkVars, ghostVars, NoRecord, OneRecord, ForkInv, SignalInv,
      ChildInv, ChildType, WireIsValid, ExpectedExitCode, Fact, Outcome,
      CrashExitCode
<1>12. QED
  BY <1>2, <1>3, <1>4, <1>5, <1>6, <1>7, <1>8, <1>9, <1>10, <1>11

(* The guest calls ExitProcess. *)
LEMMA ExitProcessInd ==
  ASSUME IndInv, ExitProcess
  PROVE  IndInv'
<1> USE DEF IndInv
<1>1. UNCHANGED <<ppc, stacks, parentEnds, parentMask, savedMask, maskOk,
            frozen, refs, readOk, result, records, pipe, pending,
            sent>>
  BY DEF ExitProcess, Child, Failed, Ended, Running, parentVars, childVars,
      signalVars, guestVars, linkVars, ghostVars
<1>2. ParentType'
  BY <1>1 DEF ParentType
<1>3. ChildType'
  BY ChildKinds, FactTypes, WorkerAssumption DEF ChildType, ExitProcess,
      Child, Failed, Ended, Running, parentVars, childVars, signalVars,
      guestVars, linkVars, ghostVars, SignalInv, Outcome
<1>4. LinkType'
  BY <1>1 DEF LinkType
<1>5. ResourceInv'
  BY <1>1 DEF ResourceInv
<1>6. MaskInv'
  BY <1>1 DEF MaskInv
<1>7. ForkInv'
  BY ParentKinds, ChildKinds, WorkerAssumption DEF ForkInv, ExitProcess,
      Child, Failed, Ended, Running, parentVars, childVars, signalVars,
      guestVars, linkVars, ghostVars, ResourceInv, ChildInv, RecordInv,
      NoRecord, OneRecord
<1>8. ChildInv'
  BY ParentKinds, ChildKinds, WorkerAssumption DEF ChildInv, ExitProcess,
      Child, Failed, Ended, Running, parentVars, childVars, signalVars,
      guestVars, linkVars, ghostVars, ForkInv, MaskInv, ResourceInv
<1>9. SignalInv'
  BY ParentKinds, ChildKinds, WorkerAssumption DEF SignalInv, ExitProcess,
      Child, Failed, Ended, Running, parentVars, childVars, signalVars,
      guestVars, linkVars, ghostVars, ChildInv, ForkInv, MaskInv, Fact,
      ChildType
<1>10. GuestInv'
  BY ParentKinds, ChildKinds, WorkerAssumption DEF GuestInv, ExitProcess,
      Child, Failed, Ended, Running, parentVars, childVars, signalVars,
      guestVars, linkVars, ghostVars, ChildInv
<1>11. RecordInv'
  BY ParentKinds, ChildKinds, WorkerAssumption DEF RecordInv, ExitProcess,
      Child, Failed, Ended, Running, parentVars, childVars, signalVars,
      guestVars, linkVars, ghostVars, NoRecord, OneRecord, ForkInv, SignalInv,
      ChildInv, ChildType, WireIsValid, ExpectedExitCode, Fact, Outcome,
      CrashExitCode
<1>12. QED
  BY <1>2, <1>3, <1>4, <1>5, <1>6, <1>7, <1>8, <1>9, <1>10, <1>11

(* The crash handler starts. *)
LEMMA HandlerStartInd ==
  ASSUME IndInv, HandlerStart
  PROVE  IndInv'
<1> USE DEF IndInv
<1>1. UNCHANGED <<ppc, stacks, parentEnds, parentMask, savedMask, maskOk,
            frozen, refs, readOk, result, records, pipe, pending,
            sent>>
  BY DEF HandlerStart, Child, Failed, Ended, Running, parentVars, childVars,
      signalVars, guestVars, linkVars, ghostVars
<1>2. ParentType'
  BY <1>1 DEF ParentType
<1>3. ChildType'
  BY ChildKinds, FactTypes, WorkerAssumption DEF ChildType, HandlerStart,
      Child, Failed, Ended, Running, parentVars, childVars, signalVars,
      guestVars, linkVars, ghostVars, SignalInv, Outcome
<1>4. LinkType'
  BY <1>1 DEF LinkType
<1>5. ResourceInv'
  BY <1>1 DEF ResourceInv
<1>6. MaskInv'
  BY <1>1 DEF MaskInv
<1>7. ForkInv'
  BY ParentKinds, ChildKinds, WorkerAssumption DEF ForkInv, HandlerStart,
      Child, Failed, Ended, Running, parentVars, childVars, signalVars,
      guestVars, linkVars, ghostVars, ResourceInv, ChildInv, RecordInv,
      NoRecord, OneRecord
<1>8. ChildInv'
  BY ParentKinds, ChildKinds, WorkerAssumption DEF ChildInv, HandlerStart,
      Child, Failed, Ended, Running, parentVars, childVars, signalVars,
      guestVars, linkVars, ghostVars, ForkInv, MaskInv, ResourceInv
<1>9. SignalInv'
  BY ParentKinds, ChildKinds, WorkerAssumption DEF SignalInv, HandlerStart,
      Child, Failed, Ended, Running, parentVars, childVars, signalVars,
      guestVars, linkVars, ghostVars, ChildInv, ForkInv, MaskInv, Fact,
      ChildType
<1>10. GuestInv'
  BY ParentKinds, ChildKinds, WorkerAssumption DEF GuestInv, HandlerStart,
      Child, Failed, Ended, Running, parentVars, childVars, signalVars,
      guestVars, linkVars, ghostVars, ChildInv
<1>11. RecordInv'
  BY ParentKinds, ChildKinds, WorkerAssumption DEF RecordInv, HandlerStart,
      Child, Failed, Ended, Running, parentVars, childVars, signalVars,
      guestVars, linkVars, ghostVars, NoRecord, OneRecord, ForkInv, SignalInv,
      ChildInv, ChildType, WireIsValid, ExpectedExitCode, Fact, Outcome,
      CrashExitCode
<1>12. QED
  BY <1>2, <1>3, <1>4, <1>5, <1>6, <1>7, <1>8, <1>9, <1>10, <1>11

(* The crash handler writes its record. *)
LEMMA HandlerWriteInd ==
  ASSUME IndInv, HandlerWrite
  PROVE  IndInv'
<1> USE DEF IndInv
<1>1. UNCHANGED <<ppc, stacks, parentEnds, parentMask, savedMask, maskOk,
            frozen, refs, readOk, result, records, sent>>
  BY DEF HandlerWrite, Child, Failed, Ended, Running, parentVars, childVars,
      signalVars, guestVars, linkVars, ghostVars
<1>2. ParentType'
  BY <1>1 DEF ParentType
<1>3. ChildType'
  BY ChildKinds, FactTypes, WorkerAssumption DEF ChildType, HandlerWrite,
      Child, Failed, Ended, Running, parentVars, childVars, signalVars,
      guestVars, linkVars, ghostVars, SignalInv, Outcome
<1>4. LinkType'
  <2>1. Fact("signalled", hsig) \in Facts
    BY FactTypes DEF HandlerWrite, SignalInv, Crashing
  <2>2. pipe' \in Seq(Facts)
    BY <2>1 DEF HandlerWrite, LinkType
  <2>3. QED
    BY <1>1, <2>2 DEF HandlerWrite, LinkType
<1>5. ResourceInv'
  BY <1>1 DEF ResourceInv
<1>6. MaskInv'
  BY <1>1 DEF MaskInv
<1>7. ForkInv'
  BY ParentKinds, ChildKinds, WorkerAssumption DEF ForkInv, HandlerWrite,
      Child, Failed, Ended, Running, parentVars, childVars, signalVars,
      guestVars, linkVars, ghostVars, ResourceInv, ChildInv, RecordInv,
      NoRecord, OneRecord
<1>8. ChildInv'
  BY ParentKinds, ChildKinds, WorkerAssumption DEF ChildInv, HandlerWrite,
      Child, Failed, Ended, Running, parentVars, childVars, signalVars,
      guestVars, linkVars, ghostVars, ForkInv, MaskInv, ResourceInv
<1>9. SignalInv'
  BY ParentKinds, ChildKinds, WorkerAssumption DEF SignalInv, HandlerWrite,
      Child, Failed, Ended, Running, parentVars, childVars, signalVars,
      guestVars, linkVars, ghostVars, ChildInv, ForkInv, MaskInv, Fact,
      ChildType
<1>10. GuestInv'
  BY ParentKinds, ChildKinds, WorkerAssumption DEF GuestInv, HandlerWrite,
      Child, Failed, Ended, Running, parentVars, childVars, signalVars,
      guestVars, linkVars, ghostVars, ChildInv
<1>11. RecordInv'
  <2>1. /\ cpc = "handler_write" /\ cpc' = "exit"
        /\ UNCHANGED <<hsig, cause>>
    BY DEF HandlerWrite, signalVars
  <2>2. hsig \in CrashSignals /\ cause = Fact("signalled", hsig) /\ hsig # 0
    BY <2>1, ChildKinds, WorkerAssumption DEF SignalInv
  <2>3. NoRecord
    BY <2>1 DEF RecordInv
  <2>4. OneRecord(cause)' \/ (NoRecord' /\ lost')
    BY <1>1, <2>1, <2>2, <2>3 DEF HandlerWrite, NoRecord, OneRecord
  <2>5. QED
    BY <2>1, <2>2, <2>4 DEF RecordInv
<1>12. QED
  BY <1>2, <1>3, <1>4, <1>5, <1>6, <1>7, <1>8, <1>9, <1>10, <1>11

(* The worker exits after its record. *)
LEMMA ExitAfterReportInd ==
  ASSUME IndInv, ExitAfterReport
  PROVE  IndInv'
<1> USE DEF IndInv
<1>1. UNCHANGED <<ppc, stacks, parentEnds, parentMask, savedMask, maskOk,
            frozen, refs, readOk, result, records, pipe, pending,
            sent>>
  BY DEF ExitAfterReport, Child, Failed, Ended, Running, parentVars,
      childVars, signalVars, guestVars, linkVars, ghostVars
<1>2. ParentType'
  BY <1>1 DEF ParentType
<1>3. ChildType'
  BY ChildKinds, FactTypes, WorkerAssumption DEF ChildType, ExitAfterReport,
      Child, Failed, Ended, Running, parentVars, childVars, signalVars,
      guestVars, linkVars, ghostVars, SignalInv, Outcome
<1>4. LinkType'
  BY <1>1 DEF LinkType
<1>5. ResourceInv'
  BY <1>1 DEF ResourceInv
<1>6. MaskInv'
  BY <1>1 DEF MaskInv
<1>7. ForkInv'
  BY ParentKinds, ChildKinds, WorkerAssumption DEF ForkInv, ExitAfterReport,
      Child, Failed, Ended, Running, parentVars, childVars, signalVars,
      guestVars, linkVars, ghostVars, ResourceInv, ChildInv, RecordInv,
      NoRecord, OneRecord
<1>8. ChildInv'
  BY ParentKinds, ChildKinds, WorkerAssumption DEF ChildInv, ExitAfterReport,
      Child, Failed, Ended, Running, parentVars, childVars, signalVars,
      guestVars, linkVars, ghostVars, ForkInv, MaskInv, ResourceInv
<1>9. SignalInv'
  BY ParentKinds, ChildKinds, WorkerAssumption DEF SignalInv, ExitAfterReport,
      Child, Failed, Ended, Running, parentVars, childVars, signalVars,
      guestVars, linkVars, ghostVars, ChildInv, ForkInv, MaskInv, Fact,
      ChildType
<1>10. GuestInv'
  BY ParentKinds, ChildKinds, WorkerAssumption DEF GuestInv, ExitAfterReport,
      Child, Failed, Ended, Running, parentVars, childVars, signalVars,
      guestVars, linkVars, ghostVars, ChildInv
<1>11. RecordInv'
  BY ParentKinds, ChildKinds, WorkerAssumption DEF RecordInv, ExitAfterReport,
      Child, Failed, Ended, Running, parentVars, childVars, signalVars,
      guestVars, linkVars, ghostVars, NoRecord, OneRecord, ForkInv, SignalInv,
      ChildInv, ChildType, WireIsValid, ExpectedExitCode, Fact, Outcome,
      CrashExitCode
<1>12. QED
  BY <1>2, <1>3, <1>4, <1>5, <1>6, <1>7, <1>8, <1>9, <1>10, <1>11

(* A signal is sent to the worker. *)
LEMMA SendInd ==
  ASSUME IndInv, NEW s \in Signals, Send(s)
  PROVE  IndInv'
<1> USE DEF IndInv
<1>1. UNCHANGED <<ppc, stacks, parentEnds, parentMask, savedMask, maskOk,
            frozen, refs, readOk, result, records>>
  BY DEF Send, Running, parentVars, childVars, signalVars, guestVars,
      linkVars, ghostVars
<1>2. ParentType'
  BY <1>1 DEF ParentType
<1>3. ChildType'
  BY ChildKinds, FactTypes, WorkerAssumption DEF ChildType, Send, Running,
      parentVars, childVars, signalVars, guestVars, linkVars, ghostVars,
      SignalInv, Outcome
<1>4. LinkType'
  BY WorkerAssumption, FactTypes DEF LinkType, Send, Running, parentVars,
      childVars, signalVars, guestVars, linkVars, ghostVars, RecordInv,
      ForkInv, NoRecord, OneRecord, Outcome, SignalInv
<1>5. ResourceInv'
  BY <1>1 DEF ResourceInv
<1>6. MaskInv'
  BY <1>1 DEF MaskInv
<1>7. ForkInv'
  BY ParentKinds, ChildKinds, WorkerAssumption DEF ForkInv, Send, Running,
      parentVars, childVars, signalVars, guestVars, linkVars, ghostVars,
      ResourceInv, ChildInv, RecordInv, NoRecord, OneRecord
<1>8. ChildInv'
  BY ParentKinds, ChildKinds, WorkerAssumption DEF ChildInv, Send, Running,
      parentVars, childVars, signalVars, guestVars, linkVars, ghostVars,
      ForkInv, MaskInv, ResourceInv
<1>9. SignalInv'
  BY ParentKinds, ChildKinds, WorkerAssumption DEF SignalInv, Send, Running,
      parentVars, childVars, signalVars, guestVars, linkVars, ghostVars,
      ChildInv, ForkInv, MaskInv, Fact, ChildType
<1>10. GuestInv'
  BY ParentKinds, ChildKinds, WorkerAssumption DEF GuestInv, Send, Running,
      parentVars, childVars, signalVars, guestVars, linkVars, ghostVars,
      ChildInv
<1>11. RecordInv'
  BY ParentKinds, ChildKinds, WorkerAssumption DEF RecordInv, Send, Running,
      parentVars, childVars, signalVars, guestVars, linkVars, ghostVars,
      NoRecord, OneRecord, ForkInv, SignalInv, ChildInv, ChildType,
      WireIsValid, ExpectedExitCode, Fact, Outcome, CrashExitCode
<1>12. QED
  BY <1>2, <1>3, <1>4, <1>5, <1>6, <1>7, <1>8, <1>9, <1>10, <1>11

(* Every mask of the worker holds the crash signals. *)
LEMMA CrashesAreBlocked ==
  ASSUME NEW s \in CrashSignals
  PROVE  Blocks(s) <=> blocked
BY WorkerAssumption DEF Blocks

(* A pending signal is delivered to the worker. *)
LEMMA DeliverInd ==
  ASSUME IndInv, NEW s \in Signals, Deliver(s)
  PROVE  IndInv'
<1> USE DEF IndInv
<1>1. UNCHANGED <<ppc, stacks, parentEnds, parentMask, savedMask, maskOk,
            frozen, refs, readOk, result, records, sent, pipe>>
  BY DEF Deliver, Handle, Killed, Ended, Fact, Running, parentVars, childVars,
      signalVars, guestVars, linkVars, ghostVars
<1>2. ParentType'
  BY <1>1 DEF ParentType
<1>3. ChildType'
  <2>1. s \in Signals /\ s \in Nat
    BY FactTypes
  <2>2. CASE Handle(s) /\ s \in handlers
    <3>1. s \in CrashSignals /\ cpc' \in ChildSteps /\ Fact("signalled", s) \in Facts
      BY <2>1, <2>2, FactTypes, ChildKinds DEF Handle, ChildType
    <3>2. QED
      BY <2>2, <3>1 DEF Handle, guestVars, ChildType
  <2>3. CASE Killed(s)
    <3>1. /\ cpc' \in ChildSteps
          /\ Fact("signalled", s) \in Facts /\ Fact("killed", s) \in Facts
      BY <2>1, <2>3, FactTypes, ChildKinds DEF Killed, Ended
    <3>2. QED
      BY <2>3, <3>1 DEF Killed, Ended, signalVars, guestVars, ChildType
  <2>4. QED
    BY <2>2, <2>3 DEF Deliver
<1>4. LinkType'
  BY WorkerAssumption, FactTypes DEF LinkType, Deliver, Handle, Killed, Ended,
      Fact, Running, parentVars, childVars, signalVars, guestVars, linkVars,
      ghostVars, RecordInv, ForkInv, NoRecord, OneRecord, Outcome, SignalInv
<1>5. ResourceInv'
  BY <1>1 DEF ResourceInv
<1>6. MaskInv'
  BY <1>1 DEF MaskInv
<1>7. ForkInv'
  BY ParentKinds, ChildKinds, WorkerAssumption DEF ForkInv, Deliver, Handle,
      Killed, Ended, Fact, Running, parentVars, childVars, signalVars,
      guestVars, linkVars, ghostVars, ResourceInv, ChildInv, RecordInv,
      NoRecord, OneRecord
<1>8. ChildInv'
  <2>1. CASE Handle(s)
    <3>1. s \in handlers /\ s # SIGKILL /\ ~blocked
      BY <2>1, CrashesAreBlocked, WorkerAssumption DEF Deliver, Killed, Handle, Ended, ChildType
    <3>2. cpc # "start"
      BY <3>1, ChildKinds DEF Deliver, SignalInv
    <3>3. QED
      BY <2>1, <3>2 DEF Deliver, Handle, ChildInv, Running
  <2>2. CASE Killed(s)
    BY <2>2 DEF Killed, Ended, ChildInv, Running
  <2>3. QED
    BY <2>1, <2>2 DEF Deliver
<1>9. SignalInv'
  <2>1. CASE Handle(s) /\ s \in handlers
    <3>1. s \in CrashSignals /\ Running /\ ~blocked
      BY <2>1, CrashesAreBlocked DEF Deliver, ChildType
    <3>2. handlers = CrashSignals /\ armed /\ ~handling
      BY <3>1 DEF SignalInv
    <3>3. /\ cpc' = "handler" /\ hsig' = s /\ blocked' /\ armed' /\ ~handling'
          /\ cause' = Fact("signalled", s)
      BY <2>1, <3>2 DEF Handle
    <3>4. QED
      BY <3>1, <3>3, ChildKinds DEF SignalInv, Fact
  <2>2. CASE Killed(s)
    BY <2>2, ChildKinds DEF SignalInv, Killed, Ended, Running
  <2>3. QED
    BY <2>1, <2>2 DEF Deliver
<1>10. GuestInv'
  BY ParentKinds, ChildKinds, WorkerAssumption DEF GuestInv, Deliver, Handle,
      Killed, Ended, Fact, Running, parentVars, childVars, signalVars,
      guestVars, linkVars, ghostVars, ChildInv
<1>11. RecordInv'
  <2>1. CASE Handle(s) /\ s \in handlers
    <3>1. Running /\ ~blocked
      BY <2>1, CrashesAreBlocked DEF Deliver, ChildType
    <3>2. NoRecord
      BY <3>1, ChildKinds DEF RecordInv, SignalInv, Running
    <3>3. cpc' = "handler" /\ NoRecord'
      BY <1>1, <2>1, <3>2 DEF Handle, NoRecord
    <3>4. QED
      BY <3>3 DEF RecordInv
  <2>2. CASE Killed(s)
    <3>1. /\ cpc' = "ended" /\ exit' = Fact("killed", s)
          /\ cause' = Fact("signalled", s)
      BY <2>2 DEF Killed, Ended
    <3>2. Running /\ ~Blocks(s)
      BY DEF Deliver
    <3>3. NoRecord \/ \E r \in Facts : OneRecord(r) /\ Unstoppable(s, r)
      <4>1. SUFFICES ASSUME cpc = "exit", OneRecord(cause)
                     PROVE  Unstoppable(s, cause) /\ cause \in Facts
        BY <3>2 DEF RecordInv, Running
      <4>2. blocked
        BY <3>2, <4>1, ChildKinds DEF SignalInv
      <4>3. s = SIGKILL \/ (s \in ReservedSignals /\ hsig # 0)
        BY <3>2, <4>2 DEF Blocks
      <4>4. hsig # 0 => cause.outcome = "signalled"
        BY <4>1 DEF RecordInv, Fact
      <4>5. QED
        BY <4>3, <4>4 DEF Unstoppable, ChildType
    <3>4. (NoRecord \/ \E r \in Facts : OneRecord(r) /\ Unstoppable(s, r))'
      BY <1>1, <3>3 DEF NoRecord, OneRecord, Unstoppable
    <3>5. QED
      BY <3>1, <3>4 DEF RecordInv, Fact
  <2>3. QED
    BY <2>1, <2>2 DEF Deliver
<1>12. QED
  BY <1>2, <1>3, <1>4, <1>5, <1>6, <1>7, <1>8, <1>9, <1>10, <1>11

(* The guest or the crash handler faults. *)
LEMMA FaultInd ==
  ASSUME IndInv, NEW s \in CrashSignals, Fault(s)
  PROVE  IndInv'
<1> USE DEF IndInv
<1>1. UNCHANGED <<ppc, stacks, parentEnds, parentMask, savedMask, maskOk,
            frozen, refs, readOk, result, records, sent, pipe>>
  BY DEF Fault, Handle, Killed, Ended, Fact, Running, parentVars, childVars,
      signalVars, guestVars, linkVars, ghostVars
<1>2. ParentType'
  BY <1>1 DEF ParentType
<1>3. ChildType'
  <2>1. s \in Signals /\ s \in Nat
    BY FactTypes
  <2>2. CASE Handle(s) /\ s \in handlers
    <3>1. s \in CrashSignals /\ cpc' \in ChildSteps /\ Fact("signalled", s) \in Facts
      BY <2>1, <2>2, FactTypes, ChildKinds DEF Handle, ChildType
    <3>2. QED
      BY <2>2, <3>1 DEF Handle, guestVars, ChildType
  <2>3. CASE Killed(s)
    <3>1. /\ cpc' \in ChildSteps
          /\ Fact("signalled", s) \in Facts /\ Fact("killed", s) \in Facts
      BY <2>1, <2>3, FactTypes, ChildKinds DEF Killed, Ended
    <3>2. QED
      BY <2>3, <3>1 DEF Killed, Ended, signalVars, guestVars, ChildType
  <2>4. QED
    BY <2>2, <2>3 DEF Fault
<1>4. LinkType'
  BY WorkerAssumption, FactTypes DEF LinkType, Fault, Handle, Killed, Ended,
      Fact, Running, parentVars, childVars, signalVars, guestVars, linkVars,
      ghostVars, RecordInv, ForkInv, NoRecord, OneRecord, Outcome, SignalInv
<1>5. ResourceInv'
  BY <1>1 DEF ResourceInv
<1>6. MaskInv'
  BY <1>1 DEF MaskInv
<1>7. ForkInv'
  BY ParentKinds, ChildKinds, WorkerAssumption DEF ForkInv, Fault, Handle,
      Killed, Ended, Fact, Running, parentVars, childVars, signalVars,
      guestVars, linkVars, ghostVars, ResourceInv, ChildInv, RecordInv,
      NoRecord, OneRecord
<1>8. ChildInv'
  BY ParentKinds, ChildKinds, WorkerAssumption DEF ChildInv, Fault, Handle,
      Killed, Ended, Fact, Running, parentVars, childVars, signalVars,
      guestVars, linkVars, ghostVars, ForkInv, MaskInv, ResourceInv
<1>9. SignalInv'
  BY ParentKinds, ChildKinds, WorkerAssumption DEF SignalInv, Fault, Handle,
      Killed, Ended, Fact, Running, Blocks, parentVars, childVars, signalVars,
      guestVars, linkVars, ghostVars, ChildInv, ForkInv, MaskInv, ChildType
<1>10. GuestInv'
  BY ParentKinds, ChildKinds, WorkerAssumption DEF GuestInv, Fault, Handle,
      Killed, Ended, Fact, Running, parentVars, childVars, signalVars,
      guestVars, linkVars, ghostVars, ChildInv
<1>11. RecordInv'
  BY ParentKinds, ChildKinds, WorkerAssumption DEF RecordInv, Fault, Handle,
      Killed, Ended, Fact, Running, parentVars, childVars, signalVars,
      guestVars, linkVars, ghostVars, NoRecord, OneRecord, ForkInv, SignalInv,
      ChildInv, ChildType, WireIsValid, ExpectedExitCode, Outcome,
      CrashExitCode
<1>12. QED
  BY <1>2, <1>3, <1>4, <1>5, <1>6, <1>7, <1>8, <1>9, <1>10, <1>11

(* The caller runs another worker. *)
LEMMA AgainInd ==
  ASSUME IndInv, Again
  PROVE  IndInv'
<1> USE DEF IndInv
<1>1. ParentType'
  BY ParentKinds, StatusNames, FactTypes DEF ParentType, Again, Running,
      parentVars, childVars, signalVars, guestVars, linkVars, ghostVars,
      ResourceInv
<1>2. ChildType'
  BY ChildKinds, FactTypes, WorkerAssumption DEF ChildType, Again, Running,
      parentVars, childVars, signalVars, guestVars, linkVars, ghostVars,
      SignalInv, Outcome
<1>3. LinkType'
  BY WorkerAssumption, FactTypes DEF LinkType, Again, Running, parentVars,
      childVars, signalVars, guestVars, linkVars, ghostVars, RecordInv,
      ForkInv, NoRecord, OneRecord, Outcome, SignalInv
<1>4. ResourceInv'
  BY ParentKinds, ChildKinds, WorkerAssumption DEF ResourceInv, Again,
      Running, parentVars, childVars, signalVars, guestVars, linkVars,
      ghostVars, ParentType
<1>5. MaskInv'
  BY ParentKinds, ChildKinds, WorkerAssumption DEF MaskInv, Again, Running,
      parentVars, childVars, signalVars, guestVars, linkVars, ghostVars,
      ParentType
<1>6. ForkInv'
  BY ParentKinds, ChildKinds, WorkerAssumption DEF ForkInv, Again, Running,
      parentVars, childVars, signalVars, guestVars, linkVars, ghostVars,
      ResourceInv, ChildInv, RecordInv, NoRecord, OneRecord
<1>7. ChildInv'
  BY ParentKinds, ChildKinds, WorkerAssumption DEF ChildInv, Again, Running,
      parentVars, childVars, signalVars, guestVars, linkVars, ghostVars,
      ForkInv, MaskInv, ResourceInv
<1>8. SignalInv'
  BY ParentKinds, ChildKinds, WorkerAssumption DEF SignalInv, Again, Running,
      parentVars, childVars, signalVars, guestVars, linkVars, ghostVars,
      ChildInv, ForkInv, MaskInv, Fact, ChildType
<1>9. GuestInv'
  BY ParentKinds, ChildKinds, WorkerAssumption DEF GuestInv, Again, Running,
      parentVars, childVars, signalVars, guestVars, linkVars, ghostVars,
      ChildInv
<1>10. RecordInv'
  BY ParentKinds, ChildKinds, WorkerAssumption DEF RecordInv, Again, Running,
      parentVars, childVars, signalVars, guestVars, linkVars, ghostVars,
      NoRecord, OneRecord, ForkInv, SignalInv, ChildInv, ChildType,
      WireIsValid, ExpectedExitCode, Fact, Outcome, CrashExitCode
<1>11. QED
  BY <1>1, <1>2, <1>3, <1>4, <1>5, <1>6, <1>7, <1>8, <1>9, <1>10

-----------------------------------------------------------------------------
(* Before the first call the invariant holds. *)
LEMMA InitInd == Init => IndInv
<1> SUFFICES ASSUME Init PROVE IndInv
  OBVIOUS
<1> USE DEF Init, NoWorker
<1>1. ParentType
  <2>1. ppc \in ParentSteps /\ result \in [status : Statuses, report : Facts]
    BY ParentKinds, StatusNames, FactTypes
  <2>2. stacks \subseteq {"stack", "signal"} /\ parentEnds \subseteq {"read", "write"}
    OBVIOUS
  <2>3. /\ parentMask \in BOOLEAN /\ savedMask \in BOOLEAN /\ maskOk \in BOOLEAN
        /\ frozen \in BOOLEAN /\ readOk \in BOOLEAN
    OBVIOUS
  <2>4. refs \in 0 .. 1
    OBVIOUS
  <2>5. QED
    BY <2>1, <2>2, <2>3, <2>4 DEF ParentType
<1>2. ChildType
  BY ChildKinds, FactTypes DEF ChildType
<1>3. LinkType
  BY WorkerAssumption DEF LinkType
<1>4. ResourceInv /\ MaskInv
  BY ParentKinds DEF ResourceInv, MaskInv
<1>5. ForkInv
  BY ParentKinds DEF ForkInv
<1>6. ChildInv /\ GuestInv
  BY DEF ChildInv, GuestInv, Running
<1>7. SignalInv
  BY ChildKinds DEF SignalInv, Running
<1>8. RecordInv
  BY DEF RecordInv, NoRecord
<1>9. QED
  BY <1>1, <1>2, <1>3, <1>4, <1>5, <1>6, <1>7, <1>8 DEF IndInv

(* Every step preserves it. *)
LEMMA NextInd ==
  ASSUME IndInv, Next
  PROVE  IndInv'
<1>1. CASE Parent
  BY <1>1, RetainProcessInd, CreateStackInd, CreateSignalStackInd,
     OpenPipeInd,
     BlockSignalsInd, PrepareCloneInd, CloneInd, CompleteCloneInd, RestoreMaskInd,
     CloseWriteEndInd, ReadReportInd, CloseReadEndInd, WaitForWorkerInd,
     CleanupInd, ClassifyInd DEF Parent
<1>2. CASE ReadFails
  BY <1>2, ReadFailsInd
<1>3. CASE WorkerSetUp
  BY <1>3, StartInd, ResetSignalsInd, InstallHandlersInd, ArmInd, UnmaskInd,
     SetImageBaseInd, CreateTebInd, AttachTebInd, InstallGsInd, EnterGuestInd
     DEF WorkerSetUp
<1>4. CASE WorkerEnd
  BY <1>4, GuestReturnsInd, RestoreGsInd, DetachTebInd, DestroyTebInd,
     BlockForReportInd, DisarmInd, WriteReportInd, ExitProcessInd,
     HandlerStartInd, HandlerWriteInd, ExitAfterReportInd DEF WorkerEnd
<1>5. CASE Kernel
  BY <1>5, SendInd, DeliverInd, FaultInd DEF Kernel
<1>6. CASE Again
  BY <1>6, AgainInd
<1>7. QED
  BY <1>1, <1>2, <1>3, <1>4, <1>5, <1>6 DEF Next

(* A step that changes nothing preserves it too. *)
LEMMA StutterInd ==
  ASSUME IndInv, UNCHANGED vars
  PROVE  IndInv'
BY DEF vars, parentVars, childVars, signalVars, guestVars, linkVars,
       ghostVars,
       IndInv, ParentType, ChildType, LinkType, ResourceInv, MaskInv, ForkInv,
       ChildInv, SignalInv, GuestInv, RecordInv, NoRecord, OneRecord, Outcome,
       Running, Classification, WireIsValid, ExpectedExitCode

(* The inductive invariant of run_trusted_worker: what the parent holds,   *)
(* how its mask, the worker's signals, GS and the record go together at    *)
(* every step of the two.                                                  *)
THEOREM InductiveInvariant == Spec => []IndInv
<1>1. Init => IndInv
  BY InitInd
<1>2. IndInv /\ [Next]_vars => IndInv'
  BY NextInd, StutterInd
<1>3. QED
  BY <1>1, <1>2, PTL DEF Spec

(* The result of Classification, told apart by its guards. *)
LEMMA Classified ==
  /\ Classification.status = "ok" =>
        \/ /\ exit.outcome = "killed" /\ records = <<>>
           /\ Classification.report = Fact("signalled", exit.number)
        \/ /\ exit.outcome = "exited" /\ records = <<>>
           /\ Classification.report = exit
        \/ /\ exit.outcome = "exited" /\ Len(records) = 1
           /\ WireIsValid(records[1])
           /\ Classification.report = records[1]
  /\ Classification.status = "protocol" /\ maskOk /\ readOk =>
        \/ exit.outcome \notin {"killed", "exited"}
        \/ records # <<>> /\ exit.outcome = "killed"
        \/ /\ records # <<>> /\ exit.outcome = "exited"
           /\ ~(Len(records) = 1 /\ WireIsValid(records[1]))
BY DEF Classification

(* How a worker that has ended, and whose pipe is drained, has ended. *)
LEMMA EndedWorker ==
  ASSUME IndInv, cpc = "ended", pipe = <<>>
  PROVE  \/ /\ exit.outcome = "killed" /\ records = <<>>
            /\ cause = Fact("signalled", exit.number)
         \/ /\ exit.outcome = "killed"
            /\ \E r \in Facts : records = <<r>> /\ Unstoppable(exit.number, r)
         \/ exit.outcome = "exited" /\ records = <<>> /\ (lost \/ cause = exit)
         \/ exit.outcome = "exited" /\ records = <<cause>> /\ WireIsValid(cause)
BY DEF IndInv, RecordInv, NoRecord, OneRecord, WireIsValid, Fact

(* run_trusted_worker tells its caller what ended the guest, from a single *)
(* record, and reports a broken protocol only for a worker that was killed *)
(* between its record and its exit: by SIGKILL or, in its crash handler,   *)
(* by a signal the handler's mask does not hold; whatever signals arrive   *)
(* and whatever fails.                                                     *)
THEOREM TruthfulReport == Spec => []ReportIsTruthful
<1>1. ASSUME IndInv PROVE OutcomeIsTruthful
  <2> SUFFICES ASSUME ppc = "done", result.status = "ok", ~lost
               PROVE  result.report = cause
    BY DEF OutcomeIsTruthful
  <2>1. cpc = "ended" /\ pipe = <<>> /\ result = Classification
    BY <1>1 DEF IndInv, ForkInv
  <2>2. QED
    BY <1>1, <2>1, Classified, EndedWorker DEF Fact
<1>2. ASSUME IndInv PROVE ProtocolErrorMeansKilled
  <2> SUFFICES ASSUME ppc = "done", result.status = "protocol"
               PROVE  /\ exit.outcome = "killed"
                      /\ \E r \in Facts : records = <<r>> /\ Unstoppable(exit.number, r)
    BY DEF ProtocolErrorMeansKilled, Unstoppable
  <2>1. /\ cpc = "ended" /\ pipe = <<>> /\ result = Classification
        /\ maskOk /\ readOk
    BY <1>2 DEF IndInv, ForkInv
  <2>2. QED
    BY <1>2, <2>1, Classified, EndedWorker DEF Fact
<1>3. ASSUME IndInv PROVE AtMostOneRecord
  <2>1. NoRecord \/ \E r : OneRecord(r)
    BY <1>3 DEF IndInv, RecordInv
  <2>2. ASSUME NoRecord PROVE Len(records) + Len(pipe) =< 1
    BY <2>2 DEF NoRecord
  <2>3. ASSUME NEW r, OneRecord(r) PROVE Len(records) + Len(pipe) =< 1
    <3>1. CASE records = <<>> /\ pipe = <<r>>
      BY <3>1
    <3>2. CASE records = <<r>> /\ pipe = <<>>
      BY <3>2
    <3>3. QED
      BY <2>3, <3>1, <3>2 DEF OneRecord
  <2>4. QED
    BY <2>1, <2>2, <2>3 DEF AtMostOneRecord
<1>4. QED
  BY <1>1, <1>2, <1>3, InductiveInvariant, PTL DEF ReportIsTruthful

(* Every way out of the call gives back the stacks, the pipe ends and the  *)
(* reference, thaws the handle table, restores the mask or says that it    *)
(* could not, and leaves no worker running.                                *)
THEOREM NoLeaks == Spec => []NothingLeaks
<1>1. ASSUME IndInv PROVE NothingLeaks
  BY <1>1, ParentKinds DEF NothingLeaks, IndInv, ResourceInv, MaskInv, ForkInv
<1>2. QED
  BY <1>1, InductiveInvariant, PTL

(* The guest never runs in a half-built environment, and GS leaves the TEB *)
(* before the TEB goes.                                                    *)
THEOREM SafeGuest == Spec => []GuestIsSafe
<1>1. ASSUME IndInv PROVE TypeOK
  BY <1>1 DEF TypeOK, IndInv, ParentType, ChildType, LinkType
<1>2. ASSUME IndInv PROVE GuestEnvironment
  BY <1>2, ChildKinds
     DEF GuestEnvironment, IndInv, ChildInv, SignalInv, GuestInv, Running
<1>3. ASSUME IndInv PROVE GsNeverDangles
  BY <1>3 DEF GsNeverDangles, IndInv, GuestInv
<1>4. QED
  BY <1>1, <1>2, <1>3, InductiveInvariant, PTL DEF GuestIsSafe
=============================================================================
