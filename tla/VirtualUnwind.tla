---------------------------- MODULE VirtualUnwind ----------------------------
(***************************************************************************)
(* sl_win64_virtual_unwind: from the registers of a thread stopped at any  *)
(* instruction of a guest function to those of its caller, told by the     *)
(* function's unwind record (version 1 or 2, chained or not) alone.        *)
(*                                                                         *)
(* The function is run one instruction at a time on a small stack, and the *)
(* unwinder is asked at every instruction.  Stack addresses count words of *)
(* 8 bytes; code addresses count bytes.                                    *)
(***************************************************************************)
EXTENDS Integers, GuestFunctions

CONSTANTS Functions,      \* the guest functions that are run
          Base,           \* the stack is the words 0 .. Base - 1
          MaxChain,       \* SL_WIN64_MAX_CHAIN_DEPTH
          MaxEpilogue     \* instructions simulate_epilogue decodes (32)

VARIABLES fn,             \* the running function
          text, table,    \* its instructions and its function table
          pc,             \* its next instruction
          regs,           \* the CPU's registers
          mem             \* the words of the stack

vars == <<fn, text, table, pc, regs, mem>>

Nonvolatile == {"rbx", "rbp", "r12", "xmm6"}
ReturnAddress == 1000
InterruptedRsp == 500     \* in a machine frame
Entry == Base - 6         \* the stack pointer when the function is entered
Callers == [r \in Nonvolatile |-> CASE r = "rbx" -> 101 [] r = "rbp" -> 102
                                    [] r = "r12" -> 103 [] OTHER -> 104]
Spoilt == 0

----------------------------------------------------------------------------
(* The unwinder.  A context is rsp, rip and the nonvolatile registers.      *)

Refused == [ok |-> FALSE]
InStack(address, words) == 0 <= address /\ address + words <= Base

\* sl_win64_lookup_function_entry: the table is sorted and without overlaps,
\* whichever entry holds the address.  The answer is the chain of records
\* from that entry on, empty when there is none.
Lookup(t, at) ==
  LET hit == {i \in 1 .. Len(t) : t[i].begin <= at /\ at < t[i].end}
  IN  IF hit = {} THEN <<>>
      ELSE LET i == CHOOSE i \in hit : TRUE
           IN  IF t[i].chained THEN <<t[i], t[1]>> ELSE <<t[i]>>
TableIsValid(t) ==
  \A i \in 1 .. Len(t) :
    t[i].begin < t[i].end /\ (i # 1 => t[i].begin >= t[i - 1].end)

HasFrameSetup(r) == \E i \in 1 .. Len(r.codes) : r.codes[i].op = "setfp"

\* validate_unwind_codes.
CodesAreValid(r) ==
  /\ \A i \in 1 .. Len(r.codes) :
       /\ r.codes[i].offset <= r.prologue
       /\ i # 1 => r.codes[i].offset <= r.codes[i - 1].offset
       /\ r.codes[i].op \in {"push", "save", "savexmm"} =>
            r.codes[i].reg \in Nonvolatile
       /\ r.codes[i].op = "setfp" => r.frame # None
  /\ Len(Select(r.codes, {"setfp"})) <= 1

\* validate_v2_epilogue_ranges.
RangesAreValid(r) ==
  LET function == r.end - r.begin
  IN  /\ r.prologue <= function
      /\ \A d \in r.epilogues :
           r.size <= d /\ d <= function /\ function - d >= r.prologue

\* validate_unwind_chain.
ChainIsValid(chain) ==
  /\ Len(chain) <= MaxChain
  /\ \A i \in 1 .. Len(chain) : /\ CodesAreValid(chain[i])
                                /\ RangesAreValid(chain[i])
                                /\ chain[i].frame = chain[1].frame
  /\ LET last == chain[Len(chain)]
     IN  last.frame # None => HasFrameSetup(last)

\* restore_integer and restore_xmm.
Restore(c, reg, address) ==
  IF c.ok /\ InStack(address, IF reg = "xmm6" THEN 2 ELSE 1)
  THEN [c EXCEPT !.reg[reg] = mem[address]] ELSE Refused
Raise(c, words) == IF c.ok THEN [c EXCEPT !.rsp = @ + words] ELSE Refused
PopReturn(c) ==
  IF c.ok /\ InStack(c.rsp, 1)
  THEN [c EXCEPT !.rip = mem[c.rsp], !.rsp = @ + 1] ELSE Refused
\* A machine frame's rip and rsp, `bias' words above the stack pointer, of
\* which `words' words are read.
PopMachineFrame(c, bias, words) ==
  IF c.ok /\ InStack(c.rsp + bias, words)
  THEN [c EXCEPT !.rip = mem[c.rsp + bias], !.rsp = mem[c.rsp + bias + 3]]
  ELSE Refused

\* frame_register_is_established, with the chained record that inherits its
\* parent's frame.
FrameIsEstablished(r, inPrologue, offset) ==
  /\ r.frame # None
  /\ \/ r.chained /\ ~HasFrameSetup(r)
     \/ \E i \in 1 .. Len(r.codes) :
          /\ r.codes[i].op = "setfp"
          /\ inPrologue => r.codes[i].offset <= offset
FrameBase(c, r, inPrologue, offset) ==
  IF FrameIsEstablished(r, inPrologue, offset)
  THEN c.reg[FrameRegister] - 2 * r.frame ELSE c.rsp

\* An instruction that ends where the thread stopped counts as not run.
HasRunMutant(code, inPrologue, offset) == inPrologue => code.offset < offset
HasRun(code, inPrologue, offset) == inPrologue => code.offset <= offset

\* apply_unwind_codes: one code.
ApplyCode(c, code, frameBase) ==
  CASE code.op = "push" -> Raise(Restore(c, code.reg, c.rsp), 1)
    [] code.op \in {"alloc", "pushfq"} -> Raise(c, code.n)
    [] code.op = "setfp" -> [c EXCEPT !.rsp = frameBase]
    [] code.op \in {"save", "savexmm"} -> Restore(c, code.reg, frameBase + code.n)
    [] code.op = "mach" -> PopMachineFrame(c, code.n, 5)

ApplyRecord(c, r, inPrologue, offset) ==
  LET frameBase == FrameBase(c, r, inPrologue, offset)
  IN  IF frameBase < 0 THEN Refused
      ELSE FoldLeft(LAMBDA d, code :
                      IF d.ok /\ HasRun(code, inPrologue, offset)
                      THEN ApplyCode(d, code, frameBase) ELSE d,
                    c, r.codes)

IsTransfer(instruction) == instruction.op \in {"ret", "jmp"}

\* simulate_epilogue (version 1): the instructions from the pc on are an
\* epilogue when they are one stack adjustment at most, pops, and a transfer
\* out of the function; they are then carried out on the context.
SimulateEpilogue(c, first, frame) ==
  LET step(st, i) ==
        LET instruction == text[i] IN
        IF st.done THEN st
        ELSE IF ~st.c.ok \/ i >= first + MaxEpilogue
        THEN [st EXCEPT !.c = Refused]
        ELSE CASE i = first /\ instruction.op = "add" ->
               [st EXCEPT !.c = Raise(@, instruction.n)]
          [] i = first /\ instruction.op = "lea" /\ frame # None ->
               [st EXCEPT !.c.rsp = c.reg[FrameRegister] + instruction.n]
          [] instruction.op = "pop" ->
               [st EXCEPT !.c = Raise(Restore(@, instruction.reg, @.rsp), 1)]
          [] IsTransfer(instruction) ->
               [c |-> PopReturn(st.c), done |-> TRUE]
          [] OTHER -> [st EXCEPT !.c = Refused]
      end == FoldLeft(step, [c |-> c, done |-> FALSE],
                      [i \in 1 .. Len(text) - first + 1 |-> first + i - 1])
  IN  IF end.done THEN end.c ELSE Refused

\* The first instruction of the epilogue is missed.
EpilogueOffsetsMutant(r, at) ==
  {at - (r.end - d) : d \in {e \in r.epilogues :
                               at > r.end - e /\ at - (r.end - e) < r.size}}

\* find_v2_epilogue: how far into a declared epilogue the address is.
EpilogueOffsets(r, at) ==
  {at - (r.end - d) : d \in {e \in r.epilogues :
                               at >= r.end - e /\ at - (r.end - e) < r.size}}

\* unwind_v2_epilogue: the pushes of the one record of the chain that has
\* any, those whose pops are still to run, then the flags word and the
\* transfer.
WithPushes(chain) ==
  {i \in 1 .. Len(chain) : Select(chain[i].codes, {"push", "mach"}) # <<>>}
EpilogueCodes(codes) ==
  LET start == {i \in 1 .. Len(codes) : codes[i].op \in {"push", "mach"}}
  IN  IF start = {} THEN <<>>
      ELSE SubSeq(codes, CHOOSE i \in start : \A j \in start : i <= j, Len(codes))
UnwindV2Epilogue(c, chain, offset) ==
  LET with == WithPushes(chain)
      chosen == IF with = {} THEN Len(chain)
                ELSE CHOOSE i \in with : \A j \in with : i <= j
      step(st, code) ==
        CASE code.op = "push" /\ st.phase = "pushes" ->
               [st EXCEPT !.at = @ + Length(code),
                          !.c = IF st.at >= offset
                                THEN Raise(Restore(@, code.reg, @.rsp), 1)
                                ELSE @]
          [] code.op \in {"alloc", "pushfq"} /\ code.n = 1
               /\ st.phase = "pushes" ->
               [phase |-> "flags", at |-> st.at + 1,
                c |-> IF st.at >= offset THEN Raise(st.c, 1) ELSE st.c]
          [] code.op = "mach" /\ st.phase # "left" ->
               [st EXCEPT !.phase = "left", !.c = PopMachineFrame(@, 0, 4)]
          [] OTHER -> [st EXCEPT !.c = Refused]
      end == FoldLeft(step, [c |-> c, at |-> 0, phase |-> "pushes"],
                      EpilogueCodes(chain[chosen].codes))
  IN  IF \E i \in with : i > chosen THEN Refused
      ELSE IF end.phase = "left" THEN end.c
      ELSE PopReturn(end.c)

\* sl_win64_virtual_unwind.
Unwound(c, establisher, handler) ==
  IF c.ok THEN [ok |-> TRUE, rsp |-> c.rsp, rip |-> c.rip, reg |-> c.reg,
                establisher |-> establisher, handler |-> handler]
  ELSE Refused

\* The records of the chain, from the entry's own to the last parent's.
UnwindBody(c, chain, offset, inPrologue) ==
  LET applied == FoldLeft(LAMBDA d, k :
                   IF d.ok
                   THEN ApplyRecord(d, chain[k], k = 1 /\ inPrologue, offset)
                   ELSE d, c, [k \in 1 .. Len(chain) |-> k])
      machine == \E k \in 1 .. Len(chain) :
                   Select(chain[k].codes, {"mach"}) # <<>>
  IN  IF machine THEN applied ELSE PopReturn(applied)

UnwindFrame(i, c, chain, offset, inPrologue) ==
  LET r == chain[1]
      establisher == FrameBase(c, r, inPrologue, offset)
      simulated == SimulateEpilogue(c, i, r.frame)
      declared == EpilogueOffsets(r, offset + r.begin)
  IN  IF ~ChainIsValid(chain) \/ establisher < 0 THEN Refused
      ELSE IF r.version = 1 /\ simulated.ok
      THEN Unwound(simulated, establisher, FALSE)
      ELSE IF r.version = 2 /\ declared # {}
      THEN Unwound(UnwindV2Epilogue(c, chain, CHOOSE d \in declared : TRUE),
                   establisher, FALSE)
      ELSE Unwound(UnwindBody(c, chain, offset, inPrologue), establisher,
                   ~inPrologue /\ chain[Len(chain)].handler)

UnwindChain(i, c, chain, offset) ==
  UnwindFrame(i, c, chain, offset, offset < chain[1].prologue)

VirtualUnwind(i, c, at) ==
  IF TableIsValid(table)
  THEN UnwindChain(i, c, Lookup(table, at),
                   at - Lookup(table, at)[1].begin)
  ELSE Refused

----------------------------------------------------------------------------
(* Running the function. *)

Saved(upto) ==
  {text[i].reg : i \in {j \in 1 .. upto :
                          text[j].op \in {"push", "save", "savexmm"}}}

\* One instruction.  The body spoils what the prologue saved and, when the
\* function has a frame register, moves the stack pointer.
Execute(f, i) ==
  LET ins == text[i]
      sp == regs.rsp
      base == IF \E j \in 1 .. i - 1 : text[j].op = "setfp"
              THEN regs.reg[FrameRegister] - 2 * f.frame ELSE sp
      to(r, m) == regs' = r /\ mem' = m
  IN  CASE ins.op = "push" ->
             to([regs EXCEPT !.rsp = sp - 1],
                [mem EXCEPT ![sp - 1] = regs.reg[ins.reg]])
        [] ins.op = "pushfq" -> to([regs EXCEPT !.rsp = sp - 1], mem)
        [] ins.op = "alloc" -> to([regs EXCEPT !.rsp = sp - ins.n], mem)
        [] ins.op = "setfp" ->
             to([regs EXCEPT !.reg[FrameRegister] = sp + 2 * f.frame], mem)
        [] ins.op \in {"save", "savexmm"} ->
             to(regs, [mem EXCEPT ![base + ins.n] = regs.reg[ins.reg]])
        [] ins.op = "restore" ->
             to([regs EXCEPT !.reg[ins.reg] = mem[base + ins.n]], mem)
        [] ins.op = "add" -> to([regs EXCEPT !.rsp = sp + ins.n], mem)
        [] ins.op = "lea" ->
             to([regs EXCEPT !.rsp = regs.reg[FrameRegister] + ins.n], mem)
        [] ins.op = "pop" ->
             to([regs EXCEPT !.reg[ins.reg] = mem[sp], !.rsp = sp + 1], mem)
        [] ins.op = "popfq" -> to([regs EXCEPT !.rsp = sp + 1], mem)
        [] ins.op = "body" ->
             to([regs EXCEPT !.reg = [r \in Nonvolatile |->
                   IF r \in Saved(i) /\ ~(UsesFrame(f) /\ r = FrameRegister)
                   THEN Spoilt ELSE @[r]],
                 !.rsp = IF UsesFrame(f) THEN sp - 1 ELSE sp], mem)

Init ==
  /\ fn \in Functions
  /\ text = Instructions(fn)
  /\ table = Table(fn, text)
  /\ pc = 1
  /\ regs = [ok |-> TRUE, rsp |-> Entry, rip |-> 0, reg |-> Callers]
  /\ LET machine == Select(fn.first, {"mach"})
         bias == IF machine = <<>> THEN 0 ELSE machine[1].n
     IN  mem = [a \in 0 .. Base - 1 |->
                  IF a = Entry + bias THEN ReturnAddress
                  ELSE IF a = Entry + bias + 3 THEN InterruptedRsp ELSE Spoilt]

Leaves == {"ret", "jmp", "iret"}
Step ==
  /\ text[pc].op \notin Leaves
  /\ Execute(fn, pc)
  /\ pc' = pc + 1
  /\ UNCHANGED <<fn, text, table>>

Next == Step
Spec == Init /\ [][Next]_vars

----------------------------------------------------------------------------
(* Properties. *)

Answer == IF fn.version = 0 THEN Unwound(PopReturn(regs), regs.rsp, FALSE)
          ELSE VirtualUnwind(pc, regs, Address(text, pc))

\* At every instruction of every function, prologue, body or epilogue, the
\* unwinder finds the caller's stack pointer, return address and nonvolatile
\* registers; a damaged record is refused or does no harm.
CallerIsRecovered ==
  LET a == Answer IN
  /\ fn.corrupt = "none" => a.ok
  /\ a.ok => /\ a.rip = ReturnAddress
             /\ a.rsp = IF Select(fn.first, {"mach"}) = <<>> THEN Entry + 1
                        ELSE InterruptedRsp
             /\ a.reg = Callers

\* The frame's base as the function itself knows it, once its prologue is
\* done.
BodyFrame ==
  IF UsesFrame(fn) THEN regs.reg[FrameRegister] - 2 * fn.frame ELSE regs.rsp

\* Both passes name a frame by the establisher the unwinder reports, and
\* RtlUnwindEx stops where it equals its target: it is the frame's base at
\* every instruction of a body, whatever the body does to the stack pointer,
\* and a handler is offered only there or, as a version 2 record declares its
\* epilogue from the first pop on, at the add or lea before the pops.
EstablisherIsStable ==
  LET a == Answer
      inBody == text[pc].op \in {"body", "restore"}
  IN  fn.corrupt = "none" /\ fn.version # 0 =>
        /\ inBody => a.establisher = BodyFrame /\ a.handler = fn.handler
        /\ a.handler => text[pc].op \in {"body", "restore", "add", "lea"}
=============================================================================
