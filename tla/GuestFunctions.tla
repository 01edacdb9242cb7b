--------------------------- MODULE GuestFunctions ---------------------------
(***************************************************************************)
(* Guest functions as an x64 compiler writes them: a prologue, a body, for *)
(* a chained function a second prologue and body, and an epilogue; and the *)
(* function table with the unwind records that describe them.              *)
(***************************************************************************)
EXTENDS Integers, Sequences, SequencesExt

FrameRegister == "rbp"
None == 99                \* no frame register; otherwise its scaled offset
Op(op, reg, n) == [op |-> op, reg |-> reg, n |-> n]

Length(i) == IF i.op \in {"push", "pop"} /\ i.reg = "r12" THEN 2 ELSE 1
Bytes(s) == FoldLeft(LAMBDA sum, i : sum + Length(i), 0, s)
Select(s, ops) == SelectSeq(s, LAMBDA i : i.op \in ops)
Allocated(s) ==
  FoldLeft(LAMBDA sum, i : sum + i.n, 0, Select(s, {"alloc", "mach"}))
UsesFrame(f) == f.frame # None

\* The operations that are instructions: the CPU pushes a machine frame.
Emitted(s) == Select(s, {"push", "pushfq", "alloc", "setfp", "save", "savexmm"})

\* Restores, the stack adjustment, pops and the transfer, in this order.
Epilogue(f) ==
  LET all == f.first \o f.second
      back(s) == Reverse(s)
      restore == back(Select(all, {"save", "savexmm"}))
      pops == back(Select(all, {"push", "pushfq"}))
      n == Allocated(all)
  IN  [i \in 1 .. Len(restore) |-> [restore[i] EXCEPT !.op = "restore"]]
      \o (IF UsesFrame(f)
          THEN <<Op("lea", FrameRegister, n - 2 * f.frame)>>
          ELSE IF n > 0 THEN <<Op("add", "", n)>> ELSE <<>>)
      \o [i \in 1 .. Len(pops) |->
            [pops[i] EXCEPT !.op = IF @ = "push" THEN "pop" ELSE "popfq"]]
      \o <<Op(IF Select(f.first, {"mach"}) # <<>> THEN "iret" ELSE f.leave,
              "", 0)>>

Body == <<Op("body", "", 0)>>
Padding(f) == IF f.implicit THEN <<>> ELSE Body
Instructions(f) ==
  Emitted(f.first) \o Body
    \o (IF f.chained THEN Emitted(f.second) \o Body ELSE <<>>)
    \o Epilogue(f) \o Padding(f)
Address(code, i) == Bytes(SubSeq(code, 1, i - 1))

\* Unwind codes: the prologue's operations, last first, each at the offset
\* where its instruction ends.
CodesOf(s) ==
  Reverse([i \in 1 .. Len(s) |->
    [op |-> s[i].op, reg |-> s[i].reg, n |-> s[i].n,
     offset |-> Bytes(Emitted(SubSeq(s, 1, i)))]])

\* A version 2 record declares the bytes of its epilogue from the first pop
\* on: at the function's end, or at a distance from it.
Declared(code) == Bytes(Select(code, {"pop", "popfq", "ret", "jmp", "iret"}))
Record(f, s, chained, begin, end, size) ==
  [codes |-> CodesOf(s), begin |-> begin, end |-> end, chained |-> chained,
   version |-> f.version, frame |-> f.frame, handler |-> f.handler,
   prologue |-> Bytes(Emitted(s)),
   epilogues |-> IF f.version = 2 /\ (chained \/ ~f.chained)
                 THEN {size + Len(Padding(f))} ELSE {},
   size |-> size]

\* One damage to the record that a compiler would never write.
Corrupted(how, r) ==
  CASE how = "order"    -> [r EXCEPT !.codes = Reverse(@)]
    [] how = "prologue" -> [r EXCEPT !.prologue = 0]
    [] how = "range"    -> [r EXCEPT !.epilogues = {r.size - 1 : d \in @}]
    [] how = "setup"    -> [r EXCEPT !.codes = SelectSeq(@, LAMBDA c : c.op # "setfp")]
    [] how = "register" -> [r EXCEPT !.codes = [i \in DOMAIN @ |->
                              IF @[i].reg = "rbx" THEN [@[i] EXCEPT !.reg = "rax"]
                              ELSE @[i]]]
    [] how = "frame" /\ r.chained -> [r EXCEPT !.frame = IF @ = 1 THEN 0 ELSE 1]
    [] how = "overlap"  -> [r EXCEPT !.begin = 0]
    [] OTHER            -> r

\* The function table: a chained function has a second entry, whose record
\* names the first as its parent.
Table(f, code) ==
  LET record(s, chained, begin, end) ==
        Corrupted(f.corrupt, Record(f, s, chained, begin, end, Declared(code)))
      cut == Bytes(Emitted(f.first)) + 1
  IN  IF f.chained THEN <<record(f.first, FALSE, 0, cut),
                          record(f.second, TRUE, cut, Bytes(code))>>
      ELSE <<record(f.first, FALSE, 0, Bytes(code))>>
=============================================================================
