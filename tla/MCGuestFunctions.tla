-------------------------- MODULE MCGuestFunctions --------------------------
(* The functions a compiler may write with two pushed registers, one        *)
(* allocation and up to two saves, and one damage to their records.         *)
EXTENDS GuestFunctions

Push(r) == Op("push", r, 0)
PushSets == {<<>>, <<Push("rbx")>>, <<Push("rbp")>>, <<Push("rbp"), Push("r12")>>,
             <<Push("r12"), Push("rbp"), Push("rbx")>>}
Starts == {<<>>, <<Op("pushfq", "", 1)>>, <<Op("mach", "", 0)>>,
           <<Op("mach", "", 1)>>}
Save == Op("save", "rbx", 1)
SaveXmm == Op("savexmm", "xmm6", 0)
SetFrame == Op("setfp", FrameRegister, 0)
Ends == {<<>>, <<Op("alloc", "", 3)>>}
          \cup {<<Op("alloc", "", 3)>> \o t : t \in
                 {<<Save>>, <<SetFrame>>, <<SetFrame, Save>>, <<SaveXmm, SetFrame>>}}
Firsts == {a \o p \o e : a \in Starts, p \in PushSets, e \in Ends}
Seconds == {<<>>, <<Op("save", "r12", 2)>>, <<Op("save", "r12", 2), SaveXmm>>,
            <<Push("rbx"), Push("r12"), Op("alloc", "", 3), SaveXmm>>}

Has(s, op, reg) == \E i \in 1 .. Len(s) : s[i].op = op /\ s[i].reg = reg
Once(s) == \A i, j \in 1 .. Len(s) : i # j /\ s[i].reg # "" /\ s[i].op # "setfp"
             /\ s[j].op # "setfp" => s[i].reg # s[j].reg

\* What the calling convention allows.
WellFormed(f) ==
  /\ Once(f.first \o f.second)
  /\ ~f.chained => f.second = <<>>
  /\ f.chained /\ Has(f.second, "alloc", "") => f.first = <<>>
  /\ f.second # <<>> => Has(f.first \o f.second, "alloc", "")
  /\ UsesFrame(f) <=> Has(f.first, "setfp", FrameRegister)
  /\ UsesFrame(f) => Has(f.first, "push", FrameRegister)
  /\ Has(f.first, "pushfq", "") =>
       f.version = 2 /\ Select(f.first, {"push"}) # <<>>
  /\ Select(f.first, {"mach"}) # <<>> => f.version = 2
  /\ Has(f.first, "mach", "") /\ f.first[1].n = 1 =>
       Select(f.first, {"push"}) = <<>>
  /\ f.version = 1 => f.implicit
  /\ f.leave = "jmp" => f.corrupt = "none" /\ f.version = 1
  /\ f.version = 0 => f.first = <<>> /\ ~f.chained /\ f.corrupt = "none"
                        /\ f.implicit

Damages == {"none", "order", "prologue", "range", "setup", "register",
            "frame", "overlap"}

Functions ==
  {f \in [version : 0 .. 2, first : Firsts, second : Seconds,
          chained : BOOLEAN, frame : {None, 0, 1}, leave : {"ret", "jmp"},
          implicit : BOOLEAN, handler : {TRUE}, corrupt : Damages] :
     WellFormed(f)}
=============================================================================
