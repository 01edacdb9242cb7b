----------------------- MODULE ExceptionDispatchProofs -----------------------
(***************************************************************************)
(* The handler links are live, the flags true and the walks exact, for     *)
(* every kind of guest function, depth of the stack and length of a walk.  *)
(***************************************************************************)
EXTENDS ExceptionDispatch, SequenceTheorems, TLAPS

-----------------------------------------------------------------------------
(* The inductive invariant.  What it says of a frame is said of a sequence *)
(* of frames and a position in it, and looks only at that position and the *)
(* older ones: a step that leaves these alone leaves it true.              *)

GuestFrames ==
    [kind : {"function", "leaf"}, eh : BOOLEAN, uh : BOOLEAN, caller : Nat]

HostFrames ==
    [kind : {"host"}, op : {"dispatch", "unwind"},
     phase : {"walk", "handler", "filter"}, at : Nat, from : Nat, raised : Nat,
     depth : Nat, flags : SUBSET Flags, own : SUBSET Flags, target : Nat,
     previous : Nat, ran : SUBSET Nat]

Frames == GuestFrames \cup HostFrames

GuestAt(s, i) == i # ThreadEntry /\ s[i].kind # "host"

HandlerAt(s, i) == s[i].kind = "host" /\ s[i].phase = "handler"

\* What the pass a host frame makes asks of a function.
Handles(op, f) == IF op = "dispatch" THEN f.eh ELSE f.uh

\* A guest frame g at position p: its caller is the frame below unless it was
\* spoilt, and then no older frame.
GuestSound(g, p) ==
    /\ g.caller = p - 1 \/ g.caller >= p
    /\ g.kind = "leaf" => ~g.eh /\ ~g.uh

\* The frames from b up to a were walked through: they are intact guests.
Passed(s, b, a) == \A i \in b .. a : GuestAt(s, i) /\ s[i].caller = i - 1

\* The handlers that were run are those of the frames from b up to a.
RanFrom(s, h, b, a) ==
    \A i \in Nat : i \in h.ran <=> i \in b .. a /\ Handles(h.op, s[i])

\* A host frame h standing at position p walks from `from' down to `at'.
WalkSound(s, h, p) ==
    /\ GuestAt(s, p - 1)
    /\ h.from \in 1 .. p - 1
    /\ h.at \in 0 .. h.from
    /\ Passed(s, h.at + 1, h.from)
    /\ h.phase # "handler" => RanFrom(s, h, h.at + 1, h.from)

\* Its flags, and the frame an unwind ends in, which it has not passed.
FlagsSound(h) ==
    /\ h.op = "unwind" => h.target <= h.at
    /\ h.op = "dispatch" => h.target = ExitUnwind /\ "UNWINDING" \notin h.own
    /\ "TARGET_UNWIND" \notin h.own
    /\ h.phase # "handler" => h.flags = h.own

\* While the handler of frame `at' runs, that frame is an intact guest, its
\* handler is counted, and the link below belongs to an older handler call.
HandlerSound(s, h, p) ==
    h.phase = "handler" =>
        /\ Passed(s, h.at, h.from)
        /\ RanFrom(s, h, h.at, h.from)
        /\ h.flags \ {"TARGET_UNWIND"} = h.own
        /\ "TARGET_UNWIND" \in h.flags <=> h.op = "unwind" /\ AtTarget(h)
        /\ h.op = "unwind" => h.previous = NULL
        /\ h.previous # NULL => h.previous < p /\ HandlerAt(s, h.previous)

\* The filter runs once the walk has left the guest, or gone on for too long.
FilterSound(s, h) ==
    h.phase = "filter" =>
        /\ h.op = "dispatch"
        /\ h.depth >= MaxDepth \/ ~GuestAt(s, h.at)

HostSound(s, h, p) ==
    /\ WalkSound(s, h, p)
    /\ FlagsSound(h)
    /\ HandlerSound(s, h, p)
    /\ FilterSound(s, h)

FrameSound(s, p) ==
    IF s[p].kind = "host" THEN HostSound(s, s[p], p) ELSE GuestSound(s[p], p)

\* Only the newest frame walks, and it leaves room for the handler it calls.
Shape(s) ==
    \A p \in 1 .. Len(s) : s[p].kind = "host" =>
        /\ s[p].phase = "walk" <=> p = Len(s)
        /\ s[p].phase = "walk" => p <= MaxStack

StackSound(s) ==
    /\ s \in Seq(Frames)
    /\ Len(s) \in 1 .. MaxStack + 1
    /\ \A p \in 1 .. Len(s) : FrameSound(s, p)
    /\ Shape(s)

StackInv == StackSound(stack)

\* The link is a running handler's, and an unwind under way has taken it.
Linked(s, link) ==
    /\ link # NULL => link \in 1 .. Len(s) /\ HandlerAt(s, link)
    /\ s[Len(s)].kind = "host" /\ s[Len(s)].op = "unwind" => link = NULL

ActiveInv == Linked(stack, active)

\* What was resumed may be resumed, and after all it was owed.
LastInv ==
    /\ UnwindIsExact
    /\ last.kind = "continue" => "NONCONTINUABLE" \notin last.own

IndInv == StackInv /\ ActiveInv /\ LastInv

-----------------------------------------------------------------------------
(* Frames and sequences of them.                                           *)

LEMMA FrameKinds ==
  ASSUME NEW f \in Frames
  PROVE  /\ f.kind = "host" => f \in HostFrames
         /\ f.kind # "host" => f \in GuestFrames
BY DEF Frames, GuestFrames, HostFrames

LEMMA HostFields ==
  ASSUME NEW h \in HostFrames
  PROVE  /\ h \in Frames
         /\ h.kind = "host"
         /\ h.op \in {"dispatch", "unwind"}
         /\ h.phase \in {"walk", "handler", "filter"}
         /\ h.at \in Nat /\ h.from \in Nat /\ h.raised \in Nat
         /\ h.depth \in Nat /\ h.target \in Nat /\ h.previous \in Nat
         /\ h.flags \in SUBSET Flags /\ h.own \in SUBSET Flags
         /\ h.ran \in SUBSET Nat
BY DEF Frames, HostFrames

LEMMA GuestFields ==
  ASSUME NEW g \in GuestFrames
  PROVE  /\ g \in Frames
         /\ g.kind # "host"
         /\ g.kind \in {"function", "leaf"}
         /\ g.eh \in BOOLEAN /\ g.uh \in BOOLEAN /\ g.caller \in Nat
BY DEF Frames, GuestFrames

LEMMA GuestMade ==
  ASSUME NEW kind \in {"function", "leaf"}, NEW eh \in BOOLEAN,
         NEW uh \in BOOLEAN, NEW c \in Nat
  PROVE  /\ Guest(kind, eh, uh, c) \in GuestFrames
         /\ Guest(kind, eh, uh, c).kind = kind
         /\ Guest(kind, eh, uh, c).eh = eh
         /\ Guest(kind, eh, uh, c).uh = uh
         /\ Guest(kind, eh, uh, c).caller = c
BY DEF Guest, GuestFrames

LEMMA HostMade ==
  ASSUME NEW op \in {"dispatch", "unwind"}, NEW a \in Nat,
         NEW flags \in SUBSET Flags, NEW target \in Nat
  PROVE  /\ Host(op, a, flags, target) \in HostFrames
         /\ Host(op, a, flags, target).op = op
         /\ Host(op, a, flags, target).phase = "walk"
         /\ Host(op, a, flags, target).at = a
         /\ Host(op, a, flags, target).from = a
         /\ Host(op, a, flags, target).depth = 0
         /\ Host(op, a, flags, target).flags = flags
         /\ Host(op, a, flags, target).own = flags
         /\ Host(op, a, flags, target).target = target
         /\ Host(op, a, flags, target).ran = {}
<1>1. NULL \in Nat /\ {} \in SUBSET Nat
  BY DEF NULL
<1> QED
  BY <1>1 DEF Host, HostFrames

\* What the raising position edits in a host frame, and what it leaves.
LEMMA HostRaised ==
  ASSUME NEW h \in HostFrames, NEW r \in Nat, NEW k,
         k = [h EXCEPT !.raised = r]
  PROVE  /\ k \in HostFrames
         /\ k.op = h.op /\ k.phase = h.phase /\ k.at = h.at
         /\ k.from = h.from /\ k.depth = h.depth /\ k.flags = h.flags
         /\ k.own = h.own /\ k.target = h.target /\ k.previous = h.previous
         /\ k.ran = h.ran
<1>1. [h EXCEPT !.raised = r] \in HostFrames
  BY DEF HostFrames
<1> QED
  BY <1>1 DEF HostFrames

\* Sequences cut and grown, element by element.
LEMMA CutSeq ==
  ASSUME NEW S, NEW s \in Seq(S), NEW n \in 0 .. Len(s)
  PROVE  /\ SubSeq(s, 1, n) \in Seq(S)
         /\ Len(SubSeq(s, 1, n)) = n
         /\ \A i \in 1 .. n : SubSeq(s, 1, n)[i] = s[i]
<1>1. \A i \in 1 .. n : s[i] \in S
  BY ElementOfSeq
<1>2. n \in Nat
  BY LenProperties
<1> QED
  BY <1>1, <1>2, SubSeqProperties, SMTT(30)

LEMMA GrownSeq ==
  ASSUME NEW S, NEW s \in Seq(S), NEW e \in S
  PROVE  /\ Append(s, e) \in Seq(S)
         /\ Len(Append(s, e)) = Len(s) + 1
         /\ \A i \in 1 .. Len(s) : Append(s, e)[i] = s[i]
         /\ Append(s, e)[Len(s) + 1] = e
BY AppendProperties

LEMMA GrownByTwo ==
  ASSUME NEW S, NEW s \in Seq(S), NEW e \in S, NEW f \in S
  PROVE  /\ s \o <<e, f>> \in Seq(S)
         /\ Len(s \o <<e, f>>) = Len(s) + 2
         /\ \A i \in 1 .. Len(s) : (s \o <<e, f>>)[i] = s[i]
         /\ (s \o <<e, f>>)[Len(s) + 1] = e
         /\ (s \o <<e, f>>)[Len(s) + 2] = f
<1>1. <<e, f>> \in Seq(S) /\ Len(<<e, f>>) = 2 /\ <<e, f>>[1] = e /\ <<e, f>>[2] = f
  OBVIOUS
<1>2. Len(s) \in Nat
  BY LenProperties
<1> DEFINE c == s \o <<e, f>>
<1>3. /\ c \in Seq(S)
      /\ Len(c) = Len(s) + 2
      /\ \A i \in 1 .. Len(s) + 2 :
           c[i] = IF i <= Len(s) THEN s[i] ELSE <<e, f>>[i - Len(s)]
  BY <1>1, ConcatProperties
<1> HIDE DEF c
<1>4. c[Len(s) + 1] = <<e, f>>[1]
  <2>1. (Len(s) + 1) - Len(s) = 1 /\ Len(s) + 1 \in 1 .. Len(s) + 2
    BY <1>2
  <2> QED
    BY <1>2, <1>3, <2>1
<1>5. c[Len(s) + 2] = <<e, f>>[2]
  <2>1. (Len(s) + 2) - Len(s) = 2 /\ Len(s) + 2 \in 1 .. Len(s) + 2
    BY <1>2
  <2> QED
    BY <1>2, <1>3, <2>1
<1>6. \A i \in 1 .. Len(s) : c[i] = s[i]
  BY <1>2, <1>3
<1> QED
  BY <1>1, <1>3, <1>4, <1>5, <1>6 DEF c

-----------------------------------------------------------------------------
(* Older frames left alone keep what is known of them.                     *)

LEMMA WalkKept ==
  ASSUME NEW s, NEW t, NEW p \in Nat \ {0}, NEW h \in HostFrames,
         \A i \in 1 .. p - 1 : t[i] = s[i],
         WalkSound(s, h, p)
  PROVE  WalkSound(t, h, p)
<1>1. /\ GuestAt(s, p - 1)
      /\ h.from \in 1 .. p - 1
      /\ h.at \in 0 .. h.from
      /\ Passed(s, h.at + 1, h.from)
      /\ h.phase # "handler" => RanFrom(s, h, h.at + 1, h.from)
  BY DEF WalkSound
<1>2. \A i \in h.at + 1 .. h.from : t[i] = s[i]
  BY <1>1, HostFields
<1>3. GuestAt(t, p - 1)
  <2>1. p - 1 # ThreadEntry
    BY <1>1 DEF GuestAt
  <2>2. t[p - 1] = s[p - 1]
    BY <2>1 DEF ThreadEntry
  <2> QED
    BY <1>1, <2>1, <2>2 DEF GuestAt
<1>4. Passed(t, h.at + 1, h.from)
  BY <1>1, <1>2 DEF Passed, GuestAt
<1>5. h.phase # "handler" => RanFrom(t, h, h.at + 1, h.from)
  BY <1>1, <1>2 DEF RanFrom
<1> QED
  BY <1>1, <1>3, <1>4, <1>5 DEF WalkSound

LEMMA HandlerKept ==
  ASSUME NEW s, NEW t, NEW p \in Nat \ {0}, NEW h \in HostFrames,
         \A i \in 1 .. p - 1 : t[i] = s[i],
         h.from \in 1 .. p - 1, HandlerSound(s, h, p)
  PROVE  HandlerSound(t, h, p)
<1> SUFFICES ASSUME h.phase = "handler"
             PROVE  /\ Passed(t, h.at, h.from)
                    /\ RanFrom(t, h, h.at, h.from)
                    /\ h.previous # NULL =>
                         h.previous < p /\ HandlerAt(t, h.previous)
  BY DEF HandlerSound
<1>1. /\ Passed(s, h.at, h.from)
      /\ RanFrom(s, h, h.at, h.from)
      /\ h.previous # NULL => h.previous < p /\ HandlerAt(s, h.previous)
  BY DEF HandlerSound
<1>2. h.at \in Nat /\ h.previous \in Nat
  BY HostFields
<1>3. \A i \in h.at .. h.from : i # 0
  BY <1>1 DEF Passed, GuestAt, ThreadEntry
<1>4. \A i \in h.at .. h.from : t[i] = s[i]
  BY <1>2, <1>3
<1>5. Passed(t, h.at, h.from)
  BY <1>1, <1>4 DEF Passed, GuestAt
<1>6. RanFrom(t, h, h.at, h.from)
  BY <1>1, <1>4 DEF RanFrom
<1>7. h.previous # NULL => t[h.previous] = s[h.previous]
  BY <1>1, <1>2 DEF NULL
<1> QED
  BY <1>1, <1>5, <1>6, <1>7 DEF HandlerAt

LEMMA HostKept ==
  ASSUME NEW s, NEW t, NEW p \in Nat \ {0}, NEW h \in HostFrames,
         \A i \in 1 .. p - 1 : t[i] = s[i],
         HostSound(s, h, p)
  PROVE  HostSound(t, h, p)
<1>1. WalkSound(s, h, p) /\ FlagsSound(h) /\ HandlerSound(s, h, p)
  BY DEF HostSound
<1>2. h.from \in 1 .. p - 1 /\ h.at \in 0 .. h.from
  BY <1>1 DEF WalkSound
<1>3. WalkSound(t, h, p)
  BY <1>1, WalkKept
<1>4. HandlerSound(t, h, p)
  BY <1>1, <1>2, HandlerKept
<1>5. h.at # 0 => t[h.at] = s[h.at]
  BY <1>2, HostFields
<1>6. FilterSound(t, h)
  BY <1>5 DEF HostSound, FilterSound, GuestAt, ThreadEntry
<1> QED
  BY <1>1, <1>3, <1>4, <1>6 DEF HostSound

LEMMA FrameKept ==
  ASSUME NEW s, NEW t, NEW p \in Nat \ {0}, s[p] \in Frames,
         \A i \in 1 .. p : t[i] = s[i],
         FrameSound(s, p)
  PROVE  FrameSound(t, p)
<1>1. t[p] = s[p] /\ \A i \in 1 .. p - 1 : t[i] = s[i]
  OBVIOUS
<1>2. CASE s[p].kind = "host"
  <2>1. s[p] \in HostFrames /\ HostSound(s, s[p], p)
    BY <1>2, FrameKinds DEF FrameSound
  <2>2. HostSound(t, s[p], p)
    BY <1>1, <2>1, HostKept
  <2> QED
    BY <1>1, <1>2, <2>2 DEF FrameSound
<1>3. CASE s[p].kind # "host"
  BY <1>1, <1>3 DEF FrameSound
<1> QED
  BY <1>2, <1>3

\* The frames up to k are kept, those above them are new.
LEMMA StackKept ==
  ASSUME NEW s, StackSound(s), NEW t \in Seq(Frames), NEW k \in 0 .. Len(s),
         Len(t) \in 1 .. MaxStack + 1, k <= Len(t),
         \A i \in 1 .. k : t[i] = s[i],
         k = Len(s) \/ k = Len(t) => s[k].kind # "host",
         \A p \in k + 1 .. Len(t) :
            /\ FrameSound(t, p)
            /\ t[p].kind = "host" => /\ t[p].phase = "walk" <=> p = Len(t)
                                     /\ t[p].phase = "walk" => p <= MaxStack
  PROVE  StackSound(t)
<1>1. s \in Seq(Frames) /\ Len(s) \in Nat /\ Len(t) \in Nat
  BY LenProperties DEF StackSound
<1>2. \A p \in 1 .. Len(s) : s[p] \in Frames
  BY <1>1, ElementOfSeq
<1>3. \A p \in 1 .. Len(t) : p \in 1 .. k \/ p \in k + 1 .. Len(t)
  BY <1>1
<1>4. ASSUME NEW p \in 1 .. k
      PROVE  /\ FrameSound(t, p)
             /\ t[p].kind = "host" => t[p].phase # "walk" /\ p # Len(t)
  <2>1. p \in 1 .. Len(s) /\ p \in Nat \ {0} /\ t[p] = s[p]
    BY <1>1
  <2>2. \A i \in 1 .. p : t[i] = s[i]
    BY <1>1
  <2>3. FrameSound(t, p)
    <3>1. FrameSound(s, p)
      BY <2>1 DEF StackSound
    <3> QED
      BY <1>2, <2>1, <2>2, <3>1, FrameKept
  <2>4. s[p].kind = "host" => (s[p].phase = "walk" <=> p = Len(s))
    BY <2>1 DEF StackSound, Shape
  <2>5. s[p].kind = "host" => p # Len(s) /\ p # Len(t)
    BY <1>1
  <2> QED
    BY <2>1, <2>3, <2>4, <2>5
<1>5. \A p \in 1 .. Len(t) : FrameSound(t, p)
  BY <1>3, <1>4
<1>6. Shape(t)
  <2> SUFFICES ASSUME NEW p \in 1 .. Len(t), t[p].kind = "host"
               PROVE  /\ t[p].phase = "walk" <=> p = Len(t)
                      /\ t[p].phase = "walk" => p <= MaxStack
    BY DEF Shape
  <2> QED
    BY <1>3, <1>4
<1> QED
  BY <1>5, <1>6 DEF StackSound

-----------------------------------------------------------------------------
(* What the steps do to the stack.                                         *)

LEMMA StackFacts ==
  ASSUME NEW s, StackSound(s)
  PROVE  /\ s \in Seq(Frames)
         /\ Len(s) \in Nat /\ Len(s) \in 1 .. MaxStack + 1
         /\ MaxStack \in Nat
         /\ \A p \in 1 .. Len(s) : s[p] \in Frames /\ FrameSound(s, p)
<1>1. s \in Seq(Frames) /\ \A p \in 1 .. Len(s) : FrameSound(s, p)
  BY DEF StackSound
<1>2. \A p \in 1 .. Len(s) : s[p] \in Frames
  BY <1>1, ElementOfSeq
<1> QED
  BY <1>1, <1>2, ExceptionAssumption, LenProperties DEF StackSound

LEMMA Cut ==
  ASSUME NEW s, StackSound(s), NEW n \in 1 .. Len(s), s[n].kind # "host"
  PROVE  /\ StackSound(SubSeq(s, 1, n))
         /\ Len(SubSeq(s, 1, n)) = n
         /\ \A i \in 1 .. n : SubSeq(s, 1, n)[i] = s[i]
<1>1. /\ s \in Seq(Frames) /\ Len(s) \in Nat /\ Len(s) \in 1 .. MaxStack + 1
      /\ MaxStack \in Nat
  BY StackFacts
<1>2. n \in 0 .. Len(s) /\ n \in 1 .. MaxStack + 1 /\ n <= n
  BY <1>1
<1> DEFINE t == SubSeq(s, 1, n)
<1>3. t \in Seq(Frames) /\ Len(t) = n /\ \A i \in 1 .. n : t[i] = s[i]
  BY <1>1, <1>2, CutSeq
<1> HIDE DEF t
<1>4. \A p \in n + 1 .. Len(t) : FALSE
  BY <1>2, <1>3
<1>5. StackSound(t)
  BY <1>2, <1>3, <1>4, StackKept
<1> QED
  BY <1>3, <1>5 DEF t

LEMMA PushGuest ==
  ASSUME NEW s, StackSound(s), s[Len(s)].kind # "host", Len(s) <= MaxStack,
         NEW g \in GuestFrames, GuestSound(g, Len(s) + 1)
  PROVE  /\ StackSound(Append(s, g))
         /\ Len(Append(s, g)) = Len(s) + 1
         /\ \A i \in 1 .. Len(s) : Append(s, g)[i] = s[i]
         /\ Append(s, g)[Len(s) + 1] = g
<1>1. /\ s \in Seq(Frames) /\ Len(s) \in Nat /\ Len(s) \in 1 .. MaxStack + 1
      /\ MaxStack \in Nat
  BY StackFacts
<1>2. g \in Frames /\ g.kind # "host"
  BY GuestFields
<1> DEFINE t == Append(s, g)
<1>3. /\ t \in Seq(Frames) /\ Len(t) = Len(s) + 1 /\ t[Len(s) + 1] = g
      /\ \A i \in 1 .. Len(s) : t[i] = s[i]
  BY <1>1, <1>2, GrownSeq
<1> HIDE DEF t
<1>4. Len(s) \in 0 .. Len(s) /\ Len(t) \in 1 .. MaxStack + 1 /\ Len(s) <= Len(t)
  BY <1>1, <1>3
<1>5. \A p \in Len(s) + 1 .. Len(t) : p = Len(s) + 1
  BY <1>1, <1>3
<1>6. FrameSound(t, Len(s) + 1) /\ t[Len(s) + 1].kind # "host"
  BY <1>2, <1>3 DEF FrameSound
<1>7. \A p \in Len(s) + 1 .. Len(t) : FrameSound(t, p) /\ t[p].kind # "host"
  BY <1>5, <1>6
<1>8. Len(s) = Len(s) \/ Len(s) = Len(t) => s[Len(s)].kind # "host"
  OBVIOUS
<1>9. StackSound(t)
  BY <1>3, <1>4, <1>7, <1>8, StackKept
<1> QED
  BY <1>3, <1>9 DEF t

LEMMA Spoil ==
  ASSUME NEW s, StackSound(s), s[Len(s)].kind # "host",
         NEW c \in Nat, c >= Len(s)
  PROVE  LET t == [s EXCEPT ![Len(s)].caller = c]
         IN  /\ StackSound(t)
             /\ Len(t) = Len(s)
             /\ \A i \in 1 .. Len(s) - 1 : t[i] = s[i]
             /\ t[Len(s)].kind # "host"
<1>1. /\ s \in Seq(Frames) /\ Len(s) \in Nat /\ Len(s) \in 1 .. MaxStack + 1
      /\ MaxStack \in Nat
      /\ Len(s) \in 1 .. Len(s)
      /\ s[Len(s)] \in Frames /\ FrameSound(s, Len(s))
  BY StackFacts
<1>2. s[Len(s)] \in GuestFrames /\ GuestSound(s[Len(s)], Len(s))
  BY <1>1, FrameKinds DEF FrameSound
<1> DEFINE g == [s[Len(s)] EXCEPT !.caller = c]
           t == [s EXCEPT ![Len(s)] = g]
<1>3. g \in GuestFrames
  BY <1>2 DEF GuestFrames
<1>4. /\ g.caller = c /\ g.kind = s[Len(s)].kind
      /\ g.eh = s[Len(s)].eh /\ g.uh = s[Len(s)].uh
  BY <1>2 DEF GuestFrames
<1> HIDE DEF g
<1>5. g \in Frames /\ g.kind # "host" /\ GuestSound(g, Len(s))
  BY <1>2, <1>3, <1>4, GuestFields DEF GuestSound
<1>6. /\ t \in Seq(Frames) /\ Len(t) = Len(s)
      /\ \A j \in 1 .. Len(s) : t[j] = IF j = Len(s) THEN g ELSE s[j]
  BY <1>1, <1>5, ExceptSeq
<1> HIDE DEF t
<1>7. t[Len(s)] = g /\ \A i \in 1 .. Len(s) - 1 : t[i] = s[i]
  BY <1>1, <1>6
<1>8. /\ Len(s) - 1 \in 0 .. Len(s) /\ Len(t) \in 1 .. MaxStack + 1
      /\ Len(s) - 1 <= Len(t)
      /\ ~(Len(s) - 1 = Len(s)) /\ ~(Len(s) - 1 = Len(t))
  BY <1>1, <1>6
<1>9. \A p \in (Len(s) - 1) + 1 .. Len(t) : p = Len(s)
  BY <1>1, <1>6
<1>10. FrameSound(t, Len(s)) /\ t[Len(s)].kind # "host"
  BY <1>5, <1>7 DEF FrameSound
<1>11. \A p \in (Len(s) - 1) + 1 .. Len(t) : FrameSound(t, p) /\ t[p].kind # "host"
  BY <1>9, <1>10
<1>12. StackSound(t)
  BY <1>6, <1>7, <1>8, <1>11, StackKept
<1>13. [s EXCEPT ![Len(s)].caller = c] = t
  BY DEF t, g
<1> QED
  BY <1>6, <1>7, <1>10, <1>12, <1>13

\* A host frame that begins, or goes on with, its walk above frame n.
LEMMA PushWalk ==
  ASSUME NEW s, StackSound(s), NEW n \in 0 .. Len(s), n + 1 <= MaxStack,
         NEW h \in HostFrames, h.phase = "walk", HostSound(s, h, n + 1)
  PROVE  LET t == Append(SubSeq(s, 1, n), h)
         IN  /\ StackSound(t)
             /\ Len(t) = n + 1
             /\ \A i \in 1 .. n : t[i] = s[i]
             /\ t[n + 1] = h
<1>1. /\ s \in Seq(Frames) /\ Len(s) \in Nat /\ Len(s) \in 1 .. MaxStack + 1
      /\ MaxStack \in Nat /\ n \in Nat /\ n + 1 \in Nat \ {0}
  BY StackFacts
<1>2. h \in Frames /\ h.kind = "host"
  BY HostFields
<1>3. n # 0 /\ s[n].kind # "host"
  <2>1. GuestAt(s, (n + 1) - 1)
    BY DEF HostSound, WalkSound
  <2>2. (n + 1) - 1 = n
    BY <1>1
  <2> QED
    BY <2>1, <2>2 DEF GuestAt, ThreadEntry
<1> DEFINE b == SubSeq(s, 1, n)
           t == Append(b, h)
<1>4. b \in Seq(Frames) /\ Len(b) = n /\ \A i \in 1 .. n : b[i] = s[i]
  BY <1>1, CutSeq
<1> HIDE DEF b
<1>5. /\ t \in Seq(Frames) /\ Len(t) = n + 1 /\ t[n + 1] = h
      /\ \A i \in 1 .. n : t[i] = s[i]
  BY <1>2, <1>4, GrownSeq
<1> HIDE DEF t
<1>6. Len(t) \in 1 .. MaxStack + 1 /\ n <= Len(t)
  BY <1>1, <1>5
<1>7. \A p \in n + 1 .. Len(t) : p = n + 1
  BY <1>1, <1>5
<1>8. HostSound(t, h, n + 1)
  <2>1. (n + 1) - 1 = n
    BY <1>1
  <2> QED
    BY <1>1, <1>5, <2>1, HostKept
<1>9. FrameSound(t, n + 1)
  BY <1>2, <1>5, <1>8 DEF FrameSound
<1>10. \A p \in n + 1 .. Len(t) :
          /\ FrameSound(t, p)
          /\ t[p].kind = "host" => /\ t[p].phase = "walk" <=> p = Len(t)
                                   /\ t[p].phase = "walk" => p <= MaxStack
  BY <1>5, <1>7, <1>9
<1>11. StackSound(t)
  BY <1>3, <1>5, <1>6, <1>10, StackKept
<1> QED
  BY <1>5, <1>11 DEF t, b

\* A host frame above frame n that calls a guest function.
LEMMA PushCall ==
  ASSUME NEW s, StackSound(s), NEW n \in 0 .. Len(s), n + 1 <= MaxStack,
         NEW h \in HostFrames, h.phase # "walk", HostSound(s, h, n + 1),
         NEW g \in GuestFrames, GuestSound(g, n + 2)
  PROVE  LET t == SubSeq(s, 1, n) \o <<h, g>>
         IN  /\ StackSound(t)
             /\ Len(t) = n + 2
             /\ \A i \in 1 .. n : t[i] = s[i]
             /\ t[n + 1] = h
             /\ t[n + 2] = g
<1>1. /\ s \in Seq(Frames) /\ Len(s) \in Nat /\ Len(s) \in 1 .. MaxStack + 1
      /\ MaxStack \in Nat /\ n \in Nat /\ n + 1 \in Nat \ {0}
  BY StackFacts
<1>2. h \in Frames /\ h.kind = "host" /\ g \in Frames /\ g.kind # "host"
  BY HostFields, GuestFields
<1>3. n # 0 /\ s[n].kind # "host"
  <2>1. GuestAt(s, (n + 1) - 1)
    BY DEF HostSound, WalkSound
  <2>2. (n + 1) - 1 = n
    BY <1>1
  <2> QED
    BY <2>1, <2>2 DEF GuestAt, ThreadEntry
<1> DEFINE b == SubSeq(s, 1, n)
           t == b \o <<h, g>>
<1>4. b \in Seq(Frames) /\ Len(b) = n /\ \A i \in 1 .. n : b[i] = s[i]
  BY <1>1, CutSeq
<1> HIDE DEF b
<1>5. /\ t \in Seq(Frames) /\ Len(t) = n + 2 /\ t[n + 1] = h /\ t[n + 2] = g
      /\ \A i \in 1 .. n : t[i] = s[i]
  BY <1>2, <1>4, GrownByTwo
<1> HIDE DEF t
<1>6. Len(t) \in 1 .. MaxStack + 1 /\ n <= Len(t) /\ n + 1 # Len(t)
  BY <1>1, <1>5
<1>7. \A p \in n + 1 .. Len(t) : p = n + 1 \/ p = n + 2
  BY <1>1, <1>5
<1>8. HostSound(t, h, n + 1)
  <2>1. (n + 1) - 1 = n
    BY <1>1
  <2> QED
    BY <1>1, <1>5, <2>1, HostKept
<1>9. FrameSound(t, n + 1) /\ FrameSound(t, n + 2)
  BY <1>2, <1>5, <1>8 DEF FrameSound
<1>10. \A p \in n + 1 .. Len(t) :
          /\ FrameSound(t, p)
          /\ t[p].kind = "host" => /\ t[p].phase = "walk" <=> p = Len(t)
                                   /\ t[p].phase = "walk" => p <= MaxStack
  BY <1>2, <1>5, <1>6, <1>7, <1>9
<1>11. StackSound(t)
  BY <1>3, <1>5, <1>6, <1>10, StackKept
<1> QED
  BY <1>5, <1>11 DEF t, b

-----------------------------------------------------------------------------
(* The steps of a walk.                                                    *)

LEMMA CallerOf ==
  ASSUME NEW s, StackSound(s), NEW i \in 1 .. Len(s), s[i].kind # "host"
  PROVE  /\ s[i].caller \in Nat
         /\ s[i].caller < i => s[i].caller = i - 1
         /\ s[i].kind = "leaf" => ~s[i].eh /\ ~s[i].uh
         /\ s[i].eh \in BOOLEAN /\ s[i].uh \in BOOLEAN
<1>1. s[i] \in Frames /\ FrameSound(s, i)
  BY StackFacts
<1>2. s[i] \in GuestFrames /\ GuestSound(s[i], i)
  BY <1>1, FrameKinds DEF FrameSound
<1>3. s[i].caller \in Nat /\ s[i].eh \in BOOLEAN /\ s[i].uh \in BOOLEAN
  BY <1>2, GuestFields
<1> QED
  BY <1>2, <1>3 DEF GuestSound

\* A host frame below which a guest ran.
LEMMA HostAt ==
  ASSUME NEW s, StackSound(s), NEW p \in 1 .. Len(s), s[p].kind = "host"
  PROVE  /\ s[p] \in HostFrames
         /\ HostSound(s, s[p], p)
         /\ p - 1 \in 1 .. Len(s) /\ s[p - 1].kind # "host"
         /\ s[p].from \in 1 .. p - 1 /\ s[p].at \in 0 .. s[p].from
         /\ s[p].at \in 0 .. Len(s)
         /\ s[p].phase = "walk" <=> p = Len(s)
         /\ s[p].phase = "walk" => p <= MaxStack
<1>1. s[p] \in Frames /\ FrameSound(s, p) /\ Len(s) \in Nat
  BY StackFacts
<1>2. s[p] \in HostFrames /\ HostSound(s, s[p], p)
  BY <1>1, FrameKinds DEF FrameSound
<1>3. /\ GuestAt(s, p - 1)
      /\ s[p].from \in 1 .. p - 1 /\ s[p].at \in 0 .. s[p].from
  BY <1>2 DEF HostSound, WalkSound
<1>4. p - 1 \in 1 .. Len(s) /\ s[p - 1].kind # "host" /\ s[p].at \in 0 .. Len(s)
  BY <1>1, <1>3 DEF GuestAt, ThreadEntry
<1>5. /\ s[p].phase = "walk" <=> p = Len(s)
      /\ s[p].phase = "walk" => p <= MaxStack
  BY DEF StackSound, Shape
<1> QED
  BY <1>2, <1>3, <1>4, <1>5

LEMMA WalkBegins ==
  ASSUME NEW s, NEW n \in Nat \ {0}, s[n].kind # "host",
         NEW h \in HostFrames, h.phase = "walk", h.from \in 1 .. n,
         h.at = h.from, h.ran = {}, FlagsSound(h)
  PROVE  HostSound(s, h, n + 1)
<1>1. (n + 1) - 1 = n /\ h.at \in 0 .. h.from
  OBVIOUS
<1>2. \A i \in h.at + 1 .. h.from : FALSE
  BY <1>1
<1>3. WalkSound(s, h, n + 1)
  <2>1. GuestAt(s, (n + 1) - 1)
    BY <1>1 DEF GuestAt, ThreadEntry
  <2>2. Passed(s, h.at + 1, h.from) /\ RanFrom(s, h, h.at + 1, h.from)
    BY <1>2 DEF Passed, RanFrom
  <2> QED
    BY <1>1, <2>1, <2>2 DEF WalkSound
<1>4. HandlerSound(s, h, n + 1) /\ FilterSound(s, h)
  BY DEF HandlerSound, FilterSound
<1> QED
  BY <1>3, <1>4 DEF HostSound

\* The walk leaves the intact frame `at': its handler was run or there is none.
LEMMA WalkAdvances ==
  ASSUME NEW s, NEW p \in Nat \ {0}, NEW h \in HostFrames, HostSound(s, h, p),
         GuestAt(s, h.at), s[h.at].caller = h.at - 1,
         \/ h.phase = "handler"
         \/ h.phase = "walk" /\ ~Handles(h.op, s[h.at]),
         h.op = "unwind" => h.target # h.at,
         NEW k \in HostFrames, k.op = h.op, k.phase = "walk",
         k.at = h.at - 1, k.from = h.from, k.flags = h.own, k.own = h.own,
         k.target = h.target, k.ran = h.ran
  PROVE  HostSound(s, k, p)
<1>1. /\ WalkSound(s, h, p) /\ FlagsSound(h) /\ HandlerSound(s, h, p)
      /\ h.at \in Nat /\ h.target \in Nat /\ h.from \in Nat /\ h.ran \in SUBSET Nat
  BY HostFields DEF HostSound
<1>2. h.at # 0 /\ h.at \in 1 .. h.from
  BY <1>1 DEF GuestAt, ThreadEntry, WalkSound
<1>3. k.at + 1 = h.at /\ k.at \in 0 .. h.from
  BY <1>1, <1>2
<1>4. Passed(s, h.at, h.from)
  <2>1. Passed(s, h.at + 1, h.from)
    BY <1>1 DEF WalkSound
  <2>2. \A i \in h.at .. h.from : i = h.at \/ i \in h.at + 1 .. h.from
    BY <1>1
  <2> QED
    BY <2>1, <2>2 DEF Passed
<1>5. RanFrom(s, k, h.at, h.from)
  <2>1. CASE h.phase = "handler"
    BY <1>1, <2>1 DEF HandlerSound, RanFrom
  <2>2. CASE h.phase = "walk" /\ ~Handles(h.op, s[h.at])
    <3>1. RanFrom(s, h, h.at + 1, h.from)
      BY <1>1, <2>2 DEF WalkSound
    <3>2. \A i \in Nat : i \in h.at .. h.from <=>
                            i = h.at \/ i \in h.at + 1 .. h.from
      BY <1>1, <1>2
    <3>3. \A i \in Nat : i \in k.ran <=>
             i \in h.at + 1 .. h.from /\ Handles(k.op, s[i])
      BY <3>1 DEF RanFrom
    <3>4. ~Handles(k.op, s[h.at])
      BY <2>2
    <3>5. h.at \notin h.at + 1 .. h.from
      BY <1>1
    <3> QED
      BY <3>2, <3>3, <3>4, <3>5 DEF RanFrom
  <2> QED
    BY <2>1, <2>2
<1>6. WalkSound(s, k, p)
  BY <1>1, <1>3, <1>4, <1>5 DEF WalkSound
<1>7. FlagsSound(k)
  <2>1. k.op = "unwind" => k.target <= k.at
    BY <1>1, <1>2 DEF FlagsSound
  <2> QED
    BY <1>1, <2>1 DEF FlagsSound
<1>8. HandlerSound(s, k, p) /\ FilterSound(s, k)
  BY DEF HandlerSound, FilterSound
<1> QED
  BY <1>6, <1>7, <1>8 DEF HostSound

\* The walk calls the handler of the intact frame `at'.
LEMMA HandlerIsCalled ==
  ASSUME NEW s, NEW p \in Nat \ {0}, NEW h \in HostFrames, HostSound(s, h, p),
         h.phase = "walk", GuestAt(s, h.at), s[h.at].caller = h.at - 1,
         Handles(h.op, s[h.at]),
         NEW k \in HostFrames, k.op = h.op, k.phase = "handler",
         k.at = h.at, k.from = h.from, k.own = h.own, k.target = h.target,
         k.ran = h.ran \cup {h.at},
         k.flags \ {"TARGET_UNWIND"} = h.own,
         "TARGET_UNWIND" \in k.flags <=> h.op = "unwind" /\ AtTarget(h),
         h.op = "unwind" => k.previous = NULL,
         k.previous # NULL => k.previous < p /\ HandlerAt(s, k.previous)
  PROVE  HostSound(s, k, p)
<1>1. /\ WalkSound(s, h, p) /\ FlagsSound(h)
      /\ h.at \in Nat /\ h.from \in Nat /\ h.ran \in SUBSET Nat
  BY HostFields DEF HostSound
<1>2. Passed(s, h.at, h.from)
  <2>1. Passed(s, h.at + 1, h.from)
    BY <1>1 DEF WalkSound
  <2>2. \A i \in h.at .. h.from : i = h.at \/ i \in h.at + 1 .. h.from
    BY <1>1
  <2> QED
    BY <2>1, <2>2 DEF Passed
<1>3. RanFrom(s, k, h.at, h.from)
  <2>1. RanFrom(s, h, h.at + 1, h.from)
    BY <1>1 DEF WalkSound
  <2>2. h.at <= h.from
    BY <1>1 DEF WalkSound
  <2>3. \A i \in Nat : i \in h.at .. h.from <=>
                          i = h.at \/ i \in h.at + 1 .. h.from
    BY <1>1, <2>2
  <2>4. \A i \in Nat : i \in k.ran <=> i = h.at \/ i \in h.ran
    OBVIOUS
  <2>5. \A i \in Nat : i \in h.ran <=>
           i \in h.at + 1 .. h.from /\ Handles(k.op, s[i])
    BY <2>1 DEF RanFrom
  <2>6. Handles(k.op, s[h.at])
    OBVIOUS
  <2> QED
    BY <2>3, <2>4, <2>5, <2>6 DEF RanFrom
<1>4. WalkSound(s, k, p)
  BY <1>1 DEF WalkSound
<1>5. FlagsSound(k)
  BY <1>1 DEF FlagsSound
<1>6. HandlerSound(s, k, p)
  BY <1>2, <1>3 DEF HandlerSound, AtTarget
<1>7. FilterSound(s, k)
  BY DEF FilterSound
<1> QED
  BY <1>4, <1>5, <1>6, <1>7 DEF HostSound

LEMMA FilterIsCalled ==
  ASSUME NEW s, NEW p \in Nat \ {0}, NEW h \in HostFrames, HostSound(s, h, p),
         h.phase = "walk", h.op = "dispatch",
         h.depth >= MaxDepth \/ ~GuestAt(s, h.at),
         NEW k \in HostFrames, k.op = h.op, k.phase = "filter",
         k.at = h.at, k.from = h.from, k.depth = h.depth, k.flags = h.flags,
         k.own = h.own, k.target = h.target, k.ran = h.ran
  PROVE  HostSound(s, k, p)
<1>1. WalkSound(s, h, p) /\ FlagsSound(h)
  BY DEF HostSound
<1>2. WalkSound(s, k, p) /\ FlagsSound(k)
  BY <1>1 DEF WalkSound, FlagsSound, RanFrom
<1>3. HandlerSound(s, k, p) /\ FilterSound(s, k)
  BY DEF HandlerSound, FilterSound
<1> QED
  BY <1>2, <1>3 DEF HostSound

-----------------------------------------------------------------------------
(* The steps of guest code.                                                *)

LEMMA InitOk ==
  ASSUME Init
  PROVE  IndInv
<1>1. PICK k \in GuestKinds :
        stack = <<Guest(k.kind, k.eh, k.uh, ThreadEntry)>>
  BY DEF Init
<1>2. /\ k.kind \in {"function", "leaf"} /\ k.eh \in BOOLEAN /\ k.uh \in BOOLEAN
      /\ k.kind = "leaf" => ~k.eh /\ ~k.uh
  <2>1. k \in GuestKind
    BY <1>1, ExceptionAssumption
  <2> QED
    BY <2>1 DEF GuestKind
<1> DEFINE g == Guest(k.kind, k.eh, k.uh, ThreadEntry)
<1>3. /\ g \in GuestFrames /\ g.kind = k.kind /\ g.eh = k.eh /\ g.uh = k.uh
      /\ g.caller = 0
  <2>1. ThreadEntry \in Nat /\ ThreadEntry = 0
    BY DEF ThreadEntry
  <2> QED
    BY <1>2, <2>1, GuestMade
<1>4. stack = <<g>>
  BY <1>1
<1> HIDE DEF g
<1>5. g \in Frames /\ g.kind # "host"
  BY <1>3, GuestFields
<1>6. /\ stack \in Seq(Frames) /\ Len(stack) = 1 /\ stack[1] = g
      /\ Len(stack) \in 1 .. MaxStack + 1
  BY <1>4, <1>5, ExceptionAssumption
<1>7. GuestSound(g, 1)
  BY <1>2, <1>3 DEF GuestSound
<1>8. \A p \in 1 .. Len(stack) : FrameSound(stack, p) /\ stack[p].kind # "host"
  BY <1>5, <1>6, <1>7 DEF FrameSound
<1>9. StackInv
  BY <1>6, <1>8 DEF StackInv, StackSound, Shape
<1>10. active = NULL /\ last = Nothing
  BY DEF Init
<1>11. ActiveInv
  BY <1>10 DEF ActiveInv, Linked
<1>12. LastInv
  BY <1>10 DEF LastInv, UnwindIsExact, Nothing
<1> QED
  BY <1>9, <1>11, <1>12 DEF IndInv

\* The invariant of a stack, a link and a resumption to come.
LEMMA IndInvPrime ==
  ASSUME StackSound(stack'), Linked(stack', active'), LastInv'
  PROVE  IndInv'
BY DEF IndInv, StackInv, ActiveInv

LEMMA NothingResumed ==
  ASSUME last' = Nothing
  PROVE  LastInv'
BY DEF LastInv, UnwindIsExact, Nothing

LEMMA InvFacts ==
  ASSUME IndInv
  PROVE  /\ StackSound(stack) /\ Linked(stack, active)
         /\ stack \in Seq(Frames)
         /\ Len(stack) \in Nat /\ Len(stack) \in 1 .. Len(stack)
         /\ Len(stack) <= MaxStack + 1 /\ MaxStack \in Nat
BY StackFacts DEF IndInv, StackInv, ActiveInv

\* A link is kept with the frame it names, below a guest on top.
LEMMA LinkKept ==
  ASSUME NEW s, StackSound(s), NEW t, StackSound(t), NEW link, Linked(s, link),
         NEW k \in 0 .. Len(s), k <= Len(t), \A i \in 1 .. k : t[i] = s[i],
         link # NULL => link <= k,
         \/ t[Len(t)].kind # "host"
         \/ t[Len(t)].op # "unwind"
         \/ link = NULL
  PROVE  Linked(t, link)
<1>1. Len(s) \in Nat /\ Len(t) \in Nat
  BY StackFacts
<1>2. link # NULL => link \in 1 .. k /\ link \in 1 .. Len(t) /\ HandlerAt(s, link)
  BY <1>1 DEF Linked
<1>3. link # NULL => HandlerAt(t, link)
  BY <1>2 DEF HandlerAt
<1> QED
  BY <1>2, <1>3 DEF Linked

\* The running guest frame is on top, and no link names it.
LEMMA RunningTop ==
  ASSUME IndInv, Running
  PROVE  /\ stack[Len(stack)].kind # "host"
         /\ active # NULL => active \in 1 .. Len(stack) - 1
<1>1. Linked(stack, active) /\ Len(stack) \in Nat
  BY InvFacts
<1>2. stack[Len(stack)].kind # "host"
  BY DEF Running, IsGuest, Here
<1> QED
  BY <1>1, <1>2 DEF Linked, HandlerAt

LEMMA AbortStep ==
  ASSUME IndInv, Abort
  PROVE  IndInv'
<1>1. stack' = stack /\ active' = active /\ last' = Nothing
  BY DEF Abort
<1>2. StackSound(stack') /\ Linked(stack', active')
  BY <1>1, InvFacts
<1> QED
  BY <1>1, <1>2, NothingResumed, IndInvPrime

LEMMA CallStep ==
  ASSUME IndInv, NEW k \in GuestKinds, Call(k)
  PROVE  IndInv'
<1> DEFINE n == Len(stack)
           g == Guest(k.kind, k.eh, k.uh, n)
<1>1. /\ Running /\ n < MaxStack /\ stack' = Append(stack, g)
      /\ last' = Nothing /\ active' = active
  BY DEF Call, Here
<1>2. /\ StackSound(stack) /\ Linked(stack, active)
      /\ n \in Nat /\ n \in 0 .. n /\ MaxStack \in Nat
  BY InvFacts
<1>3. stack[n].kind # "host" /\ (active # NULL => active <= n)
  BY <1>1, <1>2, RunningTop
<1>4. /\ k.kind \in {"function", "leaf"} /\ k.eh \in BOOLEAN /\ k.uh \in BOOLEAN
      /\ k.kind = "leaf" => ~k.eh /\ ~k.uh
  <2>1. k \in GuestKind
    BY ExceptionAssumption
  <2> QED
    BY <2>1 DEF GuestKind
<1>5. /\ g \in GuestFrames /\ g.kind = k.kind /\ g.eh = k.eh /\ g.uh = k.uh
      /\ g.caller = n
  BY <1>2, <1>4, GuestMade
<1> HIDE DEF g, n
<1>6. GuestSound(g, n + 1) /\ n <= MaxStack /\ g.kind # "host"
  BY <1>1, <1>2, <1>4, <1>5 DEF GuestSound
<1>7. /\ StackSound(stack') /\ Len(stack') = n + 1 /\ stack'[n + 1] = g
      /\ \A i \in 1 .. n : stack'[i] = stack[i]
  <2>1. StackSound(stack) /\ stack[Len(stack)].kind # "host" /\ Len(stack) <= MaxStack
    BY <1>2, <1>3, <1>6 DEF n
  <2>2. GuestSound(g, Len(stack) + 1)
    BY <1>6 DEF n
  <2> QED
    BY <1>1, <1>5, <2>1, <2>2, PushGuest DEF n
<1>8. Linked(stack', active)
  <2>1. n <= Len(stack') /\ stack'[Len(stack')].kind # "host" /\ n \in 0 .. Len(stack)
    BY <1>2, <1>6, <1>7 DEF n
  <2> QED
    BY <1>2, <1>3, <1>7, <2>1, LinkKept
<1> QED
  BY <1>1, <1>7, <1>8, NothingResumed, IndInvPrime

\* A guest frame n resumes, and what was above it is gone.
LEMMA CutStep ==
  ASSUME IndInv, NEW n \in 1 .. Len(stack), stack[n].kind # "host",
         stack' = SubSeq(stack, 1, n),
         Linked(stack, active'), active' # NULL => active' <= n, LastInv'
  PROVE  IndInv'
<1>1. StackSound(stack) /\ Len(stack) \in Nat
  BY InvFacts
<1>2. /\ StackSound(stack') /\ Len(stack') = n
      /\ \A i \in 1 .. n : stack'[i] = stack[i]
  BY <1>1, Cut
<1>3. n \in 0 .. Len(stack) /\ n <= Len(stack') /\ stack'[Len(stack')].kind # "host"
  BY <1>1, <1>2
<1>4. \A a : Linked(stack, a) /\ (a # NULL => a <= n) => Linked(stack', a)
  BY <1>1, <1>2, <1>3, LinkKept
<1>5. Linked(stack', active')
  BY <1>4
<1> QED
  BY <1>2, <1>5, IndInvPrime

LEMMA ReturnStep ==
  ASSUME IndInv, Return
  PROVE  IndInv'
<1> DEFINE n == Len(stack) - 1
<1>1. /\ Running /\ n # 0 /\ stack[n].kind # "host"
      /\ stack' = SubSeq(stack, 1, n) /\ last' = Nothing /\ active' = active
  BY DEF Return, Here, IsGuest, ThreadEntry, Below
<1>2. Linked(stack, active) /\ Len(stack) \in Nat /\ Len(stack) \in 1 .. Len(stack)
  BY InvFacts
<1>3. n \in 1 .. Len(stack)
  <2>1. n # 0
    BY <1>1
  <2>2. \A m \in Nat : m \in 1 .. m /\ m - 1 # 0 => m - 1 \in 1 .. m
    OBVIOUS
  <2> QED
    BY <1>2, <2>1, <2>2
<1>4. active # NULL => active <= n
  BY <1>1, <1>2, RunningTop
<1>5. Linked(stack, active') /\ (active' # NULL => active' <= n)
  BY <1>1, <1>2, <1>4
<1>6. LastInv'
  BY <1>1, NothingResumed
<1> QED
  BY <1>1, <1>3, <1>5, <1>6, CutStep

LEMMA DamageStep ==
  ASSUME IndInv, NEW c \in {Here, Outside}, Damage(c)
  PROVE  IndInv'
<1>1. /\ Running /\ stack' = [stack EXCEPT ![Len(stack)].caller = c]
      /\ last' = Nothing /\ active' = active
  BY DEF Damage, Here
<1>2. /\ StackSound(stack) /\ Linked(stack, active) /\ Len(stack) \in Nat
      /\ Len(stack) \in 1 .. Len(stack)
      /\ Len(stack) <= MaxStack + 1 /\ MaxStack \in Nat
  BY InvFacts
<1>3. c \in Nat /\ c >= Len(stack)
  BY <1>2 DEF Here, Outside
<1>4. /\ stack[Len(stack)].kind # "host"
      /\ active # NULL => active <= Len(stack) - 1
  BY <1>1, <1>2, RunningTop
<1>5. /\ StackSound(stack') /\ Len(stack') = Len(stack)
      /\ \A i \in 1 .. Len(stack) - 1 : stack'[i] = stack[i]
      /\ stack'[Len(stack)].kind # "host"
  BY <1>1, <1>2, <1>3, <1>4, Spoil
<1>6. Linked(stack', active)
  <2>1. /\ Len(stack) - 1 \in 0 .. Len(stack) /\ Len(stack) - 1 <= Len(stack')
        /\ stack'[Len(stack')].kind # "host"
    BY <1>2, <1>5
  <2> QED
    BY <1>2, <1>4, <1>5, <2>1, LinkKept
<1> QED
  BY <1>1, <1>5, <1>6, NothingResumed, IndInvPrime

LEMMA SetFilterStep ==
  ASSUME IndInv, NEW f \in BOOLEAN, SetUnhandledExceptionFilter(f)
  PROVE  IndInv'
<1>1. stack' = stack /\ active' = active /\ last' = Nothing
  BY DEF SetUnhandledExceptionFilter
<1>2. StackSound(stack') /\ Linked(stack', active')
  BY <1>1, InvFacts
<1> QED
  BY <1>1, <1>2, NothingResumed, IndInvPrime

-----------------------------------------------------------------------------
(* The steps of the host code.                                             *)

\* A guest frame on the stack that says its caller is older says so truly.
LEMMA OlderIsNext ==
  ASSUME IndInv, NEW i \in 0 .. Len(stack), IsGuest(i)
  PROVE  /\ i \in 1 .. Len(stack) /\ GuestAt(stack, i) /\ stack[i].kind # "host"
         /\ CallerIsOlder(i) => stack[i].caller = i - 1
         /\ stack[i].kind = "leaf" => ~stack[i].eh /\ ~stack[i].uh
         /\ stack[i].eh \in BOOLEAN /\ stack[i].uh \in BOOLEAN
<1>1. StackSound(stack) /\ Len(stack) \in Nat
  BY InvFacts
<1>2. i # 0 /\ stack[i].kind # "host" /\ GuestAt(stack, i)
  BY DEF IsGuest, GuestAt, ThreadEntry
<1>3. i \in 1 .. Len(stack)
  BY <1>1, <1>2
<1> QED
  BY <1>1, <1>2, <1>3, CallerOf DEF CallerIsOlder

LEMMA RaiseStep ==
  ASSUME IndInv, NEW noncontinuable \in BOOLEAN, RaiseException(noncontinuable)
  PROVE  IndInv'
<1> DEFINE n == Len(stack)
           fl == IF noncontinuable THEN {"NONCONTINUABLE"} ELSE {}
           h == Host("dispatch", n, fl, NULL)
<1>1. /\ Running /\ n + 2 <= MaxStack /\ stack' = Append(stack, h)
      /\ last' = Nothing /\ active' = active
  BY DEF RaiseException, Here
<1>2. /\ StackSound(stack) /\ Linked(stack, active) /\ stack \in Seq(Frames)
      /\ n \in Nat /\ n \in 1 .. n /\ n \in 0 .. n /\ MaxStack \in Nat
  BY InvFacts
<1>3. stack[n].kind # "host" /\ (active # NULL => active <= n)
  BY <1>1, <1>2, RunningTop
<1>4. fl \in SUBSET Flags /\ "UNWINDING" \notin fl /\ "TARGET_UNWIND" \notin fl
  BY DEF Flags
<1> HIDE DEF fl
<1>5. NULL \in Nat /\ NULL = ExitUnwind
  BY DEF NULL, ExitUnwind
<1>6. /\ h \in HostFrames /\ h.op = "dispatch" /\ h.phase = "walk"
      /\ h.at = n /\ h.from = n /\ h.flags = fl /\ h.own = fl
      /\ h.target = ExitUnwind /\ h.ran = {}
  <2> DEFINE z == NULL
  <2>1. z \in Nat /\ h = Host("dispatch", n, fl, z)
    BY <1>5
  <2> HIDE DEF z
  <2>2. /\ h \in HostFrames /\ h.op = "dispatch" /\ h.phase = "walk"
        /\ h.at = n /\ h.from = n /\ h.flags = fl /\ h.own = fl
        /\ h.target = z /\ h.ran = {}
    <3> HIDE DEF h
    <3>1. n \in Nat /\ "dispatch" \in {"dispatch", "unwind"}
      BY <1>2
    <3> HIDE DEF n
    <3>2. Host("dispatch", n, fl, z) \in HostFrames
      BY <1>4, <2>1, <3>1, HostMade
    <3> QED
      BY <1>4, <2>1, <3>1, HostMade
  <2>3. z = NULL
    BY DEF z
  <2> QED
    BY <1>5, <2>2, <2>3
<1> HIDE DEF h, n
<1>7. FlagsSound(h)
  BY <1>4, <1>6 DEF FlagsSound
<1>8. HostSound(stack, h, n + 1)
  <2>1. n \in Nat \ {0} /\ h.from \in 1 .. n /\ h.at = h.from
    BY <1>2, <1>6
  <2> QED
    BY <1>3, <1>6, <1>7, <2>1, WalkBegins
<1>9. /\ StackSound(stack') /\ Len(stack') = n + 1 /\ stack'[n + 1] = h
      /\ \A i \in 1 .. n : stack'[i] = stack[i]
  <2>1. SubSeq(stack, 1, n) = stack
    BY <1>2, SubSeqFull DEF n
  <2>2. n \in 0 .. Len(stack) /\ n + 1 <= MaxStack
    BY <1>1, <1>2 DEF n
  <2>3. stack' = Append(SubSeq(stack, 1, n), h)
    BY <1>1, <2>1
  <2> QED
    BY <1>2, <1>6, <1>8, <2>2, <2>3, PushWalk
<1>10. Linked(stack', active)
  <2>1. n <= Len(stack') /\ stack'[Len(stack')].op # "unwind" /\ n \in 0 .. Len(stack)
    BY <1>2, <1>6, <1>9 DEF n
  <2> QED
    BY <1>2, <1>3, <1>9, <2>1, LinkKept
<1> QED
  BY <1>1, <1>9, <1>10, NothingResumed, IndInvPrime

LEMMA RtlUnwindStep ==
  ASSUME IndInv, NEW target \in 0 .. Here, NEW flags \in {{}, Flags},
         RtlUnwindEx(target, flags)
  PROVE  IndInv'
<1> DEFINE n == Len(stack)
           origin == UnwindOrigin
           own == (flags \cap {"NONCONTINUABLE"}) \cup {"UNWINDING"}
                    \cup (IF target = ExitUnwind THEN {"EXIT_UNWIND"} ELSE {})
           raised == IF active # NULL /\ stack[active].op = "dispatch"
                     THEN stack[active].from ELSE origin
           h == Host("unwind", origin, own, target)
           k == [h EXCEPT !.raised = raised]
<1>1. CASE target > origin
  <2>1. Abort
    BY <1>1 DEF RtlUnwindEx
  <2> QED
    BY <2>1, AbortStep
<1>2. CASE ~(target > origin)
  <2>1. /\ Running /\ n + 2 <= MaxStack /\ stack' = Append(stack, k)
        /\ last' = Nothing /\ active' = NULL
    BY <1>2 DEF RtlUnwindEx, Here, TakeLink
  <2>2. /\ StackSound(stack) /\ Linked(stack, active) /\ stack \in Seq(Frames)
        /\ n \in Nat /\ n \in 1 .. n /\ n \in 0 .. n /\ MaxStack \in Nat
    BY InvFacts
  <2>3. stack[n].kind # "host" /\ (active # NULL => active \in 1 .. n - 1)
    BY <2>1, <2>2, RunningTop
  <2>4. /\ own \in SUBSET Flags /\ "TARGET_UNWIND" \notin own
        /\ target \in Nat
    BY <2>2 DEF Flags, Here
  <2> HIDE DEF own
  <2>5. active # NULL => stack[active].at \in 1 .. n /\ stack[active].from \in Nat
    <3> SUFFICES ASSUME active # NULL
                 PROVE  stack[active].at \in 1 .. n /\ stack[active].from \in Nat
      OBVIOUS
    <3>1. active \in 1 .. Len(stack) /\ HandlerAt(stack, active) /\ active \in 1 .. n - 1
      BY <2>2, <2>3 DEF Linked
    <3>2. /\ stack[active] \in HostFrames /\ HostSound(stack, stack[active], active)
          /\ stack[active].from \in 1 .. active - 1
          /\ stack[active].at \in 0 .. stack[active].from
      BY <2>2, <3>1, HostAt DEF HandlerAt
    <3>3. /\ Passed(stack, stack[active].at, stack[active].from)
          /\ stack[active].from \in Nat /\ stack[active].at \in Nat
      BY <3>1, <3>2, HostFields DEF HandlerAt, HostSound, HandlerSound
    <3>4. stack[active].at # 0
      BY <3>2, <3>3 DEF Passed, GuestAt, ThreadEntry
    <3> QED
      BY <2>2, <3>1, <3>2, <3>3, <3>4
  <2>6. origin \in 1 .. n /\ origin \in Nat
    BY <2>2, <2>5 DEF UnwindOrigin, Here
  <2>7. raised \in Nat
    BY <2>5, <2>6
  <2> HIDE DEF origin, raised
  <2>8. /\ h \in HostFrames /\ h.op = "unwind" /\ h.phase = "walk"
        /\ h.at = origin /\ h.from = origin /\ h.flags = own /\ h.own = own
        /\ h.target = target /\ h.ran = {}
    BY <2>4, <2>6, HostMade
  <2> HIDE DEF h
  <2>9. /\ k \in HostFrames /\ k.op = "unwind" /\ k.phase = "walk"
        /\ k.at = origin /\ k.from = origin /\ k.flags = own /\ k.own = own
        /\ k.target = target /\ k.ran = {}
    BY <2>7, <2>8, HostRaised
  <2> HIDE DEF k, n
  <2>10. FlagsSound(k)
    <3>1. target <= origin
      BY <1>2, <2>4, <2>6 DEF origin
    <3> QED
      BY <2>4, <2>9, <3>1 DEF FlagsSound
  <2>11. HostSound(stack, k, n + 1)
    <3>1. n \in Nat \ {0} /\ k.from \in 1 .. n /\ k.at = k.from
      BY <2>2, <2>6, <2>9
    <3> QED
      BY <2>3, <2>9, <2>10, <3>1, WalkBegins
  <2>12. StackSound(stack')
    <3>1. SubSeq(stack, 1, n) = stack
      BY <2>2, SubSeqFull DEF n
    <3>2. n \in 0 .. Len(stack) /\ n + 1 <= MaxStack
      BY <2>1, <2>2 DEF n
    <3>3. stack' = Append(SubSeq(stack, 1, n), k)
      BY <2>1, <3>1
    <3> QED
      BY <2>2, <2>9, <2>11, <3>2, <3>3, PushWalk
  <2>13. Linked(stack', active')
    BY <2>1 DEF Linked
  <2> QED
    BY <2>1, <2>12, <2>13, NothingResumed, IndInvPrime
<1> QED
  BY <1>1, <1>2

\* The host frame on top that walks.
LEMMA WalkingTop ==
  ASSUME IndInv, Walking
  PROVE  /\ Len(stack) \in 1 .. Len(stack) /\ Len(stack) - 1 \in 0 .. Len(stack)
         /\ (Len(stack) - 1) + 1 = Len(stack) /\ Len(stack) \in Nat \ {0}
         /\ Len(stack) <= MaxStack
         /\ Top = stack[Len(stack)]
         /\ Top \in HostFrames /\ Top.phase = "walk"
         /\ HostSound(stack, Top, Len(stack))
         /\ Top.at \in 0 .. Len(stack)
         /\ active # NULL => /\ active \in 1 .. Len(stack) - 1
                             /\ HandlerAt(stack, active)
         /\ Top.op = "unwind" => active = NULL
<1>1. /\ StackSound(stack) /\ Linked(stack, active) /\ Len(stack) \in Nat
      /\ Len(stack) \in 1 .. Len(stack)
  BY InvFacts
<1>2. Top = stack[Len(stack)] /\ Top.kind = "host" /\ Top.phase = "walk"
  BY DEF Walking, Top
<1>3. /\ Top \in HostFrames /\ HostSound(stack, Top, Len(stack))
      /\ Top.at \in 0 .. Len(stack) /\ Len(stack) <= MaxStack
  BY <1>1, <1>2, HostAt
<1>4. active # NULL => active \in 1 .. Len(stack) /\ HandlerAt(stack, active)
  BY <1>1 DEF Linked
<1>5. active # NULL => active # Len(stack)
  BY <1>2, <1>4 DEF HandlerAt
<1>6. Top.op = "unwind" => active = NULL
  BY <1>1, <1>2 DEF Linked
<1>7. \A m \in Nat : m \in 1 .. m => m - 1 \in 0 .. m /\ (m - 1) + 1 = m /\ m # 0
  OBVIOUS
<1>8. \A m \in Nat : \A a : a \in 1 .. m /\ a # m => a \in 1 .. m - 1
  OBVIOUS
<1> QED
  BY <1>1, <1>2, <1>3, <1>4, <1>5, <1>6, <1>7, <1>8

\* The walk goes on from a frame whose handler it does not ask.
LEMMA MoveOnStep ==
  ASSUME IndInv, Walking, IsGuest(Top.at), ~Handles(Top.op, stack[Top.at]),
         Top.op = "unwind" => Top.target # Top.at, MoveOn(Top)
  PROVE  IndInv'
<1>1. CASE ~CallerIsOlder(Top.at)
  <2>1. Abort
    BY <1>1 DEF MoveOn
  <2> QED
    BY <2>1, AbortStep
<1>2. CASE CallerIsOlder(Top.at)
  <2> DEFINE n == Len(stack) - 1
             c == stack[Top.at].caller
             k == [Top EXCEPT !.at = c, !.depth = @ + 1, !.phase = "walk"]
  <2>1. stack' = Append(SubSeq(stack, 1, n), k) /\ last' = Nothing /\ active' = active
    BY <1>2 DEF MoveOn, Advance, Below
  <2>2. StackSound(stack) /\ Linked(stack, active)
    BY InvFacts
  <2>3. /\ n \in 0 .. Len(stack) /\ n + 1 = Len(stack) /\ Len(stack) \in Nat \ {0}
        /\ n + 1 <= MaxStack
        /\ Top \in HostFrames /\ Top.phase = "walk"
        /\ HostSound(stack, Top, n + 1) /\ Top.at \in 0 .. Len(stack)
        /\ active # NULL => active \in 1 .. n
        /\ Top.op = "unwind" => active = NULL
    BY WalkingTop
  <2>4. c = Top.at - 1 /\ GuestAt(stack, Top.at) /\ c \in Nat
    <3>1. /\ c = Top.at - 1 /\ GuestAt(stack, Top.at)
          /\ Top.at \in 1 .. Len(stack)
      BY <1>2, <2>3, OlderIsNext
    <3> QED
      BY <3>1
  <2>5. /\ k \in HostFrames /\ k.at = c /\ k.phase = "walk" /\ k.op = Top.op
        /\ k.from = Top.from /\ k.flags = Top.flags /\ k.own = Top.own
        /\ k.target = Top.target /\ k.ran = Top.ran
    <3> HIDE DEF c
    <3>1. Top \in HostFrames /\ c \in Nat
      BY <2>3, <2>4
    <3>2. Top.depth + 1 \in Nat
      BY <3>1, HostFields
    <3>3. k \in HostFrames
      BY ONLY <3>1, <3>2 DEF k, HostFrames
    <3> QED
      BY ONLY <3>1, <3>3 DEF k, HostFrames
  <2>6. Top.flags = Top.own
    BY <2>3 DEF HostSound, FlagsSound
  <2> HIDE DEF c, k, n
  <2>7. HostSound(stack, k, n + 1)
    <3>1. n + 1 \in Nat \ {0} /\ stack[Top.at].caller = Top.at - 1
      BY <2>3, <2>4 DEF c
    <3>2. k.at = Top.at - 1 /\ k.flags = Top.own
      BY <2>4, <2>5, <2>6
    <3> QED
      BY <2>3, <2>4, <2>5, <3>1, <3>2, WalkAdvances
  <2>8. /\ StackSound(stack') /\ Len(stack') = n + 1 /\ stack'[n + 1] = k
        /\ \A i \in 1 .. n : stack'[i] = stack[i]
    BY <2>1, <2>2, <2>3, <2>5, <2>7, PushWalk
  <2>9. Linked(stack', active)
    <3>1. \/ stack'[Len(stack')].op # "unwind" \/ active = NULL
      BY <2>3, <2>5, <2>8
    <3>2. n <= Len(stack') /\ (active # NULL => active <= n)
      BY <2>3, <2>8
    <3> QED
      BY <2>2, <2>3, <2>8, <3>1, <3>2, LinkKept
  <2> QED
    BY <2>1, <2>8, <2>9, NothingResumed, IndInvPrime
<1> QED
  BY <1>1, <1>2

\* A walk calls the handler of the frame it is at, with these flags.
LEMMA ExecuteHandlerStep ==
  ASSUME IndInv, Walking, IsGuest(Top.at), CallerIsOlder(Top.at),
         Handles(Top.op, stack[Top.at]),
         NEW flags \in SUBSET Flags, flags \ {"TARGET_UNWIND"} = Top.own,
         "TARGET_UNWIND" \in flags <=> Top.op = "unwind" /\ AtTarget(Top),
         NEW h, h = [Top EXCEPT !.flags = flags], ExecuteHandler(h)
  PROVE  IndInv'
<1> DEFINE n == Len(stack) - 1
           k == [h EXCEPT !.phase = "handler", !.previous = active,
                          !.ran = @ \cup {h.at}]
           g == Guest("function", TRUE, FALSE, Len(stack))
<1>1. /\ stack' = SubSeq(stack, 1, n) \o <<k, g>>
      /\ last' = Nothing /\ active' = Len(stack)
  BY DEF ExecuteHandler, Below, Here
<1>2. StackSound(stack) /\ Linked(stack, active)
  BY InvFacts
<1>3. /\ n \in 0 .. Len(stack) /\ n + 1 = Len(stack) /\ Len(stack) \in Nat \ {0}
      /\ n + 1 <= MaxStack
      /\ Top \in HostFrames /\ Top.phase = "walk"
      /\ HostSound(stack, Top, n + 1) /\ Top.at \in 0 .. Len(stack)
      /\ active # NULL => active \in 1 .. n /\ HandlerAt(stack, active)
      /\ Top.op = "unwind" => active = NULL
  BY WalkingTop
<1>4. GuestAt(stack, Top.at) /\ stack[Top.at].caller = Top.at - 1
  BY <1>3, OlderIsNext
<1>5. /\ h \in HostFrames /\ h.flags = flags /\ h.op = Top.op
      /\ h.at = Top.at /\ h.from = Top.from /\ h.own = Top.own
      /\ h.target = Top.target /\ h.ran = Top.ran
  <2>1. Top \in HostFrames
    BY <1>3
  <2>2. h \in HostFrames
    BY ONLY <2>1, flags \in SUBSET Flags, h = [Top EXCEPT !.flags = flags]
       DEF HostFrames
  <2> QED
    BY ONLY <2>1, <2>2, h = [Top EXCEPT !.flags = flags] DEF HostFrames
<1>6. active \in Nat
  BY <1>3 DEF NULL
<1>7. /\ k \in HostFrames /\ k.phase = "handler" /\ k.previous = active
      /\ k.ran = Top.ran \cup {Top.at} /\ k.flags = flags /\ k.op = Top.op
      /\ k.at = Top.at /\ k.from = Top.from /\ k.own = Top.own
      /\ k.target = Top.target
  <2>1. h.ran \cup {h.at} \in SUBSET Nat
    BY <1>5, HostFields
  <2>2. k \in HostFrames
    BY ONLY <1>5, <1>6, <2>1 DEF k, HostFrames
  <2>3. /\ k.phase = "handler" /\ k.previous = active
        /\ k.ran = h.ran \cup {h.at} /\ k.flags = h.flags /\ k.op = h.op
        /\ k.at = h.at /\ k.from = h.from /\ k.own = h.own
        /\ k.target = h.target
    BY ONLY <1>5, <2>2 DEF k, HostFrames
  <2> QED
    BY <1>5, <2>2, <2>3
<1>8. g \in GuestFrames /\ g.caller = n + 1 /\ g.kind = "function"
  <2>1. Len(stack) \in Nat
    BY <1>3
  <2>2. g \in GuestFrames /\ g.caller = Len(stack) /\ g.kind = "function"
    BY ONLY <2>1 DEF g, Guest, GuestFrames
  <2> QED
    BY <1>3, <2>2
<1> HIDE DEF k, g, n
<1>9. HostSound(stack, k, n + 1)
  <2>1. /\ n + 1 \in Nat \ {0}
        /\ Top.op = "unwind" => k.previous = NULL
        /\ k.previous # NULL => k.previous < n + 1 /\ HandlerAt(stack, k.previous)
    BY <1>3, <1>7
  <2> QED
    BY <1>3, <1>4, <1>7, <2>1, HandlerIsCalled
<1>10. GuestSound(g, n + 2)
  BY <1>3, <1>8 DEF GuestSound
<1>11. /\ StackSound(stack') /\ Len(stack') = n + 2 /\ stack'[n + 1] = k
       /\ stack'[n + 2] = g
  <2>1. /\ StackSound(stack) /\ n \in 0 .. Len(stack) /\ n + 1 <= MaxStack
        /\ k \in HostFrames /\ k.phase # "walk" /\ g \in GuestFrames
    BY <1>2, <1>3, <1>7, <1>8
  <2> QED
    BY ONLY <1>1, <1>9, <1>10, <2>1, PushCall
<1>12. Linked(stack', active')
  <2>1. active' = n + 1 /\ n + 1 \in 1 .. n + 2
    BY <1>1, <1>3
  <2>2. k.kind = "host" /\ g.kind # "host"
    BY <1>7, <1>8, HostFields
  <2> QED
    BY <1>7, <1>11, <2>1, <2>2 DEF Linked, HandlerAt
<1> QED
  BY <1>1, <1>11, <1>12, NothingResumed, IndInvPrime

LEMMA CallFilterStep ==
  ASSUME IndInv, Walking, Top.op = "dispatch", WalkEnds(Top), CallFilter(Top)
  PROVE  IndInv'
<1>1. CASE ~filter
  <2>1. Abort
    BY <1>1 DEF CallFilter
  <2> QED
    BY <2>1, AbortStep
<1>2. CASE filter
  <2> DEFINE n == Len(stack) - 1
             k == [Top EXCEPT !.phase = "filter"]
             g == Guest("function", TRUE, FALSE, Len(stack))
  <2>1. /\ stack' = SubSeq(stack, 1, n) \o <<k, g>>
        /\ last' = Nothing /\ active' = active
    BY <1>2 DEF CallFilter, Below, Here
  <2>2. StackSound(stack) /\ Linked(stack, active)
    BY InvFacts
  <2>3. /\ n \in 0 .. Len(stack) /\ n + 1 = Len(stack) /\ Len(stack) \in Nat \ {0}
        /\ n + 1 <= MaxStack
        /\ Top \in HostFrames /\ Top.phase = "walk"
        /\ HostSound(stack, Top, n + 1)
        /\ active # NULL => active \in 1 .. n
    BY WalkingTop
  <2>4. /\ k \in HostFrames /\ k.phase = "filter" /\ k.op = Top.op
        /\ k.at = Top.at /\ k.from = Top.from /\ k.depth = Top.depth
        /\ k.flags = Top.flags /\ k.own = Top.own
        /\ k.target = Top.target /\ k.ran = Top.ran
    <3>1. k \in HostFrames
      BY ONLY <2>3 DEF k, HostFrames
    <3> QED
      BY ONLY <2>3, <3>1 DEF k, HostFrames
  <2>5. g \in GuestFrames /\ g.caller = n + 1 /\ g.kind = "function"
    <3>1. Len(stack) \in Nat
      BY <2>3
    <3>2. g \in GuestFrames /\ g.caller = Len(stack) /\ g.kind = "function"
      BY ONLY <3>1 DEF g, Guest, GuestFrames
    <3> QED
      BY <2>3, <3>2
  <2> HIDE DEF k, g, n
  <2>6. Top.depth >= MaxDepth \/ ~GuestAt(stack, Top.at)
    BY DEF WalkEnds, IsGuest, GuestAt
  <2>7. HostSound(stack, k, n + 1)
    <3>1. n + 1 \in Nat \ {0}
      BY <2>3
    <3> QED
      BY <2>3, <2>4, <2>6, <3>1, FilterIsCalled
  <2>8. GuestSound(g, n + 2)
    BY <2>3, <2>5 DEF GuestSound
  <2>9. k.phase # "walk"
    BY <2>4
  <2>10. /\ StackSound(stack') /\ Len(stack') = n + 2 /\ stack'[n + 2] = g
         /\ \A i \in 1 .. n : stack'[i] = stack[i]
    <3>1. /\ StackSound(stack) /\ n \in 0 .. Len(stack) /\ n + 1 <= MaxStack
          /\ k \in HostFrames /\ g \in GuestFrames
      BY <2>2, <2>3, <2>4, <2>5
    <3> QED
      BY ONLY <2>1, <2>7, <2>8, <2>9, <3>1, PushCall
  <2>11. Linked(stack', active)
    <3>1. /\ n <= Len(stack') /\ stack'[Len(stack')].kind # "host"
          /\ active # NULL => active <= n
      BY <2>3, <2>5, <2>10
    <3> QED
      BY <2>2, <2>3, <2>10, <3>1, LinkKept
  <2> QED
    BY <2>1, <2>10, <2>11, NothingResumed, IndInvPrime
<1> QED
  BY <1>1, <1>2

LEMMA DispatchStepOk ==
  ASSUME IndInv, DispatchStep
  PROVE  IndInv'
<1>1. Walking /\ Top.op = "dispatch"
  BY DEF DispatchStep
<1>2. CASE WalkEnds(Top)
  <2>1. CallFilter(Top)
    BY <1>2 DEF DispatchStep
  <2> QED
    BY <1>1, <1>2, <2>1, CallFilterStep
<1>3. CASE ~WalkEnds(Top)
  <2>1. IsGuest(Top.at)
    BY <1>3 DEF WalkEnds
  <2>2. /\ Top \in HostFrames /\ HostSound(stack, Top, Len(stack))
        /\ Top.at \in 0 .. Len(stack) /\ Top.phase = "walk"
    BY <1>1, WalkingTop
  <2>3. /\ Top.own \in SUBSET Flags /\ Top.target = ExitUnwind
        /\ "TARGET_UNWIND" \notin Top.own
    BY <1>1, <2>2, HostFields DEF HostSound, FlagsSound
  <2>4. CASE stack[Top.at].eh /\ CallerIsOlder(Top.at)
    <3> DEFINE h == [Top EXCEPT !.flags = Top.own]
    <3>1. ExecuteHandler(h)
      BY <1>3, <2>4 DEF DispatchStep
    <3>2. Handles(Top.op, stack[Top.at])
      BY <1>1, <2>4 DEF Handles
    <3>3. /\ Top.own \ {"TARGET_UNWIND"} = Top.own
          /\ "TARGET_UNWIND" \in Top.own <=> Top.op = "unwind" /\ AtTarget(Top)
      BY <1>1, <2>3
    <3> QED
      BY <1>1, <2>1, <2>3, <2>4, <3>1, <3>2, <3>3, ExecuteHandlerStep
  <2>5. CASE ~(stack[Top.at].eh /\ CallerIsOlder(Top.at))
    <3>1. MoveOn(Top)
      BY <1>3, <2>5 DEF DispatchStep
    <3>2. CASE CallerIsOlder(Top.at)
      <4>1. ~Handles(Top.op, stack[Top.at])
        BY <1>1, <2>5, <3>2 DEF Handles
      <4> QED
        BY <1>1, <2>1, <3>1, <4>1, MoveOnStep
    <3>3. CASE ~CallerIsOlder(Top.at)
      <4>1. Abort
        BY <3>1, <3>3 DEF MoveOn
      <4> QED
        BY <4>1, AbortStep
    <3> QED
      BY <3>2, <3>3
  <2> QED
    BY <2>4, <2>5
<1> QED
  BY <1>2, <1>3

\* An unwind resumes in its target, having run what it owed.
LEMMA ResumeStep ==
  ASSUME IndInv, NEW h \in HostFrames, h.op = "unwind",
         h.from \in 1 .. Len(stack), h.at \in 1 .. h.from, h.target = h.at,
         \A i \in h.at .. h.from : GuestAt(stack, i),
         RanFrom(stack, h, h.at, h.from),
         active' = NULL, ResumeAtTarget(h)
  PROVE  IndInv'
<1> DEFINE n == h.target
<1>1. StackSound(stack) /\ Len(stack) \in Nat
  BY InvFacts
<1>2. n \in 1 .. Len(stack)
  BY <1>1
<1>3. stack[n].kind # "host"
  BY DEF GuestAt
<1>4. /\ stack' = SubSeq(stack, 1, n)
      /\ last' = [kind |-> "unwind", ran |-> h.ran, owed |-> Owed(h.from, n),
                  intact |-> \A i \in n + 1 .. h.from : IsGuest(i) /\ Intact(i),
                  abandoned |-> Owed(h.raised, n)]
  BY DEF ResumeAtTarget, Resume
<1>5. h.ran = Owed(h.from, n)
  <2>1. h.ran \in SUBSET Nat
    BY HostFields
  <2>2. \A i \in Nat : i \in h.ran <=> i \in n .. h.from /\ stack[i].uh
    BY DEF RanFrom, Handles
  <2>3. \A i \in n .. h.from : IsGuest(i)
    BY DEF GuestAt, IsGuest
  <2>4. \A i \in n .. h.from : i \in Nat
    BY <1>2
  <2> QED
    BY <2>1, <2>2, <2>3, <2>4 DEF Owed
<1>6. /\ last'.kind = "unwind" /\ last'.ran = h.ran /\ last'.owed = Owed(h.from, n)
  BY <1>4
<1>7. StackSound(stack') /\ Len(stack') = n /\ stack'[n] = stack[n]
  BY <1>1, <1>2, <1>3, <1>4, Cut
<1>8. IsGuest(Here)'
  BY <1>2, <1>3, <1>7 DEF IsGuest, Here, ThreadEntry
<1>9. LastInv'
  BY <1>5, <1>6, <1>8 DEF LastInv, UnwindIsExact
<1>10. Linked(stack, active') /\ (active' # NULL => active' <= n)
  <2>1. Linked(stack, NULL)
    BY DEF Linked
  <2> QED
    BY <2>1
<1> QED
  BY <1>2, <1>3, <1>4, <1>9, <1>10, CutStep

LEMMA LeaveStep ==
  ASSUME IndInv, Walking, Top.op = "unwind", IsGuest(Top.at),
         ~stack[Top.at].uh, Leave(Top)
  PROVE  IndInv'
<1>1. /\ Top \in HostFrames /\ HostSound(stack, Top, Len(stack))
      /\ Top.at \in 0 .. Len(stack) /\ Top.phase = "walk"
      /\ Len(stack) \in Nat \ {0} /\ active = NULL
  BY WalkingTop
<1>2. ~Handles(Top.op, stack[Top.at])
  BY DEF Handles
<1>3. GuestAt(stack, Top.at) /\ Top.at \in 1 .. Len(stack)
  BY <1>1, OlderIsNext
<1>4. CASE AtTarget(Top)
  <2>1. ResumeAtTarget(Top) /\ active' = NULL
    BY <1>1, <1>4 DEF Leave, Arrive
  <2>2. /\ Top.from \in 1 .. Len(stack) - 1 /\ Top.at \in 0 .. Top.from
        /\ Passed(stack, Top.at + 1, Top.from)
        /\ RanFrom(stack, Top, Top.at + 1, Top.from)
    BY <1>1 DEF HostSound, WalkSound
  <2>3. /\ Top.from \in 1 .. Len(stack) /\ Top.at \in 1 .. Top.from
        /\ Top.from \in Nat /\ Top.at \in Nat
    BY <1>1, <1>3, <2>2
  <2>4. \A i \in Nat : i \in Top.at .. Top.from <=>
                          i = Top.at \/ i \in Top.at + 1 .. Top.from
    BY <2>3
  <2>5. \A i \in Top.at .. Top.from : GuestAt(stack, i)
    <3>1. \A i \in Top.at .. Top.from : i \in Nat
      BY <2>3
    <3> QED
      BY <1>3, <2>2, <2>4, <3>1 DEF Passed
  <2>6. RanFrom(stack, Top, Top.at, Top.from)
    <3>1. Top.at \notin Top.at + 1 .. Top.from
      BY <2>3
    <3> QED
      BY <1>2, <2>2, <2>4, <3>1 DEF RanFrom
  <2>7. Top.target = Top.at
    BY <1>4 DEF AtTarget
  <2> QED
    BY <1>1, <2>1, <2>3, <2>5, <2>6, <2>7, ResumeStep
<1>5. CASE ~AtTarget(Top)
  <2>1. MoveOn(Top)
    BY <1>5 DEF Leave
  <2>2. Top.target # Top.at
    BY <1>3, <1>5 DEF AtTarget, ExitUnwind
  <2> QED
    BY <1>2, <2>1, <2>2, MoveOnStep
<1> QED
  BY <1>4, <1>5

LEMMA UnwindStepOk ==
  ASSUME IndInv, UnwindStep
  PROVE  IndInv'
<1>1. Walking /\ Top.op = "unwind"
  BY DEF UnwindStep
<1>2. /\ Top \in HostFrames /\ HostSound(stack, Top, Len(stack))
      /\ Top.at \in 0 .. Len(stack) /\ Top.phase = "walk"
  BY <1>1, WalkingTop
<1>3. ASSUME Abort PROVE IndInv'
  BY <1>3, AbortStep
<1>4. CASE WalkEnds(Top)
  BY <1>3, <1>4 DEF UnwindStep
<1>5. CASE ~WalkEnds(Top)
  <2>1. IsGuest(Top.at)
    BY <1>5 DEF WalkEnds
  <2>2. /\ stack[Top.at].kind = "leaf" => ~stack[Top.at].uh
        /\ stack[Top.at].uh \in BOOLEAN
    BY <1>2, <2>1, OlderIsNext
  <2>3. CASE stack[Top.at].kind = "leaf"
    <3>1. Leave(Top)
      BY <1>5, <2>3 DEF UnwindStep
    <3> QED
      BY <1>1, <2>1, <2>2, <2>3, <3>1, LeaveStep
  <2>4. CASE stack[Top.at].kind # "leaf" /\ (~CallerIsOlder(Top.at) \/ Top.at < Top.target)
    BY <1>3, <1>5, <2>4 DEF UnwindStep
  <2>5. CASE stack[Top.at].kind # "leaf" /\ ~(~CallerIsOlder(Top.at) \/ Top.at < Top.target)
    <3>1. LeaveFunction(Top) /\ CallerIsOlder(Top.at)
      BY <1>5, <2>5 DEF UnwindStep
    <3>2. CASE ~stack[Top.at].uh
      <4>1. Leave(Top)
        BY <3>1, <3>2 DEF LeaveFunction
      <4> QED
        BY <1>1, <2>1, <3>2, <4>1, LeaveStep
    <3>3. CASE stack[Top.at].uh
      <4> DEFINE flags == Top.flags \cup {f \in {"TARGET_UNWIND"} : AtTarget(Top)}
                 h == [Top EXCEPT !.flags = flags]
      <4>1. ExecuteHandler(h)
        BY <3>1, <3>3 DEF LeaveFunction
      <4>2. /\ Top.flags = Top.own /\ "TARGET_UNWIND" \notin Top.own
            /\ Top.own \in SUBSET Flags
        BY <1>2, HostFields DEF HostSound, FlagsSound
      <4>3. /\ flags \in SUBSET Flags /\ flags \ {"TARGET_UNWIND"} = Top.own
            /\ "TARGET_UNWIND" \in flags <=> Top.op = "unwind" /\ AtTarget(Top)
        <5>1. "TARGET_UNWIND" \in Flags
          BY DEF Flags
        <5> QED
          BY <1>1, <4>2, <5>1
      <4>4. Handles(Top.op, stack[Top.at])
        BY <1>1, <3>3 DEF Handles
      <4> HIDE DEF flags
      <4>5. h = [Top EXCEPT !.flags = flags]
        OBVIOUS
      <4> HIDE DEF h
      <4> QED
        BY <1>1, <2>1, <3>1, <4>1, <4>3, <4>4, <4>5, ExecuteHandlerStep
    <3> QED
      BY <3>2, <3>3
  <2> QED
    BY <2>3, <2>4, <2>5
<1> QED
  BY <1>4, <1>5

-----------------------------------------------------------------------------
(* Handlers and filters return.                                            *)

\* The host frame below the running guest.
LEMMA CallingHost ==
  ASSUME IndInv, Running, NEW p, p = Len(stack) - 1, p # ThreadEntry,
         stack[p].kind = "host"
  PROVE  /\ p \in 1 .. Len(stack) /\ p \in Nat \ {0}
         /\ p - 1 \in 1 .. Len(stack) /\ p - 1 \in 0 .. Len(stack)
         /\ (p - 1) + 1 = p /\ p <= MaxStack
         /\ stack[p - 1].kind # "host"
         /\ stack[p] \in HostFrames /\ HostSound(stack, stack[p], p)
         /\ stack[p].from \in 1 .. p - 1 /\ stack[p].at \in 0 .. stack[p].from
         /\ active # NULL => active \in 1 .. p
<1>1. /\ StackSound(stack) /\ Linked(stack, active) /\ stack \in Seq(Frames)
      /\ Len(stack) \in Nat /\ Len(stack) \in 1 .. Len(stack)
      /\ Len(stack) <= MaxStack + 1 /\ MaxStack \in Nat
  BY InvFacts
<1>2. \A m \in Nat : m \in 1 .. m /\ m - 1 # 0 /\ m <= MaxStack + 1 =>
         /\ m - 1 \in 1 .. m /\ m - 1 \in Nat \ {0} /\ m - 1 <= MaxStack
         /\ (m - 1) - 1 \in 0 .. m /\ ((m - 1) - 1) + 1 = m - 1
  BY <1>1
<1>3. Len(stack) - 1 # 0
  BY DEF ThreadEntry
<1>4. /\ p \in 1 .. Len(stack) /\ p \in Nat \ {0} /\ p <= MaxStack
      /\ p - 1 \in 0 .. Len(stack) /\ (p - 1) + 1 = p
  BY <1>1, <1>2, <1>3
<1>5. /\ stack[p] \in HostFrames /\ HostSound(stack, stack[p], p)
      /\ p - 1 \in 1 .. Len(stack) /\ stack[p - 1].kind # "host"
      /\ stack[p].from \in 1 .. p - 1 /\ stack[p].at \in 0 .. stack[p].from
  BY <1>1, <1>4, HostAt
<1>6. active # NULL => active \in 1 .. p
  BY RunningTop
<1> QED
  BY <1>4, <1>5, <1>6

\* The link left by a handler that returns names an older handler, or none,
\* and none under an unwind.
LEMMA LinkPopped ==
  ASSUME IndInv, Running, NEW p, p = Len(stack) - 1, p # ThreadEntry,
         HandlerAt(stack, p)
  PROVE  /\ PopLink(p) # NULL => PopLink(p) \in 1 .. p - 1
         /\ Linked(stack, PopLink(p))
         /\ stack[p].op = "unwind" => PopLink(p) = NULL
<1>1. /\ p \in 1 .. Len(stack) /\ p \in Nat \ {0} /\ stack[p] \in HostFrames
      /\ HostSound(stack, stack[p], p) /\ Len(stack) \in Nat
  BY CallingHost, InvFacts DEF HandlerAt
<1>2. /\ stack[p].op = "unwind" => stack[p].previous = NULL
      /\ stack[p].previous # NULL => /\ stack[p].previous < p
                                     /\ HandlerAt(stack, stack[p].previous)
  BY <1>1 DEF HostSound, HandlerSound, HandlerAt
<1>3. stack[p].previous \in Nat
  BY <1>1, HostFields
<1>4. stack[p].previous # NULL => stack[p].previous \in 1 .. p - 1
  BY <1>1, <1>2, <1>3 DEF NULL
<1>5. PopLink(p) = NULL \/ PopLink(p) = stack[p].previous
  BY DEF PopLink
<1>6. stack[Len(stack)].kind # "host"
  BY RunningTop
<1>7. PopLink(p) # NULL => /\ PopLink(p) \in 1 .. p - 1
                           /\ HandlerAt(stack, PopLink(p))
  BY <1>2, <1>4, <1>5
<1>8. PopLink(p) # NULL => PopLink(p) \in 1 .. Len(stack)
  BY <1>1, <1>7
<1> QED
  BY <1>2, <1>5, <1>6, <1>7, <1>8 DEF Linked

\* The frame that raised the exception goes on.
LEMMA ContinueStep ==
  ASSUME IndInv, Running, NEW p, p = Len(stack) - 1, p # ThreadEntry,
         stack[p].kind = "host", NEW h, "NONCONTINUABLE" \notin h.own,
         Continue(h), Linked(stack, active'),
         active' # NULL => active' \in 1 .. p - 1
  PROVE  IndInv'
<1>1. /\ p - 1 \in 1 .. Len(stack) /\ stack[p - 1].kind # "host"
      /\ p \in Nat
  BY CallingHost
<1>2. Len(stack) \in Nat
  BY InvFacts
<1>3. /\ stack' = SubSeq(stack, 1, Len(stack) - 2)
      /\ last' = [kind |-> "continue", own |-> h.own]
  BY DEF Continue, Resume, Here
<1>4. Len(stack) - 2 = p - 1
  BY <1>2
<1>5. stack' = SubSeq(stack, 1, p - 1)
  BY <1>3, <1>4
<1>6. LastInv'
  <2>1. last'.kind = "continue" /\ last'.own = h.own
    BY <1>3
  <2> QED
    BY <2>1 DEF LastInv, UnwindIsExact
<1>7. active' # NULL => active' <= p - 1
  BY <1>1
<1> QED
  BY <1>1, <1>5, <1>6, <1>7, CutStep

LEMMA HandlerReturnsStep ==
  ASSUME IndInv, NEW disposition \in Dispositions, NEW edited \in {{}, Flags},
         HandlerReturns(disposition, edited)
  PROVE  IndInv'
<1> DEFINE p == Len(stack) - 1
           h == [stack[p] EXCEPT !.flags = stack[p].own]
           go == /\ h.op = "dispatch" /\ disposition = "ContinueExecution"
                 /\ "NONCONTINUABLE" \notin h.flags
           end == disposition = "ContinueSearch" /\ AtTarget(h)
           on == disposition = "ContinueSearch" /\ ~AtTarget(h)
<1>1. /\ Running /\ p # ThreadEntry
      /\ stack[p].kind = "host" /\ stack[p].phase = "handler"
  BY DEF HandlerReturns, Here
<1>2. /\ go => Continue(h) /\ active' = PopLink(p)
      /\ end => ResumeAtTarget(h) /\ active' = PopLink(p)
      /\ on => /\ stack' = Append(SubSeq(stack, 1, p - 1), Advance(h))
               /\ active' = PopLink(p)
               /\ last' = Nothing
      /\ ~go /\ ~end /\ ~on => Abort
  BY DEF HandlerReturns, Here, FlagsAfter
<1>3. /\ p \in 1 .. Len(stack) /\ p \in Nat \ {0}
      /\ p - 1 \in 0 .. Len(stack) /\ (p - 1) + 1 = p /\ p <= MaxStack
      /\ stack[p] \in HostFrames /\ HostSound(stack, stack[p], p)
      /\ stack[p].from \in 1 .. p - 1 /\ stack[p].at \in 0 .. stack[p].from
  BY <1>1, CallingHost
<1>4. /\ PopLink(p) # NULL => PopLink(p) \in 1 .. p - 1
      /\ Linked(stack, PopLink(p))
      /\ stack[p].op = "unwind" => PopLink(p) = NULL
  BY <1>1, LinkPopped DEF HandlerAt
<1>5. StackSound(stack) /\ Len(stack) \in Nat
  BY InvFacts
<1>6. /\ Passed(stack, stack[p].at, stack[p].from)
      /\ RanFrom(stack, stack[p], stack[p].at, stack[p].from)
      /\ stack[p].op = "dispatch" => stack[p].target = ExitUnwind
      /\ stack[p].op \in {"dispatch", "unwind"}
      /\ stack[p].own \in SUBSET Flags /\ stack[p].from \in Nat
      /\ stack[p].at \in Nat
  BY <1>1, <1>3, HostFields DEF HostSound, HandlerSound, FlagsSound
<1>7. /\ GuestAt(stack, stack[p].at) /\ stack[stack[p].at].caller = stack[p].at - 1
      /\ stack[p].at \in 1 .. stack[p].from
  <2>1. stack[p].at \in stack[p].at .. stack[p].from
    BY <1>3, <1>6
  <2>2. GuestAt(stack, stack[p].at) /\ stack[stack[p].at].caller = stack[p].at - 1
    BY <1>6, <2>1 DEF Passed
  <2> QED
    BY <1>3, <1>6, <2>2 DEF GuestAt, ThreadEntry
<1> DEFINE q == stack[p]
<1>8. /\ h \in HostFrames /\ h.flags = q.own /\ h.own = q.own /\ h.op = q.op
      /\ h.at = q.at /\ h.from = q.from /\ h.target = q.target /\ h.ran = q.ran
  <2>1. q \in HostFrames /\ q.own \in SUBSET Flags /\ h = [q EXCEPT !.flags = q.own]
    BY <1>3, <1>6
  <2> HIDE DEF q, h
  <2>2. h \in HostFrames
    BY ONLY <2>1 DEF HostFrames
  <2> QED
    BY ONLY <2>1, <2>2 DEF HostFrames
<1> HIDE DEF h
<1>9. CASE go
  <2>1. "NONCONTINUABLE" \notin h.own
    BY <1>8, <1>9
  <2>2. Continue(h) /\ active' = PopLink(p)
    BY <1>2, <1>9
  <2>3. Linked(stack, active') /\ (active' # NULL => active' \in 1 .. p - 1)
    BY <1>4, <2>2
  <2> QED
    BY <1>1, <2>1, <2>2, <2>3, ContinueStep
<1>10. CASE end
  <2>1. ResumeAtTarget(h) /\ active' = PopLink(p)
    BY <1>2, <1>10
  <2>2. h.target # ExitUnwind /\ h.target = h.at /\ h.op = "unwind"
    <3>1. h.target # ExitUnwind /\ h.target = h.at
      BY <1>10 DEF AtTarget
    <3> QED
      BY <1>6, <1>8, <3>1
  <2>3. active' = NULL
    BY <1>4, <1>8, <2>1, <2>2
  <2>4. h.from \in 1 .. Len(stack) /\ h.at \in 1 .. h.from
    BY <1>3, <1>5, <1>7, <1>8
  <2>5. /\ \A i \in h.at .. h.from : GuestAt(stack, i)
        /\ RanFrom(stack, h, h.at, h.from)
    BY <1>6, <1>8 DEF Passed, RanFrom
  <2> QED
    BY <1>8, <2>1, <2>2, <2>3, <2>4, <2>5, ResumeStep
<1>11. CASE on
  <2> DEFINE n == p - 1
             c == stack[q.at].caller
             k == [h EXCEPT !.at = c, !.depth = @ + 1, !.phase = "walk"]
  <2>1. /\ stack' = Append(SubSeq(stack, 1, n), k)
        /\ active' = PopLink(p) /\ last' = Nothing
    BY <1>2, <1>8, <1>11 DEF Advance
  <2>2. c = q.at - 1 /\ c \in Nat
    BY <1>6, <1>7
  <2>3. /\ k \in HostFrames /\ k.at = c /\ k.phase = "walk" /\ k.op = q.op
        /\ k.from = q.from /\ k.flags = q.own /\ k.own = q.own
        /\ k.target = q.target /\ k.ran = q.ran
    <3> HIDE DEF c
    <3>1. h \in HostFrames /\ c \in Nat
      BY <1>8, <2>2
    <3>2. h.depth + 1 \in Nat
      BY <3>1, HostFields
    <3>3. k \in HostFrames
      BY ONLY <3>1, <3>2 DEF k, HostFrames
    <3>4. /\ k.at = c /\ k.phase = "walk" /\ k.op = h.op
          /\ k.from = h.from /\ k.flags = h.flags /\ k.own = h.own
          /\ k.target = h.target /\ k.ran = h.ran
      BY ONLY <3>1, <3>3 DEF k, HostFrames
    <3> QED
      BY <1>8, <3>3, <3>4
  <2>4. q.op = "unwind" => q.target # q.at
    <3>1. ~(q.target # ExitUnwind /\ q.at = q.target)
      BY <1>8, <1>11 DEF AtTarget
    <3> QED
      BY <1>7, <3>1 DEF ExitUnwind
  <2> HIDE DEF k, c
  <2>5. HostSound(stack, k, n + 1)
    <3>1. k.at = q.at - 1
      BY <2>2, <2>3
    <3> HIDE DEF p
    <3>2. HostSound(stack, k, p)
      BY <1>1, <1>3, <1>7, <2>3, <2>4, <3>1, WalkAdvances
    <3> QED
      BY <1>3, <3>2
  <2> HIDE DEF n
  <2>6. /\ StackSound(stack') /\ Len(stack') = n + 1 /\ stack'[n + 1] = k
        /\ \A i \in 1 .. n : stack'[i] = stack[i]
    <3>1. n \in 0 .. Len(stack) /\ n + 1 <= MaxStack
      BY <1>3 DEF n
    <3> QED
      BY <1>5, <2>1, <2>3, <2>5, <3>1, PushWalk
  <2>7. Linked(stack', active')
    <3>1. /\ n \in 0 .. Len(stack) /\ n <= Len(stack')
          /\ active' # NULL => active' <= n
          /\ Linked(stack, active')
      <4> HIDE DEF p
      <4>1. n \in 0 .. Len(stack) /\ n \in Nat
        BY <1>3 DEF n
      <4>2. n <= Len(stack')
        BY <2>6, <4>1
      <4>3. Linked(stack, active') /\ (active' # NULL => active' \in 1 .. n)
        BY <1>4, <2>1 DEF n
      <4>4. active' # NULL => active' <= n
        BY <4>1, <4>3
      <4> QED
        BY <4>1, <4>2, <4>3, <4>4
    <3>2. \/ stack'[Len(stack')].op # "unwind" \/ active' = NULL
      BY <1>4, <2>1, <2>3, <2>6
    <3>3. \A a : (/\ Linked(stack, a)
                  /\ a # NULL => a <= n
                  /\ stack'[Len(stack')].op # "unwind" \/ a = NULL)
                 => Linked(stack', a)
      BY <1>5, <2>6, <3>1, LinkKept
    <3> QED
      BY <3>1, <3>2, <3>3
  <2> QED
    BY <2>1, <2>6, <2>7, NothingResumed, IndInvPrime
<1>12. CASE ~go /\ ~end /\ ~on
  <2>1. Abort
    BY <1>2, <1>12
  <2> QED
    BY <2>1, AbortStep
<1> QED
  BY <1>9, <1>10, <1>11, <1>12

LEMMA FilterReturnsStep ==
  ASSUME IndInv, NEW continue \in BOOLEAN, NEW edited \in {{}, Flags},
         FilterReturns(continue, edited)
  PROVE  IndInv'
<1> DEFINE p == Len(stack) - 1
           h == [stack[p] EXCEPT !.flags = stack[p].own]
<1>1. /\ Running /\ p # ThreadEntry
      /\ stack[p].kind = "host" /\ stack[p].phase = "filter"
  BY DEF FilterReturns, Here
<1>2. IF continue /\ "NONCONTINUABLE" \notin h.flags
      THEN Continue(h) /\ active' = active
      ELSE Abort
  BY DEF FilterReturns, Here, FlagsAfter
<1>3. /\ stack[p] \in HostFrames /\ p \in 1 .. Len(stack)
      /\ active # NULL => active \in 1 .. p
  BY <1>1, CallingHost
<1>4. h.flags = h.own
  <2>1. stack[p] \in HostFrames /\ stack[p].own \in SUBSET Flags
    BY <1>3, HostFields
  <2> DEFINE q == stack[p]
  <2> HIDE DEF q
  <2>2. q \in HostFrames
    BY <2>1 DEF q
  <2>3. [q EXCEPT !.flags = q.own].flags = q.own /\ [q EXCEPT !.flags = q.own].own = q.own
    BY ONLY <2>2 DEF HostFrames
  <2> QED
    BY <2>3 DEF q
<1> HIDE DEF h
<1>5. CASE continue /\ "NONCONTINUABLE" \notin h.flags
  <2>1. Continue(h) /\ active' = active /\ "NONCONTINUABLE" \notin h.own
    BY <1>2, <1>4, <1>5
  <2>2. Linked(stack, active) /\ Len(stack) \in Nat
    BY InvFacts
  <2>3. active # NULL => active \in 1 .. p - 1
    <3>1. active # NULL => HandlerAt(stack, active)
      BY <2>2 DEF Linked
    <3>2. active # NULL => active # p
      BY <1>1, <3>1 DEF HandlerAt
    <3>3. p \in Nat
      BY <1>3, <2>2
    <3> HIDE DEF p
    <3> QED
      BY <1>3, <3>2, <3>3
  <2>4. Linked(stack, active') /\ (active' # NULL => active' \in 1 .. p - 1)
    BY <2>1, <2>2, <2>3
  <2> QED
    BY <1>1, <2>1, <2>4, ContinueStep
<1>6. CASE ~(continue /\ "NONCONTINUABLE" \notin h.flags)
  <2>1. Abort
    BY <1>2, <1>6
  <2> QED
    BY <2>1, AbortStep
<1> QED
  BY <1>5, <1>6

-----------------------------------------------------------------------------
(* The theorems.                                                           *)

LEMMA StepOk ==
  ASSUME IndInv, [Next]_vars
  PROVE  IndInv'
<1>1. CASE UNCHANGED vars
  <2>1. stack' = stack /\ active' = active /\ last' = last
    BY <1>1 DEF vars
  <2>2. StackSound(stack') /\ Linked(stack', active')
    BY <2>1, InvFacts
  <2>3. LastInv'
    BY <2>1 DEF IndInv, LastInv, UnwindIsExact, IsGuest, Here
  <2> QED
    BY <2>2, <2>3, IndInvPrime
<1>2. CASE \E k \in GuestKinds : Call(k)
  BY <1>2, CallStep
<1>3. CASE Return
  BY <1>3, ReturnStep
<1>4. CASE \E c \in {Here, Outside} : Damage(c)
  BY <1>4, DamageStep
<1>5. CASE \E f \in BOOLEAN : SetUnhandledExceptionFilter(f)
  BY <1>5, SetFilterStep
<1>6. CASE \E n \in BOOLEAN : RaiseException(n)
  BY <1>6, RaiseStep
<1>7. CASE \E t \in 0 .. Here, f \in {{}, Flags} : RtlUnwindEx(t, f)
  BY <1>7, RtlUnwindStep
<1>8. CASE \E d \in Dispositions, f \in {{}, Flags} : HandlerReturns(d, f)
  BY <1>8, HandlerReturnsStep
<1>9. CASE \E c \in BOOLEAN, f \in {{}, Flags} : FilterReturns(c, f)
  BY <1>9, FilterReturnsStep
<1>10. CASE DispatchStep
  BY <1>10, DispatchStepOk
<1>11. CASE UnwindStep
  BY <1>11, UnwindStepOk
<1> QED
  BY <1>1, <1>2, <1>3, <1>4, <1>5, <1>6, <1>7, <1>8, <1>9, <1>10, <1>11
     DEF Next, GuestStep

\* The stack is sound, its links are live and what was resumed may be.
THEOREM InductiveInvariant == Spec => []IndInv
<1>1. Init => IndInv
  BY InitOk
<1>2. IndInv /\ [Next]_vars => IndInv'
  BY StepOk
<1> QED
  BY <1>1, <1>2, PTL DEF Spec

LEMMA HostOf ==
  ASSUME IndInv, NEW p \in 1 .. Here, stack[p].kind = "host"
  PROVE  stack[p] \in HostFrames /\ HostSound(stack, stack[p], p)
BY InvFacts, HostAt DEF Here

\* sl_active_handler_unwind_link and the links below it never point into a
\* host frame that is gone (LinksAreLive).
THEOREM LiveLinks == Spec => []LinksAreLive
<1>1. ASSUME IndInv PROVE LinksAreLive
  <2>1. active # NULL => active \in 1 .. Here /\ InHandler(active)
    BY <1>1, InvFacts DEF Linked, HandlerAt, InHandler, Here
  <2>2. ASSUME NEW p \in 1 .. Here, InHandler(p), stack[p].previous # NULL
        PROVE  stack[p].previous < p /\ InHandler(stack[p].previous)
    <3>1. HostSound(stack, stack[p], p)
      BY <1>1, <2>2, HostOf DEF InHandler
    <3> QED
      BY <2>2, <3>1 DEF HostSound, HandlerSound, HandlerAt, InHandler
  <2> QED
    BY <2>1, <2>2 DEF LinksAreLive
<1> QED
  BY <1>1, InductiveInvariant, PTL

\* Every handler is told the flags of its own walk, and what was raised
\* noncontinuable is not continued (FlagsAreTruthful).
THEOREM TruthfulFlags == Spec => []FlagsAreTruthful
<1>1. ASSUME IndInv PROVE FlagsAreTruthful
  <2>1. ASSUME NEW p \in 1 .. Here, InHandler(p)
        PROVE  LET h == stack[p] IN
               /\ h.flags \ {"TARGET_UNWIND"} = h.own
               /\ "TARGET_UNWIND" \in h.flags <=> h.op = "unwind" /\ AtTarget(h)
               /\ h.op = "dispatch" => "UNWINDING" \notin h.flags
    <3>1. HostSound(stack, stack[p], p)
      BY <1>1, <2>1, HostOf DEF InHandler
    <3>2. /\ stack[p].flags \ {"TARGET_UNWIND"} = stack[p].own
          /\ "TARGET_UNWIND" \in stack[p].flags <=>
                stack[p].op = "unwind" /\ AtTarget(stack[p])
      BY <2>1, <3>1 DEF HostSound, HandlerSound, InHandler
    <3>3. stack[p].op = "dispatch" => "UNWINDING" \notin stack[p].own
      BY <3>1 DEF HostSound, FlagsSound
    <3>4. "UNWINDING" \in stack[p].flags => "UNWINDING" \in stack[p].own
      BY <3>2
    <3> QED
      BY <3>2, <3>3, <3>4
  <2>2. last.kind = "continue" => "NONCONTINUABLE" \notin last.own
    BY <1>1 DEF IndInv, LastInv
  <2> QED
    BY <2>1, <2>2 DEF FlagsAreTruthful
<1> QED
  BY <1>1, InductiveInvariant, PTL

\* Both passes run the handlers they must and no others (WalksAreExact).
THEOREM ExactWalks == Spec => []WalksAreExact
<1>1. ASSUME IndInv PROVE WalksAreExact
  <2>1. UnwindIsExact
    BY <1>1 DEF IndInv, LastInv
  <2>2. ASSUME NEW p \in 1 .. Here, stack[p].kind = "host",
               stack[p].phase = "filter", stack[p].depth < MaxDepth
        PROVE  /\ ~IsGuest(stack[p].at)
               /\ stack[p].ran =
                    {i \in stack[p].at + 1 .. stack[p].from : stack[i].eh}
    <3>1. stack[p] \in HostFrames /\ HostSound(stack, stack[p], p)
      BY <1>1, <2>2, HostOf
    <3>2. /\ stack[p].depth \in Nat /\ stack[p].at \in Nat
          /\ stack[p].from \in Nat /\ stack[p].ran \in SUBSET Nat
      BY <3>1, HostFields
    <3>3. stack[p].op = "dispatch" /\ ~GuestAt(stack, stack[p].at)
      <4>1. ~(stack[p].depth >= MaxDepth)
        BY <2>2, <3>2, ExceptionAssumption
      <4> QED
        BY <2>2, <3>1, <4>1 DEF HostSound, FilterSound
    <3>4. RanFrom(stack, stack[p], stack[p].at + 1, stack[p].from)
      BY <2>2, <3>1 DEF HostSound, WalkSound
    <3>5. \A i \in Nat : i \in stack[p].ran <=>
             i \in stack[p].at + 1 .. stack[p].from /\ stack[i].eh
      BY <3>3, <3>4 DEF RanFrom, Handles
    <3>6. \A i \in stack[p].at + 1 .. stack[p].from : i \in Nat
      BY <3>2
    <3>7. stack[p].ran = {i \in stack[p].at + 1 .. stack[p].from : stack[i].eh}
      BY <3>2, <3>5, <3>6
    <3> QED
      BY <3>3, <3>7 DEF GuestAt, IsGuest
  <2>3. FilterIsLastResort
    BY <2>2 DEF FilterIsLastResort
  <2> QED
    BY <2>1, <2>3 DEF WalksAreExact
<1> QED
  BY <1>1, InductiveInvariant, PTL

=============================================================================
