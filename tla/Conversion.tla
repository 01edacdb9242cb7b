----------------------------- MODULE Conversion -----------------------------
(***************************************************************************)
(* MultiByteToWideChar and WideCharToMultiByte with the UTF-8 / UTF-16     *)
(* converters of unicode.c below them, and the command line kept in both   *)
(* forms.  Bytes, units and code points are the program's own numbers; the *)
(* inputs are sequences over a few of them.  A call is a query for the     *)
(* size or a conversion into a buffer; sources have explicit lengths.      *)
(***************************************************************************)
EXTENDS Naturals, Sequences, SequencesExt

CONSTANTS SourceBytes, SourceUnits,  \* what sources are made of
          MaxBytes, MaxUnits,        \* bounds: lengths of the sources
          Extension,                 \* page -> the units of its bytes from 128 on
          CommandLineCapacity        \* SL_COMMAND_LINE_CAPACITY

VARIABLES call,         \* the parameters of the call
          answer,       \* what its query returned
          reply,        \* what it returned, and what it wrote
          commandLine   \* sl_command_line_w and sl_command_line_a

vars == <<call, answer, reply, commandLine>>

Replacement == 65533    \* U+FFFD
Default == 63           \* '?'
Undefined == 65535      \* an unused byte of a code page
SurrogateFirst == 55296
LowFirst == 56320
SurrogateLast == 57343

Invalid == [ok |-> FALSE, codepoint |-> Replacement, consumed |-> 1]
Decoded(codepoint, consumed) ==
  [ok |-> TRUE, codepoint |-> codepoint, consumed |-> consumed]

----------------------------------------------------------------------------
(* unicode.c *)

\* decode_utf8 at position i: the lead byte's class, then its continuations.
Lead(b) ==
  CASE b \in 194 .. 223 -> [length |-> 2, value |-> b % 32, minimum |-> 128]
    [] b \in 224 .. 239 -> [length |-> 3, value |-> b % 16, minimum |-> 2048]
    [] b \in 240 .. 244 -> [length |-> 4, value |-> b % 8, minimum |-> 65536]
    [] OTHER -> [length |-> 0, value |-> 0, minimum |-> 0]
\* Surrogates are let through.
IsScalarMutant(v) == v <= 1114111
IsScalar(v) == v <= 1114111 /\ v \notin SurrogateFirst .. SurrogateLast

DecodeUtf8(s, i) ==
  LET lead == Lead(s[i])
      tail == SubSeq(s, i + 1, i + lead.length - 1)
      value == FoldLeft(LAMBDA v, b : (v * 64) + (b % 64), lead.value, tail)
  IN  IF s[i] <= 127 THEN Decoded(s[i], 1)
      ELSE IF /\ lead.length > 0
              /\ i + lead.length - 1 <= Len(s)
              /\ \A k \in 1 .. Len(tail) : tail[k] \in 128 .. 191
              /\ value >= lead.minimum
              /\ IsScalar(value)
      THEN Decoded(value, lead.length)
      ELSE Invalid

\* decode_utf16, and decode_wide_codepoint of kernel32.c.
DecodeUtf16(s, i) ==
  IF s[i] \notin SurrogateFirst .. SurrogateLast THEN Decoded(s[i], 1)
  ELSE IF s[i] < LowFirst /\ i < Len(s) /\ s[i + 1] \in LowFirst .. SurrogateLast
  THEN Decoded(65536 + (s[i] - SurrogateFirst) * 1024 + s[i + 1] - LowFirst, 2)
  ELSE Invalid

EncodeUtf16(c) ==
  IF c <= 65535 THEN <<c>>
  ELSE <<SurrogateFirst + (c - 65536) \div 1024, LowFirst + ((c - 65536) % 1024)>>
EncodeUtf8(c) ==
  CASE c <= 127 -> <<c>>
    [] c \in 128 .. 2047 -> <<192 + c \div 64, 128 + (c % 64)>>
    [] c \in 2048 .. 65535 ->
         <<224 + c \div 4096, 128 + ((c \div 64) % 64), 128 + (c % 64)>>
    [] OTHER -> <<240 + c \div 262144, 128 + ((c \div 4096) % 64),
                  128 + ((c \div 64) % 64), 128 + (c % 64)>>
SizeUtf16(c) == IF c <= 65535 THEN 1 ELSE 2
\* U+0800 is counted as two bytes.
SizeUtf8Mutant(c) ==
  CASE c <= 127 -> 1 [] c \in 128 .. 2048 -> 2 [] c \in 2049 .. 65535 -> 3
    [] OTHER -> 4
SizeUtf8(c) ==
  CASE c <= 127 -> 1 [] c \in 128 .. 2047 -> 2 [] c \in 2048 .. 65535 -> 3
    [] OTHER -> 4

\* A pass over a source: what it decodes to, one element after the other.
RECURSIVE Pass(_, _, _)
Pass(wide, s, i) ==
  IF i > Len(s) THEN <<>>
  ELSE LET d == IF wide THEN DecodeUtf16(s, i) ELSE DecodeUtf8(s, i)
       IN  <<d>> \o Pass(wide, s, i + d.consumed)
AllValid(elements) == \A i \in 1 .. Len(elements) : elements[i].ok

\* utf8_required_units and utf16_required_bytes: the first pass counts; the
\* second writes.
Required(toWide, elements) ==
  FoldLeft(LAMBDA n, d : n + IF toWide THEN SizeUtf16(d.codepoint)
                             ELSE SizeUtf8(d.codepoint), 0, elements)
Written(toWide, elements) ==
  FlattenSeq([i \in 1 .. Len(elements) |->
                IF toWide THEN EncodeUtf16(elements[i].codepoint)
                ELSE EncodeUtf8(elements[i].codepoint)])

----------------------------------------------------------------------------
(* kernel32.c *)

\* single_byte_to_utf16 and utf16_to_single_byte.
ByteToUnit(page, b) ==
  IF b < 128 \/ b >= 128 + Len(Extension[page]) THEN b
  ELSE Extension[page][b - 127]
UnitToBytes(page, c) ==
  IF c < 128 \/ (page = "1252" /\ c \in 160 .. 255) THEN {c}
  ELSE {127 + i : i \in {k \in 1 .. Len(Extension[page]) :
                           Extension[page][k] = c}}
FirstByte(page, c) ==
  LET bytes == UnitToBytes(page, c)
  IN  CHOOSE b \in bytes : \A other \in bytes : b <= other
ToByte(page, d) ==
  IF d.ok /\ UnitToBytes(page, d.codepoint) # {}
  THEN FirstByte(page, d.codepoint) ELSE Default
UsesDefault(page, elements) ==
  \E i \in 1 .. Len(elements) :
    ~elements[i].ok \/ UnitToBytes(page, elements[i].codepoint) = {}

Failed(error) == [count |-> 0, error |-> error, written |-> <<>>,
                  usedDefault |-> FALSE]
Ok(count, written, usedDefault) ==
  [count |-> count, error |-> "none", written |-> written,
   usedDefault |-> usedDefault]

\* The source is refused, measured, or converted when the buffer holds it.
Reply(refused, required, written, capacity, usedDefault) ==
  IF refused THEN Failed("NO_UNICODE_TRANSLATION")
  ELSE IF capacity = 0 THEN Ok(required, <<>>, FALSE)
  ELSE IF capacity < required THEN Failed("INSUFFICIENT_BUFFER")
  ELSE Ok(required, written, usedDefault)

MultiByteToWideChar(page, strict, source, capacity) ==
  LET elements == Pass(FALSE, source, 1)
      units == [i \in 1 .. Len(source) |-> ByteToUnit(page, source[i])]
  IN  IF page = "utf8"
      THEN Reply(strict /\ ~AllValid(elements), Required(TRUE, elements),
                 Written(TRUE, elements), capacity, FALSE)
      ELSE Reply(strict /\ Undefined \in Range(units), Len(source),
                 [i \in 1 .. Len(units) |->
                    IF units[i] = Undefined THEN Replacement ELSE units[i]],
                 capacity, FALSE)

WideCharToMultiByte(page, strict, source, capacity) ==
  LET elements == Pass(TRUE, source, 1)
  IN  IF page = "utf8"
      THEN Reply(strict /\ ~AllValid(elements), Required(FALSE, elements),
                 Written(FALSE, elements), capacity, FALSE)
      ELSE Reply(FALSE, Len(elements),
                 [i \in 1 .. Len(elements) |-> ToByte(page, elements[i])],
                 capacity, UsesDefault(page, elements))

Convert(c, capacity) ==
  IF c.toWide THEN MultiByteToWideChar(c.page, c.strict, c.source, capacity)
  ELSE WideCharToMultiByte(c.page, c.strict, c.source, capacity)

\* The bytes a page's table, cut short, speaks of.
Speaks(page, b) ==
  b < 128 + Len(Extension[page]) \/ (page = "1252" /\ b >= 160)
Sources(S, n) == SeqOf(S, n) \ {<<>>}
Calls ==
  [toWide : {TRUE}, page : {"utf8"}, strict : BOOLEAN,
   source : Sources(SourceBytes, MaxBytes)]
    \cup [toWide : {FALSE}, page : {"utf8"}, strict : BOOLEAN,
          source : Sources(SourceUnits, MaxUnits)]
    \cup UNION {[toWide : {TRUE}, page : {page}, strict : BOOLEAN,
                 source : Sources({b \in SourceBytes : Speaks(page, b)}, 2)]
                  \cup [toWide : {FALSE}, page : {page}, strict : {FALSE},
                        source : Sources(SourceUnits, 2)] :
                page \in {"1252", "437"}}
NoReply == [count |-> 0, error |-> "pending", written |-> <<>>,
            usedDefault |-> FALSE]

Init ==
  /\ call \in Calls
  /\ answer = NoReply
  /\ reply = NoReply
  /\ commandLine = [wide |-> <<65>>, ansi |-> <<65>>]

Query ==
  /\ answer = NoReply
  /\ answer' = Convert(call, 0)
  /\ UNCHANGED <<call, reply, commandLine>>

\* With the capacity the query returned, one less or one more.
Fill(slack) ==
  /\ answer # NoReply /\ answer.error = "none" /\ reply = NoReply
  /\ answer.count + slack > 1
  /\ reply' = Convert(call, answer.count + slack - 1)
  /\ UNCHANGED <<call, answer, commandLine>>

\* sl_kernel32_set_command_line_utf8: both forms or neither.
SetCommandLine ==
  /\ call.toWide /\ call.page = "utf8" /\ call.strict
  /\ answer = NoReply
  /\ LET wide == MultiByteToWideChar("utf8", TRUE, call.source, 0)
         elements == Pass(FALSE, call.source, 1)
         units == Written(TRUE, elements)
     IN  /\ answer' = wide
         /\ commandLine' =
              IF wide.error # "none" \/ wide.count >= CommandLineCapacity
              THEN commandLine
              ELSE [wide |-> units,
                    ansi |-> [i \in 1 .. Len(Pass(TRUE, units, 1)) |->
                                ToByte("1252", Pass(TRUE, units, 1)[i])]]
  /\ UNCHANGED <<call, reply>>

Next == Query \/ (\E slack \in 0 .. 2 : Fill(slack)) \/ SetCommandLine
Spec == Init /\ [][Next]_vars

----------------------------------------------------------------------------
(* Properties. *)

\* The size a query reports is the size a conversion needs: a buffer of that
\* size is filled exactly, a smaller one is refused and left untouched.
QueryIsExact ==
  reply # NoReply =>
    IF reply.error = "none"
    THEN reply.count = answer.count /\ Len(reply.written) = answer.count
    ELSE reply.error = "INSUFFICIENT_BUFFER" /\ reply.written = <<>>

\* A strict conversion that succeeds loses nothing: converted back, strictly,
\* it is the source, so no overlong, truncated or surrogate form is accepted.
\* A conversion to a code page that used no default does not either.
ConversionRoundTrips ==
  /\ reply.error = "none" /\ call.strict =>
       Convert([call EXCEPT !.toWide = ~@, !.source = reply.written],
               Len(call.source)).written = call.source
  /\ reply.error = "none" /\ ~call.toWide /\ call.page # "utf8" =>
       reply.usedDefault \/
         LET back == MultiByteToWideChar(call.page, TRUE, reply.written,
                                         Len(reply.written))
         IN  back.written = call.source

\* A lossy conversion is the strict one where the strict one succeeds, and
\* marks the damage with U+FFFD where it does not; the two forms of the
\* command line say the same.
LossIsMarked ==
  /\ reply.error = "none" /\ call.page = "utf8" /\ ~call.strict =>
       LET strict == Convert([call EXCEPT !.strict = TRUE], reply.count)
       IN  IF strict.error = "none" THEN strict.written = reply.written
           ELSE IF call.toWide THEN Replacement \in Range(reply.written)
           ELSE \E i \in 1 .. Len(reply.written) - 2 :
                  SubSeq(reply.written, i, i + 2) = EncodeUtf8(Replacement)
  /\ Len(commandLine.wide) < CommandLineCapacity
  /\ commandLine.ansi = WideCharToMultiByte("1252", FALSE, commandLine.wide,
                          Len(commandLine.wide)).written

\* What MultiByteToWideChar and WideCharToMultiByte return is the source in
\* the other form, or is marked as not being it.
ConversionIsFaithful == ConversionRoundTrips /\ LossIsMarked

\* A byte the code page leaves undefined, which a strict conversion refuses
\* (tests/test_kernel32.c: undefined_cp1252), is never written: a unit the
\* page does not have becomes the default character.
UndefinedBytesAreNeverWritten ==
  ~call.toWide /\ call.page # "utf8" =>
    \A i \in 1 .. Len(reply.written) :
      ByteToUnit(call.page, reply.written[i]) # Undefined
=============================================================================
