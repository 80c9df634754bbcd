--------------------------- MODULE MCDisassembler ---------------------------
(***************************************************************************)
(* ROMs with one subroutine at $8000, written as a sequence of encoded     *)
(* instructions, another at $8010, and returns everywhere else.            *)
(***************************************************************************)
EXTENDS Disassembler, SequencesExt

CONSTANT BodyLength   \* bound on the instructions of the first subroutine

First == 32768
Second == 32784
RomSize == 24
Rts == 96

Bytes(first, second) ==
  [a \in First .. First + RomSize - 1 |->
     CASE a - First < Len(first) -> first[a - First + 1]
       [] a >= Second /\ a - Second < Len(second) -> second[a - Second + 1]
       [] OTHER -> Rts]

Task(first, second, seeded, known) ==
  [memory |-> Bytes(first, second), conventions |-> known, assembled |-> {}, seeds |-> seeded]

Seed(a, f) == With(Empty, a, f)
M8X8 == MakeFlags("off", "on", "on", "unknown")
M16X16 == MakeFlags("off", "off", "off", "unknown")

Bodies(palette) == {FlattenSeq(body) : body \in [1 .. BodyLength -> palette]}

LdaImmediate == <<169, 1>>          \* one more byte when m is off
LdxImmediate == <<162, 1>>
Rep == <<194, 48>>
Sep == <<226, 32>>
Bcc(offset) == <<144, offset % 256>>
Bra(offset) == <<128, offset % 256>>
JsrTo(address) == <<32, address % 256, address \div 256>>

-----------------------------------------------------------------------------
(* Branches within a subroutine, over and into other instructions. *)

PathPalette ==
  {LdaImmediate, Rep, Sep, <<56>>, <<8>>, <<40>>, <<251>>, Bcc(1), Bcc(2), Bcc(-4), Bcc(-5), Bra(-3)}

PathTasks ==
  {Task(body, <<Rts>>, With(Seed(First, f), First + 2, M16X16), Empty) :
     body \in Bodies(PathPalette), f \in {M8X8, UnknownFlags}}

-----------------------------------------------------------------------------
(* Calls between the two subroutines, that agree on the mode or not. *)

CallPalette ==
  {JsrTo(First), JsrTo(Second), JsrTo(Second + 1), Rep, Sep, Bcc(-5), Bcc(-7), <<104>>, <<Rts>>}

Callees == {LdaImmediate, <<235>> \o JsrTo(First + 2), Rep \o JsrTo(Second)}

CallTasks ==
  {[Task(body, callee, Seed(First, M8X8), Empty) EXCEPT !.assembled = done] :
     body \in Bodies(CallPalette), callee \in Callees, done \in {{}, {Second}}}

DriverTasks == PathTasks \cup CallTasks

\* The second subroutine is known to return in another mode, or not at all.
YieldTasks ==
  {Task(body, callee, Seed(First, M8X8), Seed(Second, ret)) :
     body \in Bodies(CallPalette), callee \in Callees, ret \in {Yields(M16X16), Yields(M8X8), NoReturn}}

=============================================================================
