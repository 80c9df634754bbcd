----------------------------- MODULE MCListing -----------------------------
(***************************************************************************)
(* ROMs that are disassembled and printed: every opcode once, short        *)
(* subroutines of carry instructions, branches, calls and overlapping      *)
(* code, and two banks with code across their ends.                        *)
(***************************************************************************)
EXTENDS Listing, SequencesExt

CONSTANT BodyLength   \* bound on the instructions of the first subroutine

First == 32768
Second == 32784
RomSize == 24
Rts == 96

Bytes(first, second) ==
  [a \in First .. First + RomSize - 1 |->
     CASE a - First < Len(first) -> first[a - First + 1]
       [] a >= Second /\ a - Second < Len(second) -> second[a - Second + 1]
       [] OTHER -> Rts]

Task(bytes, seeded) ==
  [memory |-> bytes, conventions |-> Empty, assembled |-> {}, seeds |-> seeded]

Seed(a, f) == With(Empty, a, f)
M8X8 == MakeFlags("off", "on", "on", "unknown")
M16X16 == MakeFlags("off", "off", "off", "unknown")

-----------------------------------------------------------------------------
(* Each opcode alone: a far jump goes to $8005, into its own subroutine. *)

OpcodeTasks ==
  {Task(Bytes(<<opcode, 5, 128, 0>>, << >>), Seed(First, f)) :
     opcode \in 0 .. 255, f \in {M8X8, M16X16, UnknownFlags}}

-----------------------------------------------------------------------------
(* Short subroutines *)

Palette ==
  {<<24>>, <<56>>, <<105, 24>>, <<233, 1>>, <<144, 0>>, <<144, 252>>, <<32, 1, 128>>,
   <<32, 16, 128>>, <<194, 32>>}

Callee == <<24, 105, 1>>

Bodies == [1 .. BodyLength -> Palette]

BodyTasks ==
  {Task(Bytes(FlattenSeq(body), Callee), Seed(First, M8X8)) : body \in Bodies}

\* xce in a loop: the flags at its head alternate until they are joined.
LoopTasks ==
  {Task(Bytes(<<first, 251, 128, 253>>, Callee), Seed(First, f)) :
     first \in {24, 56, 234}, f \in {M8X8, UnknownFlags}}

\* A branch with the carry clear goes to an adc of a byte, and so does a call
\* with 16-bit registers, which fails.
RefusedTask ==
  Task(Bytes(<<144, 6, 194, 32, 32, 8, 128, Rts, 105, 1>>, Callee), Seed(First, M8X8))

\* Two paths with different widths meet at the adc of an add: the operand of
\* the first instruction is the clc of the second path.
WidthTask ==
  Task(Bytes(<<5, 24, 101, 1>>, << >>),
       [a \in {First, First + 1} |-> IF a = First THEN M16X16 ELSE M8X8])

\* The first call comes from a place where the carry is known.
CarryTask == Task(Bytes(Callee, << >>), Seed(First, MakeFlags("off", "on", "on", "off")))

-----------------------------------------------------------------------------
(* The last bytes of one bank and of the next *)

EndOf(bank) == bank * 65536 + 65532
BankAddresses(bank) == (EndOf(bank) .. EndOf(bank) + 3) \cup (bank * 65536 .. bank * 65536 + 7)

BankBytes(ends) ==
  [a \in BankAddresses(192) \cup BankAddresses(193) |->
     CASE a % 65536 = 65535 -> ends[a \div 65536]
       [] a % 65536 = 0 -> IF a \div 65536 = 192 THEN 234 ELSE 105
       [] a = 193 * 65536 + 1 -> 1
       [] OTHER -> Rts]

\* The seeds are the last bytes of the banks, and perhaps the ones after them.
BankTasks ==
  {Task(BankBytes([bank \in {192, 193} |-> IF bank = 192 THEN low ELSE high]),
        [a \in starts |-> M8X8]) :
     low \in {24, 56, 234}, high \in {24, 234},
     starts \in {{EndOf(192) + 3}, {EndOf(192) + 3, EndOf(193) + 3},
                 {EndOf(192) + 3, 193 * 65536}}}

\* An instruction that wraps around the end of its bank has the clc of an add
\* for its operand, and goes on at the adc.
WrapTask ==
  Task([a \in BankAddresses(192) |->
          CASE a % 65536 = 65535 -> 169
            [] a % 65536 = 0 -> 24
            [] a % 65536 = 1 -> 105
            [] OTHER -> Rts],
       [a \in {EndOf(192) + 3, 192 * 65536} |-> M8X8])

-----------------------------------------------------------------------------

ListingTasks ==
  UNION {OpcodeTasks, BodyTasks, LoopTasks, BankTasks,
         {RefusedTask, WidthTask, CarryTask, WrapTask}}

=============================================================================
