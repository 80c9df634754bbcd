---------------------------- MODULE MachineCode ----------------------------
(***************************************************************************)
(* Instructions as bytes: Decode of decode.cc, Instruction::Assemble of    *)
(* instruction.cc and Directive::Assemble of directive.cc.  The argument   *)
(* of a relative branch is an offset when it was decoded and an address    *)
(* when it is assembled, as in the code.                                   *)
(***************************************************************************)
EXTENDS Instructions, Address

\* byte k of n; a negative n in two's complement.
ByteOf(n, k) == (n \div 256 ^ k) % 256
LittleEndian(n, size) == [k \in 1 .. size |-> ByteOf(n, k - 1)]

-----------------------------------------------------------------------------
(* Decode: bytes are the four bytes at the instruction *)

Signed(n, modulus) == IF n >= modulus \div 2 THEN n - modulus ELSE n

\* The first argument; mov takes its two in the opposite order.
Argument(mode, bytes) ==
  LET length == InstructionLength(mode)
      word == bytes[2] + 256 * bytes[3]
  IN  CASE mode = "rel8" -> Signed(bytes[2], 256)
        [] mode = "rel16" -> Signed(word, 65536)
        [] mode = "mov" -> bytes[3]
        [] mode \notin {"rel8", "rel16", "mov"} /\ length = 2 -> bytes[2]
        [] mode \notin {"rel8", "rel16", "mov"} /\ length = 3 -> word
        [] length = 4 -> word + 65536 * bytes[4]
        [] length = 1 -> NoValue

\* The width of a sentinel immediate mode must be known from the flags.
CanDecodeBytes(bytes, f) == CanFixMode([mode |-> DecodeOpcode(bytes[1])[2]], f)

DecodeBytes(bytes, f) ==
  LET row == DecodeOpcode(bytes[1])
      mode == FixedMode([mode |-> row[2]], f)
  IN  [mnemonic |-> row[1], mode |-> mode, suffix |-> "none", arg |-> Argument(mode, bytes),
       arg2 |-> IF mode = "mov" THEN bytes[2] ELSE NoValue, ret |-> DefaultReturn]

-----------------------------------------------------------------------------
(* Assemble *)

\* The reverse of the opcode table, the fixed immediate modes included.
EncodeOpcode(m, a) ==
  CHOOSE opcode \in 0 .. 255 :
    LET row == DecodeOpcode(opcode)
    IN  row[1] = m /\ (row[2] = a \/ (row[2] \in SizedImmediate /\ a \in {"imm_b", "imm_w"}))

\* add and sub are a clc or sec and the real instruction.
Prefix(m) == CASE m = "add" -> <<24>> [] m = "sub" -> <<56>> [] OTHER -> << >>
TrueMnemonic(m) == CASE m = "add" -> "adc" [] m = "sub" -> "sbc" [] OTHER -> m

\* Address::SubtractWrapped, for two addresses of one bank.
SubtractWrapped(a, b) == Signed((a - b) % 65536, 65536)

\* How far a branch at address has to go; it counts from the instruction after it.
Offset(ins, address) ==
  SubtractWrapped(ins.arg, AddWrapped(address, InstructionLength(ins.mode)))

\* Whether a relative branch reaches its target.
Reaches(ins, address) ==
  /\ Bank(ins.arg) = Bank(AddWrapped(address, InstructionLength(ins.mode)))
  /\ ins.mode = "rel8" => Offset(ins, address) \in -128 .. 127

CanEncode(ins, address) ==
  /\ IsLegalCombination(TrueMnemonic(ins.mnemonic), ins.mode)
  /\ ins.mode \notin SizedImmediate
  /\ ins.mode \notin {"imp", "acc"} => ins.arg # NoValue
  /\ ins.mode = "mov" => ins.arg2 # NoValue
  /\ ins.mode \in {"rel8", "rel16"} => Reaches(ins, address)

Operand(ins, address) ==
  CASE ins.mode = "mov" -> <<ByteOf(ins.arg2, 0), ByteOf(ins.arg, 0)>>
    [] ins.mode \in {"rel8", "rel16"} ->
         LittleEndian(Offset(ins, address), InstructionLength(ins.mode) - 1)
    [] OTHER -> LittleEndian(ins.arg, InstructionLength(ins.mode) - 1)

Encode(ins, address) ==
  Prefix(ins.mnemonic) \o <<EncodeOpcode(TrueMnemonic(ins.mnemonic), ins.mode)>>
    \o Operand(ins, address)

=============================================================================
