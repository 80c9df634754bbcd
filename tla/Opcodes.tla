------------------------------ MODULE Opcodes ------------------------------
(***************************************************************************)
(* The 65816 opcode table of opcode_map.cc and the questions the assembler *)
(* and the disassembler ask of it.  A mnemonic M_xyz of the code is the    *)
(* string "xyz" and an addressing mode A_xyz the string "xyz"; the family  *)
(* column, which only print_opcode_map reads, is left out.                 *)
(***************************************************************************)
EXTENDS Integers, Sequences

\* decode_map: the opcode of row r, column k is r + k.
DecodeMap == <<
  <<"brk", "imm_b">>, <<"ora", "ind_bx">>, <<"cop", "imm_b">>, <<"ora", "stk">>,   \* 0x00
  <<"tsb", "dir_b">>, <<"ora", "dir_b">>, <<"asl", "dir_b">>, <<"ora", "lng_b">>,   \* 0x04
  <<"php", "imp">>, <<"ora", "imm_fm">>, <<"asl", "acc">>, <<"phd", "imp">>,   \* 0x08
  <<"tsb", "dir_w">>, <<"ora", "dir_w">>, <<"asl", "dir_w">>, <<"ora", "dir_l">>,   \* 0x0c
  <<"bpl", "rel8">>, <<"ora", "ind_by">>, <<"ora", "ind_b">>, <<"ora", "stk_y">>,   \* 0x10
  <<"trb", "dir_b">>, <<"ora", "dir_bx">>, <<"asl", "dir_bx">>, <<"ora", "lng_by">>,   \* 0x14
  <<"clc", "imp">>, <<"ora", "dir_wy">>, <<"inc", "acc">>, <<"tcs", "imp">>,   \* 0x18
  <<"trb", "dir_w">>, <<"ora", "dir_wx">>, <<"asl", "dir_wx">>, <<"ora", "dir_lx">>,   \* 0x1c
  <<"jsr", "dir_w">>, <<"and", "ind_bx">>, <<"jsl", "dir_l">>, <<"and", "stk">>,   \* 0x20
  <<"bit", "dir_b">>, <<"and", "dir_b">>, <<"rol", "dir_b">>, <<"and", "lng_b">>,   \* 0x24
  <<"plp", "imp">>, <<"and", "imm_fm">>, <<"rol", "acc">>, <<"pld", "imp">>,   \* 0x28
  <<"bit", "dir_w">>, <<"and", "dir_w">>, <<"rol", "dir_w">>, <<"and", "dir_l">>,   \* 0x2c
  <<"bmi", "rel8">>, <<"and", "ind_by">>, <<"and", "ind_b">>, <<"and", "stk_y">>,   \* 0x30
  <<"bit", "dir_bx">>, <<"and", "dir_bx">>, <<"rol", "dir_bx">>, <<"and", "lng_by">>,   \* 0x34
  <<"sec", "imp">>, <<"and", "dir_wy">>, <<"dec", "acc">>, <<"tsc", "imp">>,   \* 0x38
  <<"bit", "dir_wx">>, <<"and", "dir_wx">>, <<"rol", "dir_wx">>, <<"and", "dir_lx">>,   \* 0x3c
  <<"rti", "imp">>, <<"eor", "ind_bx">>, <<"wdm", "imm_b">>, <<"eor", "stk">>,   \* 0x40
  <<"mvp", "mov">>, <<"eor", "dir_b">>, <<"lsr", "dir_b">>, <<"eor", "lng_b">>,   \* 0x44
  <<"pha", "imp">>, <<"eor", "imm_fm">>, <<"lsr", "acc">>, <<"phk", "imp">>,   \* 0x48
  <<"jmp", "dir_w">>, <<"eor", "dir_w">>, <<"lsr", "dir_w">>, <<"eor", "dir_l">>,   \* 0x4c
  <<"bvc", "rel8">>, <<"eor", "ind_by">>, <<"eor", "ind_b">>, <<"eor", "stk_y">>,   \* 0x50
  <<"mvn", "mov">>, <<"eor", "dir_bx">>, <<"lsr", "dir_bx">>, <<"eor", "lng_by">>,   \* 0x54
  <<"cli", "imp">>, <<"eor", "dir_wy">>, <<"phy", "imp">>, <<"tcd", "imp">>,   \* 0x58
  <<"jmp", "dir_l">>, <<"eor", "dir_wx">>, <<"lsr", "dir_wx">>, <<"eor", "dir_lx">>,   \* 0x5c
  <<"rts", "imp">>, <<"adc", "ind_bx">>, <<"per", "rel16">>, <<"adc", "stk">>,   \* 0x60
  <<"stz", "dir_b">>, <<"adc", "dir_b">>, <<"ror", "dir_b">>, <<"adc", "lng_b">>,   \* 0x64
  <<"pla", "imp">>, <<"adc", "imm_fm">>, <<"ror", "acc">>, <<"rtl", "imp">>,   \* 0x68
  <<"jmp", "ind_w">>, <<"adc", "dir_w">>, <<"ror", "dir_w">>, <<"adc", "dir_l">>,   \* 0x6c
  <<"bvs", "rel8">>, <<"adc", "ind_by">>, <<"adc", "ind_b">>, <<"adc", "stk_y">>,   \* 0x70
  <<"stz", "dir_bx">>, <<"adc", "dir_bx">>, <<"ror", "dir_bx">>, <<"adc", "lng_by">>,   \* 0x74
  <<"sei", "imp">>, <<"adc", "dir_wy">>, <<"ply", "imp">>, <<"tdc", "imp">>,   \* 0x78
  <<"jmp", "ind_wx">>, <<"adc", "dir_wx">>, <<"ror", "dir_wx">>, <<"adc", "dir_lx">>,   \* 0x7c
  <<"bra", "rel8">>, <<"sta", "ind_bx">>, <<"brl", "rel16">>, <<"sta", "stk">>,   \* 0x80
  <<"sty", "dir_b">>, <<"sta", "dir_b">>, <<"stx", "dir_b">>, <<"sta", "lng_b">>,   \* 0x84
  <<"dey", "imp">>, <<"bit", "imm_fm">>, <<"txa", "imp">>, <<"phb", "imp">>,   \* 0x88
  <<"sty", "dir_w">>, <<"sta", "dir_w">>, <<"stx", "dir_w">>, <<"sta", "dir_l">>,   \* 0x8c
  <<"bcc", "rel8">>, <<"sta", "ind_by">>, <<"sta", "ind_b">>, <<"sta", "stk_y">>,   \* 0x90
  <<"sty", "dir_bx">>, <<"sta", "dir_bx">>, <<"stx", "dir_by">>, <<"sta", "lng_by">>,   \* 0x94
  <<"tya", "imp">>, <<"sta", "dir_wy">>, <<"txs", "imp">>, <<"txy", "imp">>,   \* 0x98
  <<"stz", "dir_w">>, <<"sta", "dir_wx">>, <<"stz", "dir_wx">>, <<"sta", "dir_lx">>,   \* 0x9c
  <<"ldy", "imm_fx">>, <<"lda", "ind_bx">>, <<"ldx", "imm_fx">>, <<"lda", "stk">>,   \* 0xa0
  <<"ldy", "dir_b">>, <<"lda", "dir_b">>, <<"ldx", "dir_b">>, <<"lda", "lng_b">>,   \* 0xa4
  <<"tay", "imp">>, <<"lda", "imm_fm">>, <<"tax", "imp">>, <<"plb", "imp">>,   \* 0xa8
  <<"ldy", "dir_w">>, <<"lda", "dir_w">>, <<"ldx", "dir_w">>, <<"lda", "dir_l">>,   \* 0xac
  <<"bcs", "rel8">>, <<"lda", "ind_by">>, <<"lda", "ind_b">>, <<"lda", "stk_y">>,   \* 0xb0
  <<"ldy", "dir_bx">>, <<"lda", "dir_bx">>, <<"ldx", "dir_by">>, <<"lda", "lng_by">>,   \* 0xb4
  <<"clv", "imp">>, <<"lda", "dir_wy">>, <<"tsx", "imp">>, <<"tyx", "imp">>,   \* 0xb8
  <<"ldy", "dir_wx">>, <<"lda", "dir_wx">>, <<"ldx", "dir_wy">>, <<"lda", "dir_lx">>,   \* 0xbc
  <<"cpy", "imm_fx">>, <<"cmp", "ind_bx">>, <<"rep", "imm_b">>, <<"cmp", "stk">>,   \* 0xc0
  <<"cpy", "dir_b">>, <<"cmp", "dir_b">>, <<"dec", "dir_b">>, <<"cmp", "lng_b">>,   \* 0xc4
  <<"iny", "imp">>, <<"cmp", "imm_fm">>, <<"dex", "imp">>, <<"wai", "imp">>,   \* 0xc8
  <<"cpy", "dir_w">>, <<"cmp", "dir_w">>, <<"dec", "dir_w">>, <<"cmp", "dir_l">>,   \* 0xcc
  <<"bne", "rel8">>, <<"cmp", "ind_by">>, <<"cmp", "ind_b">>, <<"cmp", "stk_y">>,   \* 0xd0
  <<"pei", "dir_b">>, <<"cmp", "dir_bx">>, <<"dec", "dir_bx">>, <<"cmp", "lng_by">>,   \* 0xd4
  <<"cld", "imp">>, <<"cmp", "dir_wy">>, <<"phx", "imp">>, <<"stp", "imp">>,   \* 0xd8
  <<"jmp", "lng_w">>, <<"cmp", "dir_wx">>, <<"dec", "dir_wx">>, <<"cmp", "dir_lx">>,   \* 0xdc
  <<"cpx", "imm_fx">>, <<"sbc", "ind_bx">>, <<"sep", "imm_b">>, <<"sbc", "stk">>,   \* 0xe0
  <<"cpx", "dir_b">>, <<"sbc", "dir_b">>, <<"inc", "dir_b">>, <<"sbc", "lng_b">>,   \* 0xe4
  <<"inx", "imp">>, <<"sbc", "imm_fm">>, <<"nop", "imp">>, <<"xba", "imp">>,   \* 0xe8
  <<"cpx", "dir_w">>, <<"sbc", "dir_w">>, <<"inc", "dir_w">>, <<"sbc", "dir_l">>,   \* 0xec
  <<"beq", "rel8">>, <<"sbc", "ind_by">>, <<"sbc", "ind_b">>, <<"sbc", "stk_y">>,   \* 0xf0
  <<"pea", "imm_w">>, <<"sbc", "dir_bx">>, <<"inc", "dir_bx">>, <<"sbc", "lng_by">>,   \* 0xf4
  <<"sed", "imp">>, <<"sbc", "dir_wy">>, <<"plx", "imp">>, <<"xce", "imp">>,   \* 0xf8
  <<"jsr", "ind_wx">>, <<"sbc", "dir_wx">>, <<"inc", "dir_wx">>, <<"sbc", "dir_lx">>   \* 0xfc
  >>

\* The sentinel immediate modes, whose width a status bit decides.
SizedImmediate == {"imm_fm", "imm_fx"}

AddressingModes ==
  {"imp", "acc", "imm_b", "imm_w", "dir_b", "dir_w", "dir_l", "dir_bx", "dir_by",
   "dir_wx", "dir_wy", "dir_lx", "ind_b", "ind_w", "ind_bx", "ind_by", "ind_wx",
   "lng_b", "lng_w", "lng_by", "stk", "stk_y", "mov", "rel8", "rel16"} \cup SizedImmediate

DecodeOpcode(opcode) == DecodeMap[opcode + 1]

\* MakeReverseOpcodeMap: every pair of the table, and for a sentinel
\* immediate mode the two modes it can be fixed to.
EncodeKeys ==
  LET Rows == {DecodeMap[i] : i \in DOMAIN DecodeMap}
  IN  Rows \cup {<<row[1], mode>> : row \in {r \in Rows : r[2] \in SizedImmediate},
                                   mode \in {"imm_b", "imm_w"}}

IsLegalCombination(m, a) == <<m, a>> \in EncodeKeys

ImmediateArgumentUsesMBit(m) == <<m, "imm_fm">> \in EncodeKeys \/ m \in {"add", "sub"}

ImmediateArgumentUsesXBit(m) == <<m, "imm_fx">> \in EncodeKeys

UsesMFlag ==
  {"adc", "add", "and", "asl", "bit", "cmp", "dec", "eor", "inc", "lda", "lsr",
   "ora", "pha", "pla", "rol", "ror", "sbc", "sta", "stz", "sub", "trb", "tsb",
   "txa", "tya"}

UsesXFlag ==
  {"cpx", "cpy", "dex", "dey", "inx", "iny", "ldx", "ldy", "phx", "phy", "plx",
   "ply", "stx", "sty", "tax", "tay", "tsx", "txy", "tyx"}

FlagControllingInstructionSize(m) ==
  CASE m \in UsesMFlag -> "m"
    [] m \in UsesXFlag -> "x"
    [] OTHER -> "none"

\* InstructionLength: opcode byte included; 0 for a mode still undecided.
InstructionLength(a) ==
  CASE a \in {"imp", "acc"} -> 1
    [] a \in {"imm_b", "dir_b", "dir_bx", "dir_by", "ind_b", "ind_bx", "ind_by",
              "lng_b", "lng_by", "stk", "stk_y", "rel8"} -> 2
    [] a \in {"imm_w", "dir_w", "dir_wx", "dir_wy", "ind_w", "ind_wx", "lng_w",
              "mov", "rel16"} -> 3
    [] a \in {"dir_l", "dir_lx"} -> 4
    [] OTHER -> 0

=============================================================================
