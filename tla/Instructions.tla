---------------------------- MODULE Instructions ----------------------------
(***************************************************************************)
(* Instruction, Directive and ReturnConvention as static analysis uses     *)
(* them (instruction.cc, directive.cc, calling_convention.h): which        *)
(* statements are consistent with the flags they are reached with, what    *)
(* they do to the execution state, and how control leaves them.            *)
(*                                                                         *)
(* An argument is the integer it evaluates to, or NoValue when the lookup  *)
(* fails.  The first pass and the disassembler evaluate with no names in   *)
(* scope, so there NoValue stands for every argument that is not constant. *)
(***************************************************************************)
EXTENDS ExecutionState, Opcodes

CONSTANT NoValue   \* the argument of a failed lookup

ASSUME NoValueAssumption == NoValue \notin Int

-----------------------------------------------------------------------------
(* ReturnConvention *)

ReturnConventions == [kind : {"default", "yields", "noreturn"}, flags : FlagStates]

DefaultReturn == [kind |-> "default", flags |-> UnknownFlags]
Yields(f) == [kind |-> "yields", flags |-> f]
NoReturn == [kind |-> "noreturn", flags |-> UnknownFlags]

ApplyReturn(ret, es) == IF ret.kind = "yields" THEN [es EXCEPT !.flags = ret.flags] ELSE es

-----------------------------------------------------------------------------
(* Control flow out of an instruction *)

IsExitInstruction(ins) ==
  \/ ins.mnemonic \in {"jmp", "rtl", "rts", "rti", "stp", "bra", "brl"}
  \/ ins.ret.kind = "noreturn"

IsLocalBranch(ins) == ins.mode \in {"rel8", "rel16"} /\ ins.mnemonic # "per"

-----------------------------------------------------------------------------
(* CheckConsistency, one operator per question it asks *)

\* add and sub follow the addressing rules of adc.
EffectiveMnemonic(m) == IF m \in {"add", "sub"} THEN "adc" ELSE m

WidthBit(flags, which) == IF which = "m" THEN flags.m ELSE flags.x

\* A suffix is kept only by instructions whose width a bit decides, and
\* must not contradict that bit where it is known.
SuffixAgrees(ins, flags) ==
  LET used == FlagControllingInstructionSize(EffectiveMnemonic(ins.mnemonic))
  IN  \/ ins.suffix = "none"
      \/ /\ used # "none"
         /\ ~(ins.suffix = "w" /\ WidthBit(flags, used) = "on")
         /\ ~(ins.suffix = "b" /\ WidthBit(flags, used) = "off")

ImmediateAgrees_FixedOnly(ins, flags) ==   \* mutant: sentinel modes pass unseen
  LET needed == IF ins.mode = "imm_b" THEN "on" ELSE "off"
  IN  ins.mode \in {"imm_b", "imm_w"} =>
        IF ImmediateArgumentUsesMBit(ins.mnemonic) THEN flags.m = needed
        ELSE ImmediateArgumentUsesXBit(ins.mnemonic) => flags.x = needed

\* An immediate argument needs a known width; a fixed width needs that one.
ImmediateAgrees(ins, flags) ==
  LET needed == IF ins.mode = "imm_b" THEN "on" ELSE "off"
  IN  CASE ins.mode = "imm_fm" -> flags.m \in {"on", "off"}
        [] ins.mode = "imm_fx" -> flags.x \in {"on", "off"}
        [] ins.mode \in {"imm_b", "imm_w"} ->
             IF ImmediateArgumentUsesMBit(ins.mnemonic) THEN flags.m = needed
             ELSE ImmediateArgumentUsesXBit(ins.mnemonic) => flags.x = needed
        [] OTHER -> TRUE

CheckConsistency(ins, flags) ==
  /\ IsLegalCombination(EffectiveMnemonic(ins.mnemonic), ins.mode)
  /\ SuffixAgrees(ins, flags)
  /\ ImmediateAgrees(ins, flags)

FixedMode_IndexOnly(ins, flags) ==   \* mutant: the accumulator is forgotten
  CASE ins.mode = "imm_fx" -> IF flags.x = "on" THEN "imm_b" ELSE "imm_w"
    [] OTHER -> ins.mode

\* FixAddressingMode: the mode the incoming flags give a sentinel immediate
\* mode, which is an error (CanFixMode false) when the bit is not known.
FixedMode(ins, flags) ==
  CASE ins.mode \in SizedImmediate ->
         IF WidthBit(flags, IF ins.mode = "imm_fm" THEN "m" ELSE "x") = "on"
           THEN "imm_b" ELSE "imm_w"
    [] OTHER -> ins.mode

CanFixMode(ins, flags) ==
  /\ ins.mode = "imm_fm" => flags.m \in {"on", "off"}
  /\ ins.mode = "imm_fx" => flags.x \in {"on", "off"}

\* Instruction::SerializedSize: add and sub bring their own clc or sec.
InstructionSize(ins) ==
  InstructionLength(ins.mode) + (IF ins.mnemonic \in {"add", "sub"} THEN 1 ELSE 0)

-----------------------------------------------------------------------------
(* Execute: the cases of Instruction::Execute, in the order of the code.   *)
(* Mask(bit) is the register width as a modulus; a bit that is not known   *)
(* to be on leaves 16 bits.                                                *)

Mask(bit) == IF bit = "on" THEN 256 ELSE 65536

\* (n \div 2^k) % 2: the bit of a rep or sep argument.
BitOf(n, weight) == (n \div weight) % 2 = 1

\* rep and sep: with an unknown argument a bit is set to target or left alone.
UpdateStatus(f, target, arg) ==
  LET New(old, weight) ==
        CASE arg = NoValue /\ old # target -> "unknown"
          [] arg # NoValue /\ BitOf(arg, weight) -> target
          [] OTHER -> old
  IN  MakeFlags(f.e, New(f.m, 32), New(f.x, 16), New(f.c, 1))

LoadedRegister(arg) == IF arg = NoValue THEN UnknownRegister ELSE KnownRegister(arg)

\* mvn and mvp move A + 1 bytes; the code reads that count from the first
\* bank argument.
BlockMove(es, ins) ==
  LET offset == IF ins.mnemonic = "mvn" THEN 1 + ins.arg ELSE -1 - ins.arg
      Moved(r) == IF ins.arg = NoValue THEN UnknownRegister
                  ELSE AddToRegister(r, offset, Mask(es.flags.x))
  IN  [es EXCEPT !.a = CASE es.flags.m = "on" -> KnownRegister(255)
                         [] es.flags.m = "off" -> KnownRegister(65535)
                         [] OTHER -> UnknownRegister,
                 !.x = Moved(@), !.y = Moved(@), !.dbr = LoadedRegister(ins.arg2)]

WipesAccumulatorAndCarry == {"adc", "sbc", "add", "sub", "asl", "lsr", "rol", "ror"}
ImmediateModes == {"imm_b", "imm_w", "imm_fm", "imm_fx"}

\* A call honours its yields state and always clobbers the carry.
Call(es, ins) ==
  LET f == IF ins.ret.kind = "yields" THEN ins.ret.flags ELSE es.flags
  IN  [es EXCEPT !.flags = SetCBit(f, "unknown")]

Pushed(es, ins) ==
  [es EXCEPT !.stack =
     CASE ins.mnemonic = "pea" -> IF ins.arg = NoValue THEN PushUnknownWord(@) ELSE PushWord(@, ins.arg)
       [] ins.mnemonic \in {"pei", "per"} -> PushUnknownWord(@)
       [] ins.mnemonic = "pha" -> PushReg(@, es.a, es.flags.m, ATypes)
       [] ins.mnemonic = "phx" -> PushReg(@, es.x, es.flags.x, XTypes)
       [] ins.mnemonic = "phy" -> PushReg(@, es.y, es.flags.x, YTypes)
       [] ins.mnemonic = "php" -> PushEntry(@, FlagsEntry(es.flags))]

\* inc, inx, iny and their opposites, when they work on a register.
Stepped(es, ins) ==
  LET offset == IF ins.mnemonic \in {"dec", "dex", "dey"} THEN -1 ELSE 1
  IN  CASE ins.mode \notin {"acc", "imp"} -> es
        [] ins.mode \in {"acc", "imp"} /\ ins.mnemonic \in {"inc", "dec"} ->
             [es EXCEPT !.a = AddToRegister(@, offset, Mask(es.flags.m))]
        [] ins.mode \in {"acc", "imp"} /\ ins.mnemonic \in {"inx", "dex"} ->
             [es EXCEPT !.x = AddToRegister(@, offset, Mask(es.flags.x))]
        [] ins.mode \in {"acc", "imp"} /\ ins.mnemonic \in {"iny", "dey"} ->
             [es EXCEPT !.y = AddToRegister(@, offset, Mask(es.flags.x))]

\* Only an immediate load is tracked.
Loaded(es, ins) ==
  CASE ins.mode \notin ImmediateModes -> es
    [] ins.mode \in ImmediateModes /\ ins.mnemonic = "lda" -> [es EXCEPT !.a = LoadedRegister(ins.arg)]
    [] ins.mode \in ImmediateModes /\ ins.mnemonic = "ldx" -> [es EXCEPT !.x = LoadedRegister(ins.arg)]
    [] ins.mode \in ImmediateModes /\ ins.mnemonic = "ldy" -> [es EXCEPT !.y = LoadedRegister(ins.arg)]

\* The state after a consistent instruction other than pla, plx and ply.
\* bcc and bcs fall through only with the carry the other way.
Transfer(ins, es) ==
  LET m == ins.mnemonic
  IN  CASE m \in {"sec", "bcc"} -> [es EXCEPT !.flags = SetCBit(@, "on")]
        [] m \in {"clc", "bcs"} -> [es EXCEPT !.flags = SetCBit(@, "off")]
        [] m = "rep" -> [es EXCEPT !.flags = UpdateStatus(@, "off", ins.arg)]
        [] m = "sep" -> [es EXCEPT !.flags = UpdateStatus(@, "on", ins.arg)]
        [] m \in WipesAccumulatorAndCarry ->
             [es EXCEPT !.a = UnknownRegister, !.flags = SetCBit(@, "unknown")]
        [] m \in {"cmp", "cpx", "cpy"} -> [es EXCEPT !.flags = SetCBit(@, "unknown")]
        [] m \in {"and", "eor", "ora"} -> [es EXCEPT !.a = UnknownRegister]
        [] m \in {"inc", "dec", "inx", "dex", "iny", "dey"} -> Stepped(es, ins)
        [] m \in {"lda", "ldx", "ldy"} -> Loaded(es, ins)
        [] m \in {"mvn", "mvp"} -> BlockMove(es, ins)
        [] m \in {"pea", "pei", "per", "pha", "phx", "phy", "php"} -> Pushed(es, ins)
        [] m = "plp" -> PullFlags(es)
        [] m = "xce" -> [es EXCEPT !.flags = ExchangeCE(@)]
        [] m \in {"jmp", "jsl", "jsr", "brk", "cop"} -> Call(es, ins)
        [] OTHER -> es

\* pla, plx and ply, the only instructions that can end the program.
PullRegister(ins, es) ==
  CASE ins.mnemonic = "pla" ->
         LET p == PullReg(es.stack, es.flags.m, ATypes)
         IN  [crash |-> p.crash, state |-> [es EXCEPT !.a = p.reg, !.stack = p.stack]]
    [] ins.mnemonic = "plx" ->
         LET p == PullReg(es.stack, es.flags.x, XTypes)
         IN  [crash |-> p.crash, state |-> [es EXCEPT !.x = p.reg, !.stack = p.stack]]
    [] ins.mnemonic = "ply" ->
         LET p == PullReg(es.stack, es.flags.x, YTypes)
         IN  [crash |-> p.crash, state |-> [es EXCEPT !.y = p.reg, !.stack = p.stack]]

\* Instruction::Execute: result is "ok", "error" (an ErrorOr that carries an
\* Error) or "crash"; state is meant only when it is "ok".
Execute(ins, es) ==
  CASE ~CheckConsistency(ins, es.flags) -> [result |-> "error", state |-> es]
    [] CheckConsistency(ins, es.flags) /\ ins.mnemonic \in {"pla", "plx", "ply"} ->
         LET p == PullRegister(ins, es)
         IN  [result |-> IF p.crash THEN "crash" ELSE "ok", state |-> p.state]
    [] CheckConsistency(ins, es.flags) /\ ins.mnemonic \notin {"pla", "plx", "ply"} ->
         [result |-> "ok", state |-> Transfer(ins, es)]

\* ExecuteBranch: the state on the branch's target.
BranchCarry(ins, es) ==
  CASE ins.mnemonic = "bcc" -> [es EXCEPT !.flags = SetCBit(@, "off")]
    [] ins.mnemonic = "bcs" -> [es EXCEPT !.flags = SetCBit(@, "on")]
    [] OTHER -> es

ExecuteBranch(ins, es) ==
  LET done == Execute(ins, es)
  IN  [done EXCEPT !.state = BranchCarry(ins, @)]

-----------------------------------------------------------------------------
(* Directives *)

DataDirectives == {"db", "dw", "dl"}

ExecuteDirective_DataOnly(dir, es) ==   \* mutant: an .org gap is run over
  CASE dir.name \in DataDirectives -> [result |-> "error", state |-> es]
    [] dir.name = "mode" -> [result |-> "ok", state |-> [es EXCEPT !.flags = dir.flags]]
    [] OTHER -> [result |-> "ok", state |-> es]

\* Directive::Execute.
ExecuteDirective(dir, es) ==
  CASE dir.name \in DataDirectives \cup {"org"} -> [result |-> "error", state |-> es]
    [] dir.name = "mode" -> [result |-> "ok", state |-> [es EXCEPT !.flags = dir.flags]]
    [] OTHER -> [result |-> "ok", state |-> es]

\* Directive::SerializedSize: count is the length of the directive's list.
DirectiveSize(dir) ==
  CASE dir.name = "db" -> dir.count
    [] dir.name = "dw" -> 2 * dir.count
    [] dir.name = "dl" -> 3 * dir.count
    [] OTHER -> 0

=============================================================================
