---------------------------- MODULE Disassembler ----------------------------
(***************************************************************************)
(* Disassembler::Disassemble of disassemble.cc with Decode of decode.cc,   *)
(* and the loop of util/disassemble_more.cc that drives it.  A call        *)
(* disassembles everything it can reach from one address without a far     *)
(* jump, joining the states of all paths to an instruction; the driver     *)
(* then calls again for the far targets that were found, pass after pass.  *)
(* A call that fails leaves no instruction behind.                         *)
(*                                                                         *)
(* The ROM, the return conventions of subroutines, the addresses that are  *)
(* assembled already and the first seeds are chosen in Init.  Labels are   *)
(* the numbers that GenSym hands out.                                      *)
(***************************************************************************)
EXTENDS MachineCode

CONSTANTS
  Tasks,      \* what the driver is run on
  MaxPasses   \* passes of the driver; 100 in the code

ASSUME MaxPassesAssumption == MaxPasses \in Nat

\* A task is a ROM, what is known of its subroutines, and seeds with their flags.
ASSUME TasksAssumption ==
  \A task \in Tasks :
    /\ DOMAIN task.memory \subseteq Addresses
    /\ \A a \in DOMAIN task.memory : task.memory[a] \in ByteRange
    /\ \A a \in DOMAIN task.conventions : task.conventions[a] \in ReturnConventions
    /\ DOMAIN task.seeds \subseteq Addresses
    /\ \A a \in DOMAIN task.seeds : task.seeds[a] \in FlagStates

NoLabel == 0

VARIABLES
  memory,         \* src_: the bytes of the ROM, by address
  conventions,    \* return_conventions_: address -> ReturnConvention
  assembled,      \* the addresses the Assembler contains
  disassembly,    \* disassembly_: address -> DisassembledInstruction
  entryPoints,    \* entry_points_
  currentSym,     \* current_sym_
  decodeStack,    \* decode_stack of the running call
  newDisassembly, \* new_disassembly of the running call
  labelNames,     \* label_names of the running call
  farTargets,     \* far_branch_targets of the running call: address -> flags
  seeds,          \* the seeds of this pass: address -> flags
  newSeeds,       \* the seeds of the next pass
  todo,           \* the seeds of this pass still to be looked at
  pass,
  failed,         \* the seeds an error was printed for
  status          \* "driver", "call" while Disassemble runs, "done" or "crash"

rom == <<memory, conventions, assembled>>
own == <<disassembly, entryPoints, currentSym>>
call == <<decodeStack, newDisassembly, labelNames, farTargets>>
driver == <<seeds, newSeeds, todo, pass, failed>>
vars == <<rom, own, call, driver, status>>

Empty == [a \in {} |-> NoLabel]

\* f with a mapped to v.
With(f, a, v) == [b \in DOMAIN f \cup {a} |-> IF b = a THEN v ELSE f[b]]

\* add_to_decode_stack, add_far_branch and CombineStates: a state joins the
\* state already there.
JoinState(stack, a, es) == With(stack, a, IF a \in DOMAIN stack THEN Merge(stack[a], es) ELSE es)
JoinFlags(targets, a, f) ==
  With(targets, a, IF a \in DOMAIN targets THEN MergeFlags(targets[a], f) ELSE f)

CombineStates(targets, new) ==
  [a \in DOMAIN targets \cup DOMAIN new |->
     CASE a \in DOMAIN targets \cap DOMAIN new -> MergeFlags(targets[a], new[a])
       [] a \in DOMAIN targets \ DOMAIN new -> targets[a]
       [] a \in DOMAIN new \ DOMAIN targets -> new[a]]

IsLowest(a, set) == a \in set /\ \A b \in set : a <= b

-----------------------------------------------------------------------------
(* Decode *)

\* Read(pc, 4): all four bytes must be there, however short the instruction.
Readable(pc) == \A i \in 0 .. 3 : AddWrapped(pc, i) \in DOMAIN memory

BytesAt(pc) == [i \in 1 .. 4 |-> memory[AddWrapped(pc, i - 1)]]

CanDecode(pc, f) == Readable(pc) /\ CanDecodeBytes(BytesAt(pc), f)

Decode_KeepsSentinel(pc, f) ==   \* mutant: the width is left undecided
  LET row == DecodeOpcode(memory[pc])
  IN  [DecodeBytes(BytesAt(pc), f) EXCEPT !.mode = row[2],
         !.arg = IF row[2] \in SizedImmediate THEN BytesAt(pc)[2] ELSE @]

Decode(pc, f) == DecodeBytes(BytesAt(pc), f)

-----------------------------------------------------------------------------
(* Where control goes from the instruction at pc *)

NextPc(pc, ins) == AddWrapped(pc, InstructionLength(ins.mode))
BranchTarget(pc, ins) == AddWrapped(NextPc(pc, ins), ins.arg)

\* FarBranchTarget
HasFarTarget(ins) ==
  \/ ins.mode = "dir_l" /\ ins.mnemonic \in {"jmp", "jsl"}
  \/ ins.mode = "dir_w" /\ ins.mnemonic \in {"jmp", "jsr"}

FarTarget(pc, ins) == IF ins.mode = "dir_l" THEN ins.arg ELSE Bank(pc) * 65536 + ins.arg

\* The convention a call to the target is disassembled with.
ReturnOf(pc, ins) ==
  IF /\ HasFarTarget(ins) /\ ins.mnemonic \in {"jsr", "jsl"}
     /\ FarTarget(pc, ins) \in DOMAIN conventions
    THEN conventions[FarTarget(pc, ins)] ELSE ins.ret

AfterFallThrough(stack, pc, ins, next) ==
  IF IsExitInstruction(ins) THEN stack ELSE JoinState(stack, NextPc(pc, ins), next)

AfterBranch(stack, pc, ins, es) ==
  IF IsLocalBranch(ins) THEN JoinState(stack, BranchTarget(pc, ins), ExecuteBranch(ins, es).state)
                        ELSE stack

AfterFarBranch(pc, ins, next) ==
  IF HasFarTarget(ins) THEN JoinFlags(farTargets, FarTarget(pc, ins), next.flags) ELSE farTargets

-----------------------------------------------------------------------------
(* Labels: get_label *)

Label_Fresh(a) ==   \* mutant: a label of an earlier call is not found again
  IF a \in DOMAIN labelNames THEN labelNames[a] ELSE currentSym + 1

Label(a) ==
  CASE a \in DOMAIN labelNames -> labelNames[a]
    [] a \notin DOMAIN labelNames /\ a \in DOMAIN disassembly /\ disassembly[a].label # NoLabel ->
         disassembly[a].label
    [] OTHER -> currentSym + 1

\* A label that GenSym made is remembered until the call ends.
NameTarget(a, names) ==
  /\ labelNames' = IF Label(a) = currentSym + 1 THEN With(names, a, Label(a)) ELSE names
  /\ currentSym' = IF Label(a) = currentSym + 1 THEN currentSym + 1 ELSE currentSym

-----------------------------------------------------------------------------
(* The driver *)

Init ==
  /\ \E task \in Tasks : /\ memory = task.memory
                         /\ conventions = task.conventions
                         /\ assembled = task.assembled
                         /\ seeds = task.seeds
                         /\ todo = DOMAIN task.seeds
  /\ disassembly = Empty /\ entryPoints = {} /\ currentSym = 0
  /\ decodeStack = Empty /\ newDisassembly = Empty /\ labelNames = Empty /\ farTargets = Empty
  /\ newSeeds = Empty /\ pass = 0 /\ failed = {}
  /\ status = "driver"

\* A seed the input files already assemble is skipped.
SkipAssembled(a) ==
  /\ status = "driver" /\ pass < MaxPasses
  /\ IsLowest(a, todo) /\ a \in assembled
  /\ todo' = todo \ {a}
  /\ UNCHANGED <<rom, own, call, seeds, newSeeds, pass, failed, status>>

\* Disassemble is called; its address is an entry point even if the call fails.
Begin(a) ==
  /\ status = "driver" /\ pass < MaxPasses
  /\ IsLowest(a, todo) /\ a \notin assembled
  /\ status' = "call"
  /\ decodeStack' = With(Empty, a, IncomingState(seeds[a]))
  /\ newDisassembly' = Empty
  /\ farTargets' = Empty
  /\ entryPoints' = entryPoints \cup {a}
  /\ NameTarget(a, Empty)
  /\ UNCHANGED <<rom, disassembly, driver>>

EndPass_KeepsSeeds ==   \* mutant: the old seeds are not dropped
  /\ status = "driver" /\ pass < MaxPasses /\ todo = {}
  /\ pass' = pass + 1
  /\ seeds' = CombineStates(seeds, newSeeds)
  /\ todo' = DOMAIN seeds \cup DOMAIN newSeeds
  /\ newSeeds' = Empty
  /\ UNCHANGED <<rom, own, call, failed, status>>

EndPass ==
  /\ status = "driver" /\ pass < MaxPasses /\ todo = {}
  /\ pass' = pass + 1
  /\ seeds' = newSeeds
  /\ todo' = DOMAIN newSeeds
  /\ newSeeds' = Empty
  /\ UNCHANGED <<rom, own, call, failed, status>>

EndDriver ==
  /\ status = "driver" /\ pass = MaxPasses
  /\ status' = "done"
  /\ UNCHANGED <<rom, own, call, driver>>

-----------------------------------------------------------------------------
(* Disassemble: the loop and its end *)

IsNext(pc) == status = "call" /\ IsLowest(pc, DOMAIN decodeStack)
Seen(pc) == pc \in DOMAIN newDisassembly \cup DOMAIN disassembly
Existing(pc) == IF pc \in DOMAIN newDisassembly THEN newDisassembly[pc] ELSE disassembly[pc]
Popped(pc) == [a \in DOMAIN decodeStack \ {pc} |-> decodeStack[a]]

Combined_Current(pc) == decodeStack[pc]   \* mutant: the join is forgotten

\* The state of a path joined to the state its instruction is known in.
Combined(pc) == IF Seen(pc) THEN Merge(decodeStack[pc], Existing(pc).current) ELSE decodeStack[pc]

Executed_TrustsSeen(pc) ==   \* mutant: errors are only looked for the first time
  LET ins == IF Seen(pc) THEN Existing(pc).ins ELSE Decode(pc, Combined(pc).flags)
  IN  CASE Seen(pc) -> [result |-> "ok", state |-> Transfer(ins, Combined(pc))]
        [] ~Seen(pc) /\ CanDecode(pc, Combined(pc).flags) -> Execute(ins, Combined(pc))
        [] OTHER -> [result |-> "error", state |-> Combined(pc)]

\* What Execute makes of it, or that the bytes do not decode.
Executed(pc) ==
  LET ins == IF Seen(pc) THEN Existing(pc).ins ELSE Decode(pc, Combined(pc).flags)
  IN  IF CanDecode(pc, Combined(pc).flags) THEN Execute(ins, Combined(pc))
      ELSE [result |-> "error", state |-> Combined(pc)]

\* The first time at pc.
Discover(pc) ==
  LET ins == Decode(pc, decodeStack[pc].flags)
      next == Executed(pc).state
      called == [ins EXCEPT !.ret = ReturnOf(pc, ins)]
      after == ApplyReturn(called.ret, next)
  IN  /\ IsNext(pc) /\ ~Seen(pc) /\ Executed(pc).result = "ok"
      /\ farTargets' = AfterFarBranch(pc, ins, next)
      /\ IF IsLocalBranch(ins) THEN NameTarget(BranchTarget(pc, ins), labelNames)
                               ELSE UNCHANGED <<labelNames, currentSym>>
      /\ decodeStack' = AfterFallThrough(AfterBranch(Popped(pc), pc, ins, decodeStack[pc]),
                                         pc, called, after)
      /\ newDisassembly' =
           With(newDisassembly, pc,
                [ins |-> called, current |-> decodeStack[pc], next |-> after, label |-> NoLabel,
                 to |-> IF IsLocalBranch(ins) THEN Label(BranchTarget(pc, ins)) ELSE NoLabel])
      /\ UNCHANGED <<rom, disassembly, entryPoints, driver, status>>

\* Back at pc with nothing new.
Confirm(pc) ==
  /\ IsNext(pc) /\ Seen(pc) /\ Combined(pc) = Existing(pc).current
  /\ decodeStack' = Popped(pc)
  /\ newDisassembly' = With(newDisassembly, pc, Existing(pc))
  /\ UNCHANGED <<rom, own, labelNames, farTargets, driver, status>>

Weaken_NoBranch(pc) ==   \* mutant: only the next instruction learns of it
  LET di == Existing(pc)
      next == Executed(pc).state
  IN  /\ IsNext(pc) /\ Seen(pc) /\ Combined(pc) # di.current /\ Executed(pc).result = "ok"
      /\ newDisassembly' =
           With(newDisassembly, pc, [di EXCEPT !.current = Combined(pc), !.next = next])
      /\ decodeStack' = AfterFallThrough(Popped(pc), pc, di.ins, next)
      /\ farTargets' = AfterFarBranch(pc, di.ins, next)
      /\ UNCHANGED <<rom, own, labelNames, driver, status>>

Weaken_NoFarBranch(pc) ==   \* mutant: far targets are only recorded once
  LET di == Existing(pc)
      next == Executed(pc).state
      branched == IF IsLocalBranch(di.ins) THEN AfterBranch(Popped(pc), pc, di.ins, decodeStack[pc])
                                           ELSE Popped(pc)
  IN  /\ IsNext(pc) /\ Seen(pc) /\ Combined(pc) # di.current /\ Executed(pc).result = "ok"
      /\ newDisassembly' =
           With(newDisassembly, pc, [di EXCEPT !.current = Combined(pc), !.next = next])
      /\ decodeStack' = AfterFallThrough(branched, pc, di.ins, next)
      /\ UNCHANGED <<rom, own, labelNames, farTargets, driver, status>>

\* Back at pc with a state that weakens what was known: the joined state is
\* passed on to the next instruction and the far target, the state of this
\* path to the target of a branch.
Weaken(pc) ==
  LET di == Existing(pc)
      next == Executed(pc).state
      onward == AfterFallThrough(Popped(pc), pc, di.ins, next)
  IN  /\ IsNext(pc) /\ Seen(pc) /\ Combined(pc) # di.current /\ Executed(pc).result = "ok"
      /\ newDisassembly' =
           With(newDisassembly, pc, [di EXCEPT !.current = Combined(pc), !.next = next])
      /\ decodeStack' = AfterBranch(onward, pc, di.ins, decodeStack[pc])
      /\ farTargets' = AfterFarBranch(pc, di.ins, next)
      /\ UNCHANGED <<rom, own, labelNames, driver, status>>

Changes(pc) == Seen(pc) => Combined(pc) # Existing(pc).current

\* The call returns an error; what it had found is dropped and the driver
\* prints the error.
Fail(pc) ==
  /\ IsNext(pc) /\ Changes(pc) /\ Executed(pc).result = "error"
  /\ status' = "driver"
  /\ \E a \in todo : /\ IsLowest(a, todo)
                     /\ todo' = todo \ {a}
                     /\ failed' = failed \cup {a}
  /\ decodeStack' = Empty /\ newDisassembly' = Empty /\ labelNames' = Empty /\ farTargets' = Empty
  /\ UNCHANGED <<rom, own, seeds, newSeeds, pass>>

\* An assertion of Execute fails.
Crash(pc) ==
  /\ IsNext(pc) /\ Changes(pc) /\ Executed(pc).result = "crash"
  /\ status' = "crash"
  /\ UNCHANGED <<rom, own, call, driver>>

\* The suffix an instruction is printed with; it stays where the bit is unknown.
Suffixed(di) ==
  LET used == FlagControllingInstructionSize(di.ins.mnemonic)
      bit == IF used = "none" THEN "unknown" ELSE WidthBit(di.current.flags, used)
  IN  [di EXCEPT !.ins.suffix = CASE bit = "on" -> "b" [] bit = "off" -> "w" [] OTHER -> @]

\* The call returns: its instructions and labels are kept and its far targets
\* become seeds of the next pass.
Return ==
  LET Kept(a) == IF a \in DOMAIN newDisassembly THEN Suffixed(newDisassembly[a]) ELSE disassembly[a]
  IN  /\ status = "call" /\ DOMAIN decodeStack = {}
      /\ disassembly' = [a \in DOMAIN disassembly \cup DOMAIN newDisassembly |->
                           IF a \in DOMAIN labelNames THEN [Kept(a) EXCEPT !.label = labelNames[a]]
                                                      ELSE Kept(a)]
      /\ newSeeds' = CombineStates(newSeeds, farTargets)
      /\ status' = "driver"
      /\ \E a \in todo : IsLowest(a, todo) /\ todo' = todo \ {a}
      /\ newDisassembly' = Empty /\ labelNames' = Empty /\ farTargets' = Empty
      /\ UNCHANGED <<rom, entryPoints, currentSym, decodeStack, seeds, pass, failed>>

\* The program has ended.
Finished == status \in {"done", "crash"} /\ UNCHANGED vars

Next ==
  \/ \E a \in todo : SkipAssembled(a) \/ Begin(a)
  \/ EndPass
  \/ EndDriver
  \/ \E pc \in DOMAIN decodeStack : Discover(pc) \/ Confirm(pc) \/ Weaken(pc) \/ Fail(pc) \/ Crash(pc)
  \/ Return
  \/ Finished

Spec == Init /\ [][Next]_vars

-----------------------------------------------------------------------------
(* Properties *)

\* The variables of the disassembler and its driver keep their types.
TypeOK ==
  /\ DOMAIN memory \subseteq Addresses
  /\ DOMAIN newDisassembly \cup DOMAIN decodeStack \subseteq Addresses
  /\ \A a \in DOMAIN disassembly :
       /\ disassembly[a].ins.mode \in AddressingModes \ SizedImmediate
       /\ disassembly[a].current \in ExecutionStates /\ disassembly[a].next \in ExecutionStates
       /\ disassembly[a].label \in 0 .. currentSym /\ disassembly[a].to \in 0 .. currentSym
  /\ \A a \in DOMAIN decodeStack : decodeStack[a] \in ExecutionStates
  /\ \A a \in DOMAIN farTargets : farTargets[a] \in FlagStates
  /\ entryPoints \subseteq Addresses /\ failed \subseteq entryPoints
  /\ todo \subseteq DOMAIN seeds /\ pass \in 0 .. MaxPasses
  /\ status \in {"driver", "call", "done", "crash"}

\* general says no more than es does, so it is right wherever es is.
Covers(general, es) == Merge(general, es) = general

\* Between calls every instruction's successors are disassembled, in a state
\* that is right whichever way control comes to them (the joins of
\* Disassemble over all paths, loops and earlier calls included).
EveryPathCovered ==
  status \in {"driver", "done"} =>
    \A a \in DOMAIN disassembly :
      LET di == disassembly[a]
      IN  /\ ~IsExitInstruction(di.ins) =>
               /\ NextPc(a, di.ins) \in DOMAIN disassembly
               /\ Covers(disassembly[NextPc(a, di.ins)].current, di.next)
          /\ IsLocalBranch(di.ins) =>
               /\ BranchTarget(a, di.ins) \in DOMAIN disassembly
               /\ Covers(disassembly[BranchTarget(a, di.ins)].current,
                         ExecuteBranch(di.ins, di.current).state)

\* The bytes at an address still decode to the instruction shown there, in
\* the state that all paths to it share.
DecodingStands ==
  \A a \in DOMAIN disassembly :
    LET di == disassembly[a]
    IN  /\ CanDecode(a, di.current.flags)
        /\ [Decode(a, di.current.flags) EXCEPT !.suffix = di.ins.suffix, !.ret = di.ins.ret] = di.ins

\* A branch names the label of the very instruction it goes to, and no two
\* instructions share a label, over repeated and failed calls.
LabelsResolve ==
  /\ status \in {"driver", "done"} =>
       \A a \in DOMAIN disassembly : IsLocalBranch(disassembly[a].ins) =>
         /\ disassembly[a].to # NoLabel
         /\ disassembly[BranchTarget(a, disassembly[a].ins)].label = disassembly[a].to
  /\ \A a, b \in DOMAIN disassembly :
       disassembly[a].label = disassembly[b].label /\ disassembly[a].label # NoLabel => a = b

\* What a later call learns only weakens what is known of an instruction;
\* it never decodes it differently or renames it.
ResultOnlyWeakens ==
  [][\A a \in DOMAIN disassembly :
       /\ a \in DOMAIN disassembly'
       /\ Covers(disassembly'[a].current, disassembly[a].current)
       /\ disassembly'[a].ins.mode = disassembly[a].ins.mode
       /\ disassembly[a].label # NoLabel => disassembly'[a].label = disassembly[a].label]_vars

\* The flags of an entry point describe a caller: a bit is the caller's, or
\* the one the subroutine was entered with, or unknown.
Describes(entry, caller) == \A bit \in DOMAIN caller : entry[bit] \in {caller[bit], "original", "unknown"}

\* The state a far branch is left in, before its return convention applies.
LeavingFlags(di) == Execute([di.ins EXCEPT !.ret = DefaultReturn], di.current).state.flags

\* Once nothing is left to disassemble, every far target is disassembled in
\* a state that describes each of its callers, or an error was printed for
\* it (add_far_branch, CombineStates and the passes of the driver).
FarTargetsFollowed ==
  status = "done" /\ seeds = Empty =>
    \A a \in DOMAIN disassembly :
      LET di == disassembly[a]
          target == FarTarget(a, di.ins)
      IN  HasFarTarget(di.ins) /\ target \notin assembled \cup failed =>
            /\ target \in DOMAIN disassembly
            /\ Describes(disassembly[target].current.flags, LeavingFlags(di))

\* The passes of the driver suffice: it does not stop with far targets it has
\* found but not looked at.
NothingLeftOver == status = "done" => seeds = Empty

=============================================================================
