# A TLA+ model of nsasm

nsasm assembles and disassembles 65816 code for the SNES. What sets it apart from
other assemblers is that it runs a static analysis over the code: the width of
an immediate argument depends on the m and x status bits, and nsasm works out those
bits at every line, on every path, instead of asking the programmer. The
disassembler uses the same analysis in the other direction. This directory holds
TLA+ modules of that core, configurations that model-check it with TLC, and
proofs of its main safety properties checked with TLAPS.

Contents: [the system](#the-system), [the modules](#modules-and-the-code),
[the runs](#runs), [fairness](#fairness), [proofs](#proofs),
[findings](#findings), [what is left out](#what-is-not-modelled),
[plan](#plan).

## The system

Everything runs on one thread; no callback re-enters the code. What is hard is
not concurrency but order: a worklist that meets the same line over several
paths, modules that need each other's names, claims that meet in memory, calls
of the disassembler that build on what earlier calls found, and errors that stop
an operation half way.

| component | source | state it keeps | operations |
|---|---|---|---|
| addresses | `address.h` | - | wrap within a bank, bank of an address, distance between two addresses |
| status flags, execution state | `execution_state.h/.cc` | four flag bits with the values on, off, original, unknown; A, X, Y; a stack of bytes or an abandoned stack | set a bit, merge two states, push and pull registers and flags, `xce`, `rep`/`sep` |
| opcode table | `opcode_map.cc`, `addressing_mode.*` | constant table | opcode to mnemonic and mode and back, families, lengths, `DeduceMode` |
| instruction and directive semantics | `instruction.cc`, `directive.cc`, `statement.cc`, `calling_convention.h` | - | `Execute`, `ExecuteBranch`, `CheckConsistency`, `FixAddressingMode`, sizes, exits, far targets |
| expressions | `expression.h/.cc`, `numeric_type.h` | syntax trees | `Evaluate`, `Type`, `RequiresLookup`, names referenced |
| parser | `parse.cc` | a position in the tokens of a line | statements and labels of a line |
| module, loading | `module.cc` `LoadAsmFile`, `LocalIndex` | `lines_`, `global_to_line_`, active scopes, pending labels, `dependencies_` | read a line, attach labels, open and close scopes, collect dependencies |
| module, first pass | `module.cc` `RunFirstPass` | lines with `incoming_state`, `reached`, modes, addresses; the worklist `decode_stack` | analyse, fix widths, place lines |
| module, second pass and emission | `module.cc` `RunSecondPass`, `Assemble` | `value_map_`, `owned_bytes_`, jump targets, return conventions | evaluate `.equ`, write bytes, note targets |
| assembler | `assembler.cc` | modules, `name_to_module_`, `memory_module_map_` | find the assembly order, run the passes, merge targets |
| claimed memory | `ranges.h/.cc` | sorted vector of chunks; chunk to module map | `ClaimBytes`, `Contains`, `Insert`, `Lookup` |
| decoder, encoder | `decode.cc`, `instruction.cc` | - | four bytes and flags to an instruction and back |
| disassembler | `disassemble.cc` | `disassembly_`, entry points, symbol counter; per call the worklist, new instructions, label names, far targets | `Disassemble`, `Cleanup`, `NameForAddress` |
| driver | `util/disassemble_more.cc` | seeds, pass counter | repeat `Disassemble` until no far target is new, clean up, print |
| ROM images | `rom.h/.cc`, `memory.cc` | mapping mode and data | load a file, read bytes, compare a write |
| small tools | `util/quick_dump.cc`, `util/quick_assemble.cc` | address and values of a dump; a ROM as sink | print a part of a ROM, compare what is assembled with it |
| tokenizer, printing, other tools | see `PROJECT.json` | - | see [what is left out](#what-is-not-modelled) |

How they interact: the tokens of a line go to the parser, which hands labels and statements to
`Module::LoadAsmFile`; `Assembler::Assemble`
orders the modules so that names come before their uses (`FindAssemblyOrder`),
runs the first pass of each, then the second pass of each, then `Module::Assemble` of
each, inserting each module's claimed bytes into its own `RangeMap` afterwards. The jump
targets and return conventions it collects feed the `Disassembler`, which the driver calls
on each target outside the assembled memory. What the disassembler leaves, `Cleanup` turns into a listing
that the assembler is meant to accept. The ROM is what both sides read: the disassembler decodes from
it, and the assembler's output is compared with it.

What makes each of them correct, in a sentence:

* parsing and loading: nothing of a file is lost, operands and expressions mean what their text says,
  a name means its innermost definition, and a module waits for exactly the names it does not define;
* analysis: every line that control can reach is analysed, in a state that is
  right on every path to it, and the loop ends;
* widths and places: an accepted module has no undecided width, no instruction
  without an address, and no path into data;
* order: what an `.equ` needs was evaluated before it, an order is found whenever there is one;
* memory: no byte has two writers, and the maps say who wrote it;
* disassembly: between calls the result is closed under control flow, consistent
  with the bytes, uniquely labelled, and complete for the far targets;
* listing: it assembles to the bytes it came from, and no row leads out of it;
* ROM images: a read gives what single reads give, and what is printed from a ROM is what the ROM holds.

## Modules and the code

| module | models | state and actions |
|---|---|---|
| `Address` | `address.h` | operators; the lemmas about them sit here |
| `StatusFlags` | `StatusFlags` of `execution_state.h` | operators; the emulation bit forces m and x |
| `ExecutionState` | registers, stack, merge | operators; an operation that fails an assertion, or reads past the stack, returns the result `"crash"` |
| `Opcodes` | the 256 rows of `decode_map`, families, lengths | tables |
| `Instructions` | static semantics of a statement | `Execute`, `ExecuteBranch`, `ExecuteDirective`, ... as functions from state to result and state |
| `FirstPass` | `Module::RunFirstPass` | `Visit`/`Revisit`/`PastEnd` are one turn of the worklist loop, `FixLine` and `PlaceLine` one turn of the two loops after it; `AnalysisDone`, `FixDone`, `PlaceDone` end them |
| `Paths` | nothing of the code: a reference walker over an accepted module | `Enter`, `FallThrough`, `TakeBranch`; composed with `FirstPass`, against whose result it compares each step |
| `DataRanges` | `DataRange`, `RangeMap::Lookup` | operators on sequences of chunks |
| `Ranges` | `DataRange` and `RangeMap` in use by several modules | `ClaimBytes`, `Insert` |
| `ByteOwnership` | abstract specification: a set of bytes per client, an owner per byte | implemented by `Ranges` (property `Refines`) |
| `Identifiers` | `FullIdentifier`, and what becomes of a name that is borrowed | operators |
| `Expressions` | the expression classes and numeric types | operators; recursive in the tree |
| `Parser` | `Parse` and the functions below it, `DeduceMode` | operators from token sequences to labels and statements or a refusal |
| `Loading` | `Module::LoadAsmFile`, `LocalIndex` | `ReadLine` (tokens to entities), `TakeLabel`, `TakeStatement` (one turn of the loop over the entities, with scopes and `.module`), `RefuseStatement` (its errors), `EndFile` (the checks and the collection of dependencies). What a line says and which names an argument uses are constants, `ParseLine` and `NamesOf` |
| `SourceText` | nothing of the code: other readings of the tokens of a file, and the properties that compare them with the parser and with what is loaded | composes `Loading` with `Parser` (`Parse` for `ParseLine`, `NamesIn` for `NamesOf`) |
| `MachineCode` | `Decode`, `Instruction::Assemble`, `Directive::Assemble` | operators between bytes and instructions |
| `Disassembler` | `Disassembler::Disassemble` and the driver | `Begin`/`SkipAssembled`/`EndPass`/`EndDriver` are the driver; `Discover` (first visit), `Confirm` (nothing new), `Weaken` (a revisit in a weaker state), `Fail`, `Crash`, `Return` are the call |
| `Listing` | `Disassembler::Cleanup`, the rows the driver prints | extends `Disassembler`; `Cleanup` is one action on top of the finished driver |
| `AssemblyOrder` | `Assembler::FindAssemblyOrder` | `Pass` and `Take` treat the module under the scan, `EndSweep` ends a sweep |
| `Assembly` | `Assembler::Assemble` with `RunSecondPass` and `Module::Assemble` | extends `AssemblyOrder` and `DataRanges`; `RunFirstPass`, `PlaceFails`, `Reject`, `AnalysisCrashes` are the first pass of a module; then one action per line and outcome: `EvaluateEqu`, `SkipLine`, `EmitBytes`, `EmitNote`, `SinkFails`, `EmitFails`, `EmitNothing`; `LabelFails` and `Insert` end a module |
| `RomImage` | `SnesToROMAddress`, `Rom::Read`, `LoadRomFile`, `RomIdentityTest`, the loops of `quick_dump` and `quick_assemble` | `LoadRomFile`; `DumpEntry`, `DumpPrinted`; `OpenSink`, `CompareWrite`, `Compared` |

`MC*` modules only choose inputs for TLC (`MCPrograms` holds what the modules fed to `RunFirstPass` have in common), and `*Proofs` modules only hold theorems
and their lemmas (`DataRangesProofs` those that `RangesProofs` and `AssemblyProofs` share).
`PROJECT.json` maps each definition to its lines.

Choices of abstraction worth knowing:

* A register value is original, unknown, or a known 8- or 16-bit number, as in the code;
  flags that control nothing (n, z, v, i, d) do not exist in the code either.
* `FirstPass` takes a module whose labels are resolved: `target` is the line
  `LocalIndex` finds. In `Assembly` the lines are reduced to what the later passes
  look at: how many bytes, which expression, where it leads. Of the analysis of `RunFirstPass`, the subject
  of `FirstPass`, only the outcome is left there: an error (`Reject`) or a failed pull (`AnalysisCrashes`) may end a module
  that has lines they can come from. Its placing of lines is there in full: `RunFirstPass` places them, and `PlaceFails` stops at
  the first `.org` that is not constant, or is no address, or at the first bytes before an `.org`.
* In `Assembly` an expression is a number, a line of the same module, or a name of another module; these are
  the cases the two lookup contexts tell apart. `Expressions` has the trees themselves, over unbounded
  numbers: what the code's `int` does beyond 32 bits is left out.
* A token has a kind, a spelling and, for a literal, a number and a type: `Parser` starts after the tokenizer.
  `Loading` takes a file as a sequence of token sequences.
* An instruction of the listing keeps its argument as a name or a number and its width as the suffix that is
  printed: whether a name is on one row and whether the row assembles are decided from these, not from text.
* `RomImage` takes the byte at an offset from a constant operator `Content` and keeps the real constants of the
  mappings (64-KiB banks, 24-bit addresses).
* The chunk operators keep the code's binary search, its three cases (into the left
  neighbour, into the right one, between) and its swallowing of chunks to the
  right. Memory has `Banks` banks of `BankSize` bytes, so wrapping within a bank
  happens at six bytes as it does at 65536.
* A write to the output may fail at any byte (`SinkFails`), with the bytes before
  it written: what the sink refuses is a property of the ROM image.
* Undefined behaviour and failed assertions are a phase `"crash"` (in `Assembly` the assertion of `address.h:22`, the
  failed pulls of the analysis being `"pull crash"`); after it no property says more than which input led there.
* Operators named `X_Something` with a comment "mutant" are deliberate errors
  used to show that the properties notice them; no specification refers to them.

## Runs

Passing runs. Deadlock is checked in all of them but `MCRanges_modules`, where every
client can have inserted and the program really has nothing left to do; the
others end in explicit stuttering (`Finished`, `Stopped`, `Ordered`).

| run | asks | bounds, and why they are enough |
|---|---|---|
| `MCPaths_all` | Does the analysis miss a path, leave a width open, an instruction unplaced, or let control into data? Are its states right on each path an independent walker takes? | Four statements from one of three palettes: flags and branches; data, `.org`, `.equ` and several entries, in any place; every instruction that changes a flag. The first and third come after an `.org` and an `.entry`. Four lines hold a fork, a merge, a loop around a changing instruction, and an entry in the middle. `MaxStack` 3 bounds only the walker |
| `MCFirstPass_loops` | Does the worklist run dry, and why? | Bodies of three statements that change registers, stack and flags, closed by a backward branch to any of them: a state that changes on each turn has to reach its weakest form |
| `MCRanges_modules` | Do merged chunks behave as sets of bytes? | One bank of five bytes, claims of up to six (one can wrap and meet itself), two modules. Three chunks fit in a bank, so a claim can merge left, right, and swallow two. Several banks occur in `MCAssembly_all` |
| `MCDisassembler_all` | Is the result closed, consistent, labelled, complete, monotone? | Two subroutines, bodies of three instructions over two palettes: branches that land inside other instructions, loops, flag changes, calls in both directions and to the middle, one failed or assembled callee. Two seeds share code, so a later call revisits an earlier one's result. `MaxPasses` 5 stands for 100; no task needs more than four passes, `NothingLeftOver` says so |
| `MCListing_all` | Does the listing assemble to the bytes it came from, does any row lead out of it, and is it always printed? | Each of the 256 opcodes alone under three settings of the flags; bodies of three instructions over carry, branch and call instructions with overlaps and labels between `clc` and `adc`; a loop that alternates flags; two paths of different widths that meet in a fold; a call that knows the carry; the ends of two banks, with code that runs over them and an instruction that wraps around one |
| `MCAssemblyOrder_all` | Is an order right, found whenever it exists, and are duplicates caught? | Every project of three modules over three names: chains of three, cycles of two and three, duplicates in each position |
| `MCAssembly_all` | Do equations hold, does each byte have one writer, do the maps agree, are jump targets kept, and which inputs can fail an assertion? | Two modules with references in both directions in every combination; two modules whose chunks collide, touch, or wrap in banks of three bytes, and branch and jump at each other; `.org` lines at the last address, beyond it, below 0 and with a name. `Reach` 1 stands for the 128 bytes of a relative branch: with two banks of three bytes both outcomes of the range check occur |
| `MCLoading_all` | Is anything of a file lost, do names resolve to the innermost definition, do operands and expressions mean what their text says? | Files of up to four lines (`MaxLines`) over labels, braces, exports and equations: two nested blocks, a use before and after its definition, the same name inside and outside. All strings of up to four expression tokens (`MaxTokens`) and chains of two operators with parentheses and signs; every mnemonic with every shape of operand, well-formed or not; every opcode in the form it is printed in |
| `MCRomImage_all` | Is a read the reads of its bytes? Does what `quick_dump` prints compare equal with the ROM, and what differs not? | Files at and around the sizes where a header, a bank or a mapping starts; every start next to the end of a bank, of its lower half or of the smallest ROMs, in banks on both sides of each region; reads of 1 to 4 and of 40 bytes, dumps of 1 and 3 values |

Each property of these runs is shown to notice a plausible bug: `PROJECT.json`
"mutants" replaces one mapped definition (`|=` by `=`, one neighbour merged instead
of all, a variable declared outside its loop, an address that does not wrap, ...), and the property fails.

Runs that are expected to fail are the [findings](#findings).

Four properties have a second, independent reading of the same text or bytes in the model, so that
they do not restate the code: `NothingLost` counts labels and statements from the kinds of the tokens and their
neighbours; `NamesResolveInnermost` finds blocks by matching braces; `ExpressionsAgree` reads the
argument of `.equ` with a grammar of precedences; `ModesAgreeWithTable` goes from the opcode to
its printed form and back. `ReadIsBytewise`, `ListingReassembles` and `FixedPointCoversEveryPath` compare
two ways through the code.

`JoinsCoverPaths` says that the states the analysis settles on are a fixed point of
the control flow. It does not hold in general (see the first finding), so two
properties state what does: modules without backward branches always
reach a fixed point (`ForwardJoinsCoverPaths`), and where a fixed
point is reached it describes what the walker does (`FixedPointCoversEveryPath`), which rests on
`Execute` being monotone. It is monotone in what `Describes` compares: the flags, the height of the
stack and the flags saved on it, and of each register whether it is known. It is not monotone in the values of
registers, nor in instructions that carry a width. While m is unknown a register is counted modulo 2^16, so `inc`
takes an 8-bit $ff to $100 in the merged state and to $00 on the path; and a suffix `w` is accepted under an unknown
m and refused on a path where m is on. No width that is chosen depends on either.

`ListingReassembles` and `ListingClosed` name their exceptions, which are in the code: `per`, whose
distance is printed as a number; a fold of `clc` and `adc` that are neighbours in the map but not in memory, because
a bank ends between them; the suffix of a fold whose `adc` another path reaches in another width, which may be the one of that
path (`JoinsWidths`); the `.entry` line of a call that failed, or of a first seed for which the assembled files know the
carry (`SeededWithCarry`); and instructions that have the `clc` of a fold for an operand, also when they wrap around the end of
a bank (`InsideFold`). The widths of a fold, the known carry and the operand that wraps were found by the proofs; without these exceptions the properties
are false on the tasks `WidthTask`, `CarryTask` and `WrapTask`.

## Fairness

`FairSpec` (`FirstPass`), `FairOrderSpec` (`AssemblyOrder`) and `FairListingSpec` (`Listing`) add weak fairness
of the whole next-state relation and nothing else: one thread that
never waits takes its next step. Only `Termination`, `OrderFound` and `ListingPrinted` need
it. No fairness is assumed of an action by itself.

## Proofs

| theorem | module | says, for every value of the constants |
|---|---|---|
| `TypeCorrect` | `FirstPassProofs` | the variables of the pass keep their types; every state recorded is a proper execution state |
| `AnalysisFollowsEveryEdge` | same | each successor of a reached line is reached or pending |
| `WidthsAlwaysDecided` | same | the error for an undecided width cannot occur |
| `AcceptedCodeStaysInCode` | same | in an accepted module control never runs into data, over an `.org` or off the end |
| `AcceptedIsPlaced` | same | in an accepted module every instruction has an address and a definite size |
| `PendingStatesOnlyWeaken` | same | the state pending for a line is only ever weakened, until the line is processed in it |
| `ForwardJoinsAreCovered` | same | in a module without backward branches each recorded state covers every way to its line |
| `FixedPointsDescribePaths` | same | where the recorded states are a fixed point they describe the state of every path, and each immediate argument has the width that path needs |
| `ForwardPathsAreRight` | same | in an accepted module without backward branches, of any length, the widths are right on every path |
| `OrderTypeCorrect` | `AssemblyProofs` | types; no module is taken twice |
| `DependenciesComeFirst` | same | what a module in the order needs is exported by one before it |
| `SweepsAreComplete` | same | when the sweeps give up there is no order at all |
| `NamesHaveOneDefinition` | same | a finished order holds each module and each name has one exporter; a reported duplicate is one |
| `AssemblyFindsOrder` | same | the assembly implements `FindAssemblyOrder` and leaves its result alone, so the four theorems above hold of it |
| `EquBeforeUse` | same | a name without a value is never that of an `.equ` line |
| `EquationsSettled` | same | after the second pass each `.equ` line of each module equals its expression |
| `AssemblyTypeCorrect` | same | types; a line with bytes has an address when it is emitted, so the only one that can lack one is an `.entry` before the first `.org` |
| `CrashesAreExplained` | same | the assertion of `address.h` fails on constants of the source only: that of an `.org`, or one that is exported, branched or jumped to, or noted by a `.remote`; bytes are placed nowhere but in memory |
| `JumpTargetsAreComplete` | same | the disassembler is told of every way out of the assembled code, with all the lines that take it |
| `BytesAreWrittenOnce` | same | an assembly that succeeds has written no byte twice |
| `MapNamesTheWriters` | same | wherever the assembly stops, `memory_module_map_` names only modules that wrote the byte; when it succeeds, it contains exactly the bytes written and names the writer of each |
| `LabelsAlwaysResolve` | `DisassemblerProofs` | between calls each label is on one address, and each branch names the label of its target |
| `DisassemblerTypeCorrect` | same | whatever is decoded, what the disassembler and its driver record are states, flags and addresses |
| `ResultsOnlyWeaken` | same | a later call only weakens the state of an instruction, and neither decodes it otherwise nor renames it |
| `DecodingAlwaysStands` | same | each recorded instruction is what its bytes decode to in the state recorded for it, however often that was weakened |
| `EveryPathIsCovered` | same | between calls each successor of an instruction is an instruction, whose state covers every way to it |
| `FarTargetsAreFollowed` | same | where no subroutine is known to yield flags, a driver that ends with nothing left has followed every far target, in a state that covers each of its callers |
| `RowsLeadNowhereElse` | same | no row of a listing leads out of it: what comes after a row and what it branches to are rows, in a state that covers how they are reached, folds or not |
| `ListingAlwaysReassembles` | same | each name a listing uses is on one row, its `.entry` lines parse, and every row passes the assembler's checks and assembles to the bytes it came from |
| `ScopesAreBlocks` | `LoadingProofs` | in a loaded file each name means its definition in the innermost block around the line that uses it, blocks being what matching braces enclose, and no block defines a name twice |
| `ModuleWaitsForTheUndefined` | same | a loaded module depends on exactly the names its `.equ` lines use and it does not define for them |
| `LookupAlwaysAgrees` | `RangesProofs` | the map from chunks to modules covers exactly the bytes in use and names the owner of each |
| `RangesRefineByteOwnership` | same | the sorted chunks with their merging implement plain sets of bytes |
| `ReadsAreBytewise` | `RomImageProofs` | a read of any length up to 65537 gives what single reads give, and fails when one of them does |
| `DumpsReassemble` | same | what `quick_dump` prints assembles to the bytes it was read from, and is refused with one value changed; `RomIdentityTest` passes what the ROM holds and nothing else |
| `ExHiRomUpperHalf` | same | no address of an ExHiROM reaches its first four megabytes |

Assumptions: `ProgramsAssumption` (a program is a sequence of statements whose
branch targets are lines of it, or none, which is what `LocalIndex` returns),
`NoValueAssumption` (the value of an argument that is not constant is no number),
`ProjectsAssumption` (a project is a sequence of modules with names), `ModulesAssumption` (the exports and
dependencies of a module are those of its lines, and no label is on two lines, which is what `LoadAsmFile` ends
with, see `Loading`), `FilesAssumption` (a ROM file has a size and
two possible headers), `StartsAssumption` (a dump starts at an address), `CommandsAssumption` (a dump has a count and a
stride, and what an assembler writes are bytes, at least one, at an address), `MaxPassesAssumption` (the driver makes a number of passes),
`ClientsAssumption` (no module is called nobody), `LengthAssumption` (a claim is at most one byte longer than a bank),
`MemoryAssumption` (there is at least one bank, of at least one byte), `TasksAssumption` (a ROM maps addresses to bytes, conventions are conventions, seeds are addresses with flags) and `LengthsAssumption`
(what is read is not longer than 65537 bytes). Nothing is assumed of `ParseLine` and `NamesOf`: the theorems about `Loading`
hold whatever a line and an argument mean. Only `LengthAssumption`, `StartsAssumption` and `LengthsAssumption` bound anything; in
`Assembly` a line may have any number of bytes. `FarTargetsAreFollowed` assumes `NoYields` besides: with a `yields` convention
the property is false, which is the finding `MCDisassembler_yields`. `DumpsReassemble`
assumes that the bytes of a ROM are bytes (`ContentIsBytes`) and that no dump and no write is longer than `LongestRead` (`ReadsFit`),
which all commands of the run meet. Longer reads are really cut
short by the code, see the observations, so both theorems would be false without the bound; and the constructor of `Address` lets
$1000000 through, one past the last address. A
program may have any length, a project any number of modules and a ROM any size and content.

The argument for the first pass. `InstructionsProofs` shows that each operation on
flags, registers and stack returns a value of its type, and that
`Execute` and `ExecuteBranch` do, whatever the statement. That gives `TypeInv`.
`NoPathMissed` alone is not inductive, because fixing widths rewrites the lines and because
"reached or pending" says nothing once the worklist is gone. `FlowInv` adds three facts: a reached
line that is not fixed yet passed `CheckConsistency` in the very state its width will
be fixed from (`ModesDecidable`, from which `WidthsDecided` follows); no reached line holds data,
since executing data fails (`ReachedIsCode`); and after analysis nothing is pending
(`WorklistEmptied`). The lemma `FixedKeepsFlow` shows that a fixed line keeps its exits, its branch
and its target, so the rewriting does not change the successors. In an accepted module each successor of a
reached line is then reached, and a reached line is code: `NoRunIntoData`. `PlacementInv` adds
that instructions before the cursor of the fixing loop have a definite mode and those before the
cursor of the placing loop an address.

The argument for pending states. `add_to_decode_stack` merges what a line gets over another path into what is
pending for it; that this only weakens needs merging to be idempotent and commutative, and to stay merged: what covers a state
still covers it after another merge (`MergeLaws`, `MergeCovers` in `InstructionsProofs`). None of this holds of
arbitrary values. Merged m and x bits are constrained by the merged e bit, so the laws need flags whose
m and x bits agree with e (`Coherent`), and they need abandoned stacks to be empty (`Stacks`). Both are part of the types, so `TypeInv`
provides them. The action property then follows for each turn of the loop: a visit merges at most two
states into what is pending (`VisitWeakens`), and a revisit removes only a state that was processed already.

The argument for joins without backward branches. `add_to_decode_stack` keys the worklist by line and the loop takes the
lowest. If no branch leads backwards, everything on the worklist lies behind the line at hand (`ServedInOrder`), so a line is
visited once, when all that leads to it has been merged. Until then "covers" is said of what the line will be
visited in, pending or not (`Held`, `EntriesHeld`). Merging is a least upper bound (`MergeLub`), so adding a
state covers it and keeps what was covered. Fixing widths rewrites lines whose states are recorded: a line
accepted in its state is accepted with its width fixed and has the same exits (`ReachedAccepted`).

The argument for paths. `PathInv` says that the walker stands at a reached line, in a state described by the recorded one.
It is inductive because every operation of `Execute` takes described states to described states, or fails in the
recorded one; this is shown per operation on flags, registers and stack, and then per mnemonic. What is described has the
same m and x bits or none known, and an immediate whose width was decided had the bit known: so the width is that of
the path (`ImmediateDescribed`).

The argument for the order. `OrderInv` adds to the properties that `exporter` sends
names to modules that are in the order and export them, that every export of an
ordered module is registered while no duplicate is reported, that a module the sweep
passed without finding anything still has an unmet dependency, and that a
reported duplicate is real. When the order has as many entries as there are modules it
holds every module (a pigeonhole argument, from the library's theorems on injections).
When a sweep finds nothing, suppose there were ranks: the module of least rank
outside the order has all its dependencies exported by modules of smaller rank,
hence by modules in the order, hence registered; so the sweep would have taken it.

The argument for equations. `AssemblyFindsOrder` brings `OrderInv` into the assembly. `EquInv` adds how far the
second pass has come (`Progress`: the modules before the one at hand are settled, and in it the lines before the one at hand),
that no `.equ` line has a value earlier (`Unevaluated`), and that each value is that of
its expression (`Equations`). What an `.equ` line needs from outside is exported by a module before its own
(`NeededIsSettled`), so the lookup cannot fail for want of an `.equ`; and since an evaluation only
succeeds on values that are there, and only an absent value is ever written, no later step changes what an earlier one
read (`EvaluateStable`).

The argument for places and crashes. `PlaceInv` collects what the first pass establishes: when every `.org` names an address, lines
start at addresses, and only an `.org` may start one past the end (`StartsAreAddresses`, over the recursive
function `Start`); what has bytes is in memory (`Values`); every line with bytes has a place once the pass is over (`Places`). The
cursors stay in the order and in the module (`Loops`). The outcomes then follow from the guards: a crash of the first pass is at
the `.org` that `PlaceFails` stops at (`PlaceFailsAt`), a later one at a line or label whose value no first pass gave (`CrashHere`).

The argument for jump targets. `TargetInv` says that every line that has been emitted is noted where it leads, for the modules
behind and for the lines behind in the module at hand. A later line only adds to the map (`AddedGrows`), and the
values that `Evaluate` reads no longer change in the last loop.

The argument for memory. A `DataRange` is a sorted sequence of chunks with gaps between them (`Sorted`).
`ClaimChunk` cuts out the chunks it meets and puts one in their place; `SpliceHolds` says when that is
sorted again and which bytes it holds, so a claim adds exactly the bytes claimed, and is free exactly when none of them
was held (`ClaimChunkHolds`). `ClaimChunksHolds` carries this over a list of claims by a least counterexample.
`ChunksOf` splits the bytes of a line at the end of its bank; a line longer than a bank meets itself (`ChunksOfLong`). The entries of a
`RangeMap` share no byte, so the last entry before an address is the only one that can hold it (`LookupFinds`). For
`Ranges` this gives the refinement, action by action. For the assembler, which writes before it looks for overlaps,
`MemoryInv` says that each module owns exactly the bytes its lines wrote and wrote each of them once, and that the map holds the
chunks of the modules behind, each under its module. A conflict ends the assembly; if there is none, the byte written was not
owned by the module before, and its chunks meet no chunk of another. An assembly that stops half way leaves bytes written and
owned that are in no map; `MapWritten` keeps that the map holds nothing that was not written, as the output only grows (`SinkGrows`).

The argument for labels. While a call runs, the labels of its branches exist only in `label_names`, and those
of earlier calls only on their instructions; `LabelsResolve` speaks of neither. `LabelInv` adds that every label in
use was handed out by the symbol counter (`Numbers`), that no label is on two addresses in either place or in both
(`Apart`), that a revisit leaves instruction, label and target name of earlier calls alone (`Continued`), that branches
of finished calls resolve (`Resolved`), and that each branch of the running call names what its
target has or is going to have, the target being pending, new or old (`Pending`). When the call returns the worklist is empty,
so each target is an instruction and gets its name. Nothing is assumed of the ROM or of the seeds: failed calls,
joins of two calls and calls that begin in the middle of an earlier one are all covered.

The argument for what later calls do to earlier results. `Return` overwrites the instructions of earlier calls by those of
the call, so `ResultOnlyWeakens` is about everything the call did before. `Weakened` says that what the
running call holds for an instruction covers what earlier calls left there; a revisit keeps it, because the new state
is a merge with the old one (`MergeCovers`). `Known` and `Carried` give the types that the laws of merging
need: every row of the opcode table has one of the addressing modes (`TableModes`, a fact about 256 rows), so the argument
that is decoded is a number of the width of its mode (`ArgumentType`) or a distance, so branches and far jumps lead to
addresses (`SuccessorTypes`, `DecodeType`). `DriverInv` adds that the seed of the running call
is the lowest one left. With these, `TypeOK` follows too.

The argument for closed results. `StandsInv` says of the results of earlier calls and of the running one that the bytes
decode to the instruction in the state recorded: a width that is known after a merge was known before and the same
(`KnownWidths`), and when it is not, `Decode` fails and with it the call. `PathInv` says that the finished calls are closed, and that
the running one leaves no way open that is not on its stack. The result of the running call is laid over that of the earlier ones; since
it only weakens them, what covered still covers. When the call returns its stack is empty.

The argument for far targets. `FarInv` says where a far target found in a pass is remembered: among the targets of the running call, on the
list for the next pass, or as an instruction. `CombineStates` merges the flags of all callers, so what is sought covers each of
them. A revisit adds the target again with the weaker state; with `yields` conventions it adds it with the flags
after the call, so the invariant needs `NoYields`.

The argument for listings. A listing is made once, from the disassembly as the driver left it (`ListingInv`), and what
`Cleanup` does with a disassembly needs what the other theorems say of one: it is closed, its branches resolve, and its instructions
stand in memory. `SoundInv` adds what ties an instruction to its row of the table (no exit instruction falls through into the
next state, only a branch refers to a label, a suffix says the width it was decoded with); `Result` collects all this.
`FoldParts` shows that both parts of a fold stand next to each other in memory unless a bank ends between them: a `clc` has one
byte and is no exit, so the address after it is disassembled, and nothing lies between. So the second part of a fold is reached from its first part, or
from an instruction that has the first part for an operand: everything else that leads to it is a branch, and then it has a label and is not folded.
For the bytes, the table is read backwards: no two rows of it have one mnemonic and one mode, up to the width of an immediate (`OneOpcode`), so `Assemble` gives back
the opcode (`OpcodeBack`); an operand is a number put together from its bytes and taken apart again (`WordBytes`, `LongBytes`),
or a distance, which `AddWrapped` and the check of its range undo (`DistanceBack`), where the name in its place stands for the target:
the names count the labels in the order of addresses, so no two are equal (`NamesApart`, `NamedRow`). `CheckConsistency` accepts
a row in its state because the suffix agrees with the widths of the state (`RowConsistent`); in a fold the state is that of the first part and the suffix that of
the second, which agree unless paths of two widths join there (`FoldConsistent`). The `.entry` lines need an invariant over the passes, `EntryInv`: every far jump
or call leaves with the carry unknown, so only a first seed can know it; an entry point whose call is running is on the stack or disassembled with the carry unknown (`RunningAt`), and
stays so when the call returns and in every later join (`SettledAt`), since a join knows the carry only where both states do (`WeakJoins`).

The argument for scopes. `LoadAsmFile` keeps a stack of the `.begin` lines that are open; the property counts braces. `OpenInv`
joins the two: from the k-th open block on there are as many more `.begin` than `.end` lines as blocks are open from it on, at
every line in between there are more, and every line since has the block among its scopes. A `.end` therefore closes the top of the stack exactly where
the count first comes out even (`TakeClosed`), and there `ClosedInv` takes over: a block that was closed has its end, and is a scope of exactly the lines between.
At the end of the file no block is open, so the scopes of a line are the blocks around it (`BlocksAreScopes`), outermost first. `NamesInv` says that each
scope knows exactly the labels of its block, under the line they stand on, and no two labels on a line are equal in one block; a
statement enters its labels, the exported ones and those outside all blocks among the global names and the others in the open
block, and touches no other scope (`NamesAdded`). `LocalIndex` searches a path of scopes that grows inwards, so it stops in the
innermost one that knows the name (`LookedUp`). What an `.equ` line borrows is decided in the module as it is at the end of the file,
so that a name defined below its use is not borrowed (`LoadedInv`, `LocalIsDefined`).

The argument for reads. `Rom::Read` takes the bytes between two offsets whenever the last byte of the read
lies behind the first in the ROM. `OffsetInBank` shows that an offset is the place within the bank plus what depends on
the bank alone, and that whether an address is mapped depends on the bank and on the half
of the bank. `AddWrapped` stays in the bank (`WrappedParts`), so a last byte behind the first one means that the
read has not wrapped, unless it went round a whole bank, which takes more than 65537 bytes; the addresses in between then
have consecutive offsets and are all mapped (`StraightRead`). `RomInv` says that a loaded
ROM has one of the three mappings and that a dump stays in the address space; it is
inductive by itself and implies the property.

The argument for dumps. A read is then all of its bytes or nothing (`ReadIs`), so `RomIdentityTest::Write` looks at
each byte (`AcceptsBytes`, `AcceptsWhatHolds`), which `CompareInv` counts over the writes. `AddWrapped` of `AddWrapped` goes the sum
(`WrappedSum`), which keeps the address of a dump in step with the number of its values (`DumpInv`). What `ReadWord` and
`ReadLong` put together, `EncodeValue` takes apart (`BytesOfValue`), so byte for byte the dump assembles to what is in the
ROM, also across the end of a bank; and the next value, also of the greatest, has another first byte (`NextValueDiffers`).

Induction. The library states induction for an operator, which the provers cannot instantiate. A set of natural
numbers that is not empty has a least element, though (`LeastElement`, from the well-foundedness of `<`), and with it
statements about a recursive function at every number are proved by a least counterexample: the function exists, and has the property
(`PlacingExists` and `StartsAreAddresses`, `ClaimingExists` and `ClaimChunksHolds`).

Only model-checked: everything about liveness (`Termination`, `OrderFound`, `ListingPrinted`); the properties of `SourceText`
(`NothingLost`, `ExpressionsAgree`, `ModesAgreeWithTable`), which are about what the parser makes of tokens; and `NothingLeftOver`
of `Disassembler`, which is about the bound `MaxPasses` and false for some ROM with any bound. Trees and token sequences make `Expressions`
and `Parser` recursive operators, which keeps them out of the prover's reach.

## Findings

Each is a run that TLC is expected to refute, with the line it contradicts quoted
in `PROJECT.json`.

* `MCPaths_loops`: `module.cc:212` replaces a line's `incoming_state` by the pending state. After
  a loop the state of the path into the loop is gone, and the widths chosen are those of the last
  path. An accepted module can therefore contain an immediate whose width is wrong
  on the first turn.
* `MCDisassembler_yields`: on a revisit a call's far target is recorded with the
  state after its `yields` convention (`disassemble.cc:186`), on the first visit with the state before.
* `MCFirstPass_pushpull`: `pha` and `pla` where m is the caller's fail an assertion in
  `PullReg`; the neighbouring `PullVarsize` reads an empty stack.

Observations that contradict no sentence of the repository, or are outside the models. First the assembler:

* An `.equ` that refers to a name nobody defines is reported as a cycle (`assembler.cc:57`).
* An `.org` below 0 or above $1000000 fails the assertion of `address.h:22` (`module.cc:260`), as does an exported
  constant that is no address (`module.cc:394`), and one that is branched or jumped to, or named by a `.remote`.
  `CrashesOnlyOnConstants` says that nothing else does in an assembly.
* `.org $1000000` is accepted, one past the last address; the line after it is at address 0.
* `module.cc:267-272` gives no address to a label before the first `.org`, although `module.h:43-44`
  says each label gets one; the assembly then ends with "Label missing a value".
* `parse.cc:312-374`: when an expression after `(` is followed neither by `,` nor by `)`, a new expression is read from
  there: `lda (1 2` is accepted as `lda 2`.
* A lone `:` drops the rest of its line (`parse.cc:547`), and labels after the last statement of a file disappear
  (`module.cc:83`). `NothingLost` keeps both as its exceptions.
* Constants are silently cut to the size of the data or the operand when they are emitted.
* `Stack::PullReg` joins the two bytes of a 16-bit register in the order low, high
  (`execution_state.h:462`), while the push lays them out high, low.
* After `xce` the bits m and x may still be "original" although the processor has changed them.
* A memory load does not forget the old value of the register (`instruction.cc:268-287`).

The disassembler:

* The `.entry` line of an entry point whose call failed, or that assembled code calls with a known carry (`module.cc:381`), prints
  the carry (", c=1"), which does not parse.
* The suffix of a folded `adc` is that of the path that reaches it last, while the row is printed in the state of its `clc`
  (`disassemble.cc:204` and the fold in `Cleanup`): where the two differ, the row is refused.
* `per` is printed with its distance as a number and cannot be assembled again.
* `Cleanup` folds `clc` and `adc` by their neighbourhood in the map; with `clc` in the last byte of a bank the listing is
  wrong. Code that overlaps a fold can lead into its middle.
* `Directive::ToString` of a `.remote` omits the return convention.
* `disassemble_more.cc` uses the ROM after moving it (lines 39 and 61).

ROM images:

* `rom.cc:28-33` tests bit 23 of a number whose highest possible bit is 21, so bit 22 of an ExHiROM offset is always set, although
  `rom.cc:28` says "address bit 23 is inverted and used as bit 22 of the CART address": $80-$ff never
  reach the first four megabytes (`ExHiRomUpperHalf`).
* The constructor of `RomOverwriter` (`rom.h:78`) reads `rom->data_` after moving `rom`, so `quick_assemble` with
  an output file always crashes.
* A start above $1000000 on the command line of `quick_dump` fails the assertion of `address.h:22` too (`quick_dump.cc:59`);
  `RomImage` dumps from the addresses of memory only (`StartsAssumption`).
* `quick_dump.cc:75` asks a good ROM for its error when a value cannot be read, and ends in `bad_variant_access`.
* A read of more than 65537 bytes can be cut short (`rom.cc:54`): its last byte is behind its first again after a whole bank.
* `rom.cc:178` bounds a write with `>` where the read uses `>=`.

## What is not modelled

* The tokenizer: characters in, tokens out, a table of spellings without state. `Parser` and `Loading` start from tokens.
  The tokens for `+` and `-` labels exist, but `Parse` never makes such labels, so they occur nowhere.
* `ParseExpression`, which only tests call, and `PushDBR`, which nothing calls.
* Arithmetic beyond 32 bits in expressions: overflow of `int` is undefined, and no decision of the program is about it.
* `RomOverwriter::Write` and `CreateFile`: the constructor crashes before they can run.
* `address_to_global_` and `Assembler::NameForAddress`, error wording, locations and all
  printing, except where a property is about reading it back (`PrintedForm`, the rows of `Listing`): no decision depends on them.
* The command lines of the tools, and the tools around the library that keep no state of their own.
* A machine that runs the code. The widths are checked against a walker that uses the code's own `Execute`,
  so an error in the description of one instruction (see the observations on `xce` and the pull order) is not found by the runs.

## Plan

Done: analysis (`FirstPass`, `Paths`), memory (`Ranges`), disassembly and its listing, order, assembly, loading with
parser and expressions, encoding, ROM images; the proofs of every safety property of the first pass, its paths, the order, the assembly,
claimed memory and ROM images, of the disassembler and its listing but for the one that depends on a bound, and of the scopes
and dependencies of a loaded module.

What is left to prove looks into tokens (`SourceText`) and would need recursive functions over bounded trees in place of the
recursive operators of `Parser` and `Expressions`.

A module still to write is `Machine`: a concrete 65816 restricted to the flags, registers and stack the analysis follows,
with static analysis shown to cover it. It would turn the observations on `xce`, the pull order and stale registers
into statements about the hardware the code describes.
