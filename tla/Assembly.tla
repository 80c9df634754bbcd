------------------------------ MODULE Assembly ------------------------------
(***************************************************************************)
(* Assembler::Assemble of assembler.cc with Module::RunSecondPass and      *)
(* Module::Assemble of module.cc.  Once FindAssemblyOrder has returned,    *)
(* three loops run over the modules in that order: the first pass places   *)
(* their lines, the second evaluates their .equ lines, and the last writes *)
(* their bytes to the output, claims them, and collects the jump targets.  *)
(*                                                                         *)
(* What RunFirstPass does before it places the lines is module FirstPass;  *)
(* here it accepts, rejects or fails an assertion, and the size of a line  *)
(* is the one it chose.                                                    *)
(* An expression is a number, a line its name was resolved to within the   *)
(* module, or an external name.  What address_to_global_ is filled with    *)
(* (names for printing) is left out.                                       *)
(***************************************************************************)
EXTENDS AssemblyOrder, DataRanges

CONSTANTS
  NoValue,    \* line.value is absent
  NoLabel,    \* the line has no label in global_to_line_
  Reach       \* how far back a relative branch can go: 128 in the code

\* Line: a statement and what LoadAsmFile found out about it.  "code" is an
\* instruction or data; "branch" is a relative branch, "far" is jmp or jsl
\* with a long argument, "jump" is jmp or jsr with a 16-bit one.  returns: it
\* has a return convention.
CodeKinds == {"code", "branch", "far", "jump"}
LineKinds == CodeKinds \cup {"org", "equ", "entry", "remote", "plain"}
LineTypes ==
  [kind : LineKinds, label : Int \cup {NoLabel}, ref : {"number", "line", "name"},
   to : Int, size : Nat, returns : BOOLEAN]

Indices(lines, kind) == {i \in DOMAIN lines : lines[i].kind = kind}
ExportedNames(lines) == {lines[i].label : i \in DOMAIN lines} \ {NoLabel}
Dependencies(lines) ==
  {lines[i].to : i \in {j \in Indices(lines, "equ") : lines[j].ref = "name"}}

ASSUME ModulesAssumption ==
  \A m \in Modules :
    /\ m.lines \in Seq(LineTypes)
    /\ m.exports = ExportedNames(m.lines) /\ m.dependencies = Dependencies(m.lines)
    /\ \A i, j \in DOMAIN m.lines :
         m.lines[i].label = m.lines[j].label /\ i # j => m.lines[i].label = NoLabel
    /\ \A i \in DOMAIN m.lines :
         /\ m.lines[i].ref = "line" => m.lines[i].to \in DOMAIN m.lines
         /\ m.lines[i].size > 0 => m.lines[i].kind \in CodeKinds
         /\ m.lines[i].kind \in CodeKinds \ {"code"} => m.lines[i].size > 0
         /\ m.lines[i].kind = "branch" => m.lines[i].ref # "number"

VARIABLES
  phase,        \* the loop Assemble is in, or how it ended
  at,           \* the place in order of the module it works on
  line,         \* the line of that module it works on
  value,        \* module -> line -> line.value
  owned,        \* module -> owned_bytes_
  targets,      \* module -> unnamed_targets_: address -> the lines that lead there
  conventions,  \* module -> return_conventions_: address -> the line that set it
  used,         \* memory_module_map_: its used_
  mapping,      \* memory_module_map_: its mapping_
  sink          \* the output: byte -> the lines that wrote it

moduleVars == <<value, owned, targets, conventions>>
outputVars == <<used, mapping, sink>>
vars == <<orderVars, phase, at, line, moduleVars, outputVars>>

LastAddress == BankSize * Banks   \* what the constructor of Address lets through
IsAddress(v) == v \in 0 .. LastAddress

AddWrapped(a, n) == ((a \div BankSize) % Banks) * BankSize + ((a + n) % BankSize)

m0 == order[at]                    \* the module at hand
lines0 == modules[m0].lines
here == lines0[line]               \* the line at hand

-----------------------------------------------------------------------------
(* The end of RunFirstPass: the address of every line but the .equ lines *)

Start(lines) ==
  LET pc[i \in 0 .. Len(lines)] ==
        IF i = 0 THEN [start |-> NoValue, end |-> NoValue]
        ELSE LET start == IF lines[i].kind = "org" THEN lines[i].to ELSE pc[i - 1].end
             IN  [start |-> start,
                  end |-> IF start = NoValue THEN NoValue ELSE AddWrapped(start, lines[i].size)]
  IN  [i \in DOMAIN lines |-> pc[i].start]

Placed_Equ(lines) == Start(lines)   \* mutant: .equ lines are placed too

Placed(lines) ==
  [i \in DOMAIN lines |-> IF lines[i].kind = "equ" THEN NoValue ELSE Start(lines)[i]]

\* Why the line cannot be placed: the argument of an .org is not a constant, the
\* constant is no Address, or there are bytes before the first .org.
PlaceFailure_Org(lines, i) ==   \* mutant: bytes before the first .org are let through
  CASE lines[i].kind = "org" /\ lines[i].ref # "number" -> "rejected"
    [] lines[i].kind = "org" /\ lines[i].ref = "number" /\ ~IsAddress(lines[i].to) -> "crash"
    [] OTHER -> "none"

PlaceFailure_AnyOrg(lines, i) ==   \* mutant: the address of an .org is not looked at
  CASE lines[i].kind = "org" /\ lines[i].ref # "number" -> "rejected"
    [] lines[i].size > 0 /\ Start(lines)[i] = NoValue -> "rejected"
    [] OTHER -> "none"

PlaceFailure(lines, i) ==
  CASE lines[i].kind = "org" /\ lines[i].ref # "number" -> "rejected"
    [] lines[i].kind = "org" /\ lines[i].ref = "number" /\ ~IsAddress(lines[i].to) -> "crash"
    [] lines[i].size > 0 /\ Start(lines)[i] = NoValue -> "rejected"
    [] OTHER -> "none"

Placeable(lines) == \A i \in DOMAIN lines : PlaceFailure(lines, i) = "none"

-----------------------------------------------------------------------------
(* Expressions: ModuleLookupContext and AssemblerLookupContext *)

LineOf(m, name) == CHOOSE i \in DOMAIN modules[m].lines : modules[m].lines[i].label = name

Evaluate(m, l) ==
  CASE l.ref = "number" -> l.to
    [] l.ref = "line" -> value[m][l.to]
    [] l.ref = "name" /\ l.to \in DOMAIN exporter -> value[exporter[l.to]][LineOf(exporter[l.to], l.to)]
    [] OTHER -> NoValue

\* Why Evaluate gives no value.
Failure(l) ==
  CASE l.ref = "line" -> "before definition"
    [] l.ref = "name" /\ l.to \in DOMAIN exporter -> "no value"
    [] OTHER -> "undefined"

-----------------------------------------------------------------------------

Init ==
  /\ OrderInit
  /\ phase = "order" /\ at = 1 /\ line = 1
  /\ value = [m \in ModuleIds |-> [i \in DOMAIN modules[m].lines |-> NoValue]]
  /\ owned = [m \in ModuleIds |-> << >>]
  /\ targets = [m \in ModuleIds |-> << >>]
  /\ conventions = [m \in ModuleIds |-> << >>]
  /\ used = << >> /\ mapping = << >>
  /\ sink = [b \in Locations |-> {}]

FindOrder ==
  /\ phase = "order"
  /\ EndSweep \/ \E m \in ModuleIds : Pass(m) \/ Take(m)
  /\ phase' = CASE ordering' = "sweeping" -> "order"
                [] ordering' = "ordered" -> "first"
                [] OTHER -> ordering'
  /\ UNCHANGED <<at, line, moduleVars, outputVars>>

Stop(failure) ==
  /\ phase' = failure
  /\ UNCHANGED <<orderVars, at, line, value, targets, conventions, used, mapping>>

\* The loops over *module_order end at its last module.
NextModule(loop) ==
  /\ IF at = Len(order) THEN phase' = loop /\ at' = 1 ELSE at' = at + 1 /\ UNCHANGED phase
  /\ line' = 1

NextLine == line' = line + 1 /\ UNCHANGED <<phase, at>>

RunFirstPass ==
  /\ phase = "first" /\ at \in DOMAIN order
  /\ Placeable(lines0)
  /\ value' = [value EXCEPT ![m0] = Placed(lines0)]
  /\ NextModule("equ")
  /\ UNCHANGED <<orderVars, owned, targets, conventions, outputVars>>

\* The first line that cannot be placed; the values of the lines before it
\* are not looked at any more.
PlaceFails ==
  /\ phase = "first" /\ at \in DOMAIN order
  /\ line' \in DOMAIN lines0
  /\ PlaceFailure(lines0, line') # "none"
  /\ \A i \in 1 .. line' - 1 : PlaceFailure(lines0, i) = "none"
  /\ phase' = PlaceFailure(lines0, line')
  /\ UNCHANGED <<orderVars, at, moduleVars, outputVars>>

\* An error of the analysis, or of the choice of the addressing modes.
Reject ==
  /\ phase = "first" /\ at \in DOMAIN order
  /\ \E i \in DOMAIN lines0 : lines0[i].kind \in CodeKinds \cup {"entry"}
  /\ Stop("rejected")
  /\ UNCHANGED <<owned, sink>>

\* A pull reached from an .entry that fails the assertion of
\* StackValue::value(), or reads an empty stack.
AnalysisCrashes ==
  /\ phase = "first" /\ at \in DOMAIN order
  /\ Indices(lines0, "entry") # {} /\ Indices(lines0, "code") # {}
  /\ Stop("pull crash")
  /\ UNCHANGED <<owned, sink>>

\* RunSecondPass, one line.
EvaluateEqu ==
  /\ phase = "equ" /\ line \in DOMAIN lines0
  /\ here.kind = "equ" /\ value[m0][line] = NoValue
  /\ LET v == Evaluate(m0, here)
     IN  IF v = NoValue
           THEN Stop(Failure(here)) /\ UNCHANGED <<owned, sink>>
           ELSE /\ value' = [value EXCEPT ![m0][line] = v]
                /\ NextLine
                /\ UNCHANGED <<orderVars, owned, targets, conventions, outputVars>>

SkipLine ==
  /\ phase = "equ" /\ line \in DOMAIN lines0
  /\ here.kind # "equ" \/ value[m0][line] # NoValue
  /\ NextLine
  /\ UNCHANGED <<orderVars, moduleVars, outputVars>>

EndEqu ==
  /\ phase = "equ" /\ line = Len(lines0) + 1
  /\ NextModule("emit")
  /\ UNCHANGED <<orderVars, moduleVars, outputVars>>

-----------------------------------------------------------------------------
(* Module::Assemble, one line *)

Origin == <<m0, line>>
BytesAt(a, n) == {AddWrapped(a, k) : k \in 0 .. n - 1}

\* unnamed_targets_: the flags of everything that leads to a are merged.
AddTarget_Replaces(map, a, l) ==   \* mutant: = for |=
  [b \in DOMAIN map \cup {a} |-> IF b = a THEN {l} ELSE map[b]]

AddTarget(map, a, l) ==
  [b \in DOMAIN map \cup {a} |->
     IF b \notin DOMAIN map THEN {l} ELSE map[b] \cup (IF b = a THEN {l} ELSE {})]

Convention(map, a) ==
  IF here.returns THEN [b \in DOMAIN map \cup {a} |-> IF b = a THEN line ELSE map[b]] ELSE map

\* FarBranchTarget: only a literal is followed.
IsFarBranch(l) == l.kind \in {"far", "jump"} /\ l.ref = "number"
FarBranchTarget(l, a) ==
  IF l.kind = "far" THEN l.to
  ELSE ((a \div BankSize) % Banks) * BankSize + (l.to % BankSize)

\* Address::SubtractWrapped, from the instruction after the branch.
Distance(target, a) ==
  LET d == (target - a) % BankSize IN IF 2 * d >= BankSize THEN d - BankSize ELSE d

Reaches(target, a) ==
  /\ target \div BankSize = AddWrapped(a, here.size) \div BankSize
  /\ Distance(target, AddWrapped(a, here.size)) \in -Reach .. Reach - 1

\* Why Instruction::Assemble refuses a relative branch: the target is made an
\* Address before its distance is looked at.
BranchFailures ==
  LET target == Evaluate(m0, here)
  IN  CASE here.kind # "branch" -> {}
        [] here.kind = "branch" /\ ~IsAddress(target) -> {"crash"}
        [] OTHER -> IF Reaches(target, value[m0][line]) THEN {} ELSE {"out of reach"}

\* The bytes of a line: the output is written before the bytes are claimed.
EmitBytes ==
  LET a == value[m0][line]
      bytes == BytesAt(a, here.size)
      claim == ClaimChunks(owned[m0], ChunksOf(a, here.size))
  IN  /\ phase = "emit" /\ line \in DOMAIN lines0 /\ here.size > 0
      /\ a # NoValue /\ Evaluate(m0, here) # NoValue /\ BranchFailures = {}
      /\ sink' = [b \in Locations |-> IF b \in bytes THEN sink[b] \cup {Origin} ELSE sink[b]]
      /\ owned' = [owned EXCEPT ![m0] = claim.chunks]
      /\ CASE ~claim.free -> Stop("overlap in module")
           [] claim.free /\ IsFarBranch(here) /\ ~IsAddress(FarBranchTarget(here, a)) -> Stop("crash")
           [] OTHER ->
                /\ targets' = IF IsFarBranch(here)
                     THEN [targets EXCEPT ![m0] = AddTarget(@, FarBranchTarget(here, a), line)]
                     ELSE targets
                /\ NextLine
                /\ UNCHANGED <<orderVars, value, conventions, used, mapping>>

\* The sink refuses the bytes, having taken some of them.
SinkFails ==
  /\ phase = "emit" /\ line \in DOMAIN lines0 /\ here.size > 0
  /\ value[m0][line] # NoValue /\ Evaluate(m0, here) # NoValue /\ BranchFailures = {}
  /\ \E n \in 0 .. here.size - 1 :
       sink' = [b \in Locations |->
                  IF b \in BytesAt(value[m0][line], n) THEN sink[b] \cup {Origin} ELSE sink[b]]
  /\ Stop("sink")
  /\ UNCHANGED owned

\* Where .entry and .remote note the convention.
NotedAt == IF here.kind = "entry" THEN value[m0][line] ELSE Evaluate(m0, here)

EmitNote ==
  /\ phase = "emit" /\ line \in DOMAIN lines0 /\ here.kind \in {"entry", "remote"}
  /\ NotedAt # NoValue
  /\ UNCHANGED <<owned, sink>>
  /\ IF ~IsAddress(NotedAt)
       THEN Stop("crash")
       ELSE /\ targets' = IF here.kind = "entry" THEN targets
                          ELSE [targets EXCEPT ![m0] = AddTarget(@, NotedAt, line)]
            /\ conventions' = [conventions EXCEPT ![m0] = Convention(@, NotedAt)]
            /\ NextLine
            /\ UNCHANGED <<orderVars, value, used, mapping>>

EmitFails ==
  /\ phase = "emit" /\ line \in DOMAIN lines0
  /\ UNCHANGED <<owned, sink>>
  /\ \/ /\ here.size > 0 \/ here.kind = "entry"
        /\ value[m0][line] = NoValue
        /\ Stop("no address")
     \/ /\ here.kind = "remote" \/ (here.size > 0 /\ value[m0][line] # NoValue)
        /\ Evaluate(m0, here) = NoValue
        /\ Stop(Failure(here))
     \/ /\ here.size > 0 /\ value[m0][line] # NoValue /\ Evaluate(m0, here) # NoValue
        /\ \E failure \in BranchFailures : Stop(failure)

EmitNothing ==
  /\ phase = "emit" /\ line \in DOMAIN lines0
  /\ here.size = 0 /\ here.kind \notin {"entry", "remote"}
  /\ NextLine
  /\ UNCHANGED <<orderVars, moduleVars, outputVars>>

\* The labels, visited in any order: why one of them stops the assembly.
LabelFailures ==
  LET labelled == {value[m0][i] : i \in {j \in DOMAIN lines0 : lines0[j].label # NoLabel}}
  IN  {IF v = NoValue THEN "label missing" ELSE "crash" : v \in {u \in labelled : u = NoValue \/ ~IsAddress(u)}}

LabelFails ==
  /\ phase = "emit" /\ line = Len(lines0) + 1
  /\ \E failure \in LabelFailures : Stop(failure)
  /\ UNCHANGED <<owned, sink>>

\* RangeMap::Insert of the bytes the module owns.
Insert_Forgets ==   \* mutant: only the first chunk gets into mapping_
  LET claim == ClaimChunks(used, owned[m0])
  IN  /\ phase = "emit" /\ line = Len(lines0) + 1 /\ LabelFailures = {}
      /\ UNCHANGED <<orderVars, moduleVars, sink>>
      /\ used' = claim.chunks
      /\ mapping' = [c \in DOMAIN mapping \cup {owned[m0][i] : i \in DOMAIN owned[m0] \cap {1}} |->
                       IF c \in DOMAIN mapping THEN mapping[c] ELSE m0]
      /\ NextModule("done")

Insert_Merged ==   \* mutant: the merged chunks are filed, under the module that came last
  LET claim == ClaimChunks(used, owned[m0])
  IN  /\ phase = "emit" /\ line = Len(lines0) + 1 /\ LabelFailures = {}
      /\ IF claim.free
           THEN /\ used' = claim.chunks
                /\ mapping' = [c \in {claim.chunks[i] : i \in DOMAIN claim.chunks} |-> m0]
                /\ NextModule("done")
                /\ UNCHANGED <<orderVars, moduleVars, sink>>
           ELSE Stop("overlap") /\ UNCHANGED <<owned, sink>>

Insert ==
  LET claim == ClaimChunks(used, owned[m0])
      new == {owned[m0][i] : i \in DOMAIN owned[m0]}
  IN  /\ phase = "emit" /\ line = Len(lines0) + 1 /\ LabelFailures = {}
      /\ IF claim.free
           THEN /\ used' = claim.chunks
                /\ mapping' = [c \in DOMAIN mapping \cup new |->
                                 IF c \in DOMAIN mapping THEN mapping[c] ELSE m0]
                /\ NextModule("done")
                /\ UNCHANGED <<orderVars, moduleVars, sink>>
           ELSE Stop("overlap") /\ UNCHANGED <<owned, sink>>

EndEmpty ==   \* no modules at all
  /\ phase = "first" /\ order = << >>
  /\ phase' = "done"
  /\ UNCHANGED <<orderVars, at, line, moduleVars, outputVars>>

Stopped ==
  /\ phase \notin {"order", "first", "equ", "emit"}
  /\ UNCHANGED vars

Next ==
  \/ FindOrder
  \/ RunFirstPass \/ PlaceFails \/ Reject \/ AnalysisCrashes
  \/ EvaluateEqu \/ SkipLine \/ EndEqu
  \/ EmitBytes \/ SinkFails \/ EmitNote \/ EmitFails \/ EmitNothing
  \/ LabelFails \/ Insert
  \/ EndEmpty
  \/ Stopped

Spec == Init /\ [][Next]_vars

-----------------------------------------------------------------------------
(* Properties *)

Phases ==
  {"order", "first", "equ", "emit", "done", "duplicate", "cyclic", "rejected", "before definition",
   "no value", "undefined", "sink", "overlap in module", "overlap", "label missing",
   "out of reach", "crash", "pull crash"}

Origins == UNION {{m} \X DOMAIN modules[m].lines : m \in ModuleIds}

\* Types.  RunFirstPass places every line that has bytes and every line that
\* is executed, so Assemble never ends for want of an address of its own,
\* except at an .entry before the first .org.
TypeOK ==
  /\ OrderTypeOK
  /\ phase \in Phases \/ (phase = "no address" /\ here.kind = "entry")
  /\ at \in 1 .. Len(modules) + 1
  /\ line \in 1 .. IF at \in DOMAIN order THEN Len(lines0) + 1 ELSE 1
  /\ \A m \in ModuleIds :
       /\ DOMAIN value[m] = DOMAIN modules[m].lines
       /\ \A i \in DOMAIN value[m] : value[m][i] \in Int \cup {NoValue}
       /\ \A a \in DOMAIN targets[m] : IsAddress(a) /\ targets[m][a] \subseteq DOMAIN modules[m].lines
       /\ \A a \in DOMAIN conventions[m] : IsAddress(a) /\ conventions[m][a] \in DOMAIN modules[m].lines
  /\ \A b \in Locations : sink[b] \subseteq Origins

\* assembler.h, "so that all .equ expressions are evaluated before any are
\* accessed": a name that has no value when it is looked up is never that of
\* an .equ line of another module.
EquEvaluatedBeforeUse ==
  phase = "no value" =>
    LET m == exporter[here.to]
    IN  modules[m].lines[LineOf(m, here.to)].kind # "equ"

\* Once the second pass is over every .equ line equals its expression, in the
\* values every other line and the output are going to see.
EquationsHold ==
  phase \in {"emit", "done"} =>
    \A m \in ModuleIds : \A i \in Indices(modules[m].lines, "equ") :
      /\ value[m][i] # NoValue
      /\ value[m][i] = Evaluate(m, modules[m].lines[i])

\* When the assembly succeeds no byte of the output was written twice, though
\* both overlap checks come after the write.
BytesHaveOneWriter ==
  phase = "done" =>
    \A b \in Locations : \A o1, o2 \in sink[b] : o1 = o2

\* Wherever the assembly stops, memory_module_map_ names no module that has not
\* written the byte.  When it succeeds Assembler::Contains is true of exactly
\* the bytes that were written, and the map knows which module wrote them.
MapAgreesWithSink ==
  /\ \A b \in Locations :
       InChunks(used, b) => \E o \in sink[b] : o[1] = Lookup(mapping, b)
  /\ phase = "done" =>
       \A b \in Locations :
         /\ InChunks(used, b) <=> sink[b] # {}
         /\ \A o \in sink[b] : Lookup(mapping, b) = o[1]

\* What Assembler::JumpTargets and JumpTargetReturnConventions return: the
\* addresses outside the assembled memory with all that leads to them, and
\* the addresses with a convention.
JumpTargets ==
  LET addresses == {a \in UNION {DOMAIN targets[m] : m \in ModuleIds} : ~InChunks(used, a)}
  IN  [a \in addresses |->
         {o \in Origins : a \in DOMAIN targets[o[1]] /\ o[2] \in targets[o[1]][a]}]
ReturnConventions == UNION {DOMAIN conventions[m] : m \in ModuleIds}

\* Where a line of an assembled module leads: NoValue if it leads nowhere.
LeadsTo(m, i) ==
  LET l == modules[m].lines[i]
  IN  CASE l.kind = "remote" -> Evaluate(m, l)
        [] IsFarBranch(l) -> FarBranchTarget(l, value[m][i])
        [] OTHER -> NoValue

\* The disassembler is told of every way out of the assembled code, with all
\* the lines that take it, and of every convention a .remote line states.
NoJumpTargetLost ==
  phase = "done" =>
    \A o \in Origins :
      LET a == LeadsTo(o[1], o[2])
      IN  a # NoValue =>
            /\ ~InChunks(used, a) => a \in DOMAIN JumpTargets /\ o \in JumpTargets[a]
            /\ modules[o[1]].lines[o[2]].returns /\ modules[o[1]].lines[o[2]].kind = "remote" =>
                 a \in ReturnConventions

\* Assertions are for numbers the source states: address.h:22 only fails on
\* a constant that an .org names, or one that is exported, branched or jumped
\* to, or noted by a .remote.  The addresses the first pass gives to lines
\* never fail it, and no byte is placed one past the last address, which an
\* .org may name.
CrashesOnlyOnConstants ==
  /\ phase = "crash" =>
       IF line = Len(lines0) + 1
         THEN \E i \in Indices(lines0, "equ") :
                lines0[i].label # NoLabel /\ ~IsAddress(value[m0][i])
         ELSE \/ here.kind = "org" /\ here.ref = "number" /\ ~IsAddress(here.to)
              \/ here.kind \in {"branch", "far", "jump", "remote"} /\ ~IsAddress(Evaluate(m0, here))
  /\ \A m \in ModuleIds : \A i \in DOMAIN value[m] :
       modules[m].lines[i].size > 0 /\ value[m][i] # NoValue => value[m][i] \in Locations

=============================================================================
