----------------------------- MODULE FirstPass -----------------------------
(***************************************************************************)
(* Module::RunFirstPass of module.cc.  The pass runs static analysis from  *)
(* every .entry line of a module with a worklist, always taking the lowest *)
(* pending line (Visit); then it fixes the width of every immediate        *)
(* argument from the flags its line was reached with (FixLine); then it    *)
(* gives every line its address (PlaceLine).  Any failure ends the pass,   *)
(* and with it the assembly.                                               *)
(*                                                                         *)
(* The module being assembled is chosen in Init.  Its labels are already   *)
(* resolved: target is the line LocalIndex returns for the argument of a   *)
(* local branch, or NoLine when it returns an error.                       *)
(***************************************************************************)
EXTENDS Instructions, Address

CONSTANT Programs   \* the modules the pass is run on

NoLine == 0

Statements ==
  [kind : {"instruction", "directive"},
   \* Instruction
   mnemonic : STRING, mode : AddressingModes, suffix : {"none", "b", "w"},
   arg : Int \cup {NoValue}, arg2 : Int \cup {NoValue},
   ret : ReturnConventions, target : Nat,
   \* Directive; arg is its argument too
   name : STRING, flags : FlagStates, count : Nat]

ASSUME ProgramsAssumption ==
  \A p \in Programs : /\ p \in Seq(Statements)
                      /\ \A i \in DOMAIN p : p[i].target \in 0 .. Len(p)

VARIABLES
  lines,        \* the statements; FixLine rewrites their addressing modes
  decodeStack,  \* decode_stack: pending line -> state on entry
  incoming,     \* reached line -> incoming_state; its domain is the reached lines
  phase,        \* where the pass is, and how it ended
  cursor,       \* the next line of the fixing and the placing loop
  pc,           \* the address of the next byte, or NoValue
  value         \* placed line -> address

vars == <<lines, decodeStack, incoming, phase, cursor, pc, value>>

Phases == {"analyze", "fix", "place"}
Failures == {"past end", "execute", "crash", "no target", "not reached", "width", "org", "no address"}
Lines == 1 .. Len(lines)

-----------------------------------------------------------------------------
(* Statements, by the variant they hold *)

IsInstruction(s) == s.kind = "instruction"
IsDirective(s, name) == s.kind = "directive" /\ s.name = name

ExecuteStatement(s, es) == IF IsInstruction(s) THEN Execute(s, es) ELSE ExecuteDirective(s, es)
SerializedSize(s) == IF IsInstruction(s) THEN InstructionSize(s) ELSE DirectiveSize(s)
IsExit(s) == IF IsInstruction(s) THEN IsExitInstruction(s) ELSE s.name = "halt"
HoldsData(s) == s.kind = "directive" /\ s.name \in DataDirectives \cup {"org"}
IsBranch(s) == IsInstruction(s) /\ IsLocalBranch(s)

-----------------------------------------------------------------------------
(* The worklist *)

\* add_to_decode_stack
AddToDecodeStack_Overwrites(stack, line, es) ==   \* mutant: = for |=
  [l \in DOMAIN stack \cup {line} |-> IF l = line THEN es ELSE stack[l]]

AddToDecodeStack(stack, line, es) ==
  [l \in DOMAIN stack \cup {line} |->
     CASE l = line /\ line \in DOMAIN stack -> Merge(stack[l], es)
       [] l = line /\ line \notin DOMAIN stack -> es
       [] OTHER -> stack[l]]

\* The node decode_stack.begin() points to.
IsFirst(line) == line \in DOMAIN decodeStack /\ \A l \in DOMAIN decodeStack : line <= l

\* What is pushed after line ran in state es and left it in state next.
AfterFallThrough_LinearOnly(line, next) ==   \* mutant: a branch is not followed past
  IF IsExit(lines[line]) \/ IsBranch(lines[line]) THEN decodeStack
  ELSE AddToDecodeStack(decodeStack, line + 1, next)

AfterFallThrough(line, next) ==
  IF IsExit(lines[line]) THEN decodeStack ELSE AddToDecodeStack(decodeStack, line + 1, next)

AfterBranch(line, es, stack) ==
  IF IsBranch(lines[line])
    THEN AddToDecodeStack(stack, lines[line].target, ExecuteBranch(lines[line], es).state)
    ELSE stack

-----------------------------------------------------------------------------

\* .entry on line i starts a subroutine on line i + 1.
Init ==
  /\ lines \in Programs
  /\ LET Entries == {i \in Lines : IsDirective(lines[i], "entry")}
     IN  decodeStack = [l \in {i + 1 : i \in Entries} |-> IncomingState(lines[l - 1].flags)]
  /\ incoming = [l \in {} |-> IncomingState(UnknownFlags)]
  /\ phase = "analyze"
  /\ cursor = 1
  /\ pc = NoValue
  /\ value = [l \in {} |-> 0]

Fail(failure) ==
  /\ phase' = failure
  /\ UNCHANGED <<lines, decodeStack, cursor, pc, value>>

PastEnd ==
  /\ phase = "analyze"
  /\ IsFirst(Len(lines) + 1)
  /\ Fail("past end")
  /\ UNCHANGED incoming

\* The line was reached in this very state before.
Revisit(line) ==
  /\ phase = "analyze"
  /\ IsFirst(line) /\ line \in Lines
  /\ line \in DOMAIN incoming /\ incoming[line] = decodeStack[line]
  /\ decodeStack' = [l \in DOMAIN decodeStack \ {line} |-> decodeStack[l]]
  /\ UNCHANGED <<lines, incoming, phase, cursor, pc, value>>

\* The errors of one iteration, in the order the code meets them.
VisitFailure_NoTargetCheck(s, result) ==   \* mutant: LocalIndex is trusted
  CASE result = "crash" -> "crash"
    [] result = "error" -> "execute"
    [] OTHER -> "none"

VisitFailure(s, result) ==
  CASE result = "crash" -> "crash"
    [] result = "error" -> "execute"
    [] result = "ok" /\ IsBranch(s) /\ s.target = NoLine -> "no target"
    [] OTHER -> "none"

\* The pending state replaces the state the line was reached with.  The line
\* itself stays pending: only Revisit removes it.
Visit(line) ==
  LET es == decodeStack[line]
      done == ExecuteStatement(lines[line], es)
      failure == VisitFailure(lines[line], done.result)
  IN  /\ phase = "analyze"
      /\ IsFirst(line) /\ line \in Lines
      /\ ~(line \in DOMAIN incoming /\ incoming[line] = es)
      /\ incoming' = [l \in DOMAIN incoming \cup {line} |-> IF l = line THEN es ELSE incoming[l]]
      /\ \/ failure # "none" /\ Fail(failure)
         \/ /\ failure = "none"
            /\ decodeStack' = AfterBranch(line, es, AfterFallThrough(line, done.state))
            /\ UNCHANGED <<lines, phase, cursor, pc, value>>

AnalysisDone ==
  /\ phase = "analyze"
  /\ DOMAIN decodeStack = {}
  /\ phase' = "fix"
  /\ UNCHANGED <<lines, decodeStack, incoming, cursor, pc, value>>

\* One iteration of the loop that checks reachability and fixes widths.
FixFailure(line) ==
  CASE IsInstruction(lines[line]) /\ line \notin DOMAIN incoming -> "not reached"
    [] /\ IsInstruction(lines[line]) /\ line \in DOMAIN incoming
       /\ ~CanFixMode(lines[line], incoming[line].flags) -> "width"
    [] OTHER -> "none"

FixedStatement(line) ==
  IF IsInstruction(lines[line])
    THEN [lines[line] EXCEPT !.mode = FixedMode(lines[line], incoming[line].flags)]
    ELSE lines[line]

FixLine ==
  /\ phase = "fix" /\ cursor \in Lines
  /\ \/ FixFailure(cursor) # "none" /\ Fail(FixFailure(cursor))
     \/ /\ FixFailure(cursor) = "none"
        /\ lines' = [lines EXCEPT ![cursor] = FixedStatement(cursor)]
        /\ cursor' = cursor + 1
        /\ UNCHANGED <<decodeStack, phase, pc, value>>
  /\ UNCHANGED incoming

FixDone ==
  /\ phase = "fix" /\ cursor \notin Lines
  /\ phase' = "place"
  /\ cursor' = 1
  /\ UNCHANGED <<lines, decodeStack, incoming, pc, value>>

\* One iteration of the loop that assigns addresses; at is the pc after a
\* possible .org, whose argument must be constant and an Address.
PcAt(line) == IF IsDirective(lines[line], "org") THEN lines[line].arg ELSE pc

PlaceFailure(line) ==
  LET s == lines[line]
  IN  CASE IsDirective(s, "org") /\ s.arg = NoValue -> "org"
        [] IsDirective(s, "org") /\ s.arg # NoValue /\ s.arg \notin RangeEnds -> "crash"
        [] SerializedSize(s) > 0 /\ PcAt(line) = NoValue -> "no address"
        [] OTHER -> "none"

PlaceLine ==
  LET at == PcAt(cursor)
  IN  /\ phase = "place" /\ cursor \in Lines
      /\ \/ PlaceFailure(cursor) # "none" /\ Fail(PlaceFailure(cursor))
         \/ /\ PlaceFailure(cursor) = "none"
            /\ cursor' = cursor + 1
            /\ pc' = IF at = NoValue THEN NoValue ELSE AddWrapped(at, SerializedSize(lines[cursor]))
            /\ value' = IF at = NoValue \/ IsDirective(lines[cursor], "equ") THEN value
                        ELSE [l \in DOMAIN value \cup {cursor} |-> IF l = cursor THEN at ELSE value[l]]
            /\ UNCHANGED <<lines, decodeStack, phase>>
      /\ UNCHANGED incoming

PlaceDone ==
  /\ phase = "place" /\ cursor \notin Lines
  /\ phase' = "ok"
  /\ UNCHANGED <<lines, decodeStack, incoming, cursor, pc, value>>

\* The pass has returned.
Finished ==
  /\ phase \notin Phases
  /\ UNCHANGED vars

Next ==
  \/ PastEnd
  \/ \E line \in Lines : Revisit(line) \/ Visit(line)
  \/ AnalysisDone
  \/ FixLine
  \/ FixDone
  \/ PlaceLine
  \/ PlaceDone
  \/ Finished

Spec == Init /\ [][Next]_vars

\* The pass is one loop of one thread: it takes a step whenever it can.
FairSpec == Spec /\ WF_vars(Next)

-----------------------------------------------------------------------------
(* Properties *)

\* The variables of the pass keep their types; in particular what analysis
\* records for a line is always a proper execution state of module.h's Line.
TypeOK ==
  /\ lines \in Seq(Statements)
  /\ DOMAIN decodeStack \subseteq 1 .. Len(lines) + 1
  /\ \A l \in DOMAIN decodeStack : decodeStack[l] \in ExecutionStates
  /\ DOMAIN incoming \subseteq Lines
  /\ \A l \in DOMAIN incoming : incoming[l] \in ExecutionStates
  /\ phase \in Phases \cup Failures \cup {"ok"}
  /\ cursor \in 1 .. Len(lines) + 1
  /\ pc = NoValue \/ pc \in Addresses
  /\ DOMAIN value \subseteq Lines
  /\ \A l \in DOMAIN value : value[l] \in RangeEnds

\* The states in which control goes from a reached line to next, by the state
\* the line was last visited in.
Arriving(line, next) ==
  (IF ~IsExit(lines[line]) /\ next = line + 1
     THEN {ExecuteStatement(lines[line], incoming[line]).state} ELSE {})
    \cup (IF IsBranch(lines[line]) /\ next = lines[line].target
            THEN {ExecuteBranch(lines[line], incoming[line]).state} ELSE {})

Successors(line) ==
  (IF IsExit(lines[line]) THEN {} ELSE {line + 1})
    \cup (IF IsBranch(lines[line]) THEN {lines[line].target} ELSE {})

Running == phase \in Phases \cup {"ok"}

\* No line that control can reach is forgotten: the line after an .entry and
\* every successor of a reached line is reached or still pending.  (The
\* fallthrough and branch edges RunFirstPass follows.)
NoPathMissed ==
  Running =>
    /\ \A i \in Lines : IsDirective(lines[i], "entry") => i + 1 \in DOMAIN decodeStack \cup DOMAIN incoming
    /\ \A l \in DOMAIN incoming : Successors(l) \subseteq DOMAIN decodeStack \cup DOMAIN incoming

\* general says no more than es does, so it is right wherever es is.
Covers(general, es) == Merge(general, es) = general

\* What analysis claims of a line holds whichever way control came to it.
JoinsCoverPaths ==
  \A l \in DOMAIN incoming : \A next \in Successors(l) : \A es \in Arriving(l, next) :
    Covers(IF next \in DOMAIN decodeStack THEN decodeStack[next] ELSE incoming[next], es)

ForwardOnly == \A l \in Lines : IsBranch(lines[l]) => lines[l].target > l

\* In a module without backward branches every join point ends up with a
\* state that covers all the paths to it (the |= of add_to_decode_stack).
ForwardJoinsCoverPaths == Running /\ ForwardOnly => JoinsCoverPaths

\* The state pending for a line is only ever weakened, until the line has
\* been processed in that state.  (With the finite height of the lattice this
\* is why the worklist empties.)
PendingOnlyWeakens ==
  [][\A l \in DOMAIN decodeStack :
       \/ l \in DOMAIN decodeStack' /\ Covers(decodeStack'[l], decodeStack[l])
       \/ l \in DOMAIN incoming /\ incoming[l] = decodeStack[l]]_vars

\* A successful pass leaves nothing undecided for Module::Assemble: every
\* instruction has a definite size and an address.
InstructionsPlaced ==
  phase = "ok" => \A l \in Lines : IsInstruction(lines[l]) =>
                    l \in DOMAIN value /\ SerializedSize(lines[l]) > 0

\* Once analysis is over no width is undecided: the error RunFirstPass still
\* handles there cannot happen, since Execute has checked every line in the
\* very state its width is fixed from.
WidthsDecided == phase # "width"

\* A successful pass never lets control run into data, over an .org gap or
\* off the end of the module.
NoRunIntoData ==
  phase = "ok" => \A l \in DOMAIN incoming : \A next \in Successors(l) :
                    next \in Lines /\ ~HoldsData(lines[next])

\* Every module is accepted or rejected: analysis does not go on for ever.
Termination == <>(phase \notin Phases)

\* The first pass ends with a module or an error, never in an assertion or
\* undefined behaviour: StackValue::value() asserts that it is asked for the
\* value of a byte (execution_state.h:294), and PullVarsize is documented to
\* fail when the top of the stack is not what it wants (:391).
NeverAborts == phase # "crash"

=============================================================================
