-------------------------- MODULE FirstPassProofs --------------------------
(***************************************************************************)
(* Proofs about RunFirstPass for every set of programs: type correctness,  *)
(* the safety invariants of FirstPass, and that what it records describes  *)
(* every path.  Execute is monotone: a state that describes another still  *)
(* does after both have run the same statement.  So where the recorded     *)
(* states are a fixed point of the control flow, which they are in every   *)
(* module without backward branches, they describe the state of each path, *)
(* and the widths chosen from them are right on all of them.               *)
(***************************************************************************)
EXTENDS Paths, InstructionsProofs

-----------------------------------------------------------------------------
(* Statements *)

LEMMA StatementTypes ==
  ASSUME NEW s \in Statements
  PROVE  /\ InstructionTypes(s)
         /\ s.flags \in FlagStates
         /\ s.mode \in AddressingModes
         /\ s.count \in Nat
         /\ s.target \in Nat
BY DEF Statements, InstructionTypes

LEMMA ExecuteStatementType ==
  ASSUME NEW s \in Statements, NEW es \in ExecutionStates
  PROVE  /\ ExecuteStatement(s, es).state \in ExecutionStates
         /\ ExecuteBranch(s, es).state \in ExecutionStates
<1>1. InstructionTypes(s) /\ s.flags \in FlagStates
  BY StatementTypes
<1>2. Execute(s, es).state \in ExecutionStates /\ ExecuteBranch(s, es).state \in ExecutionStates
  BY <1>1, ExecuteType
<1>3. [es EXCEPT !.flags = s.flags] \in ExecutionStates
  BY <1>1, StateFields, UpdatedStateTypes
<1>4. ExecuteDirective(s, es).state \in ExecutionStates
  BY <1>3 DEF ExecuteDirective
<1>5. QED
  BY <1>2, <1>4 DEF ExecuteStatement

LEMMA SizeType ==
  ASSUME NEW s \in Statements
  PROVE  SerializedSize(s) \in Nat
<1>1. s.mode \in AddressingModes /\ s.count \in Nat
  BY StatementTypes
<1>2. InstructionSize(s) \in Nat
  BY <1>1 DEF InstructionSize, InstructionLength
<1>3. DirectiveSize(s) \in Nat
  BY <1>1 DEF DirectiveSize
<1>4. QED
  BY <1>2, <1>3 DEF SerializedSize

\* Fixing a mode changes neither what follows a statement nor its class.
LEMMA FixedKeepsFlow ==
  ASSUME NEW s \in Statements, NEW flags
  PROVE  LET fixed == [s EXCEPT !.mode = FixedMode(s, flags)]
         IN  /\ fixed \in Statements
             /\ fixed.mode \in AddressingModes \ SizedImmediate
             /\ fixed.kind = s.kind /\ fixed.name = s.name /\ fixed.target = s.target
             /\ IsExit(fixed) = IsExit(s)
             /\ IsBranch(fixed) = IsBranch(s)
<1> DEFINE fixed == [s EXCEPT !.mode = FixedMode(s, flags)]
<1>1. FixedMode(s, flags) \in AddressingModes \ SizedImmediate
  BY StatementTypes, FixedModeIsSized
<1>2. /\ fixed \in Statements
      /\ fixed.mode = FixedMode(s, flags)
      /\ fixed.kind = s.kind /\ fixed.name = s.name /\ fixed.target = s.target
      /\ fixed.mnemonic = s.mnemonic /\ fixed.ret = s.ret
  BY <1>1 DEF Statements
<1>3. fixed.mode \in {"rel8", "rel16"} <=> s.mode \in {"rel8", "rel16"}
  BY <1>2 DEF FixedMode, SizedImmediate
<1> HIDE DEF fixed
<1>4. IsExit(fixed) = IsExit(s)
  BY <1>2 DEF IsExit, IsInstruction, IsExitInstruction
<1>5. IsBranch(fixed) = IsBranch(s)
  BY <1>2, <1>3 DEF IsBranch, IsInstruction, IsLocalBranch
<1>6. QED
  BY <1>1, <1>2, <1>4, <1>5 DEF fixed

-----------------------------------------------------------------------------
(* The worklist *)

LEMMA AddDomain ==
  ASSUME NEW stack, NEW line, NEW es
  PROVE  DOMAIN AddToDecodeStack(stack, line, es) = DOMAIN stack \cup {line}
BY DEF AddToDecodeStack

LEMMA AddType ==
  ASSUME NEW stack, NEW line, NEW es \in ExecutionStates,
         \A l \in DOMAIN stack : stack[l] \in ExecutionStates
  PROVE  \A l \in DOMAIN AddToDecodeStack(stack, line, es) :
           AddToDecodeStack(stack, line, es)[l] \in ExecutionStates
<1> SUFFICES ASSUME NEW l \in DOMAIN stack \cup {line}
             PROVE  AddToDecodeStack(stack, line, es)[l] \in ExecutionStates
  BY AddDomain
<1>1. AddToDecodeStack(stack, line, es)[l] =
        CASE l = line /\ line \in DOMAIN stack -> Merge(stack[l], es)
          [] l = line /\ line \notin DOMAIN stack -> es
          [] OTHER -> stack[l]
  BY DEF AddToDecodeStack
<1>2. CASE l = line /\ line \in DOMAIN stack
  BY <1>1, <1>2, MergeType
<1>3. CASE ~(l = line /\ line \in DOMAIN stack)
  BY <1>1, <1>3
<1>4. QED
  BY <1>2, <1>3

\* What one visit leaves pending: what was pending and the line's successors.
LEMMA VisitedStack ==
  ASSUME NEW line, NEW es, NEW next,
         NEW stack, stack = AfterBranch(line, es, AfterFallThrough(line, next))
  PROVE  DOMAIN stack = DOMAIN decodeStack \cup Successors(line)
<1> DEFINE fell == AfterFallThrough(line, next)
<1>1. DOMAIN fell = DOMAIN decodeStack \cup (IF IsExit(lines[line]) THEN {} ELSE {line + 1})
  BY AddDomain DEF AfterFallThrough
<1> HIDE DEF fell
<1>2. DOMAIN AfterBranch(line, es, fell) =
        DOMAIN fell \cup (IF IsBranch(lines[line]) THEN {lines[line].target} ELSE {})
  BY AddDomain DEF AfterBranch
<1>3. QED
  BY <1>1, <1>2 DEF fell, Successors

-----------------------------------------------------------------------------
(* Type correctness.  TypeOK is not inductive: a visit adds the target of  *)
(* its line to the worklist, so that targets are lines is needed as well.  *)

TargetsResolved == \A l \in Lines : lines[l].target \in 0 .. Len(lines)

TypeInv == TypeOK /\ TargetsResolved

LEMMA LineTypes ==
  ASSUME TypeInv
  PROVE  /\ Len(lines) \in Nat
         /\ DOMAIN lines = Lines
         /\ \A l \in Lines : /\ lines[l] \in Statements
                             /\ l \in Nat /\ l + 1 \in 1 .. Len(lines) + 1
                             /\ lines[l].target # NoLine => lines[l].target \in Lines
<1>1. lines \in Seq(Statements)
  BY DEF TypeInv, TypeOK
<1>2. Len(lines) \in Nat /\ DOMAIN lines = Lines
  BY <1>1 DEF Lines
<1>3. \A l \in Lines : lines[l] \in Statements
  BY <1>1, <1>2, ElementOfSeq DEF Lines
<1>4. \A l \in Lines : lines[l].target # NoLine => lines[l].target \in Lines
  BY <1>2 DEF TypeInv, TargetsResolved, NoLine, Lines
<1>5. \A l \in Lines : l \in Nat /\ l + 1 \in 1 .. Len(lines) + 1
  BY <1>2 DEF Lines
<1>6. QED
  BY <1>2, <1>3, <1>4, <1>5

LEMMA InitTypes == Init => TypeInv
<1> SUFFICES ASSUME Init
             PROVE  TypeInv
  OBVIOUS
<1>1. lines \in Seq(Statements) /\ \A i \in DOMAIN lines : lines[i].target \in 0 .. Len(lines)
  BY ProgramsAssumption DEF Init
<1>2. Len(lines) \in Nat /\ DOMAIN lines = Lines
  BY <1>1 DEF Lines
<1> DEFINE Entries == {i \in Lines : IsDirective(lines[i], "entry")}
<1>3. decodeStack = [l \in {i + 1 : i \in Entries} |-> IncomingState(lines[l - 1].flags)]
  BY DEF Init
<1>4. DOMAIN decodeStack \subseteq 1 .. Len(lines) + 1
  BY <1>2, <1>3 DEF Lines
<1>5. ASSUME NEW l \in DOMAIN decodeStack
      PROVE  decodeStack[l] \in ExecutionStates
  <2>1. PICK i \in Entries : l = i + 1
    BY <1>3
  <2>2. i \in Int /\ l - 1 = i
    BY <1>2, <2>1 DEF Lines
  <2>3. lines[i] \in Statements
    BY <1>1, <1>2, ElementOfSeq DEF Lines
  <2>4. decodeStack[l] = IncomingState(lines[i].flags)
    BY <1>3, <2>1, <2>2
  <2>5. QED
    BY <2>3, <2>4, StatementTypes, IncomingStateType
<1>6. TypeOK
  <2>1. DOMAIN incoming = {} /\ DOMAIN value = {}
    BY DEF Init
  <2>2. phase \in Phases /\ cursor \in 1 .. Len(lines) + 1 /\ pc = NoValue
    BY <1>2 DEF Init, Phases
  <2>3. QED
    BY <1>1, <1>4, <1>5, <2>1, <2>2 DEF TypeOK
<1>7. QED
  BY <1>1, <1>2, <1>6 DEF TypeInv, TargetsResolved

LEMMA FailTypes ==
  ASSUME TypeInv, NEW failure \in Failures, Fail(failure)
  PROVE  /\ lines' = lines /\ phase' \in Failures
         /\ cursor' = cursor /\ pc' = pc /\ value' = value /\ decodeStack' = decodeStack
BY DEF Fail

LEMMA VisitTypes ==
  ASSUME TypeInv, NEW line \in Lines, Visit(line)
  PROVE  TypeInv'
<1> DEFINE es == decodeStack[line]
           done == ExecuteStatement(lines[line], es)
           failure == VisitFailure(lines[line], done.result)
           fell == AfterFallThrough(line, done.state)
           both == AfterBranch(line, es, fell)
<1>1. lines[line] \in Statements
  BY LineTypes
<1>2. es \in ExecutionStates
  BY DEF Visit, IsFirst, TypeInv, TypeOK
<1>3. done.state \in ExecutionStates /\ ExecuteBranch(lines[line], es).state \in ExecutionStates
  BY <1>1, <1>2, ExecuteStatementType
<1>4. incoming' = [l \in DOMAIN incoming \cup {line} |-> IF l = line THEN es ELSE incoming[l]]
  BY DEF Visit
<1>5. /\ DOMAIN incoming' \subseteq Lines
      /\ \A l \in DOMAIN incoming' : incoming'[l] \in ExecutionStates
  BY <1>2, <1>4 DEF TypeInv, TypeOK
<1>6. CASE failure # "none" /\ Fail(failure)
  <2>1. failure \in Failures
    BY <1>6 DEF VisitFailure, Failures
  <2>2. UNCHANGED <<lines, decodeStack, cursor, pc, value>> /\ phase' \in Failures
    BY <1>6, <2>1, FailTypes
  <2>3. QED
    BY <1>5, <2>2 DEF TypeInv, TypeOK, TargetsResolved, Lines
<1>7. CASE failure = "none" /\ decodeStack' = both /\ UNCHANGED <<lines, phase, cursor, pc, value>>
  <2>1. DOMAIN both = DOMAIN decodeStack \cup Successors(line)
    BY VisitedStack
  <2>2. IsBranch(lines[line]) => lines[line].target # NoLine
    <3>1. done.result = "ok" \/ ~IsBranch(lines[line])
      BY <1>7 DEF VisitFailure, ExecuteStatement, IsBranch, Execute, IsInstruction
    <3>2. QED
      BY <1>7, <3>1 DEF VisitFailure
  <2>3. Successors(line) \subseteq 1 .. Len(lines) + 1
    BY <2>2, LineTypes DEF Successors, Lines
  <2>4. \A l \in DOMAIN fell : fell[l] \in ExecutionStates
    BY <1>3, AddType DEF AfterFallThrough, TypeInv, TypeOK
  <2>5. \A l \in DOMAIN both : both[l] \in ExecutionStates
    <3> HIDE DEF fell
    <3>1. QED
      BY <1>3, <2>4, AddType DEF AfterBranch
  <2>6. /\ DOMAIN decodeStack' \subseteq 1 .. Len(lines) + 1
        /\ \A l \in DOMAIN decodeStack' : decodeStack'[l] \in ExecutionStates
    <3> HIDE DEF both
    <3>1. QED
      BY <1>7, <2>1, <2>3, <2>5 DEF TypeInv, TypeOK
  <2>7. QED
    BY <1>5, <1>7, <2>6 DEF TypeInv, TypeOK, TargetsResolved, Lines
<1>8. QED
  BY <1>6, <1>7 DEF Visit

LEMMA FixTypes ==
  ASSUME TypeInv, FixLine
  PROVE  TypeInv'
<1>1. cursor \in Lines /\ UNCHANGED incoming
  BY DEF FixLine
<1>2. CASE FixFailure(cursor) # "none" /\ Fail(FixFailure(cursor))
  <2>1. FixFailure(cursor) \in Failures
    BY <1>2 DEF FixFailure, Failures
  <2>2. UNCHANGED <<lines, decodeStack, cursor, pc, value>> /\ phase' \in Failures
    BY <1>2, <2>1, FailTypes
  <2>3. QED
    BY <1>1, <2>2 DEF TypeInv, TypeOK, TargetsResolved, Lines
<1>3. CASE /\ lines' = [lines EXCEPT ![cursor] = FixedStatement(cursor)]
           /\ cursor' = cursor + 1
           /\ UNCHANGED <<decodeStack, phase, pc, value>>
  <2> DEFINE s == FixedStatement(cursor)
  <2>1. lines[cursor] \in Statements /\ cursor \in DOMAIN lines /\ cursor + 1 \in 1 .. Len(lines) + 1
    BY <1>1, LineTypes
  <2>2. s \in Statements /\ s.target = lines[cursor].target
    BY <2>1, FixedKeepsFlow DEF FixedStatement
  <2>3. lines \in Seq(Statements)
    BY DEF TypeInv, TypeOK
  <2> HIDE DEF s
  <2>4. lines' = [lines EXCEPT ![cursor] = s]
    BY <1>3 DEF s
  <2>5. lines' \in Seq(Statements) /\ Len(lines') = Len(lines)
    BY <2>1, <2>2, <2>3, <2>4, ExceptSeq
  <2>6. Lines' = Lines
    BY <2>5 DEF Lines
  <2>7. \A l \in Lines : lines'[l].target = lines[l].target
    BY <2>1, <2>2, <2>4, LineTypes
  <2>8. QED
    BY <1>1, <1>3, <2>1, <2>5, <2>6, <2>7 DEF TypeInv, TypeOK, TargetsResolved
<1>4. QED
  BY <1>2, <1>3 DEF FixLine

LEMMA PlaceTypes ==
  ASSUME TypeInv, PlaceLine
  PROVE  TypeInv'
<1> DEFINE s == lines[cursor]
           here == PcAt(cursor)
<1>1. cursor \in Lines /\ UNCHANGED incoming
  BY DEF PlaceLine
<1>2. CASE PlaceFailure(cursor) # "none" /\ Fail(PlaceFailure(cursor))
  <2>1. PlaceFailure(cursor) \in Failures
    BY <1>2 DEF PlaceFailure, Failures
  <2>2. UNCHANGED <<lines, decodeStack, cursor, pc, value>> /\ phase' \in Failures
    BY <1>2, <2>1, FailTypes
  <2>3. QED
    BY <1>1, <2>2 DEF TypeInv, TypeOK, TargetsResolved, Lines
<1>3. CASE /\ PlaceFailure(cursor) = "none"
           /\ cursor' = cursor + 1
           /\ pc' = IF here = NoValue THEN NoValue ELSE AddWrapped(here, SerializedSize(s))
           /\ value' = IF here = NoValue \/ IsDirective(s, "equ") THEN value
                       ELSE [l \in DOMAIN value \cup {cursor} |-> IF l = cursor THEN here ELSE value[l]]
           /\ UNCHANGED <<lines, decodeStack, phase>>
  <2>1. s \in Statements /\ cursor + 1 \in 1 .. Len(lines) + 1
    BY <1>1, LineTypes
  <2>2. here = NoValue \/ here \in RangeEnds
    <3>1. CASE IsDirective(s, "org")
      BY <1>3, <3>1 DEF PcAt, PlaceFailure
    <3>2. CASE ~IsDirective(s, "org")
      BY <3>2, AddressesAreIntegers DEF PcAt, TypeInv, TypeOK
    <3>3. QED
      BY <3>1, <3>2
  <2>3. SerializedSize(s) \in Int
    BY <2>1, SizeType
  <2>4. pc' = NoValue \/ pc' \in Addresses
    <3> HIDE DEF here, s
    <3>1. here # NoValue => AddWrapped(here, SerializedSize(s)) \in Addresses
      BY <2>2, <2>3, AddressesAreIntegers, AddWrappedType
    <3>2. QED
      BY <1>3, <3>1
  <2>5. DOMAIN value' \subseteq Lines /\ \A l \in DOMAIN value' : value'[l] \in RangeEnds
    <3> HIDE DEF here, s
    <3>1. DOMAIN value \subseteq Lines /\ \A l \in DOMAIN value : value[l] \in RangeEnds
      BY DEF TypeInv, TypeOK
    <3>2. CASE here = NoValue \/ IsDirective(s, "equ")
      BY <1>3, <3>1, <3>2
    <3>3. CASE ~(here = NoValue \/ IsDirective(s, "equ"))
      BY <1>1, <1>3, <2>2, <3>1, <3>3
    <3>4. QED
      BY <3>2, <3>3
  <2>6. QED
    BY <1>1, <1>3, <2>1, <2>4, <2>5 DEF TypeInv, TypeOK, TargetsResolved, Lines
<1>4. QED
  BY <1>2, <1>3 DEF PlaceLine

LEMMA NextTypes ==
  ASSUME TypeInv, [Next]_vars
  PROVE  TypeInv'
<1>1. CASE PastEnd
  <2>1. UNCHANGED <<lines, decodeStack, incoming, cursor, pc, value>> /\ phase' \in Failures
    BY <1>1, FailTypes DEF PastEnd, Failures
  <2>2. QED
    BY <2>1 DEF TypeInv, TypeOK, TargetsResolved, Lines
<1>2. ASSUME NEW line \in Lines, Revisit(line)
      PROVE  TypeInv'
  <2>1. /\ decodeStack' = [l \in DOMAIN decodeStack \ {line} |-> decodeStack[l]]
        /\ UNCHANGED <<lines, incoming, phase, cursor, pc, value>>
    BY <1>2 DEF Revisit
  <2>2. /\ DOMAIN decodeStack' \subseteq 1 .. Len(lines) + 1
        /\ \A l \in DOMAIN decodeStack' : decodeStack'[l] \in ExecutionStates
    BY <2>1 DEF TypeInv, TypeOK
  <2>3. QED
    BY <2>1, <2>2 DEF TypeInv, TypeOK, TargetsResolved, Lines
<1>3. ASSUME NEW line \in Lines, Visit(line)
      PROVE  TypeInv'
  BY <1>3, VisitTypes
<1>4. CASE AnalysisDone
  BY <1>4 DEF AnalysisDone, TypeInv, TypeOK, TargetsResolved, Lines, Phases
<1>5. CASE FixLine
  BY <1>5, FixTypes
<1>6. CASE FixDone
  <2>1. 1 \in 1 .. Len(lines) + 1
    BY LineTypes
  <2>2. QED
    BY <1>6, <2>1 DEF FixDone, TypeInv, TypeOK, TargetsResolved, Lines, Phases
<1>7. CASE PlaceLine
  BY <1>7, PlaceTypes
<1>8. CASE PlaceDone
  BY <1>8 DEF PlaceDone, TypeInv, TypeOK, TargetsResolved, Lines
<1>9. CASE Finished \/ UNCHANGED vars
  BY <1>9 DEF Finished, vars, TypeInv, TypeOK, TargetsResolved, Lines
<1>10. QED
  BY <1>1, <1>2, <1>3, <1>4, <1>5, <1>6, <1>7, <1>8, <1>9 DEF Next

\* Type correctness of RunFirstPass for every set of programs.
THEOREM TypeCorrect == Spec => []TypeOK
<1>1. Init => TypeInv
  BY InitTypes
<1>2. TypeInv /\ [Next]_vars => TypeInv'
  BY NextTypes
<1>3. TypeInv => TypeOK
  BY DEF TypeInv
<1>4. QED
  BY <1>1, <1>2, <1>3, PTL DEF Spec

-----------------------------------------------------------------------------
(* No path is missed, no width is left undecided, no line of data is run   *)
(* into.  Inductive with what was established when a line was last visited *)
(* and with the emptiness of the worklist after analysis.                  *)

\* What Execute checked of a reached line holds until FixLine has used it.
ModesDecidable ==
  phase \in {"analyze", "fix"} =>
    \A l \in DOMAIN incoming :
      l >= cursor /\ IsInstruction(lines[l]) => CanFixMode(lines[l], incoming[l].flags)

ReachedIsCode == Running => \A l \in DOMAIN incoming : ~HoldsData(lines[l])

WorklistEmptied == phase \in {"fix", "place", "ok"} => DOMAIN decodeStack = {}

FlowInv == NoPathMissed /\ ModesDecidable /\ ReachedIsCode /\ WorklistEmptied /\ WidthsDecided

LEMMA InitFlow == Init => FlowInv
<1> SUFFICES ASSUME Init
             PROVE  FlowInv
  OBVIOUS
<1>1. /\ DOMAIN incoming = {} /\ phase = "analyze"
      /\ DOMAIN decodeStack = {i + 1 : i \in {j \in Lines : IsDirective(lines[j], "entry")}}
  BY DEF Init
<1>2. \A i \in Lines : IsDirective(lines[i], "entry") => i + 1 \in DOMAIN decodeStack
  BY <1>1
<1>3. QED
  BY <1>1, <1>2 DEF FlowInv, NoPathMissed, ModesDecidable, ReachedIsCode, WorklistEmptied, WidthsDecided

LEMMA FailFlow ==
  ASSUME NEW failure \in Failures \ {"width"}, Fail(failure)
  PROVE  FlowInv'
<1>1. phase' \in Failures \ {"width"}
  BY DEF Fail
<1>2. ~Running' /\ phase' \notin {"analyze", "fix", "place", "ok"}
  BY <1>1 DEF Running, Phases, Failures
<1>3. QED
  BY <1>1, <1>2 DEF FlowInv, NoPathMissed, ModesDecidable, ReachedIsCode, WorklistEmptied, WidthsDecided

LEMMA VisitFlow ==
  ASSUME TypeInv, FlowInv, NEW line \in Lines, Visit(line)
  PROVE  FlowInv'
<1> DEFINE es == decodeStack[line]
           done == ExecuteStatement(lines[line], es)
           failure == VisitFailure(lines[line], done.result)
<1>1. CASE failure # "none" /\ Fail(failure)
  <2>1. failure \in Failures \ {"width"}
    BY <1>1 DEF VisitFailure, Failures
  <2>2. QED
    BY <1>1, <2>1, FailFlow
<1>2. CASE /\ failure = "none"
           /\ decodeStack' = AfterBranch(line, es, AfterFallThrough(line, done.state))
           /\ UNCHANGED <<lines, phase, cursor, pc, value>>
  <2>1. phase = "analyze" /\ phase' = "analyze" /\ Running /\ lines' = lines /\ cursor' = cursor
    BY <1>2 DEF Visit, Running, Phases
  <2>2. incoming' = [l \in DOMAIN incoming \cup {line} |-> IF l = line THEN es ELSE incoming[l]]
    BY DEF Visit
  <2>3. DOMAIN decodeStack' = DOMAIN decodeStack \cup Successors(line)
    BY <1>2, VisitedStack
  <2>4. DOMAIN incoming' = DOMAIN incoming \cup {line}
    BY <2>2
  <2>5. Lines' = Lines /\ \A l \in Lines : Successors(l)' = Successors(l)
    BY <2>1 DEF Lines, Successors
  <2>6. NoPathMissed'
    <3>1. \A i \in Lines : IsDirective(lines[i], "entry") =>
                             i + 1 \in DOMAIN decodeStack' \cup DOMAIN incoming'
      BY <2>1, <2>3, <2>4 DEF FlowInv, NoPathMissed
    <3>2. \A l \in DOMAIN incoming' : Successors(l) \subseteq DOMAIN decodeStack' \cup DOMAIN incoming'
      BY <2>1, <2>3, <2>4 DEF FlowInv, NoPathMissed
    <3>3. DOMAIN incoming' \subseteq Lines
      BY <2>4 DEF TypeInv, TypeOK
    <3>4. QED
      BY <2>1, <2>5, <3>1, <3>2, <3>3 DEF NoPathMissed
  <2>7. done.result = "ok"
    <3>1. done.result \in {"ok", "error", "crash"}
      BY DEF ExecuteStatement, Execute, ExecuteDirective
    <3>2. QED
      BY <1>2, <3>1 DEF VisitFailure
  <2>8. IsInstruction(lines[line]) => CanFixMode(lines[line], es.flags)
    BY <2>7, AcceptedIsConsistent DEF ExecuteStatement
  <2>9. ~HoldsData(lines[line])
    <3>1. HoldsData(lines[line]) => done.result = "error"
      BY DEF HoldsData, DataDirectives, ExecuteStatement, ExecuteDirective, IsInstruction
    <3>2. QED
      BY <2>7, <3>1
  <2>10. ModesDecidable'
    BY <2>1, <2>2, <2>8 DEF FlowInv, ModesDecidable, IsInstruction, CanFixMode
  <2>11. ReachedIsCode'
    BY <2>1, <2>4, <2>9 DEF FlowInv, ReachedIsCode, HoldsData
  <2>12. QED
    BY <2>1, <2>6, <2>10, <2>11 DEF FlowInv, WorklistEmptied, WidthsDecided
<1>3. QED
  BY <1>1, <1>2 DEF Visit

LEMMA FixFlow ==
  ASSUME TypeInv, FlowInv, FixLine
  PROVE  FlowInv'
<1>1. phase = "fix" /\ cursor \in Lines /\ UNCHANGED incoming /\ Running
  BY DEF FixLine, Running, Phases
<1>2. FixFailure(cursor) # "width"
  <2>1. cursor >= cursor
    BY <1>1, LineTypes
  <2>2. QED
    BY <1>1, <2>1 DEF FixFailure, FlowInv, ModesDecidable
<1>3. CASE FixFailure(cursor) # "none" /\ Fail(FixFailure(cursor))
  <2>1. FixFailure(cursor) \in Failures \ {"width"}
    BY <1>2, <1>3 DEF FixFailure, Failures
  <2>2. QED
    BY <1>3, <2>1, FailFlow
<1>4. CASE /\ lines' = [lines EXCEPT ![cursor] = FixedStatement(cursor)]
           /\ cursor' = cursor + 1
           /\ UNCHANGED <<decodeStack, phase, pc, value>>
  <2> DEFINE s == FixedStatement(cursor)
  <2>1. lines[cursor] \in Statements /\ DOMAIN lines = Lines
    BY <1>1, LineTypes
  <2>2. /\ s.kind = lines[cursor].kind /\ s.name = lines[cursor].name /\ s.target = lines[cursor].target
        /\ IsExit(s) = IsExit(lines[cursor]) /\ IsBranch(s) = IsBranch(lines[cursor])
    BY <2>1, FixedKeepsFlow DEF FixedStatement
  <2> HIDE DEF s
  <2>3. \A l \in Lines : lines'[l] = IF l = cursor THEN s ELSE lines[l]
    BY <1>4, <2>1 DEF s
  <2>4. Lines' = Lines
    BY <1>4, <2>1, LineTypes, FixTypes DEF Lines, TypeInv, TypeOK
  <2>5. \A l \in Lines : /\ lines'[l].kind = lines[l].kind /\ lines'[l].name = lines[l].name
                         /\ Successors(l)' = Successors(l)
    BY <1>1, <2>2, <2>3 DEF Successors
  <2>6. NoPathMissed'
    BY <1>1, <1>4, <2>4, <2>5 DEF FlowInv, NoPathMissed, IsDirective, TypeInv, TypeOK
  <2>7. ReachedIsCode'
    BY <1>1, <1>4, <2>5 DEF FlowInv, ReachedIsCode, HoldsData, TypeInv, TypeOK
  <2>8. ModesDecidable'
    <3> SUFFICES ASSUME NEW l \in DOMAIN incoming, l >= cursor', IsInstruction(lines'[l])
                 PROVE  CanFixMode(lines'[l], incoming[l].flags)
      BY <1>1 DEF ModesDecidable, IsInstruction, CanFixMode
    <3>1. l \in Lines /\ l \in Nat /\ cursor \in Nat
      BY <1>1, LineTypes DEF TypeInv, TypeOK
    <3>2. l # cursor /\ l >= cursor
      BY <1>4, <3>1
    <3>3. lines'[l] = lines[l]
      BY <2>3, <3>1, <3>2
    <3>4. QED
      BY <1>1, <3>2, <3>3 DEF FlowInv, ModesDecidable
  <2>9. QED
    BY <1>1, <1>4, <2>6, <2>7, <2>8 DEF FlowInv, WorklistEmptied, WidthsDecided
<1>5. QED
  BY <1>3, <1>4 DEF FixLine

LEMMA NextFlow ==
  ASSUME TypeInv, FlowInv, [Next]_vars
  PROVE  FlowInv'
<1>1. CASE PastEnd
  BY <1>1, FailFlow DEF PastEnd, Failures
<1>2. ASSUME NEW line \in Lines, Revisit(line)
      PROVE  FlowInv'
  <2>1. /\ phase = "analyze" /\ Running /\ line \in DOMAIN incoming
        /\ DOMAIN decodeStack' = DOMAIN decodeStack \ {line}
        /\ UNCHANGED <<lines, incoming, phase, cursor, pc, value>>
    BY <1>2 DEF Revisit, Running, Phases
  <2>2. Lines' = Lines /\ \A l \in Lines : Successors(l)' = Successors(l)
    BY <2>1 DEF Lines, Successors
  <2>3. NoPathMissed'
    BY <2>1, <2>2 DEF FlowInv, NoPathMissed, TypeInv, TypeOK
  <2>4. QED
    BY <2>1, <2>3 DEF FlowInv, ModesDecidable, ReachedIsCode, WorklistEmptied, WidthsDecided, Running
<1>3. ASSUME NEW line \in Lines, Visit(line)
      PROVE  FlowInv'
  BY <1>3, VisitFlow
<1>4. CASE AnalysisDone \/ FixDone \/ PlaceDone
  <2>1. /\ Running /\ Running' /\ phase' \in {"fix", "place", "ok"}
        /\ DOMAIN decodeStack = {}
        /\ UNCHANGED <<lines, decodeStack, incoming>>
    BY <1>4 DEF AnalysisDone, FixDone, PlaceDone, Running, Phases, FlowInv, WorklistEmptied
  <2>2. Lines' = Lines /\ \A l \in Lines : Successors(l)' = Successors(l)
    BY <2>1 DEF Lines, Successors
  <2>3. NoPathMissed'
    BY <2>1, <2>2 DEF FlowInv, NoPathMissed, TypeInv, TypeOK
  <2>4. ModesDecidable'
    BY <1>4, <2>1 DEF AnalysisDone, FixDone, PlaceDone, FlowInv, ModesDecidable
  <2>5. QED
    BY <2>1, <2>3, <2>4 DEF FlowInv, ReachedIsCode, WorklistEmptied, WidthsDecided
<1>5. CASE FixLine
  BY <1>5, FixFlow
<1>6. CASE PlaceLine
  <2>1. CASE PlaceFailure(cursor) # "none" /\ Fail(PlaceFailure(cursor))
    <3>1. PlaceFailure(cursor) \in Failures \ {"width"}
      BY <2>1 DEF PlaceFailure, Failures
    <3>2. QED
      BY <2>1, <3>1, FailFlow
  <2>2. CASE phase = "place" /\ UNCHANGED <<lines, decodeStack, incoming, phase>>
    <3>1. Lines' = Lines /\ \A l \in Lines : Successors(l)' = Successors(l)
      BY <2>2 DEF Lines, Successors
    <3>2. Running /\ Running'
      BY <2>2 DEF Running, Phases
    <3>3. NoPathMissed'
      BY <2>2, <3>1, <3>2 DEF FlowInv, NoPathMissed, TypeInv, TypeOK
    <3>4. QED
      BY <2>2, <3>2, <3>3 DEF FlowInv, ModesDecidable, ReachedIsCode, WorklistEmptied, WidthsDecided
  <2>3. QED
    BY <1>6, <2>1, <2>2 DEF PlaceLine
<1>7. CASE Finished \/ UNCHANGED vars
  <2>1. UNCHANGED vars
    BY <1>7 DEF Finished
  <2>2. UNCHANGED <<lines, decodeStack, incoming, phase, cursor>>
    BY <2>1 DEF vars
  <2>3. Lines' = Lines /\ \A l \in Lines : Successors(l)' = Successors(l)
    BY <2>2 DEF Lines, Successors
  <2>4. NoPathMissed'
    BY <2>2, <2>3 DEF FlowInv, NoPathMissed, TypeInv, TypeOK, Running
  <2>5. QED
    BY <2>2, <2>4 DEF FlowInv, ModesDecidable, ReachedIsCode, WorklistEmptied, WidthsDecided, Running
<1>8. QED
  BY <1>1, <1>2, <1>3, <1>4, <1>5, <1>6, <1>7 DEF Next

\* Static analysis follows every edge of the control flow: each successor of
\* a reached line is reached or pending.
THEOREM AnalysisFollowsEveryEdge == Spec => []NoPathMissed
<1>1. Init => TypeInv /\ FlowInv
  BY InitTypes, InitFlow
<1>2. TypeInv /\ FlowInv /\ [Next]_vars => TypeInv' /\ FlowInv'
  BY NextTypes, NextFlow
<1>3. FlowInv => NoPathMissed
  BY DEF FlowInv
<1>4. QED
  BY <1>1, <1>2, <1>3, PTL DEF Spec

\* FixAddressingMode never fails in RunFirstPass.
THEOREM WidthsAlwaysDecided == Spec => []WidthsDecided
<1>1. Init => TypeInv /\ FlowInv
  BY InitTypes, InitFlow
<1>2. TypeInv /\ FlowInv /\ [Next]_vars => TypeInv' /\ FlowInv'
  BY NextTypes, NextFlow
<1>3. FlowInv => WidthsDecided
  BY DEF FlowInv
<1>4. QED
  BY <1>1, <1>2, <1>3, PTL DEF Spec

\* In a module the first pass accepts, control cannot run from reached code
\* into data, over an .org or past the last line.
THEOREM AcceptedCodeStaysInCode == Spec => []NoRunIntoData
<1>1. Init => TypeInv /\ FlowInv
  BY InitTypes, InitFlow
<1>2. TypeInv /\ FlowInv /\ [Next]_vars => TypeInv' /\ FlowInv'
  BY NextTypes, NextFlow
<1>3. TypeInv /\ FlowInv => NoRunIntoData
  <2> SUFFICES ASSUME TypeInv, FlowInv, phase = "ok",
                      NEW l \in DOMAIN incoming, NEW next \in Successors(l)
               PROVE  next \in Lines /\ ~HoldsData(lines[next])
    BY DEF NoRunIntoData
  <2>1. Running /\ DOMAIN decodeStack = {}
    BY DEF Running, FlowInv, WorklistEmptied
  <2>2. next \in DOMAIN incoming
    BY <2>1 DEF FlowInv, NoPathMissed
  <2>3. QED
    BY <2>1, <2>2 DEF FlowInv, ReachedIsCode, TypeInv, TypeOK
<1>4. QED
  BY <1>1, <1>2, <1>3, PTL DEF Spec

-----------------------------------------------------------------------------
(* A successful pass fixes and places every instruction.                   *)

Fixed(l) == phase \in {"place", "ok"} \/ (phase = "fix" /\ l < cursor)
Placed(l) == phase = "ok" \/ (phase = "place" /\ l < cursor)

PlacementInv ==
  /\ phase = "analyze" => cursor = 1
  /\ \A l \in Lines : IsInstruction(lines[l]) =>
       /\ Fixed(l) => lines[l].mode \notin SizedImmediate
       /\ Placed(l) => l \in DOMAIN value

LEMMA FixPlacement ==
  ASSUME TypeInv, PlacementInv, FixLine
  PROVE  PlacementInv'
<1>1. phase = "fix" /\ cursor \in Lines
  BY DEF FixLine
<1>2. CASE FixFailure(cursor) # "none" /\ Fail(FixFailure(cursor))
  <2>1. phase' \notin {"analyze", "fix", "place", "ok"}
    BY <1>2 DEF FixFailure, Fail
  <2>2. QED
    BY <2>1 DEF PlacementInv, Fixed, Placed
<1>3. CASE /\ lines' = [lines EXCEPT ![cursor] = FixedStatement(cursor)]
           /\ cursor' = cursor + 1
           /\ UNCHANGED <<decodeStack, phase, pc, value>>
  <2> DEFINE s == FixedStatement(cursor)
  <2>1. lines[cursor] \in Statements /\ DOMAIN lines = Lines
    BY <1>1, LineTypes
  <2>2. IsInstruction(s) => s.mode \notin SizedImmediate
    BY <2>1, FixedKeepsFlow DEF FixedStatement, IsInstruction
  <2> HIDE DEF s
  <2>3. \A l \in Lines : lines'[l] = IF l = cursor THEN s ELSE lines[l]
    BY <1>3, <2>1 DEF s
  <2>4. Lines' = Lines
    BY FixTypes, LineTypes, <1>3, <2>1 DEF Lines, TypeInv, TypeOK
  <2>5. ASSUME NEW l \in Lines, IsInstruction(lines'[l]), l < cursor'
        PROVE  lines'[l].mode \notin SizedImmediate
    <3>1. CASE l = cursor
      BY <2>2, <2>3, <3>1, <2>5 DEF IsInstruction
    <3>2. CASE l # cursor
      <4>1. l < cursor
        BY <1>1, <1>3, <2>5, <3>2, LineTypes
      <4>2. QED
        BY <1>1, <2>3, <2>5, <3>2, <4>1 DEF PlacementInv, Fixed
    <3>3. QED
      BY <3>1, <3>2
  <2>6. QED
    BY <1>1, <1>3, <2>4, <2>5 DEF PlacementInv, Fixed, Placed, IsInstruction
<1>4. QED
  BY <1>2, <1>3 DEF FixLine

LEMMA PlacePlacement ==
  ASSUME TypeInv, PlacementInv, PlaceLine
  PROVE  PlacementInv'
<1> DEFINE s == lines[cursor]
           here == PcAt(cursor)
<1>1. phase = "place" /\ cursor \in Lines
  BY DEF PlaceLine
<1>2. CASE PlaceFailure(cursor) # "none" /\ Fail(PlaceFailure(cursor))
  <2>1. phase' \notin {"analyze", "fix", "place", "ok"}
    BY <1>2 DEF PlaceFailure, Fail
  <2>2. QED
    BY <2>1 DEF PlacementInv, Fixed, Placed
<1>3. CASE /\ PlaceFailure(cursor) = "none"
           /\ cursor' = cursor + 1
           /\ value' = IF here = NoValue \/ IsDirective(s, "equ") THEN value
                       ELSE [l \in DOMAIN value \cup {cursor} |-> IF l = cursor THEN here ELSE value[l]]
           /\ UNCHANGED <<lines, decodeStack, phase>>
  <2>1. ASSUME IsInstruction(s)
        PROVE  cursor \in DOMAIN value'
    <3>1. s.mode \in AddressingModes \ SizedImmediate
      BY <1>1, <2>1, LineTypes, StatementTypes DEF PlacementInv, Fixed
    <3>2. SerializedSize(s) > 0
      BY <2>1, <3>1, SizedIsPositive DEF SerializedSize
    <3>3. ~IsDirective(s, "equ") /\ ~IsDirective(s, "org")
      BY <2>1 DEF IsInstruction, IsDirective
    <3>4. here # NoValue
      BY <1>3, <3>2, <3>3 DEF PlaceFailure
    <3>5. QED
      BY <1>3, <3>3, <3>4
  <2>2. DOMAIN value \subseteq DOMAIN value'
    <3> HIDE DEF here, s
    <3>1. QED
      BY <1>3
  <2>3. Lines' = Lines
    BY <1>3 DEF Lines
  <2>4. \A l \in Lines : l < cursor' => l < cursor \/ l = cursor
    BY <1>1, <1>3, LineTypes
  <2>5. QED
    BY <1>1, <1>3, <2>1, <2>2, <2>3, <2>4 DEF PlacementInv, Fixed, Placed, IsInstruction
<1>4. QED
  BY <1>2, <1>3 DEF PlaceLine

LEMMA NextPlacement ==
  ASSUME TypeInv, PlacementInv, [Next]_vars
  PROVE  PlacementInv'
<1>1. ASSUME NEW failure \in Failures, Fail(failure)
      PROVE  PlacementInv'
  <2>1. phase' \notin {"analyze", "fix", "place", "ok"}
    BY <1>1 DEF Fail, Failures
  <2>2. QED
    BY <2>1 DEF PlacementInv, Fixed, Placed
<1>2. CASE PastEnd
  BY <1>1, <1>2 DEF PastEnd, Failures
<1>3. CASE \E line \in Lines : Revisit(line) \/ Visit(line)
  <2>1. PICK line \in Lines : Revisit(line) \/ Visit(line)
    BY <1>3
  <2> DEFINE failure == VisitFailure(lines[line], ExecuteStatement(lines[line], decodeStack[line]).result)
  <2>2. CASE failure # "none" /\ Fail(failure)
    <3>1. failure \in Failures
      BY <2>2 DEF VisitFailure, Failures
    <3>2. QED
      BY <1>1, <2>2, <3>1
  <2>3. CASE phase = "analyze" /\ UNCHANGED <<lines, phase, cursor, value>>
    BY <2>3 DEF PlacementInv, Fixed, Placed, Lines
  <2>4. QED
    BY <2>1, <2>2, <2>3 DEF Revisit, Visit
<1>4. CASE AnalysisDone
  <2>1. \A l \in Lines : ~(l < cursor')
    BY <1>4, LineTypes DEF AnalysisDone, PlacementInv, Lines
  <2>2. QED
    BY <1>4, <2>1 DEF AnalysisDone, PlacementInv, Fixed, Placed, Lines
<1>5. CASE FixLine
  BY <1>5, FixPlacement
<1>6. CASE FixDone
  <2>1. \A l \in Lines : l < cursor /\ ~(l < cursor')
    BY <1>6, LineTypes DEF FixDone, TypeInv, TypeOK, Lines
  <2>2. QED
    BY <1>6, <2>1 DEF FixDone, PlacementInv, Fixed, Placed, Lines
<1>7. CASE PlaceLine
  BY <1>7, PlacePlacement
<1>8. CASE PlaceDone
  <2>1. \A l \in Lines : l < cursor
    BY <1>8, LineTypes DEF PlaceDone, TypeInv, TypeOK, Lines
  <2>2. QED
    BY <1>8, <2>1 DEF PlaceDone, PlacementInv, Fixed, Placed, Lines
<1>9. CASE Finished \/ UNCHANGED vars
  BY <1>9 DEF Finished, vars, PlacementInv, Fixed, Placed, Lines
<1>10. QED
  BY <1>2, <1>3, <1>4, <1>5, <1>6, <1>7, <1>8, <1>9 DEF Next

\* A module the first pass accepts can be assembled: each instruction has a
\* definite size and an address.
THEOREM AcceptedIsPlaced == Spec => []InstructionsPlaced
<1>1. Init => TypeInv /\ PlacementInv
  <2>1. Init => PlacementInv
    BY DEF Init, PlacementInv, Fixed, Placed
  <2>2. QED
    BY <2>1, InitTypes
<1>2. TypeInv /\ PlacementInv /\ [Next]_vars => TypeInv' /\ PlacementInv'
  BY NextTypes, NextPlacement
<1>3. TypeInv /\ PlacementInv => InstructionsPlaced
  <2> SUFFICES ASSUME TypeInv, PlacementInv, phase = "ok", NEW l \in Lines, IsInstruction(lines[l])
               PROVE  l \in DOMAIN value /\ SerializedSize(lines[l]) > 0
    BY DEF InstructionsPlaced
  <2>1. lines[l].mode \in AddressingModes \ SizedImmediate /\ l \in DOMAIN value
    BY LineTypes, StatementTypes DEF PlacementInv, Fixed, Placed
  <2>2. QED
    BY <2>1, SizedIsPositive DEF SerializedSize
<1>4. QED
  BY <1>1, <1>2, <1>3, PTL DEF Spec

-----------------------------------------------------------------------------
(* Pending states only weaken *)

\* add_to_decode_stack drops nothing, and what covered a state still does.
LEMMA AddWeakens ==
  ASSUME NEW stack, NEW line, NEW es \in ExecutionStates, NEW l \in DOMAIN stack,
         stack[l] \in ExecutionStates, NEW d \in ExecutionStates, Covers(stack[l], d)
  PROVE  /\ l \in DOMAIN AddToDecodeStack(stack, line, es)
         /\ Covers(AddToDecodeStack(stack, line, es)[l], d)
<1> DEFINE joined == AddToDecodeStack(stack, line, es)
<1>1. l \in DOMAIN joined
  BY DEF AddToDecodeStack
<1>2. joined[l] = IF l = line THEN Merge(stack[l], es) ELSE stack[l]
  BY DEF AddToDecodeStack
<1>3. Merge(stack[l], es) = Merge(es, stack[l])
  BY MergeLaws
<1>4. Merge(Merge(es, stack[l]), d) = Merge(es, stack[l])
  BY MergeCovers DEF Covers
<1> HIDE DEF joined
<1>5. Covers(joined[l], d)
  BY <1>2, <1>3, <1>4 DEF Covers
<1>6. QED
  BY <1>1, <1>5 DEF joined

\* A visit weakens what is pending for the lines after it, and nothing else.
LEMMA VisitWeakens ==
  ASSUME TypeInv, NEW line \in Lines, Visit(line), NEW l \in DOMAIN decodeStack
  PROVE  l \in DOMAIN decodeStack' /\ Covers(decodeStack'[l], decodeStack[l])
<1> DEFINE es == decodeStack[line]
           done == ExecuteStatement(lines[line], es)
           branched == ExecuteBranch(lines[line], es)
           fell == AfterFallThrough(line, done.state)
           both == AfterBranch(line, es, fell)
           d == decodeStack[l]
<1>1. es \in ExecutionStates /\ d \in ExecutionStates
  BY DEF Visit, IsFirst, TypeInv, TypeOK
<1>2. done.state \in ExecutionStates /\ branched.state \in ExecutionStates
  BY <1>1, LineTypes, ExecuteStatementType
<1>3. Covers(d, d)
  BY <1>1, MergeLaws DEF Covers
<1>4. decodeStack' = decodeStack \/ decodeStack' = both
  BY DEF Visit, Fail
<1>5. /\ l \in DOMAIN fell /\ fell[l] \in ExecutionStates
      /\ Covers(fell[l], d)
  <2>1. \A i \in DOMAIN decodeStack : decodeStack[i] \in ExecutionStates
    BY DEF TypeInv, TypeOK
  <2>2. CASE IsExit(lines[line])
    BY <1>1, <1>3, <2>2 DEF AfterFallThrough
  <2>3. CASE ~IsExit(lines[line])
    <3>1. fell = AddToDecodeStack(decodeStack, line + 1, done.state)
      BY <2>3 DEF AfterFallThrough
    <3> HIDE DEF done, es
    <3>2. QED
      BY <1>1, <1>2, <1>3, <2>1, <3>1, AddWeakens, AddType
  <2>4. QED
    BY <2>2, <2>3
<1>6. l \in DOMAIN both /\ Covers(both[l], d)
  <2>1. CASE ~IsBranch(lines[line])
    BY <1>5, <2>1 DEF AfterBranch
  <2>2. CASE IsBranch(lines[line])
    <3>1. both = AddToDecodeStack(fell, lines[line].target, branched.state)
      BY <2>2 DEF AfterBranch
    <3> HIDE DEF fell, branched
    <3>2. QED
      BY <1>1, <1>2, <1>5, <3>1, AddWeakens
  <2>3. QED
    BY <2>1, <2>2
<1>7. QED
  <2> HIDE DEF both
  <2>1. QED
    BY <1>3, <1>4, <1>6

\* Whatever the worklist holds for a line is only ever weakened, until the
\* line has been processed in that very state (add_to_decode_stack).
THEOREM PendingStatesOnlyWeaken == Spec => PendingOnlyWeakens
<1> DEFINE Weakens ==
             \A l \in DOMAIN decodeStack :
               \/ l \in DOMAIN decodeStack' /\ Covers(decodeStack'[l], decodeStack[l])
               \/ l \in DOMAIN incoming /\ incoming[l] = decodeStack[l]
<1>1. Init => TypeInv
  BY InitTypes
<1>2. TypeInv /\ [Next]_vars => TypeInv'
  BY NextTypes
<1>3. TypeInv /\ [Next]_vars => [Weakens]_vars
  <2> SUFFICES ASSUME TypeInv, [Next]_vars, vars' # vars
               PROVE  Weakens
    OBVIOUS
  <2>1. \A l \in DOMAIN decodeStack : Covers(decodeStack[l], decodeStack[l])
    BY MergeLaws DEF TypeInv, TypeOK, Covers
  <2>2. CASE \E line \in Lines : Visit(line)
    BY <2>2, VisitWeakens
  <2>3. CASE \E line \in Lines : Revisit(line)
    BY <2>1, <2>3 DEF Revisit
  <2>4. CASE decodeStack' = decodeStack
    BY <2>1, <2>4
  <2>5. CASE PastEnd \/ AnalysisDone \/ FixLine \/ FixDone \/ PlaceLine \/ PlaceDone \/ Finished
    <3>1. decodeStack' = decodeStack
      BY <2>5 DEF PastEnd, AnalysisDone, FixLine, FixDone, PlaceLine, PlaceDone, Finished, Fail, vars
    <3>2. QED
      BY <2>4, <3>1
  <2>6. QED
    BY <2>2, <2>3, <2>5 DEF Next, vars
<1>4. QED
  BY <1>1, <1>2, <1>3, PTL DEF Spec, PendingOnlyWeakens

-----------------------------------------------------------------------------
(* Without backward branches every join covers its paths.  Pending lines   *)
(* are taken lowest first, so that a line is visited once, and only when   *)
(* every line that could still lead to it has been: by then the state      *)
(* pending for it is merged from all the paths.                            *)

\* A visited line comes before every pending one, or is itself still pending
\* in the state it was visited in.
ServedInOrder ==
  \A l \in DOMAIN incoming : \A next \in DOMAIN decodeStack :
    l < next \/ (l = next /\ incoming[l] = decodeStack[l])

\* What a line's successor, or the line after an .entry, will be run in.
Held(line) == IF line \in DOMAIN decodeStack THEN decodeStack[line] ELSE incoming[line]

EntriesHeld ==
  \A i \in Lines : IsDirective(lines[i], "entry") => Covers(Held(i + 1), IncomingState(lines[i].flags))

\* What a line was accepted in it is still accepted in with its width fixed.
ReachedAccepted ==
  Running => \A l \in DOMAIN incoming : ExecuteStatement(lines[l], incoming[l]).result = "ok"

ForwardInv ==
  /\ ReachedAccepted
  /\ Running /\ ForwardOnly => ServedInOrder /\ JoinsCoverPaths /\ EntriesHeld

LEMMA AddCovers ==
  ASSUME NEW stack, NEW line, NEW es \in ExecutionStates,
         \A l \in DOMAIN stack : stack[l] \in ExecutionStates
  PROVE  /\ Covers(AddToDecodeStack(stack, line, es)[line], es)
         /\ \A l \in DOMAIN stack \ {line} : AddToDecodeStack(stack, line, es)[l] = stack[l]
<1>1. AddToDecodeStack(stack, line, es)[line] =
        IF line \in DOMAIN stack THEN Merge(stack[line], es) ELSE es
  BY DEF AddToDecodeStack
<1>2. Merge(es, es) = es
  BY MergeLaws
<1>3. line \in DOMAIN stack => Merge(Merge(stack[line], es), es) = Merge(stack[line], es)
  BY <1>2, MergeCovers
<1>4. QED
  BY <1>1, <1>2, <1>3 DEF Covers, AddToDecodeStack

LEMMA ArrivingTypes ==
  ASSUME TypeInv, NEW l \in DOMAIN incoming, NEW next
  PROVE  Arriving(l, next) \subseteq ExecutionStates
<1>1. lines[l] \in Statements /\ incoming[l] \in ExecutionStates
  BY LineTypes DEF TypeInv, TypeOK
<1>2. QED
  BY <1>1, ExecuteStatementType DEF Arriving

\* What a visit leaves pending covers both ways out of its line.
LEMMA VisitCovers ==
  ASSUME NEW line, NEW es \in ExecutionStates, lines[line] \in Statements,
         \A l \in DOMAIN decodeStack : decodeStack[l] \in ExecutionStates,
         NEW both, both = AfterBranch(line, es,
                            AfterFallThrough(line, ExecuteStatement(lines[line], es).state))
  PROVE  /\ ~IsExit(lines[line]) => Covers(both[line + 1], ExecuteStatement(lines[line], es).state)
         /\ IsBranch(lines[line]) =>
              Covers(both[lines[line].target], ExecuteBranch(lines[line], es).state)
         /\ \A l \in DOMAIN decodeStack \ Successors(line) : both[l] = decodeStack[l]
<1> DEFINE done == ExecuteStatement(lines[line], es).state
           branched == ExecuteBranch(lines[line], es).state
           fell == AfterFallThrough(line, done)
<1>1. done \in ExecutionStates /\ branched \in ExecutionStates
  BY ExecuteStatementType
<1> HIDE DEF done, branched
<1>2. /\ \A l \in DOMAIN fell : fell[l] \in ExecutionStates
      /\ ~IsExit(lines[line]) => line + 1 \in DOMAIN fell /\ Covers(fell[line + 1], done)
      /\ \A l \in DOMAIN decodeStack \ Successors(line) : l \in DOMAIN fell /\ fell[l] = decodeStack[l]
  <2>1. CASE IsExit(lines[line])
    BY <2>1 DEF AfterFallThrough
  <2>2. CASE ~IsExit(lines[line])
    <3>1. fell = AddToDecodeStack(decodeStack, line + 1, done) /\ line + 1 \in Successors(line)
      BY <2>2 DEF AfterFallThrough, Successors
    <3> HIDE DEF fell
    <3>2. \A l \in DOMAIN fell : fell[l] \in ExecutionStates
      BY <1>1, <3>1, AddType
    <3>3. DOMAIN fell = DOMAIN decodeStack \cup {line + 1}
      BY <3>1, AddDomain
    <3>4. /\ Covers(fell[line + 1], done)
          /\ \A l \in DOMAIN decodeStack \ {line + 1} : fell[l] = decodeStack[l]
      BY <1>1, <3>1, AddCovers
    <3>5. QED
      BY <3>1, <3>2, <3>3, <3>4
  <2>3. QED
    BY <2>1, <2>2
<1> HIDE DEF fell
<1>3. CASE ~IsBranch(lines[line])
  <2>1. both = fell
    BY <1>3 DEF AfterBranch, fell, done
  <2>2. QED
    BY <1>2, <1>3, <2>1 DEF done
<1>4. CASE IsBranch(lines[line])
  <2> DEFINE target == lines[line].target
  <2>1. both = AddToDecodeStack(fell, target, branched) /\ target \in Successors(line)
    BY <1>4 DEF AfterBranch, Successors, fell, done, branched
  <2>2. /\ Covers(both[target], branched)
        /\ \A l \in DOMAIN fell \ {target} : both[l] = fell[l]
    BY <1>1, <1>2, <2>1, AddCovers
  <2>3. ~IsExit(lines[line]) => Covers(both[line + 1], done)
    BY <1>1, <1>2, <2>1, AddWeakens
  <2>4. QED
    BY <1>2, <2>1, <2>2, <2>3 DEF done, branched
<1>5. QED
  BY <1>3, <1>4

LEMMA FailForward ==
  ASSUME NEW failure \in Failures, Fail(failure)
  PROVE  ForwardInv'
<1>1. ~Running'
  BY DEF Fail, Running, Failures, Phases
<1>2. QED
  BY <1>1 DEF ForwardInv, ReachedAccepted

LEMMA VisitForward ==
  ASSUME TypeInv, FlowInv, ForwardInv, NEW line \in Lines, Visit(line)
  PROVE  ForwardInv'
<1> DEFINE es == decodeStack[line]
           done == ExecuteStatement(lines[line], es)
           failure == VisitFailure(lines[line], done.result)
<1>1. CASE failure # "none" /\ Fail(failure)
  <2>1. failure \in Failures
    BY <1>1 DEF VisitFailure, Failures
  <2>2. QED
    BY <1>1, <2>1, FailForward
<1>2. CASE /\ failure = "none"
           /\ decodeStack' = AfterBranch(line, es, AfterFallThrough(line, done.state))
           /\ UNCHANGED <<lines, phase, cursor, pc, value>>
  <2>1. /\ Running /\ Running' /\ lines' = lines /\ line \in DOMAIN decodeStack
        /\ \A l \in DOMAIN decodeStack : line <= l
        /\ ~(line \in DOMAIN incoming /\ incoming[line] = es)
    BY <1>2 DEF Visit, IsFirst, Running, Phases
  <2>2. /\ es \in ExecutionStates /\ lines[line] \in Statements
        /\ line \in Nat /\ DOMAIN incoming \subseteq Nat /\ DOMAIN decodeStack \subseteq Nat
        /\ \A l \in DOMAIN decodeStack : decodeStack[l] \in ExecutionStates
    BY <2>1, LineTypes DEF TypeInv, TypeOK
  <2>3. incoming' = [l \in DOMAIN incoming \cup {line} |-> IF l = line THEN es ELSE incoming[l]]
    BY DEF Visit
  <2>4. DOMAIN decodeStack' = DOMAIN decodeStack \cup Successors(line)
    BY <1>2, VisitedStack
  <2>5. done.result = "ok"
    <3>1. done.result \in {"ok", "error", "crash"}
      BY DEF ExecuteStatement, Execute, ExecuteDirective
    <3>2. QED
      BY <1>2, <3>1 DEF VisitFailure
  <2>6. ReachedAccepted'
    BY <2>1, <2>3, <2>5 DEF ForwardInv, ReachedAccepted
  <2>7. ASSUME ForwardOnly'
        PROVE  ServedInOrder' /\ JoinsCoverPaths' /\ EntriesHeld'
    <3>1. ForwardOnly /\ ServedInOrder /\ JoinsCoverPaths /\ EntriesHeld
      BY <2>1, <2>7 DEF ForwardInv, ForwardOnly, Lines
    <3>2. line \notin DOMAIN incoming /\ \A l \in DOMAIN incoming : l < line
      BY <2>1, <2>2, <3>1 DEF ServedInOrder
    <3>3. \A next \in Successors(line) : next \in Nat /\ line < next
      BY <2>2, <3>1, StatementTypes DEF Successors, ForwardOnly
    <3>4. /\ ~IsExit(lines[line]) => Covers(decodeStack'[line + 1], done.state)
          /\ IsBranch(lines[line]) =>
               Covers(decodeStack'[lines[line].target], ExecuteBranch(lines[line], es).state)
          /\ decodeStack'[line] = es
      <4>1. line \notin Successors(line)
        BY <2>2, <3>3
      <4> HIDE DEF es
      <4>2. QED
        BY <1>2, <2>1, <2>2, <4>1, VisitCovers DEF es
    <3>5. /\ incoming'[line] = es
          /\ \A l \in DOMAIN incoming : l # line /\ incoming'[l] = incoming[l]
      BY <2>3, <3>2
    <3>6. ServedInOrder'
      <4> SUFFICES ASSUME NEW l \in DOMAIN incoming', NEW next \in DOMAIN decodeStack'
                   PROVE  l < next \/ (l = next /\ incoming'[l] = decodeStack'[l])
        BY DEF ServedInOrder
      <4>1. l \in Nat /\ next \in Nat /\ line <= next /\ (l = line \/ l < line)
        BY <2>1, <2>2, <2>3, <2>4, <3>2, <3>3
      <4>2. QED
        BY <2>2, <3>4, <3>5, <4>1
    <3>7. ASSUME NEW next \in DOMAIN decodeStack \cup DOMAIN incoming,
                 NEW s \in ExecutionStates, Covers(Held(next), s)
          PROVE  Covers(IF next \in DOMAIN decodeStack' THEN decodeStack'[next] ELSE incoming'[next], s)
      <4>1. CASE next \in DOMAIN decodeStack
        <5>1. next \in DOMAIN decodeStack' /\ Covers(decodeStack'[next], decodeStack[next])
          BY <4>1, VisitWeakens
        <5>2. decodeStack'[next] \in ExecutionStates
          BY <5>1, NextTypes DEF Next, TypeInv, TypeOK
        <5>3. QED
          BY <2>2, <3>7, <4>1, <5>1, <5>2, MergeTransitive DEF Covers, Held
      <4>2. CASE next \notin DOMAIN decodeStack
        <5>1. next \in Nat /\ next < line /\ incoming'[next] = incoming[next]
          BY <2>2, <3>2, <3>5, <3>7, <4>2
        <5>2. next \notin Successors(line)
          BY <2>2, <3>3, <5>1
        <5>3. QED
          BY <2>4, <3>7, <4>2, <5>1, <5>2 DEF Held
      <4>3. QED
        BY <4>1, <4>2
    <3>8. JoinsCoverPaths'
      <4> SUFFICES ASSUME NEW l \in DOMAIN incoming', NEW next \in Successors(l)', NEW s \in Arriving(l, next)'
                   PROVE  Covers(IF next \in DOMAIN decodeStack' THEN decodeStack'[next] ELSE incoming'[next], s)
        BY DEF JoinsCoverPaths, Covers
      <4>1. CASE l = line
        <5>1. next \in Successors(line) /\ next \in DOMAIN decodeStack'
          BY <2>1, <2>4, <4>1 DEF Successors
        <5>2. \/ ~IsExit(lines[line]) /\ next = line + 1 /\ s = done.state
              \/ /\ IsBranch(lines[line]) /\ next = lines[line].target
                 /\ s = ExecuteBranch(lines[line], es).state
          BY <2>1, <3>5, <4>1 DEF Arriving
        <5>3. QED
          BY <3>4, <5>1, <5>2
      <4>2. CASE l # line
        <5>1. /\ l \in DOMAIN incoming /\ next \in Successors(l) /\ s \in Arriving(l, next)
          <6>1. l \in DOMAIN incoming /\ incoming'[l] = incoming[l]
            BY <2>3, <4>2
          <6>2. QED
            BY <2>1, <6>1 DEF Successors, Arriving
        <5>2. s \in ExecutionStates /\ Covers(Held(next), s)
          BY <3>1, <5>1, ArrivingTypes DEF JoinsCoverPaths, Held
        <5>3. next \in DOMAIN decodeStack \cup DOMAIN incoming
          BY <2>1, <5>1 DEF FlowInv, NoPathMissed
        <5>4. QED
          BY <3>7, <5>2, <5>3
      <4>3. QED
        BY <4>1, <4>2
    <3>9. EntriesHeld'
      <4> SUFFICES ASSUME NEW i \in Lines, IsDirective(lines[i], "entry")
                   PROVE  Covers(IF i + 1 \in DOMAIN decodeStack' THEN decodeStack'[i + 1] ELSE incoming'[i + 1],
                                 IncomingState(lines[i].flags))
        BY <2>1 DEF EntriesHeld, Held, Lines, Covers
      <4>1. i + 1 \in DOMAIN decodeStack \cup DOMAIN incoming
        BY <2>1 DEF FlowInv, NoPathMissed
      <4>2. IncomingState(lines[i].flags) \in ExecutionStates
        BY LineTypes, StatementTypes, IncomingStateType
      <4>3. Covers(Held(i + 1), IncomingState(lines[i].flags))
        BY <3>1 DEF EntriesHeld
      <4>4. QED
        BY <3>7, <4>1, <4>2, <4>3
    <3>10. QED
      BY <3>6, <3>8, <3>9
  <2>8. QED
    BY <2>6, <2>7 DEF ForwardInv
<1>3. QED
  BY <1>1, <1>2 DEF Visit

LEMMA RevisitForward ==
  ASSUME TypeInv, ForwardInv, NEW line \in Lines, Revisit(line)
  PROVE  ForwardInv'
<1>1. /\ Running /\ Running' /\ lines' = lines /\ incoming' = incoming
      /\ line \in DOMAIN incoming /\ incoming[line] = decodeStack[line]
      /\ decodeStack' = [l \in DOMAIN decodeStack \ {line} |-> decodeStack[l]]
  BY DEF Revisit, Running, Phases
<1>2. ReachedAccepted'
  BY <1>1 DEF ForwardInv, ReachedAccepted
<1>3. ASSUME ForwardOnly'
      PROVE  ServedInOrder' /\ JoinsCoverPaths' /\ EntriesHeld'
  <2>1. ServedInOrder /\ JoinsCoverPaths /\ EntriesHeld
    BY <1>1, <1>3 DEF ForwardInv, ForwardOnly, Lines
  <2>2. ServedInOrder'
    BY <1>1, <2>1 DEF ServedInOrder
  <2>3. JoinsCoverPaths'
    <3> SUFFICES ASSUME NEW l \in DOMAIN incoming, NEW next \in Successors(l), NEW s \in Arriving(l, next)
                 PROVE  Covers(IF next \in DOMAIN decodeStack' THEN decodeStack'[next] ELSE incoming[next], s)
      BY <1>1 DEF JoinsCoverPaths, Successors, Arriving, Covers
    <3>1. Covers(IF next \in DOMAIN decodeStack THEN decodeStack[next] ELSE incoming[next], s)
      BY <2>1 DEF JoinsCoverPaths
    <3>2. QED
      BY <1>1, <3>1
  <2>4. EntriesHeld'
    BY <1>1, <2>1 DEF EntriesHeld, Held, Lines, Covers
  <2>5. QED
    BY <2>2, <2>3, <2>4
<1>4. QED
  BY <1>2, <1>3 DEF ForwardInv

LEMMA FixForward ==
  ASSUME TypeInv, ForwardInv, FixLine
  PROVE  ForwardInv'
<1>1. cursor \in Lines /\ incoming' = incoming /\ Running
  BY DEF FixLine, Running, Phases
<1>2. CASE FixFailure(cursor) # "none" /\ Fail(FixFailure(cursor))
  <2>1. FixFailure(cursor) \in Failures
    BY <1>2 DEF FixFailure, Failures
  <2>2. QED
    BY <1>2, <2>1, FailForward
<1>3. CASE /\ FixFailure(cursor) = "none"
           /\ lines' = [lines EXCEPT ![cursor] = FixedStatement(cursor)]
           /\ cursor' = cursor + 1
           /\ UNCHANGED <<decodeStack, phase, pc, value>>
  <2> DEFINE old == lines[cursor]
             s == FixedStatement(cursor)
  <2>1. old \in Statements /\ DOMAIN lines = Lines /\ DOMAIN incoming \subseteq Lines
    BY <1>1, LineTypes DEF TypeInv, TypeOK
  <2>2. /\ s.kind = old.kind /\ s.name = old.name /\ s.target = old.target /\ s.flags = old.flags
        /\ IsExit(s) = IsExit(old) /\ IsBranch(s) = IsBranch(old)
    BY <2>1, FixedKeepsFlow DEF FixedStatement, Statements
  <2>3. /\ IsInstruction(old) => FixedFrom(s, old, incoming[cursor].flags)
        /\ ~IsInstruction(old) => s = old
    BY <2>1 DEF FixedStatement, FixedFrom, Statements
  <2> HIDE DEF s
  <2>4. \A l \in Lines : lines'[l] = IF l = cursor THEN s ELSE lines[l]
    BY <1>3, <2>1 DEF s
  <2>5. Running' /\ decodeStack' = decodeStack /\ Lines' = Lines
    BY <1>1, <1>3, <2>1, LineTypes, FixTypes DEF Lines, TypeInv, TypeOK, Running
  <2>6. ASSUME cursor \in DOMAIN incoming
        PROVE  /\ ExecuteStatement(s, incoming[cursor]) = ExecuteStatement(old, incoming[cursor])
               /\ IsBranch(old) => ExecuteBranch(s, incoming[cursor]) = ExecuteBranch(old, incoming[cursor])
    <3>1. CASE IsInstruction(old)
      <4>1. Execute(old, incoming[cursor]).result = "ok"
        BY <1>1, <2>6, <3>1 DEF ForwardInv, ReachedAccepted, ExecuteStatement
      <4>2. CheckConsistency(old, incoming[cursor].flags)
        BY <4>1, AcceptedIsConsistent
      <4> HIDE DEF old
      <4>3. /\ Execute(s, incoming[cursor]) = Execute(old, incoming[cursor])
            /\ ExecuteBranch(s, incoming[cursor]) = ExecuteBranch(old, incoming[cursor])
        BY <2>3, <3>1, <4>2, FixedExecutesAlike
      <4>4. QED
        BY <2>2, <3>1, <4>3 DEF ExecuteStatement, IsInstruction
    <3>2. CASE ~IsInstruction(old)
      BY <2>3, <3>2
    <3>3. QED
      BY <3>1, <3>2
  <2>7. ReachedAccepted'
    <3> SUFFICES ASSUME NEW l \in DOMAIN incoming
                 PROVE  ExecuteStatement(lines'[l], incoming[l]).result = "ok"
      BY <1>1 DEF ReachedAccepted
    <3>1. ExecuteStatement(lines[l], incoming[l]).result = "ok" /\ l \in Lines
      BY <1>1, <2>1 DEF ForwardInv, ReachedAccepted
    <3>2. QED
      BY <2>4, <2>6, <3>1
  <2>8. \A l \in DOMAIN incoming : /\ Successors(l)' = Successors(l)
                                   /\ \A next : Arriving(l, next)' = Arriving(l, next)
    <3> SUFFICES ASSUME NEW l \in DOMAIN incoming
                 PROVE  /\ Successors(l)' = Successors(l)
                        /\ \A next : Arriving(l, next)' = Arriving(l, next)
      OBVIOUS
    <3>1. CASE l # cursor
      <4>1. lines'[l] = lines[l]
        BY <2>1, <2>4, <3>1
      <4>2. QED
        BY <1>1, <4>1 DEF Successors, Arriving
    <3>2. CASE l = cursor
      <4>1. lines'[l] = s /\ lines[l] = old
        BY <1>1, <2>4, <3>2
      <4> HIDE DEF old
      <4>2. /\ ExecuteStatement(s, incoming[l]) = ExecuteStatement(old, incoming[l])
            /\ IsBranch(old) => ExecuteBranch(s, incoming[l]) = ExecuteBranch(old, incoming[l])
        BY <2>6, <3>2
      <4>3. QED
        BY <1>1, <2>2, <4>1, <4>2 DEF Successors, Arriving
    <3>3. QED
      BY <3>1, <3>2
  <2>9. ASSUME ForwardOnly'
        PROVE  ServedInOrder' /\ JoinsCoverPaths' /\ EntriesHeld'
    <3>1. ForwardOnly
      BY <2>2, <2>4, <2>5, <2>9 DEF ForwardOnly
    <3>2. ServedInOrder /\ JoinsCoverPaths /\ EntriesHeld
      BY <1>1, <3>1 DEF ForwardInv
    <3>3. ServedInOrder' /\ JoinsCoverPaths'
      BY <1>1, <2>5, <2>8, <3>2 DEF ServedInOrder, JoinsCoverPaths, Covers
    <3>4. \A i \in Lines : /\ lines'[i].flags = lines[i].flags
                          /\ IsDirective(lines'[i], "entry") = IsDirective(lines[i], "entry")
      BY <2>2, <2>4 DEF IsDirective
    <3>5. EntriesHeld'
      BY <1>1, <2>5, <3>2, <3>4 DEF EntriesHeld, Held, Covers
    <3>6. QED
      BY <3>3, <3>5
  <2>10. QED
    BY <2>7, <2>9 DEF ForwardInv
<1>4. QED
  BY <1>2, <1>3 DEF FixLine

LEMMA NextForward ==
  ASSUME TypeInv, FlowInv, ForwardInv, [Next]_vars
  PROVE  ForwardInv'
<1>1. CASE PastEnd
  BY <1>1, FailForward DEF PastEnd, Failures
<1>2. ASSUME NEW line \in Lines, Revisit(line) \/ Visit(line)
      PROVE  ForwardInv'
  BY <1>2, VisitForward, RevisitForward
<1>3. CASE FixLine
  BY <1>3, FixForward
<1>4. CASE PlaceLine /\ PlaceFailure(cursor) # "none" /\ Fail(PlaceFailure(cursor))
  <2>1. PlaceFailure(cursor) \in Failures
    BY <1>4 DEF PlaceFailure, Failures
  <2>2. QED
    BY <1>4, <2>1, FailForward
<1>5. CASE UNCHANGED <<lines, decodeStack, incoming>> /\ (Running' => Running)
  <2>1. Lines' = Lines /\ \A l : /\ Successors(l)' = Successors(l)
                                 /\ \A next : Arriving(l, next)' = Arriving(l, next)
    BY <1>5 DEF Lines, Successors, Arriving
  <2>2. QED
    BY <1>5, <2>1 DEF ForwardInv, ReachedAccepted, ForwardOnly, ServedInOrder, JoinsCoverPaths,
       EntriesHeld, Held
<1>6. CASE AnalysisDone \/ FixDone \/ PlaceDone \/ Finished \/ UNCHANGED vars
  BY <1>5, <1>6 DEF AnalysisDone, FixDone, PlaceDone, Finished, vars, Running, Phases
<1>7. CASE PlaceLine /\ UNCHANGED <<lines, decodeStack, phase>>
  BY <1>5, <1>7 DEF PlaceLine, Running
<1>8. QED
  <2>1. PlaceLine => \/ PlaceFailure(cursor) # "none" /\ Fail(PlaceFailure(cursor))
                     \/ UNCHANGED <<lines, decodeStack, phase>>
    BY DEF PlaceLine
  <2>2. QED
    BY <1>1, <1>2, <1>3, <1>4, <1>6, <1>7, <2>1 DEF Next

LEMMA InitForward == Init => ForwardInv
<1>1. Init => ReachedAccepted /\ ServedInOrder /\ JoinsCoverPaths
  BY DEF Init, ReachedAccepted, ServedInOrder, JoinsCoverPaths
<1>2. Init => EntriesHeld
  <2> SUFFICES ASSUME Init, NEW i \in Lines, IsDirective(lines[i], "entry")
               PROVE  Covers(Held(i + 1), IncomingState(lines[i].flags))
    BY DEF EntriesHeld
  <2>1. decodeStack = [l \in {j + 1 : j \in {k \in Lines : IsDirective(lines[k], "entry")}}
                         |-> IncomingState(lines[l - 1].flags)]
    BY DEF Init
  <2>2. i + 1 \in DOMAIN decodeStack /\ (i + 1) - 1 = i
    BY <2>1, InitTypes, LineTypes
  <2>3. Held(i + 1) = IncomingState(lines[i].flags)
    BY <2>1, <2>2 DEF Held
  <2>4. IncomingState(lines[i].flags) \in ExecutionStates
    BY InitTypes, LineTypes, StatementTypes, IncomingStateType
  <2>5. QED
    BY <2>3, <2>4, MergeLaws DEF Covers
<1>3. QED
  BY <1>1, <1>2 DEF ForwardInv

\* In a module without backward branches the state recorded for a line covers
\* every path to it (the |= of add_to_decode_stack, and begin() of the
\* std::map, which is the lowest line).
THEOREM ForwardJoinsAreCovered == Spec => []ForwardJoinsCoverPaths
<1>1. Init => TypeInv /\ FlowInv /\ ForwardInv
  BY InitTypes, InitFlow, InitForward
<1>2. TypeInv /\ FlowInv /\ ForwardInv /\ [Next]_vars => TypeInv' /\ FlowInv' /\ ForwardInv'
  BY NextTypes, NextFlow, NextForward
<1>3. ForwardInv => ForwardJoinsCoverPaths
  BY DEF ForwardInv, ForwardJoinsCoverPaths
<1>4. QED
  BY <1>1, <1>2, <1>3, PTL DEF Spec

-----------------------------------------------------------------------------
(* Flags *)

BitDescribes(general, bit) == general \in {"unknown", bit}

FlagsDescribe(general, f) == MergeFlags(general, f) = general

\* The m and x bits stay described under the e bit that constrains them.
LEMMA ConstrainedDescribes ==
  ASSUME NEW g, NEW b, NEW ge, NEW e, BitDescribes(g, b), BitDescribes(ge, e)
  PROVE  BitDescribes(ConstrainedForEBit(g, ge), ConstrainedForEBit(b, e))
BY DEF BitDescribes, ConstrainedForEBit

\* For the flags the class keeps, merging compares bit by bit.
LEMMA FlagsBitwise ==
  ASSUME NEW g \in FlagStates, NEW f \in FlagStates
  PROVE  FlagsDescribe(g, f) <=> /\ BitDescribes(g.e, f.e) /\ BitDescribes(g.m, f.m)
                                 /\ BitDescribes(g.x, f.x) /\ BitDescribes(g.c, f.c)
<1>1. FlagsDescribe(g, f) <=>
        /\ MergeBit(g.e, f.e) = g.e /\ MergeBit(g.c, f.c) = g.c
        /\ ConstrainedForEBit(MergeBit(g.m, f.m), MergeBit(g.e, f.e)) = g.m
        /\ ConstrainedForEBit(MergeBit(g.x, f.x), MergeBit(g.e, f.e)) = g.x
  <2>1. g = [e |-> g.e, m |-> g.m, x |-> g.x, c |-> g.c]
    BY DEF FlagStates
  <2>2. MergeFlags(g, f) =
          [e |-> MergeBit(g.e, f.e), m |-> ConstrainedForEBit(MergeBit(g.m, f.m), MergeBit(g.e, f.e)),
           x |-> ConstrainedForEBit(MergeBit(g.x, f.x), MergeBit(g.e, f.e)), c |-> MergeBit(g.c, f.c)]
    BY DEF MergeFlags, MakeFlags
  <2>3. QED
    BY <2>1, <2>2 DEF FlagsDescribe
<1>2. \A a, b : MergeBit(a, b) = a <=> BitDescribes(a, b)
  BY DEF MergeBit, BitDescribes
<1>3. ASSUME NEW a \in BitStates, NEW b \in BitStates, BitDescribes(g.e, f.e),
             a = ConstrainedForEBit(a, g.e), b = ConstrainedForEBit(b, f.e)
      PROVE  ConstrainedForEBit(MergeBit(a, b), g.e) = a <=> BitDescribes(a, b)
  <2>1. g.e \in BitStates /\ f.e \in BitStates
    BY DEF FlagStates
  <2>2. QED
    BY <1>3, <2>1 DEF MergeBit, BitDescribes, ConstrainedForEBit, BitStates
<1>4. /\ g.m \in BitStates /\ g.x \in BitStates /\ f.m \in BitStates /\ f.x \in BitStates
      /\ g.m = ConstrainedForEBit(g.m, g.e) /\ g.x = ConstrainedForEBit(g.x, g.e)
      /\ f.m = ConstrainedForEBit(f.m, f.e) /\ f.x = ConstrainedForEBit(f.x, f.e)
  BY DEF FlagStates, Coherent
<1>5. QED
  BY <1>1, <1>2, <1>3, <1>4

LEMMA MadeFlagsDescribe ==
  ASSUME NEW ge \in BitStates, NEW gm \in BitStates, NEW gx \in BitStates, NEW gc \in BitStates,
         NEW e \in BitStates, NEW m \in BitStates, NEW x \in BitStates, NEW c \in BitStates,
         BitDescribes(ge, e), BitDescribes(gm, m), BitDescribes(gx, x), BitDescribes(gc, c)
  PROVE  FlagsDescribe(MakeFlags(ge, gm, gx, gc), MakeFlags(e, m, x, c))
<1>1. MakeFlags(ge, gm, gx, gc) \in FlagStates /\ MakeFlags(e, m, x, c) \in FlagStates
  BY MakeFlagsType
<1>2. /\ BitDescribes(ConstrainedForEBit(gm, ge), ConstrainedForEBit(m, e))
      /\ BitDescribes(ConstrainedForEBit(gx, ge), ConstrainedForEBit(x, e))
  BY ConstrainedDescribes
<1>3. QED
  BY <1>1, <1>2, FlagsBitwise DEF MakeFlags

\* Every operation on flags is monotone.
LEMMA FlagOperationsDescribe ==
  ASSUME NEW g \in FlagStates, NEW f \in FlagStates, FlagsDescribe(g, f)
  PROVE  /\ \A c \in BitStates : FlagsDescribe(SetCBit(g, c), SetCBit(f, c))
         /\ FlagsDescribe(ExchangeCE(g), ExchangeCE(f))
         /\ \A target \in {"on", "off"} : \A arg :
              FlagsDescribe(UpdateStatus(g, target, arg), UpdateStatus(f, target, arg))
<1>1. /\ BitDescribes(g.e, f.e) /\ BitDescribes(g.m, f.m)
      /\ BitDescribes(g.x, f.x) /\ BitDescribes(g.c, f.c)
  BY FlagsBitwise
<1>2. /\ g.e \in BitStates /\ g.m \in BitStates /\ g.x \in BitStates /\ g.c \in BitStates
      /\ f.e \in BitStates /\ f.m \in BitStates /\ f.x \in BitStates /\ f.c \in BitStates
  BY FlagFields
<1>3. ASSUME NEW c \in BitStates
      PROVE  FlagsDescribe(SetCBit(g, c), SetCBit(f, c))
  <2>1. SetCBit(g, c) \in FlagStates /\ SetCBit(f, c) \in FlagStates
    BY FlagSetterTypes
  <2>2. /\ SetCBit(g, c).e = g.e /\ SetCBit(g, c).m = g.m /\ SetCBit(g, c).x = g.x /\ SetCBit(g, c).c = c
        /\ SetCBit(f, c).e = f.e /\ SetCBit(f, c).m = f.m /\ SetCBit(f, c).x = f.x /\ SetCBit(f, c).c = c
    BY DEF SetCBit, FlagStates
  <2>3. BitDescribes(c, c)
    BY DEF BitDescribes
  <2> HIDE DEF FlagsDescribe
  <2>4. QED
    BY <1>1, <2>1, <2>2, <2>3, FlagsBitwise
<1>4. FlagsDescribe(ExchangeCE(g), ExchangeCE(f))
  BY <1>1, <1>2, MadeFlagsDescribe DEF ExchangeCE
<1>5. ASSUME NEW target \in {"on", "off"}, NEW arg
      PROVE  FlagsDescribe(UpdateStatus(g, target, arg), UpdateStatus(f, target, arg))
  <2> DEFINE New(old, weight) ==
               CASE arg = NoValue /\ old # target -> "unknown"
                 [] arg # NoValue /\ BitOf(arg, weight) -> target
                 [] OTHER -> old
  <2>1. ASSUME NEW general \in BitStates, NEW bit \in BitStates, BitDescribes(general, bit), NEW weight
        PROVE  /\ BitDescribes(New(general, weight), New(bit, weight))
               /\ New(general, weight) \in BitStates /\ New(bit, weight) \in BitStates
    BY <2>1 DEF BitDescribes, BitStates
  <2>2. /\ UpdateStatus(g, target, arg) = MakeFlags(g.e, New(g.m, 32), New(g.x, 16), New(g.c, 1))
        /\ UpdateStatus(f, target, arg) = MakeFlags(f.e, New(f.m, 32), New(f.x, 16), New(f.c, 1))
    BY DEF UpdateStatus
  <2> HIDE DEF New
  <2>3. /\ BitDescribes(New(g.m, 32), New(f.m, 32)) /\ BitDescribes(New(g.x, 16), New(f.x, 16))
        /\ BitDescribes(New(g.c, 1), New(f.c, 1))
        /\ New(g.m, 32) \in BitStates /\ New(g.x, 16) \in BitStates /\ New(g.c, 1) \in BitStates
        /\ New(f.m, 32) \in BitStates /\ New(f.x, 16) \in BitStates /\ New(f.c, 1) \in BitStates
    BY <1>1, <1>2, <2>1
  <2>4. FlagsDescribe(MakeFlags(g.e, New(g.m, 32), New(g.x, 16), New(g.c, 1)),
                      MakeFlags(f.e, New(f.m, 32), New(f.x, 16), New(f.c, 1)))
    BY <1>1, <1>2, <2>3, MadeFlagsDescribe, ZenonT(30)
  <2>5. QED
    BY <2>2, <2>4
<1>6. QED
  BY <1>3, <1>4, <1>5

-----------------------------------------------------------------------------
(* Registers *)

LEMMA AddedDescribes ==
  ASSUME NEW g, NEW r, RegisterDescribes(g, r), NEW offset, NEW gm, NEW m
  PROVE  RegisterDescribes(AddToRegister(g, offset, gm), AddToRegister(r, offset, m))
<1>1. \A reg, n : AddToRegister(reg, offset, n).type = IF reg.type = "value" THEN "value" ELSE "unknown"
  BY DEF AddToRegister, UnknownRegister
<1>2. QED
  BY <1>1 DEF RegisterDescribes

LEMMA RegisterEntryDescribes ==
  ASSUME NEW g \in RegisterValues, NEW r \in RegisterValues, RegisterDescribes(g, r),
         NEW t \in HighByteTypes \cup LowByteTypes \cup VarsizeTypes
  PROVE  EntryDescribes(RegisterEntry(t, g), RegisterEntry(t, r))
<1>1. ASSUME NEW reg \in RegisterValues
      PROVE  /\ t \in VarsizeTypes \/ reg.type = "original" => RegisterEntry(t, reg).type = t
             /\ t \notin VarsizeTypes /\ reg.type = "unknown" => RegisterEntry(t, reg).type = "unknown"
             /\ t \notin VarsizeTypes /\ reg.type = "value" => RegisterEntry(t, reg).type = "byte"
  <2>1. reg.type \in {"unknown", "original", "value"}
    BY RegisterFields
  <2>2. \A v : Entry(t, v).type = t /\ UnknownEntry.type = "unknown" /\ ByteEntry(v).type = "byte"
    BY DEF Entry, UnknownEntry, ByteEntry
  <2>3. CASE t \in VarsizeTypes
    <3>1. RegisterEntry(t, reg) = Entry(t, IF reg.type = "original" THEN 1 ELSE 0)
      <4>1. t \notin HighByteTypes /\ t \notin LowByteTypes
        BY <2>3 DEF HighByteTypes, LowByteTypes, VarsizeTypes
      <4>2. QED
        BY <2>3, <4>1 DEF RegisterEntry
    <3>2. RegisterEntry(t, reg).type = t
      BY <2>2, <3>1
    <3>3. QED
      BY <2>3, <3>2
  <2>4. CASE t \notin VarsizeTypes
    <3>1. t \in HighByteTypes \/ t \in LowByteTypes
      BY <2>4
    <3>2. reg.type = "original" => RegisterEntry(t, reg) = Entry(t, 0)
      BY <2>4 DEF RegisterEntry
    <3>3. reg.type = "unknown" => RegisterEntry(t, reg) = UnknownEntry
      BY <2>4 DEF RegisterEntry
    <3>4. reg.type = "value" => \E v : RegisterEntry(t, reg) = ByteEntry(v)
      BY <2>4, <3>1 DEF RegisterEntry
    <3>5. QED
      BY <2>2, <2>4, <3>2, <3>3, <3>4
  <2>5. QED
    BY <2>1, <2>3, <2>4
<1>2. g.type \in {"unknown", "original", "value"} /\ r.type \in {"unknown", "original", "value"}
  BY RegisterFields
<1>3. t # "flags" /\ "unknown" \notin VarsizeTypes /\ "byte" \notin VarsizeTypes
  BY DEF HighByteTypes, LowByteTypes, VarsizeTypes
<1> DEFINE ge == RegisterEntry(t, g)
           e == RegisterEntry(t, r)
<1>4. \/ t \in VarsizeTypes /\ ge.type = t /\ e.type = t
      \/ t \notin VarsizeTypes /\ ge.type \in {"unknown", e.type} /\ ge.type # "flags"
           /\ e.type \notin VarsizeTypes /\ ge.type \notin VarsizeTypes
  BY <1>1, <1>2, <1>3 DEF RegisterDescribes
<1> HIDE DEF ge, e
<1>5. EntryDescribes(ge, e)
  BY <1>3, <1>4 DEF EntryDescribes, CanMergeWith, IsVarSize
<1>6. QED
  BY <1>5 DEF ge, e

-----------------------------------------------------------------------------
(* The stack *)

LEMMA SameEntryDescribes ==
  ASSUME NEW e \in StackEntries
  PROVE  EntryDescribes(e, e) /\ (~IsVarSize(e) => EntryDescribes(UnknownEntry, e))
<1>1. e.flags \in FlagStates
  BY DEF StackEntries
<1>2. QED
  BY <1>1, MergeFlagsLaws DEF EntryDescribes, CanMergeWith, UnknownEntry, Entry, IsVarSize, VarsizeTypes

LEMMA AbandonedDescribes == \A s : StackDescribes(Abandoned, s)
BY DEF StackDescribes, Abandoned

LEMMA PushDescribes ==
  ASSUME NEW g \in Stacks, NEW s \in Stacks, StackDescribes(g, s),
         NEW ge \in StackEntries, NEW e \in StackEntries, EntryDescribes(ge, e)
  PROVE  StackDescribes(PushEntry(g, ge), PushEntry(s, e))
<1>1. CASE g.abandoned
  BY <1>1 DEF StackDescribes, PushEntry
<1>2. CASE ~g.abandoned
  <2>1. /\ ~s.abandoned /\ Len(g.items) = Len(s.items)
        /\ \A i \in DOMAIN g.items : EntryDescribes(g.items[i], s.items[i])
    BY <1>2 DEF StackDescribes
  <2>2. g.items \in Seq(StackEntries) /\ s.items \in Seq(StackEntries)
    BY StackFields
  <2> DEFINE n == Len(g.items)
             gi == Append(g.items, ge)
             si == Append(s.items, e)
  <2>3. /\ Len(gi) = n + 1 /\ Len(si) = n + 1 /\ n \in Nat
        /\ DOMAIN gi = 1 .. n + 1
        /\ \A i \in 1 .. n : gi[i] = g.items[i] /\ si[i] = s.items[i] /\ i \in DOMAIN g.items
        /\ gi[n + 1] = ge /\ si[n + 1] = e
    BY <2>1, <2>2
  <2>4. /\ PushEntry(g, ge).items = gi /\ PushEntry(s, e).items = si
        /\ ~PushEntry(s, e).abandoned
    BY <1>2, <2>1 DEF PushEntry, Stacks
  <2> HIDE DEF n, gi, si
  <2>5. \A i \in 1 .. n + 1 : i \in 1 .. n \/ i = n + 1
    BY <2>3
  <2>6. \A i \in DOMAIN gi : EntryDescribes(gi[i], si[i])
    BY <2>1, <2>3, <2>5
  <2>7. QED
    BY <2>3, <2>4, <2>6 DEF StackDescribes
<1>3. QED
  BY <1>1, <1>2

LEMMA PushRegDescribes ==
  ASSUME NEW g \in Stacks, NEW s \in Stacks, StackDescribes(g, s),
         NEW gr \in RegisterValues, NEW r \in RegisterValues, RegisterDescribes(gr, r),
         NEW gb \in BitStates, NEW b \in BitStates, BitDescribes(gb, b), NEW types \in RegisterKinds
  PROVE  StackDescribes(PushReg(g, gr, gb, types), PushReg(s, r, b, types))
<1>1. ASSUME NEW t \in HighByteTypes \cup LowByteTypes \cup VarsizeTypes
      PROVE  /\ RegisterEntry(t, gr) \in StackEntries /\ RegisterEntry(t, r) \in StackEntries
             /\ EntryDescribes(RegisterEntry(t, gr), RegisterEntry(t, r))
  BY RegisterEntryType, RegisterEntryDescribes
<1>2. CASE g.abandoned
  BY <1>2 DEF PushReg, StackDescribes
<1>3. CASE ~g.abandoned /\ gb = "unknown"
  BY <1>3, AbandonedDescribes DEF PushReg
<1>4. CASE ~g.abandoned /\ gb # "unknown"
  <2>1. ~s.abandoned /\ b = gb /\ gb \in {"on", "off", "original"}
    BY <1>4 DEF StackDescribes, BitDescribes, BitStates
  <2>2. CASE gb = "original"
    BY <1>1, <1>4, <2>1, <2>2, KindFields, PushDescribes DEF PushReg
  <2>3. CASE gb = "on"
    BY <1>1, <1>4, <2>1, <2>3, KindFields, PushDescribes DEF PushReg
  <2>4. CASE gb = "off"
    <3> DEFINE g1 == PushEntry(g, RegisterEntry(types.hi, gr))
               s1 == PushEntry(s, RegisterEntry(types.hi, r))
    <3>1. g1 \in Stacks /\ s1 \in Stacks /\ StackDescribes(g1, s1)
      BY <1>1, KindFields, PushDescribes, PushEntryType
    <3>2. /\ PushReg(g, gr, gb, types) = PushEntry(g1, RegisterEntry(types.lo, gr))
          /\ PushReg(s, r, b, types) = PushEntry(s1, RegisterEntry(types.lo, r))
      BY <1>4, <2>1, <2>4 DEF PushReg
    <3> HIDE DEF g1, s1
    <3>3. QED
      BY <1>1, <3>1, <3>2, KindFields, PushDescribes
  <2>5. QED
    BY <2>1, <2>2, <2>3, <2>4
<1>5. QED
  BY <1>2, <1>3, <1>4

LEMMA PopDescribes ==
  ASSUME NEW g \in Stacks, NEW s \in Stacks, StackDescribes(g, s), ~g.abandoned
  PROVE  /\ ~s.abandoned
         /\ g.items = << >> <=> s.items = << >>
         /\ g.items # << >> => /\ EntryDescribes(Top(g), Top(s))
                               /\ StackDescribes(Pop(g), Pop(s))
<1>1. /\ ~s.abandoned /\ Len(g.items) = Len(s.items)
      /\ \A i \in DOMAIN g.items : EntryDescribes(g.items[i], s.items[i])
  BY DEF StackDescribes
<1>2. /\ g.items \in Seq(StackEntries) /\ s.items \in Seq(StackEntries)
      /\ Len(g.items) \in Nat /\ DOMAIN g.items = 1 .. Len(g.items)
  BY StackFields
<1>3. g.items = << >> <=> s.items = << >>
  BY <1>1, <1>2, EmptySeq
<1>4. ASSUME g.items # << >>
      PROVE  EntryDescribes(Top(g), Top(s)) /\ StackDescribes(Pop(g), Pop(s))
  <2> DEFINE n == Len(g.items)
             gi == SubSeq(g.items, 1, n - 1)
             si == SubSeq(s.items, 1, n - 1)
  <2>1. n \in Nat \ {0}
    BY <1>2, <1>4, EmptySeq
  <2>2. n \in DOMAIN g.items
    BY <1>2, <2>1
  <2>3. EntryDescribes(Top(g), Top(s))
    BY <1>1, <2>2 DEF Top
  <2>4. /\ Len(gi) = n - 1 /\ Len(si) = n - 1 /\ DOMAIN gi = 1 .. n - 1
        /\ \A i \in 1 .. n - 1 : gi[i] = g.items[i] /\ si[i] = s.items[i] /\ i \in DOMAIN g.items
    BY <1>1, <1>2, <2>1, SubSeqProperties
  <2>5. Pop(g).items = gi /\ Pop(s).items = si /\ ~Pop(s).abandoned
    BY <1>1, <1>2 DEF Pop, Stacks
  <2> HIDE DEF n, gi, si
  <2>6. \A i \in DOMAIN gi : EntryDescribes(gi[i], si[i])
    BY <1>1, <2>4
  <2>7. StackDescribes(Pop(g), Pop(s))
    BY <2>4, <2>5, <2>6 DEF StackDescribes
  <2>8. QED
    BY <2>3, <2>7
<1>5. QED
  BY <1>1, <1>3, <1>4

LEMMA PullByteDescribes ==
  ASSUME NEW g \in Stacks, NEW s \in Stacks, StackDescribes(g, s)
  PROVE  /\ StackDescribes(PullByte(g).stack, PullByte(s).stack)
         /\ EntryDescribes(PullByte(g).entry, PullByte(s).entry)
<1>1. PullByte(s).entry \in StackEntries /\ ~IsVarSize(PullByte(s).entry)
  <2>1. ~IsVarSize(UnknownEntry)
    BY DEF UnknownEntry, Entry, IsVarSize, VarsizeTypes
  <2>2. QED
    BY <2>1, PullByteType DEF PullByte
<1>2. CASE g.abandoned \/ g.items = << >> \/ IsVarSize(Top(g))
  <2>1. PullByte(g) = [stack |-> Abandoned, entry |-> UnknownEntry]
    BY <1>2 DEF PullByte
  <2>2. QED
    BY <1>1, <2>1, SameEntryDescribes, AbandonedDescribes
<1>3. CASE ~(g.abandoned \/ g.items = << >> \/ IsVarSize(Top(g)))
  <2>1. /\ ~s.abandoned /\ s.items # << >>
        /\ EntryDescribes(Top(g), Top(s)) /\ StackDescribes(Pop(g), Pop(s))
    BY <1>3, PopDescribes
  <2>2. ~IsVarSize(Top(s))
    BY <1>3, <2>1 DEF EntryDescribes, CanMergeWith, IsVarSize
  <2>3. /\ PullByte(g) = [stack |-> Pop(g), entry |-> Top(g)]
        /\ PullByte(s) = [stack |-> Pop(s), entry |-> Top(s)]
    BY <1>3, <2>1, <2>2 DEF PullByte
  <2>4. QED
    BY <2>1, <2>3
<1>4. QED
  BY <1>2, <1>3

LEMMA PullRegDescribes ==
  ASSUME NEW g \in Stacks, NEW s \in Stacks, StackDescribes(g, s),
         NEW gb \in BitStates, NEW b \in BitStates, BitDescribes(gb, b), NEW types \in RegisterKinds,
         ~PullReg(g, gb, types).crash
  PROVE  /\ StackDescribes(PullReg(g, gb, types).stack, PullReg(s, b, types).stack)
         /\ RegisterDescribes(PullReg(g, gb, types).reg, PullReg(s, b, types).reg)
<1> DEFINE gp == PullReg(g, gb, types)
           p == PullReg(s, b, types)
<1>1. ASSUME gp.stack = Abandoned, gp.reg = UnknownRegister
      PROVE  StackDescribes(gp.stack, p.stack) /\ RegisterDescribes(gp.reg, p.reg)
  BY <1>1, AbandonedDescribes DEF RegisterDescribes, UnknownRegister
<1>2. CASE g.abandoned \/ gb = "unknown"
  <2>1. gp.stack = Abandoned /\ gp.reg = UnknownRegister
    BY <1>2 DEF PullReg
  <2>2. QED
    BY <1>1, <2>1
<1>3. CASE ~g.abandoned /\ gb = "original"
  <2>1. gp = PullOriginal(g, types)
    BY <1>3 DEF PullReg
  <2>2. gp.stack = Abandoned /\ gp.reg = UnknownRegister
    BY <2>1 DEF PullOriginal
  <2>3. QED
    BY <1>1, <2>2
<1>4. ~g.abandoned => ~s.abandoned
  BY DEF StackDescribes
<1>5. /\ PullByte(g).stack \in Stacks /\ PullByte(s).stack \in Stacks
      /\ StackDescribes(PullByte(g).stack, PullByte(s).stack)
      /\ EntryDescribes(PullByte(g).entry, PullByte(s).entry)
  BY PullByteType, PullByteDescribes
<1>6. \A v : KnownRegister(v).type = "value" /\ UnknownRegister.type = "unknown"
  BY DEF KnownRegister, UnknownRegister
<1>7. types.lo # "byte" /\ types.hi # "byte" /\ types.lo # "unknown" /\ types.hi # "unknown"
  BY KindFields DEF LowByteTypes, HighByteTypes
<1>8. CASE ~g.abandoned /\ gb = "on"
  <2>1. gp = PullNarrow(g, types) /\ p = PullNarrow(s, types)
    BY <1>4, <1>8 DEF PullReg, BitDescribes
  <2>2. StackDescribes(gp.stack, p.stack)
    BY <1>5, <2>1 DEF PullNarrow
  <2>3. PullByte(g).entry.type \in {"unknown", PullByte(s).entry.type}
    BY <1>5 DEF EntryDescribes
  <2>4. RegisterDescribes(gp.reg, p.reg)
    BY <1>6, <1>7, <2>1, <2>3 DEF PullNarrow, RegisterDescribes
  <2>5. QED
    BY <2>2, <2>4
<1>9. CASE ~g.abandoned /\ gb = "off"
  <2> DEFINE glo == PullByte(g)
             lo == PullByte(s)
             ghi == PullByte(glo.stack)
             hi == PullByte(lo.stack)
  <2>1. gp = PullWide(g, types) /\ p = PullWide(s, types)
    BY <1>4, <1>9 DEF PullReg, BitDescribes
  <2>2. StackDescribes(ghi.stack, hi.stack) /\ EntryDescribes(ghi.entry, hi.entry)
    BY <1>5, PullByteDescribes
  <2>3. StackDescribes(gp.stack, p.stack)
    BY <2>1, <2>2 DEF PullWide
  <2>4. glo.entry.type \in {"unknown", lo.entry.type} /\ ghi.entry.type \in {"unknown", hi.entry.type}
    BY <1>5, <2>2 DEF EntryDescribes
  <2>5. RegisterDescribes(gp.reg, p.reg)
    BY <1>6, <1>7, <2>1, <2>4 DEF PullWide, RegisterDescribes
  <2>6. QED
    BY <2>3, <2>5
<1>10. gb \in {"on", "off", "original", "unknown"}
  BY DEF BitStates
<1>11. QED
  BY <1>2, <1>3, <1>8, <1>9, <1>10

-----------------------------------------------------------------------------
(* Execution states *)

LEMMA DescribedParts ==
  ASSUME NEW g, NEW s
  PROVE  Describes(g, s) <=> /\ FlagsDescribe(g.flags, s.flags)
                             /\ RegisterDescribes(g.a, s.a) /\ RegisterDescribes(g.x, s.x)
                             /\ RegisterDescribes(g.y, s.y) /\ RegisterDescribes(g.dbr, s.dbr)
                             /\ StackDescribes(g.stack, s.stack)
BY DEF Describes, FlagsDescribe

LEMMA CoversDescribes ==
  ASSUME NEW g \in ExecutionStates, NEW s \in ExecutionStates, Covers(g, s)
  PROVE  Describes(g, s)
<1>1. /\ MergeFlags(g.flags, s.flags) = g.flags /\ MergeStack(g.stack, s.stack) = g.stack
      /\ MergeRegister(g.a, s.a) = g.a /\ MergeRegister(g.x, s.x) = g.x
      /\ MergeRegister(g.y, s.y) = g.y /\ MergeRegister(g.dbr, s.dbr) = g.dbr
  BY DEF Covers, Merge
<1>2. \A c, r : MergeRegister(c, r) = c => RegisterDescribes(c, r)
  BY DEF MergeRegister, RegisterDescribes, UnknownRegister
<1>3. ASSUME NEW c \in StackEntries, NEW e \in StackEntries, CanMergeWith(c, e), MergeEntry(c, e) = c
      PROVE  EntryDescribes(c, e)
  <2>1. CASE c = e
    BY <2>1, SameEntryDescribes
  <2>2. CASE c # e /\ c.type = "flags" /\ e.type = "flags"
    <3>1. MergeEntry(c, e) = FlagsEntry(MergeFlags(c.flags, e.flags))
      BY <2>2 DEF MergeEntry, IsVarSize, VarsizeTypes
    <3>2. c.flags = MergeFlags(c.flags, e.flags)
      BY <1>3, <3>1 DEF FlagsEntry
    <3>3. QED
      BY <1>3, <2>2, <3>2 DEF EntryDescribes
  <2>3. CASE c # e /\ IsVarSize(c) /\ c.type = e.type
    <3>1. c.type # "flags"
      BY <2>3 DEF IsVarSize, VarsizeTypes
    <3>2. QED
      BY <1>3, <2>3, <3>1 DEF EntryDescribes
  <2>4. CASE c # e /\ ~(c.type = "flags" /\ e.type = "flags") /\ ~(IsVarSize(c) /\ c.type = e.type)
    <3>1. c = UnknownEntry
      BY <1>3, <2>4 DEF MergeEntry
    <3>2. QED
      BY <1>3, <3>1 DEF EntryDescribes, UnknownEntry, Entry
  <2>5. QED
    BY <2>1, <2>2, <2>3, <2>4
<1>4. StackDescribes(g.stack, s.stack)
  <2>1. g.stack \in Stacks /\ s.stack \in Stacks
    BY StateFields
  <2>2. \/ g.stack.abandoned
        \/ /\ Mergeable(g.stack, s.stack)
           /\ \A i \in DOMAIN g.stack.items :
                MergeEntry(g.stack.items[i], s.stack.items[i]) = g.stack.items[i]
    BY <1>1, <2>1, StackCovers
  <2>3. \A i \in DOMAIN g.stack.items : g.stack.items[i] \in StackEntries
    BY <2>1, StackItems
  <2>4. Mergeable(g.stack, s.stack) => \A i \in DOMAIN g.stack.items : s.stack.items[i] \in StackEntries
    BY ZenonT(60), <2>1, StackItems DEF Mergeable
  <2>5. QED
    BY <1>3, <2>2, <2>3, <2>4 DEF StackDescribes, Mergeable
<1>5. QED
  BY <1>1, <1>2, <1>4 DEF Describes

LEMMA DescribesTransitive ==
  ASSUME NEW g \in ExecutionStates, NEW c \in ExecutionStates, NEW s \in ExecutionStates,
         Describes(g, c), Describes(c, s)
  PROVE  Describes(g, s)
<1>1. FlagsDescribe(g.flags, s.flags)
  BY StateFields, DescribedParts, FlagsBitwise DEF BitDescribes
<1>2. ASSUME NEW ge \in StackEntries, NEW ce \in StackEntries, NEW e \in StackEntries,
             EntryDescribes(ge, ce), EntryDescribes(ce, e)
      PROVE  EntryDescribes(ge, e)
  <2>1. ge.flags \in FlagStates /\ ce.flags \in FlagStates /\ e.flags \in FlagStates
    BY DEF StackEntries
  <2>2. ge.type = "flags" => MergeFlags(ge.flags, e.flags) = ge.flags
    BY <1>2, <2>1, FlagsBitwise DEF EntryDescribes, FlagsDescribe, BitDescribes
  <2>3. CanMergeWith(ge, e) /\ ge.type \in {"unknown", e.type}
    BY <1>2 DEF EntryDescribes, CanMergeWith, IsVarSize, VarsizeTypes
  <2>4. QED
    BY <2>2, <2>3 DEF EntryDescribes
<1>3. StackDescribes(g.stack, s.stack)
  <2>1. /\ g.stack \in Stacks /\ c.stack \in Stacks /\ s.stack \in Stacks
        /\ StackDescribes(g.stack, c.stack) /\ StackDescribes(c.stack, s.stack)
    BY StateFields DEF Describes
  <2>2. CASE g.stack.abandoned
    BY <2>2 DEF StackDescribes
  <2>3. CASE ~g.stack.abandoned
    <3>1. /\ ~c.stack.abandoned /\ ~s.stack.abandoned
          /\ Len(g.stack.items) = Len(c.stack.items) /\ Len(c.stack.items) = Len(s.stack.items)
          /\ \A i \in DOMAIN g.stack.items : EntryDescribes(g.stack.items[i], c.stack.items[i])
          /\ \A i \in DOMAIN c.stack.items : EntryDescribes(c.stack.items[i], s.stack.items[i])
      BY <2>1, <2>3 DEF StackDescribes
    <3>2. \A i \in DOMAIN g.stack.items :
            i \in DOMAIN c.stack.items /\ g.stack.items[i] \in StackEntries
      BY <2>1, <3>1, StackItems
    <3>3. \A i \in DOMAIN c.stack.items :
            c.stack.items[i] \in StackEntries /\ s.stack.items[i] \in StackEntries
      BY ZenonT(60), <2>1, <3>1, StackItems
    <3>4. QED
      BY <1>2, <3>1, <3>2, <3>3 DEF StackDescribes
  <2>4. QED
    BY <2>2, <2>3
<1>4. QED
  BY <1>1, <1>3 DEF Describes, FlagsDescribe, RegisterDescribes

-----------------------------------------------------------------------------
(* Statements *)

\* Replacing a component by one that describes its counterpart.
LEMMA UpdatedDescribes ==
  ASSUME NEW g \in ExecutionStates, NEW s \in ExecutionStates, Describes(g, s)
  PROVE  /\ \A gr, r : RegisterDescribes(gr, r) =>
              /\ Describes([g EXCEPT !.a = gr], [s EXCEPT !.a = r])
              /\ Describes([g EXCEPT !.x = gr], [s EXCEPT !.x = r])
              /\ Describes([g EXCEPT !.y = gr], [s EXCEPT !.y = r])
         /\ \A gf, f : FlagsDescribe(gf, f) =>
              /\ Describes([g EXCEPT !.flags = gf], [s EXCEPT !.flags = f])
              /\ Describes([g EXCEPT !.a = UnknownRegister, !.flags = gf],
                           [s EXCEPT !.a = UnknownRegister, !.flags = f])
         /\ \A gk, k : StackDescribes(gk, k) =>
              Describes([g EXCEPT !.stack = gk], [s EXCEPT !.stack = k])
<1>1. RegisterDescribes(UnknownRegister, UnknownRegister)
  BY DEF RegisterDescribes
<1>2. /\ FlagsDescribe(g.flags, s.flags) /\ StackDescribes(g.stack, s.stack)
      /\ RegisterDescribes(g.a, s.a) /\ RegisterDescribes(g.x, s.x)
      /\ RegisterDescribes(g.y, s.y) /\ RegisterDescribes(g.dbr, s.dbr)
  BY DescribedParts
<1>3. ASSUME NEW gr, NEW r, RegisterDescribes(gr, r)
      PROVE  /\ Describes([g EXCEPT !.a = gr], [s EXCEPT !.a = r])
             /\ Describes([g EXCEPT !.x = gr], [s EXCEPT !.x = r])
             /\ Describes([g EXCEPT !.y = gr], [s EXCEPT !.y = r])
  BY <1>2, <1>3, DescribedParts DEF ExecutionStates
<1>4. ASSUME NEW gf, NEW f, FlagsDescribe(gf, f)
      PROVE  /\ Describes([g EXCEPT !.flags = gf], [s EXCEPT !.flags = f])
             /\ Describes([g EXCEPT !.a = UnknownRegister, !.flags = gf],
                          [s EXCEPT !.a = UnknownRegister, !.flags = f])
  BY <1>1, <1>2, <1>4, DescribedParts DEF ExecutionStates
<1>5. ASSUME NEW gk, NEW k, StackDescribes(gk, k)
      PROVE  Describes([g EXCEPT !.stack = gk], [s EXCEPT !.stack = k])
  BY <1>2, <1>5, DescribedParts DEF ExecutionStates
<1>6. QED
  BY <1>3, <1>4, <1>5

\* What is assigned without looking at the old value describes itself.
LEMMA AssignedDescribes ==
  /\ \A r : RegisterDescribes(r, r) /\ RegisterDescribes(UnknownRegister, r)
  /\ \A f \in FlagStates : FlagsDescribe(f, f)
BY MergeFlagsLaws DEF RegisterDescribes, UnknownRegister, FlagsDescribe

LEMMA SteppedDescribes ==
  ASSUME NEW g \in ExecutionStates, NEW s \in ExecutionStates, Describes(g, s), NEW ins,
         ins.mnemonic \in {"inc", "dec", "inx", "dex", "iny", "dey"}
  PROVE  Describes(Stepped(g, ins), Stepped(s, ins))
<1> DEFINE offset == IF ins.mnemonic \in {"dec", "dex", "dey"} THEN -1 ELSE 1
<1>1. /\ RegisterDescribes(AddToRegister(g.a, offset, Mask(g.flags.m)),
                           AddToRegister(s.a, offset, Mask(s.flags.m)))
      /\ RegisterDescribes(AddToRegister(g.x, offset, Mask(g.flags.x)),
                           AddToRegister(s.x, offset, Mask(s.flags.x)))
      /\ RegisterDescribes(AddToRegister(g.y, offset, Mask(g.flags.x)),
                           AddToRegister(s.y, offset, Mask(s.flags.x)))
  BY DescribedParts, AddedDescribes
<1>2. /\ Describes([g EXCEPT !.a = AddToRegister(g.a, offset, Mask(g.flags.m))],
                   [s EXCEPT !.a = AddToRegister(s.a, offset, Mask(s.flags.m))])
      /\ Describes([g EXCEPT !.x = AddToRegister(g.x, offset, Mask(g.flags.x))],
                   [s EXCEPT !.x = AddToRegister(s.x, offset, Mask(s.flags.x))])
      /\ Describes([g EXCEPT !.y = AddToRegister(g.y, offset, Mask(g.flags.x))],
                   [s EXCEPT !.y = AddToRegister(s.y, offset, Mask(s.flags.x))])
  BY <1>1, UpdatedDescribes
<1>3. CASE ins.mode \notin {"acc", "imp"}
  <2>1. Stepped(g, ins) = g /\ Stepped(s, ins) = s
    BY <1>3 DEF Stepped
  <2>2. QED
    BY <2>1
<1>4. CASE ins.mode \in {"acc", "imp"}
  BY <1>2, <1>4 DEF Stepped
<1>5. QED
  BY <1>3, <1>4

LEMMA LoadedDescribes ==
  ASSUME NEW g \in ExecutionStates, NEW s \in ExecutionStates, Describes(g, s), NEW ins,
         ins.mnemonic \in {"lda", "ldx", "ldy"}
  PROVE  Describes(Loaded(g, ins), Loaded(s, ins))
<1> DEFINE r == LoadedRegister(ins.arg)
<1>1. /\ Describes([g EXCEPT !.a = r], [s EXCEPT !.a = r])
      /\ Describes([g EXCEPT !.x = r], [s EXCEPT !.x = r])
      /\ Describes([g EXCEPT !.y = r], [s EXCEPT !.y = r])
  BY UpdatedDescribes, AssignedDescribes
<1>2. CASE ins.mode \notin ImmediateModes
  <2>1. Loaded(g, ins) = g /\ Loaded(s, ins) = s
    BY <1>2 DEF Loaded
  <2>2. QED
    BY <2>1
<1>3. CASE ins.mode \in ImmediateModes
  BY <1>1, <1>3 DEF Loaded
<1>4. QED
  BY <1>2, <1>3

\* The width is one the general state knows, or it abandons the stack.
LEMMA PushedDescribes ==
  ASSUME NEW g \in ExecutionStates, NEW s \in ExecutionStates, Describes(g, s),
         NEW ins, InstructionTypes(ins),
         ins.mnemonic \in {"pea", "pei", "per", "pha", "phx", "phy", "php"}
  PROVE  Describes(Pushed(g, ins), Pushed(s, ins))
<1>1. /\ FlagsDescribe(g.flags, s.flags) /\ StackDescribes(g.stack, s.stack)
      /\ RegisterDescribes(g.a, s.a) /\ RegisterDescribes(g.x, s.x)
      /\ RegisterDescribes(g.y, s.y)
  BY DescribedParts
<1>2. /\ g.flags \in FlagStates /\ s.flags \in FlagStates
      /\ g.stack \in Stacks /\ s.stack \in Stacks
      /\ g.a \in RegisterValues /\ g.x \in RegisterValues /\ g.y \in RegisterValues
      /\ s.a \in RegisterValues /\ s.x \in RegisterValues /\ s.y \in RegisterValues
  BY StateFields
<1>3. /\ BitDescribes(g.flags.m, s.flags.m) /\ BitDescribes(g.flags.x, s.flags.x)
      /\ g.flags.m \in BitStates /\ s.flags.m \in BitStates
      /\ g.flags.x \in BitStates /\ s.flags.x \in BitStates
  BY <1>1, <1>2, FlagsBitwise, FlagFields
<1>4. ASSUME NEW e \in StackEntries, NEW gk \in Stacks, NEW k \in Stacks, StackDescribes(gk, k)
      PROVE  /\ StackDescribes(PushEntry(gk, e), PushEntry(k, e))
             /\ PushEntry(gk, e) \in Stacks /\ PushEntry(k, e) \in Stacks
  BY <1>4, SameEntryDescribes, PushDescribes, PushEntryType
<1>5. StackDescribes(PushUnknownWord(g.stack), PushUnknownWord(s.stack))
  BY <1>1, <1>2, <1>4, UnknownEntryType DEF PushUnknownWord
<1>6. ins.arg # NoValue => StackDescribes(PushWord(g.stack, ins.arg), PushWord(s.stack, ins.arg))
  <2>1. SUFFICES ASSUME ins.arg \in Int
                 PROVE  StackDescribes(PushWord(g.stack, ins.arg), PushWord(s.stack, ins.arg))
    BY DEF InstructionTypes
  <2>2. ByteEntry(ins.arg \div 256) \in StackEntries /\ ByteEntry(ins.arg) \in StackEntries
    BY <2>1, ByteEntryType
  <2>3. QED
    BY <1>1, <1>2, <1>4, <2>2 DEF PushWord
<1>7. /\ StackDescribes(PushReg(g.stack, g.a, g.flags.m, ATypes), PushReg(s.stack, s.a, s.flags.m, ATypes))
      /\ StackDescribes(PushReg(g.stack, g.x, g.flags.x, XTypes), PushReg(s.stack, s.x, s.flags.x, XTypes))
      /\ StackDescribes(PushReg(g.stack, g.y, g.flags.x, YTypes), PushReg(s.stack, s.y, s.flags.x, YTypes))
  <2>1. ATypes \in RegisterKinds /\ XTypes \in RegisterKinds /\ YTypes \in RegisterKinds
    BY DEF RegisterKinds
  <2>2. QED
    BY <1>1, <1>2, <1>3, <2>1, PushRegDescribes
<1>8. StackDescribes(PushEntry(g.stack, FlagsEntry(g.flags)), PushEntry(s.stack, FlagsEntry(s.flags)))
  <2>1. FlagsEntry(g.flags) \in StackEntries /\ FlagsEntry(s.flags) \in StackEntries
    BY <1>2, FlagsEntryType
  <2>2. EntryDescribes(FlagsEntry(g.flags), FlagsEntry(s.flags))
    BY <1>1 DEF EntryDescribes, CanMergeWith, FlagsEntry, FlagsDescribe
  <2>3. QED
    BY <1>1, <1>2, <2>1, <2>2, PushDescribes
<1>9. \A gk, k : StackDescribes(gk, k) => Describes([g EXCEPT !.stack = gk], [s EXCEPT !.stack = k])
  BY UpdatedDescribes
<1>10. CASE (ins.mnemonic = "pea" /\ ins.arg = NoValue) \/ ins.mnemonic \in {"pei", "per"}
  <2>1. /\ Pushed(g, ins) = [g EXCEPT !.stack = PushUnknownWord(g.stack)]
        /\ Pushed(s, ins) = [s EXCEPT !.stack = PushUnknownWord(s.stack)]
    BY <1>10 DEF Pushed
  <2>2. QED
    BY <1>5, <1>9, <2>1
<1>11. CASE ins.mnemonic = "pea" /\ ins.arg # NoValue
  <2>1. /\ Pushed(g, ins) = [g EXCEPT !.stack = PushWord(g.stack, ins.arg)]
        /\ Pushed(s, ins) = [s EXCEPT !.stack = PushWord(s.stack, ins.arg)]
    BY <1>11 DEF Pushed
  <2>2. QED
    BY <1>6, <1>9, <1>11, <2>1
<1>12. CASE ins.mnemonic \in {"pha", "phx", "phy", "php"}
  BY <1>7, <1>8, <1>9, <1>12 DEF Pushed
<1>13. QED
  BY <1>10, <1>11, <1>12

LEMMA CallDescribes ==
  ASSUME NEW g \in ExecutionStates, NEW s \in ExecutionStates, Describes(g, s),
         NEW ins, InstructionTypes(ins)
  PROVE  Describes(Call(g, ins), Call(s, ins))
<1> DEFINE After(es) == IF ins.ret.kind = "yields" THEN ins.ret.flags ELSE es.flags
<1>1. /\ After(g) \in FlagStates /\ After(s) \in FlagStates
      /\ FlagsDescribe(After(g), After(s))
  BY StateFields, DescribedParts, AssignedDescribes DEF InstructionTypes, ReturnConventions
<1>2. /\ Call(g, ins) = [g EXCEPT !.flags = SetCBit(After(g), "unknown")]
      /\ Call(s, ins) = [s EXCEPT !.flags = SetCBit(After(s), "unknown")]
  BY DEF Call
<1> HIDE DEF After
<1>3. FlagsDescribe(SetCBit(After(g), "unknown"), SetCBit(After(s), "unknown"))
  BY <1>1, FlagOperationsDescribe DEF BitStates
<1>4. Describes([g EXCEPT !.flags = SetCBit(After(g), "unknown")],
                [s EXCEPT !.flags = SetCBit(After(s), "unknown")])
  BY <1>3, UpdatedDescribes
<1>5. QED
  BY <1>2, <1>4

LEMMA PullFlagsDescribes ==
  ASSUME NEW g \in ExecutionStates, NEW s \in ExecutionStates, Describes(g, s)
  PROVE  Describes(PullFlags(g), PullFlags(s))
<1> DEFINE gp == PullByte(g.stack)
           p == PullByte(s.stack)
           gf == IF gp.entry.type = "flags" THEN gp.entry.flags ELSE UnknownFlags
           f == IF p.entry.type = "flags" THEN p.entry.flags ELSE UnknownFlags
           gNew == MakeFlags(g.flags.e, gf.m, gf.x, gf.c)
           new == MakeFlags(s.flags.e, f.m, f.x, f.c)
<1>1. /\ StackDescribes(gp.stack, p.stack) /\ EntryDescribes(gp.entry, p.entry)
      /\ gp.entry \in StackEntries /\ p.entry \in StackEntries
  BY StateFields, DescribedParts, PullByteDescribes, PullByteType
<1>2. gp.entry.flags \in FlagStates /\ p.entry.flags \in FlagStates
  BY <1>1 DEF StackEntries
<1>3. gf \in FlagStates /\ f \in FlagStates
  BY <1>2, UnknownFlagsType
<1>4. BitDescribes(gf.m, f.m) /\ BitDescribes(gf.x, f.x) /\ BitDescribes(gf.c, f.c)
  <2>1. CASE gp.entry.type = "flags"
    <3>1. p.entry.type = "flags" /\ FlagsDescribe(gp.entry.flags, p.entry.flags)
      BY <1>1, <2>1 DEF EntryDescribes, FlagsDescribe
    <3>2. QED
      BY <1>2, <2>1, <3>1, FlagsBitwise
  <2>2. CASE gp.entry.type # "flags"
    <3>1. gf.m = "unknown" /\ gf.x = "unknown" /\ gf.c = "unknown"
      BY <2>2 DEF UnknownFlags, MakeFlags, ConstrainedForEBit
    <3>2. QED
      BY <3>1 DEF BitDescribes
  <2>3. QED
    BY <2>1, <2>2
<1>5. BitDescribes(g.flags.e, s.flags.e) /\ g.flags.e \in BitStates /\ s.flags.e \in BitStates
  BY StateFields, DescribedParts, FlagsBitwise, FlagFields
<1>6. /\ gf.m \in BitStates /\ gf.x \in BitStates /\ gf.c \in BitStates
      /\ f.m \in BitStates /\ f.x \in BitStates /\ f.c \in BitStates
  BY <1>3, FlagFields
<1>7. /\ PullFlags(g) = [g EXCEPT !.stack = gp.stack, !.flags = gNew]
      /\ PullFlags(s) = [s EXCEPT !.stack = p.stack, !.flags = new]
  BY DEF PullFlags
<1> HIDE DEF gp, p, gf, f
<1>8. FlagsDescribe(gNew, new)
  BY <1>4, <1>5, <1>6, MadeFlagsDescribe, ZenonT(30)
<1> HIDE DEF gNew, new
<1>9. Describes([g EXCEPT !.stack = gp.stack, !.flags = gNew], [s EXCEPT !.stack = p.stack, !.flags = new])
  BY <1>1, <1>8, DescribedParts DEF ExecutionStates
<1>10. QED
  BY <1>7, <1>9

LEMMA BlockMoveDescribes ==
  ASSUME NEW g \in ExecutionStates, NEW s \in ExecutionStates, Describes(g, s), NEW ins
  PROVE  Describes(BlockMove(g, ins), BlockMove(s, ins))
<1> DEFINE offset == IF ins.mnemonic = "mvn" THEN 1 + ins.arg ELSE -1 - ins.arg
           Moved(es, r) == IF ins.arg = NoValue THEN UnknownRegister
                           ELSE AddToRegister(r, offset, Mask(es.flags.x))
           Count(es) == CASE es.flags.m = "on" -> KnownRegister(255)
                          [] es.flags.m = "off" -> KnownRegister(65535)
                          [] OTHER -> UnknownRegister
<1>1. BitDescribes(g.flags.m, s.flags.m)
  BY StateFields, DescribedParts, FlagsBitwise
<1>2. RegisterDescribes(Count(g), Count(s))
  <2>1. CASE g.flags.m \in {"on", "off"}
    BY <1>1, <2>1, AssignedDescribes DEF BitDescribes
  <2>2. CASE g.flags.m \notin {"on", "off"}
    BY <2>2, AssignedDescribes
  <2>3. QED
    BY <2>1, <2>2
<1>3. RegisterDescribes(Moved(g, g.x), Moved(s, s.x)) /\ RegisterDescribes(Moved(g, g.y), Moved(s, s.y))
  BY DescribedParts, AddedDescribes, AssignedDescribes
<1>4. ASSUME NEW es \in ExecutionStates
      PROVE  BlockMove(es, ins) = [es EXCEPT !.a = Count(es), !.x = Moved(es, es.x),
                                             !.y = Moved(es, es.y), !.dbr = LoadedRegister(ins.arg2)]
  BY DEF BlockMove, ExecutionStates
<1> HIDE DEF Count, Moved
<1>5. Describes([g EXCEPT !.a = Count(g), !.x = Moved(g, g.x), !.y = Moved(g, g.y),
                          !.dbr = LoadedRegister(ins.arg2)],
                [s EXCEPT !.a = Count(s), !.x = Moved(s, s.x), !.y = Moved(s, s.y),
                          !.dbr = LoadedRegister(ins.arg2)])
  BY <1>2, <1>3, DescribedParts, AssignedDescribes DEF ExecutionStates
<1>6. QED
  BY <1>4, <1>5

LEMMA TransferDescribes ==
  ASSUME NEW g \in ExecutionStates, NEW s \in ExecutionStates, Describes(g, s),
         NEW ins, InstructionTypes(ins)
  PROVE  Describes(Transfer(ins, g), Transfer(ins, s))
<1> DEFINE m == ins.mnemonic
<1>1. g.flags \in FlagStates /\ s.flags \in FlagStates /\ FlagsDescribe(g.flags, s.flags)
  BY StateFields, DescribedParts
<1>2. \A c \in BitStates : FlagsDescribe(SetCBit(g.flags, c), SetCBit(s.flags, c))
  BY <1>1, FlagOperationsDescribe
<1>3. \A c \in BitStates :
        /\ Describes([g EXCEPT !.flags = SetCBit(g.flags, c)], [s EXCEPT !.flags = SetCBit(s.flags, c)])
        /\ Describes([g EXCEPT !.a = UnknownRegister, !.flags = SetCBit(g.flags, c)],
                     [s EXCEPT !.a = UnknownRegister, !.flags = SetCBit(s.flags, c)])
  BY <1>2, UpdatedDescribes
<1>4. /\ Describes([g EXCEPT !.flags = UpdateStatus(g.flags, "off", ins.arg)],
                   [s EXCEPT !.flags = UpdateStatus(s.flags, "off", ins.arg)])
      /\ Describes([g EXCEPT !.flags = UpdateStatus(g.flags, "on", ins.arg)],
                   [s EXCEPT !.flags = UpdateStatus(s.flags, "on", ins.arg)])
      /\ Describes([g EXCEPT !.flags = ExchangeCE(g.flags)], [s EXCEPT !.flags = ExchangeCE(s.flags)])
  BY <1>1, FlagOperationsDescribe, UpdatedDescribes
<1>5. Describes([g EXCEPT !.a = UnknownRegister], [s EXCEPT !.a = UnknownRegister])
  BY AssignedDescribes, UpdatedDescribes
<1>6. m \in {"inc", "dec", "inx", "dex", "iny", "dey"} => Describes(Stepped(g, ins), Stepped(s, ins))
  BY SteppedDescribes
<1>7. m \in {"lda", "ldx", "ldy"} => Describes(Loaded(g, ins), Loaded(s, ins))
  BY LoadedDescribes
<1>8. m \in {"pea", "pei", "per", "pha", "phx", "phy", "php"} => Describes(Pushed(g, ins), Pushed(s, ins))
  BY PushedDescribes
<1>9. /\ Describes(BlockMove(g, ins), BlockMove(s, ins))
      /\ Describes(PullFlags(g), PullFlags(s))
      /\ Describes(Call(g, ins), Call(s, ins))
  BY BlockMoveDescribes, PullFlagsDescribes, CallDescribes
<1>10. "on" \in BitStates /\ "off" \in BitStates /\ "unknown" \in BitStates
  BY DEF BitStates
<1> DEFINE Tracked == {"sec", "bcc", "clc", "bcs", "rep", "sep", "cmp", "cpx", "cpy", "and", "eor", "ora",
                       "inc", "dec", "inx", "dex", "iny", "dey", "lda", "ldx", "ldy", "mvn", "mvp",
                       "pea", "pei", "per", "pha", "phx", "phy", "php", "plp", "xce",
                       "jmp", "jsl", "jsr", "brk", "cop"} \cup WipesAccumulatorAndCarry
<1>11. ASSUME NEW es
       PROVE  /\ m \in {"sec", "bcc"} => Transfer(ins, es) = [es EXCEPT !.flags = SetCBit(es.flags, "on")]
              /\ m \in {"clc", "bcs"} => Transfer(ins, es) = [es EXCEPT !.flags = SetCBit(es.flags, "off")]
              /\ m = "rep" => Transfer(ins, es) = [es EXCEPT !.flags = UpdateStatus(es.flags, "off", ins.arg)]
              /\ m = "sep" => Transfer(ins, es) = [es EXCEPT !.flags = UpdateStatus(es.flags, "on", ins.arg)]
              /\ m \in WipesAccumulatorAndCarry =>
                   Transfer(ins, es) = [es EXCEPT !.a = UnknownRegister, !.flags = SetCBit(es.flags, "unknown")]
              /\ m \in {"cmp", "cpx", "cpy"} =>
                   Transfer(ins, es) = [es EXCEPT !.flags = SetCBit(es.flags, "unknown")]
              /\ m \in {"and", "eor", "ora"} => Transfer(ins, es) = [es EXCEPT !.a = UnknownRegister]
  BY DEF Transfer, WipesAccumulatorAndCarry
<1>12. ASSUME NEW es
       PROVE  /\ m \in {"inc", "dec", "inx", "dex", "iny", "dey"} => Transfer(ins, es) = Stepped(es, ins)
              /\ m \in {"lda", "ldx", "ldy"} => Transfer(ins, es) = Loaded(es, ins)
              /\ m \in {"mvn", "mvp"} => Transfer(ins, es) = BlockMove(es, ins)
              /\ m \in {"pea", "pei", "per", "pha", "phx", "phy", "php"} => Transfer(ins, es) = Pushed(es, ins)
              /\ m = "plp" => Transfer(ins, es) = PullFlags(es)
              /\ m = "xce" => Transfer(ins, es) = [es EXCEPT !.flags = ExchangeCE(es.flags)]
              /\ m \in {"jmp", "jsl", "jsr", "brk", "cop"} => Transfer(ins, es) = Call(es, ins)
              /\ m \notin Tracked => Transfer(ins, es) = es
  BY DEF Transfer, WipesAccumulatorAndCarry
<1>13. CASE m \in {"sec", "bcc"}
  BY <1>3, <1>10, <1>11, <1>13
<1>14. CASE m \in {"clc", "bcs"}
  BY <1>3, <1>10, <1>11, <1>14
<1>15. CASE m \in {"rep", "sep"}
  BY <1>4, <1>11, <1>15
<1>16. CASE m \in WipesAccumulatorAndCarry
  BY <1>3, <1>10, <1>11, <1>16
<1>17. CASE m \in {"cmp", "cpx", "cpy"}
  BY <1>3, <1>10, <1>11, <1>17
<1>18. CASE m \in {"and", "eor", "ora"}
  BY <1>5, <1>11, <1>18
<1>19. CASE m \in {"inc", "dec", "inx", "dex", "iny", "dey"}
  BY <1>6, <1>12, <1>19
<1>20. CASE m \in {"lda", "ldx", "ldy"}
  BY <1>7, <1>12, <1>20
<1>21. CASE m \in {"pea", "pei", "per", "pha", "phx", "phy", "php"}
  BY <1>8, <1>12, <1>21
<1>22. CASE m \in {"mvn", "mvp"}
  BY <1>9, <1>12, <1>22
<1>23. CASE m \in {"jmp", "jsl", "jsr", "brk", "cop"}
  BY <1>9, <1>12, <1>23
<1>24. CASE m \in {"plp", "xce"}
  BY <1>4, <1>9, <1>12, <1>24
<1>25. CASE m \notin Tracked
  BY <1>12, <1>25
<1>26. QED
  BY <1>13, <1>14, <1>15, <1>16, <1>17, <1>18, <1>19, <1>20, <1>21, <1>22, <1>23, <1>24, <1>25

LEMMA PullRegisterDescribes ==
  ASSUME NEW g \in ExecutionStates, NEW s \in ExecutionStates, Describes(g, s),
         NEW ins, ins.mnemonic \in {"pla", "plx", "ply"}, ~PullRegister(ins, g).crash
  PROVE  Describes(PullRegister(ins, g).state, PullRegister(ins, s).state)
<1>1. /\ FlagsDescribe(g.flags, s.flags) /\ StackDescribes(g.stack, s.stack)
      /\ RegisterDescribes(g.a, s.a) /\ RegisterDescribes(g.x, s.x)
      /\ RegisterDescribes(g.y, s.y) /\ RegisterDescribes(g.dbr, s.dbr)
      /\ g.stack \in Stacks /\ s.stack \in Stacks
      /\ g.flags \in FlagStates /\ s.flags \in FlagStates
  BY DescribedParts, StateFields
<1>2. /\ BitDescribes(g.flags.m, s.flags.m) /\ BitDescribes(g.flags.x, s.flags.x)
      /\ g.flags.m \in BitStates /\ s.flags.m \in BitStates
      /\ g.flags.x \in BitStates /\ s.flags.x \in BitStates
  BY <1>1, FlagsBitwise, FlagFields
<1>3. ATypes \in RegisterKinds /\ XTypes \in RegisterKinds /\ YTypes \in RegisterKinds
  BY DEF RegisterKinds
<1> DEFINE Pull(es, bit, types) == PullReg(es.stack, bit, types)
<1>4. ASSUME NEW gb \in BitStates, NEW b \in BitStates, BitDescribes(gb, b),
             NEW types \in RegisterKinds, ~Pull(g, gb, types).crash
      PROVE  /\ StackDescribes(Pull(g, gb, types).stack, Pull(s, b, types).stack)
             /\ RegisterDescribes(Pull(g, gb, types).reg, Pull(s, b, types).reg)
  BY <1>1, <1>4, PullRegDescribes
<1>5. CASE ins.mnemonic = "pla"
  <2> DEFINE gp == Pull(g, g.flags.m, ATypes)
             p == Pull(s, s.flags.m, ATypes)
  <2>1. /\ PullRegister(ins, g) = [crash |-> gp.crash, state |-> [g EXCEPT !.a = gp.reg, !.stack = gp.stack]]
        /\ PullRegister(ins, s) = [crash |-> p.crash, state |-> [s EXCEPT !.a = p.reg, !.stack = p.stack]]
    BY <1>5 DEF PullRegister
  <2>2. StackDescribes(gp.stack, p.stack) /\ RegisterDescribes(gp.reg, p.reg)
    BY <1>2, <1>3, <1>4, <2>1
  <2> HIDE DEF gp, p
  <2>3. Describes([g EXCEPT !.a = gp.reg, !.stack = gp.stack], [s EXCEPT !.a = p.reg, !.stack = p.stack])
    BY <1>1, <2>2, DescribedParts DEF ExecutionStates
  <2>4. QED
    BY <2>1, <2>3
<1>6. CASE ins.mnemonic = "plx"
  <2> DEFINE gp == Pull(g, g.flags.x, XTypes)
             p == Pull(s, s.flags.x, XTypes)
  <2>1. /\ PullRegister(ins, g) = [crash |-> gp.crash, state |-> [g EXCEPT !.x = gp.reg, !.stack = gp.stack]]
        /\ PullRegister(ins, s) = [crash |-> p.crash, state |-> [s EXCEPT !.x = p.reg, !.stack = p.stack]]
    BY <1>6 DEF PullRegister
  <2>2. StackDescribes(gp.stack, p.stack) /\ RegisterDescribes(gp.reg, p.reg)
    BY <1>2, <1>3, <1>4, <2>1
  <2> HIDE DEF gp, p
  <2>3. Describes([g EXCEPT !.x = gp.reg, !.stack = gp.stack], [s EXCEPT !.x = p.reg, !.stack = p.stack])
    BY <1>1, <2>2, DescribedParts DEF ExecutionStates
  <2>4. QED
    BY <2>1, <2>3
<1>7. CASE ins.mnemonic = "ply"
  <2> DEFINE gp == Pull(g, g.flags.x, YTypes)
             p == Pull(s, s.flags.x, YTypes)
  <2>1. /\ PullRegister(ins, g) = [crash |-> gp.crash, state |-> [g EXCEPT !.y = gp.reg, !.stack = gp.stack]]
        /\ PullRegister(ins, s) = [crash |-> p.crash, state |-> [s EXCEPT !.y = p.reg, !.stack = p.stack]]
    BY <1>7 DEF PullRegister
  <2>2. StackDescribes(gp.stack, p.stack) /\ RegisterDescribes(gp.reg, p.reg)
    BY <1>2, <1>3, <1>4, <2>1
  <2> HIDE DEF gp, p
  <2>3. Describes([g EXCEPT !.y = gp.reg, !.stack = gp.stack], [s EXCEPT !.y = p.reg, !.stack = p.stack])
    BY <1>1, <2>2, DescribedParts DEF ExecutionStates
  <2>4. QED
    BY <2>1, <2>3
<1>8. QED
  BY <1>5, <1>6, <1>7

\* Execute is monotone, where it accepts the instruction in both states.
LEMMA ExecuteDescribes ==
  ASSUME NEW g \in ExecutionStates, NEW s \in ExecutionStates, Describes(g, s),
         NEW ins, InstructionTypes(ins),
         Execute(ins, g).result = "ok", Execute(ins, s).result = "ok"
  PROVE  Describes(Execute(ins, g).state, Execute(ins, s).state)
<1>1. CheckConsistency(ins, g.flags) /\ CheckConsistency(ins, s.flags)
  BY AcceptedIsConsistent
<1>2. CASE ins.mnemonic \in {"pla", "plx", "ply"}
  <2>1. ASSUME NEW es, CheckConsistency(ins, es.flags)
        PROVE  /\ Execute(ins, es).state = PullRegister(ins, es).state
               /\ Execute(ins, es).result = IF PullRegister(ins, es).crash THEN "crash" ELSE "ok"
    BY <1>2, <2>1 DEF Execute
  <2>2. ~PullRegister(ins, g).crash
    BY <1>1, <2>1
  <2>3. Describes(PullRegister(ins, g).state, PullRegister(ins, s).state)
    BY <1>2, <2>2, PullRegisterDescribes
  <2>4. QED
    BY <1>1, <2>1, <2>3
<1>3. CASE ins.mnemonic \notin {"pla", "plx", "ply"}
  <2>1. ASSUME NEW es, CheckConsistency(ins, es.flags)
        PROVE  Execute(ins, es).state = Transfer(ins, es)
    BY <1>3, <2>1 DEF Execute
  <2>2. QED
    BY <1>1, <2>1, TransferDescribes
<1>4. QED
  BY <1>2, <1>3

LEMMA StatementDescribes ==
  ASSUME NEW g \in ExecutionStates, NEW s \in ExecutionStates, Describes(g, s), NEW st \in Statements,
         ExecuteStatement(st, g).result = "ok", ExecuteStatement(st, s).result = "ok"
  PROVE  /\ Describes(ExecuteStatement(st, g).state, ExecuteStatement(st, s).state)
         /\ IsInstruction(st) => Describes(ExecuteBranch(st, g).state, ExecuteBranch(st, s).state)
<1>1. InstructionTypes(st) /\ st.flags \in FlagStates
  BY StatementTypes
<1>2. CASE IsInstruction(st)
  <2>1. Execute(st, g).result = "ok" /\ Execute(st, s).result = "ok"
    BY <1>2 DEF ExecuteStatement
  <2> DEFINE gDone == Execute(st, g).state
             done == Execute(st, s).state
  <2>2. Describes(gDone, done)
    BY <1>1, <2>1, ExecuteDescribes
  <2>3. gDone \in ExecutionStates /\ done \in ExecutionStates
    BY <1>1, ExecuteType
  <2>4. ExecuteBranch(st, g).state = BranchCarry(st, gDone) /\ ExecuteBranch(st, s).state = BranchCarry(st, done)
    BY DEF ExecuteBranch, Execute
  <2>5. ExecuteStatement(st, g).state = gDone /\ ExecuteStatement(st, s).state = done
    BY <1>2 DEF ExecuteStatement
  <2> HIDE DEF gDone, done
  <2>6. \A c \in BitStates : FlagsDescribe(SetCBit(gDone.flags, c), SetCBit(done.flags, c))
    BY <2>2, <2>3, StateFields, DescribedParts, FlagOperationsDescribe
  <2>7. \A c \in BitStates : Describes([gDone EXCEPT !.flags = SetCBit(gDone.flags, c)],
                                       [done EXCEPT !.flags = SetCBit(done.flags, c)])
    BY <2>2, <2>3, <2>6, UpdatedDescribes
  <2>8. Describes(BranchCarry(st, gDone), BranchCarry(st, done))
    <3>1. CASE st.mnemonic \notin {"bcc", "bcs"}
      <4>1. BranchCarry(st, gDone) = gDone /\ BranchCarry(st, done) = done
        BY <3>1 DEF BranchCarry
      <4>2. QED
        BY <2>2, <4>1
    <3>2. CASE st.mnemonic \in {"bcc", "bcs"}
      BY <2>7, <3>2 DEF BranchCarry, BitStates
    <3>3. QED
      BY <3>1, <3>2
  <2>9. QED
    BY <2>2, <2>4, <2>5, <2>8
<1>3. CASE ~IsInstruction(st)
  <2>1. Describes([g EXCEPT !.flags = st.flags], [s EXCEPT !.flags = st.flags])
    BY <1>1, AssignedDescribes, UpdatedDescribes
  <2>2. \A es : ExecuteStatement(st, es) = ExecuteDirective(st, es)
    BY <1>3 DEF ExecuteStatement
  <2>3. CASE st.name \in DataDirectives \cup {"org"}
    <3>1. ExecuteDirective(st, g) = [result |-> "error", state |-> g]
      BY <2>3 DEF ExecuteDirective, DataDirectives
    <3>2. ExecuteStatement(st, g).result = "error"
      BY <2>2, <3>1
    <3>3. QED
      BY <3>2
  <2>4. CASE st.name = "mode"
    <3>1. \A es : ExecuteDirective(st, es).state = [es EXCEPT !.flags = st.flags]
      BY <2>4 DEF ExecuteDirective, DataDirectives
    <3>2. QED
      BY <1>3, <2>1, <2>2, <3>1
  <2>5. CASE st.name \notin DataDirectives \cup {"org", "mode"}
    <3>1. \A es : ExecuteDirective(st, es).state = es
      BY <2>5 DEF ExecuteDirective
    <3>2. QED
      BY <1>3, <2>2, <3>1
  <2>6. QED
    BY <2>3, <2>4, <2>5
<1>4. QED
  BY <1>2, <1>3

\* A width that is right in the recorded flags is right in all they describe.
LEMMA ImmediateDescribed ==
  ASSUME NEW g \in FlagStates, NEW f \in FlagStates, FlagsDescribe(g, f),
         NEW ins, ImmediateAgrees(ins, g)
  PROVE  ImmediateAgrees(ins, f)
<1>1. BitDescribes(g.m, f.m) /\ BitDescribes(g.x, f.x)
  BY FlagsBitwise
<1>2. /\ g.m \in {"on", "off"} => f.m = g.m
      /\ g.x \in {"on", "off"} => f.x = g.x
  BY <1>1 DEF BitDescribes
<1>3. QED
  BY <1>2 DEF ImmediateAgrees

-----------------------------------------------------------------------------
(* Paths.  The walker sets out when the pass is over, so that every state  *)
(* on its path is described by induction along the path.                   *)

PathInv ==
  /\ TypeInv /\ FlowInv /\ ForwardInv
  /\ at # NoLine => phase = "ok"
  /\ path \in ExecutionStates
  /\ at # NoLine /\ JoinsCoverPaths /\ EntriesCovered =>
       at \in DOMAIN incoming /\ Describes(incoming[at], path)

\* After the pass every join is in its final state, which the walker meets.
LEMMA RecordedEdges ==
  ASSUME TypeInv, FlowInv, ForwardInv, phase = "ok", JoinsCoverPaths, NEW l \in DOMAIN incoming
  PROVE  /\ ExecuteStatement(lines[l], incoming[l]).result = "ok"
         /\ ~IsExit(lines[l]) =>
              /\ l + 1 \in DOMAIN incoming
              /\ Covers(incoming[l + 1], ExecuteStatement(lines[l], incoming[l]).state)
         /\ IsBranch(lines[l]) =>
              /\ lines[l].target \in DOMAIN incoming
              /\ Covers(incoming[lines[l].target], ExecuteBranch(lines[l], incoming[l]).state)
<1>1. Running /\ DOMAIN decodeStack = {}
  BY DEF Running, FlowInv, WorklistEmptied
<1>2. ExecuteStatement(lines[l], incoming[l]).result = "ok"
  BY <1>1 DEF ForwardInv, ReachedAccepted
<1>3. \A next \in Successors(l) :
        /\ next \in DOMAIN incoming
        /\ \A es \in Arriving(l, next) : Covers(incoming[next], es)
  BY <1>1 DEF FlowInv, NoPathMissed, JoinsCoverPaths
<1>4. ASSUME ~IsExit(lines[l])
      PROVE  l + 1 \in Successors(l) /\ ExecuteStatement(lines[l], incoming[l]).state \in Arriving(l, l + 1)
  BY <1>4 DEF Successors, Arriving
<1>5. ASSUME IsBranch(lines[l])
      PROVE  /\ lines[l].target \in Successors(l)
             /\ ExecuteBranch(lines[l], incoming[l]).state \in Arriving(l, lines[l].target)
  BY <1>5 DEF Successors, Arriving
<1>6. QED
  BY <1>2, <1>3, <1>4, <1>5

LEMMA RunDescribes ==
  ASSUME PathInv, CanRun, JoinsCoverPaths, EntriesCovered, NEW next, NEW done, next # NoLine,
         \/ /\ ~IsExit(lines[at]) /\ next = at + 1
            /\ done = ExecuteStatement(lines[at], path).state
         \/ /\ IsBranch(lines[at]) /\ next = lines[at].target
            /\ done = ExecuteBranch(lines[at], path).state
  PROVE  next \in DOMAIN incoming /\ Describes(incoming[next], done)
<1>1. /\ at \in Lines /\ phase = "ok" /\ path \in ExecutionStates
      /\ ExecuteStatement(lines[at], path).result = "ok"
      /\ TypeInv /\ FlowInv /\ ForwardInv
  BY DEF CanRun, PathInv
<1>2. at # NoLine /\ lines[at] \in Statements
  BY <1>1, LineTypes DEF Lines, NoLine
<1>3. at \in DOMAIN incoming /\ Describes(incoming[at], path)
  BY <1>2 DEF PathInv
<1>4. \A l \in DOMAIN incoming : incoming[l] \in ExecutionStates
  BY <1>1 DEF TypeInv, TypeOK
<1> DEFINE recorded == IF ~IsExit(lines[at]) /\ next = at + 1 /\ done = ExecuteStatement(lines[at], path).state
                         THEN ExecuteStatement(lines[at], incoming[at]).state
                         ELSE ExecuteBranch(lines[at], incoming[at]).state
<1>5. /\ next \in DOMAIN incoming
      /\ Covers(incoming[next], recorded)
  BY <1>1, <1>3, RecordedEdges
<1>6. ExecuteStatement(lines[at], incoming[at]).result = "ok"
  BY <1>1, <1>3, RecordedEdges
<1>7. Describes(recorded, done)
  BY <1>1, <1>2, <1>3, <1>4, <1>6, StatementDescribes DEF IsBranch
<1>8. recorded \in ExecutionStates /\ done \in ExecutionStates
  BY <1>1, <1>2, <1>3, <1>4, ExecuteStatementType
<1> HIDE DEF recorded
<1>9. Describes(incoming[next], recorded)
  BY <1>4, <1>5, <1>8, CoversDescribes
<1>10. QED
  BY <1>4, <1>5, <1>7, <1>8, <1>9, DescribesTransitive

LEMMA InitPath == PathInit => PathInv
<1> SUFFICES ASSUME PathInit
             PROVE  PathInv
  OBVIOUS
<1>1. TypeInv /\ FlowInv /\ ForwardInv
  BY InitTypes, InitFlow, InitForward DEF PathInit
<1>2. path \in ExecutionStates
  BY UnknownFlagsType, IncomingStateType DEF PathInit
<1>3. QED
  BY <1>1, <1>2 DEF PathInit, PathInv

\* While the walker is on its path nothing of the pass moves.
LEMMA WalkKeepsPass ==
  ASSUME PathInv, UNCHANGED vars
  PROVE  /\ (TypeInv /\ FlowInv /\ ForwardInv)'
         /\ incoming' = incoming /\ phase' = phase
         /\ JoinsCoverPaths' = JoinsCoverPaths /\ EntriesCovered' = EntriesCovered
<1>1. (TypeInv /\ FlowInv /\ ForwardInv)'
  BY NextTypes, NextFlow, NextForward DEF PathInv
<1>2. incoming' = incoming /\ phase' = phase /\ lines' = lines /\ decodeStack' = decodeStack
  BY DEF vars
<1>3. JoinsCoverPaths' = JoinsCoverPaths /\ EntriesCovered' = EntriesCovered
  BY <1>2 DEF JoinsCoverPaths, EntriesCovered, Successors, Arriving, Lines
<1>4. QED
  BY <1>1, <1>2, <1>3

LEMMA NextPath ==
  ASSUME PathInv, [PathNext]_pathVars
  PROVE  PathInv'
<1>1. CASE UNCHANGED vars /\ UNCHANGED <<at, path>>
  BY <1>1, WalkKeepsPass DEF PathInv
<1>2. CASE Assembling
  <2>1. CASE at # NoLine
    <3>1. phase = "ok"
      BY <2>1 DEF PathInv
    <3>2. UNCHANGED vars
      BY <1>2, <3>1 DEF Assembling, Next, PastEnd, Revisit, Visit, AnalysisDone, FixLine, FixDone,
         PlaceLine, PlaceDone, Finished
    <3>3. QED
      BY <1>1, <1>2, <3>2 DEF Assembling
  <2>2. CASE at = NoLine
    <3>1. (TypeInv /\ FlowInv /\ ForwardInv)'
      BY <1>2, NextTypes, NextFlow, NextForward DEF PathInv, Assembling
    <3>2. QED
      BY <1>2, <2>2, <3>1 DEF PathInv, Assembling
  <2>3. QED
    BY <2>1, <2>2
<1>3. CASE Enter
  <2>1. PICK i \in Lines : /\ IsDirective(lines[i], "entry")
                           /\ at' = i + 1 /\ path' = IncomingState(lines[i].flags)
    BY <1>3 DEF Enter
  <2>2. phase = "ok" /\ UNCHANGED vars
    BY <1>3 DEF Enter
  <2>3. path' \in ExecutionStates
    BY <2>1, LineTypes, StatementTypes, IncomingStateType DEF PathInv
  <2>4. EntriesCovered => at' \in DOMAIN incoming /\ Describes(incoming[at'], path')
    <3>1. EntriesCovered => at' \in DOMAIN incoming /\ Covers(incoming[at'], path')
      BY <2>1 DEF EntriesCovered
    <3>2. \A l \in DOMAIN incoming : incoming[l] \in ExecutionStates
      BY DEF PathInv, TypeInv, TypeOK
    <3>3. QED
      BY <2>3, <3>1, <3>2, CoversDescribes
  <2>5. QED
    BY <2>2, <2>3, <2>4, WalkKeepsPass DEF PathInv
<1>4. CASE FallThrough \/ TakeBranch
  <2>1. /\ CanRun /\ UNCHANGED vars
        /\ \/ /\ ~IsExit(lines[at]) /\ at' = at + 1
              /\ path' = ExecuteStatement(lines[at], path).state
           \/ /\ IsBranch(lines[at]) /\ at' = lines[at].target
              /\ path' = ExecuteBranch(lines[at], path).state
    BY <1>4 DEF FallThrough, TakeBranch
  <2>2. path' \in ExecutionStates
    BY <2>1, LineTypes, ExecuteStatementType DEF PathInv, CanRun
  <2>3. at' # NoLine /\ JoinsCoverPaths /\ EntriesCovered =>
          at' \in DOMAIN incoming /\ Describes(incoming[at'], path')
    BY <2>1, RunDescribes
  <2>4. phase = "ok"
    BY <2>1 DEF CanRun
  <2>5. QED
    BY <2>1, <2>2, <2>3, <2>4, WalkKeepsPass DEF PathInv
<1>5. QED
  BY <1>1, <1>2, <1>3, <1>4 DEF PathNext, pathVars, vars

\* What is recorded for a described path is right about its widths.
LEMMA DescribedWidths ==
  ASSUME PathInv, at # NoLine, at \in DOMAIN incoming, Describes(incoming[at], path)
  PROVE  WidthsAgree
<1> SUFFICES ASSUME at \in Lines, IsInstruction(lines[at])
             PROVE  ImmediateAgrees(lines[at], path.flags)
  BY DEF WidthsAgree
<1>1. Running
  BY DEF PathInv, Running
<1>2. ExecuteStatement(lines[at], incoming[at]).result = "ok" /\ incoming[at] \in ExecutionStates
  BY <1>1 DEF PathInv, ForwardInv, ReachedAccepted, TypeInv, TypeOK
<1>3. Execute(lines[at], incoming[at]).result = "ok"
  BY <1>2 DEF ExecuteStatement
<1>4. ImmediateAgrees(lines[at], incoming[at].flags)
  BY <1>3, AcceptedIsConsistent DEF CheckConsistency
<1>5. /\ incoming[at].flags \in FlagStates /\ path.flags \in FlagStates
      /\ FlagsDescribe(incoming[at].flags, path.flags)
  BY <1>2, StateFields, DescribedParts DEF PathInv
<1>6. QED
  BY <1>4, <1>5, ImmediateDescribed

\* Where the recorded states are a fixed point of the control flow they
\* describe the state of every path, and no path meets an immediate argument
\* of the wrong width (what RunFirstPass runs Execute for).
THEOREM FixedPointsDescribePaths == PathSpec => []FixedPointCoversEveryPath
<1>1. PathInv => FixedPointCoversEveryPath
  BY DescribedWidths DEF PathInv, FixedPointCoversEveryPath
<1>2. QED
  BY <1>1, InitPath, NextPath, PTL DEF PathSpec

\* Without backward branches the recorded states are such a fixed point.
ForwardPathsDescribed ==
  at # NoLine /\ ForwardOnly => at \in DOMAIN incoming /\ Describes(incoming[at], path) /\ WidthsAgree

\* So in a module without backward branches the widths the first pass decides
\* are right on every path through it.
THEOREM ForwardPathsAreRight == PathSpec => []ForwardPathsDescribed
<1>1. ASSUME PathInv, at # NoLine, ForwardOnly
      PROVE  JoinsCoverPaths /\ EntriesCovered
  <2>1. /\ TypeInv /\ FlowInv /\ ForwardInv
        /\ phase = "ok" /\ Running /\ DOMAIN decodeStack = {}
    BY <1>1 DEF PathInv, Running, FlowInv, WorklistEmptied
  <2>2. JoinsCoverPaths /\ EntriesHeld
    BY <1>1, <2>1 DEF ForwardInv
  <2>3. \A i \in Lines : IsDirective(lines[i], "entry") => i + 1 \in DOMAIN incoming
    BY <2>1 DEF FlowInv, NoPathMissed
  <2>4. QED
    BY <2>1, <2>2, <2>3 DEF EntriesHeld, Held, EntriesCovered
<1>2. PathInv => ForwardPathsDescribed
  <2>1. SUFFICES ASSUME PathInv, at # NoLine, ForwardOnly
                 PROVE  at \in DOMAIN incoming /\ Describes(incoming[at], path) /\ WidthsAgree
    BY DEF ForwardPathsDescribed
  <2>2. at \in DOMAIN incoming /\ Describes(incoming[at], path)
    BY <1>1, <2>1 DEF PathInv
  <2>3. QED
    BY <2>1, <2>2, DescribedWidths
<1>3. QED
  BY <1>2, InitPath, NextPath, PTL DEF PathSpec

=============================================================================
