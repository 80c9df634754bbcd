----------------------------- MODULE SourceText -----------------------------
(***************************************************************************)
(* Loading with the parser of parse.cc: what the text of a file says, read *)
(* from its tokens in other ways than the parser does, and that loading    *)
(* keeps it.                                                               *)
(***************************************************************************)
EXTENDS Parser, Loading

-----------------------------------------------------------------------------
(* The file read without the grammar: what its labels and statements are,  *)
(* from the kinds of its tokens and their neighbours.                      *)

IsLabelAt(ts, i) ==
  /\ ts[i].kind = "id"
  /\ i > 1 => ts[i - 1] \in {Punct(":"), Punct("{"), Punct("}"), Punct("export")}
IsStatementAt(ts, i) == ts[i].kind \in {"mnem", "dir"} \/ ts[i] \in {Punct("{"), Punct("}")}

\* A colon that ends neither a label nor a statement.
IsLoneColon(ts, i) ==
  ts[i] = Punct(":") /\ (i = 1 \/ ts[i - 1] \in {Punct(":"), Punct("{"), Punct("}")})

\* What follows a lone colon on its line is not read.
IsReadAt(ts, i) == \A j \in 1 .. i : ~IsLoneColon(ts, j)

Mark(kind, name, exported) == [kind |-> kind, name |-> name, exported |-> exported]

MarkAt(ts, i) ==
  CASE IsLabelAt(ts, i) -> <<Mark("label", ts[i].v, i > 1 /\ ts[i - 1] = Punct("export"))>>
    [] IsStatementAt(ts, i) ->
         <<Mark("statement", CASE ts[i].v = "{" -> "begin" [] ts[i].v = "}" -> "end" [] OTHER -> ts[i].v,
                FALSE)>>
    [] OTHER -> << >>

Marks == FlattenSeq([n \in DOMAIN file |->
           FlattenSeq([i \in DOMAIN file[n] |->
             IF IsReadAt(file[n], i) THEN MarkAt(file[n], i) ELSE << >>])])

-----------------------------------------------------------------------------
(* Properties *)

\* Every label and statement of an accepted file is kept, in order: the
\* labels before a statement are on its line, whatever lines of text and
\* braces are between.  Two things are lost without a word: what follows a
\* lone colon on its line, and labels after the last statement, which stay
\* in pending_labels.
NothingLost ==
  LET Kept(line) == Append(line.labels, Mark("statement", line.statement.name, FALSE))
  IN  status = "loaded" =>
        Marks = FlattenSeq([i \in DOMAIN lines |-> Kept(lines[i])]) \o pendingLabels

\* How the disassembler prints an opcode with a decoded argument.
PrintedForm(opcode, number, name, width) ==
  LET row == DecodeOpcode(opcode)
      IsNamed == row[2] \in {"rel8", "rel16"} /\ row[1] # "per"
      Argument(n) == IF IsNamed THEN <<Token("id", name)>>
                     ELSE <<Number(n, IF row[2] \in SizedImmediate THEN width ELSE Arg1Type(row[2]))>>
  IN  <<Token("mnem", row[1])>> \o PrintedOperand(row[2], Argument(number), Argument(number))
        \o <<EndOfLine>>

\* DeduceMode and the opcode table agree: an accepted operand has an opcode,
\* and the form an opcode is printed in is accepted and has that opcode's
\* mode.  Only the number that per is printed with is not.
ModesAgreeWithTable ==
  /\ \A i \in DOMAIN lines : lines[i].statement.kind = "instruction" =>
       IsLegalCombination(EffectiveMnemonic(lines[i].statement.name), lines[i].statement.mode)
  /\ lineNumber > 0 =>
       \A opcode \in {o \in 0 .. 255 : Token("mnem", DecodeOpcode(o)[1]) = file[lineNumber][1]} :
         file[lineNumber] \in {PrintedForm(opcode, 5, "x", width) : width \in {TByte, TWord}} =>
           LET parsed == Parse(file[lineNumber])
           IN  IF DecodeOpcode(opcode)[1] = "per" THEN ~parsed.ok
               ELSE parsed.ok /\ parsed.value[1].mode = DecodeOpcode(opcode)[2]

-----------------------------------------------------------------------------
(* What an expression means, found by splitting it at its last + or - that  *)
(* is in no parenthesis, or else at its last * or /.                        *)

Depth(ts, i) ==
  Cardinality({j \in 1 .. i : ts[j] = Punct("(")}) - Cardinality({j \in 1 .. i : ts[j] = Punct(")")})
EndsOperand(t) == t.kind \in {"lit", "id"} \/ t = Punct(")")

BinaryAt(ts, ops) ==
  {i \in 2 .. Len(ts) : /\ \E op \in ops : ts[i] = Punct(op)
                        /\ Depth(ts, i) = 0 /\ EndsOperand(ts[i - 1])}

NoMeaning == [syntax |-> FALSE]
Meaning(value, type) == [syntax |-> TRUE, value |-> value, type |-> type]

Combined(lhs, op, rhs) ==
  IF ~lhs.syntax \/ ~rhs.syntax THEN NoMeaning
  ELSE Meaning(IF lhs.value.ok /\ rhs.value.ok
                 THEN BinaryFunction(op, lhs.value.value, rhs.value.value) ELSE Undefined,
               ArithmeticConversion(lhs.type, rhs.type))

Applied(op, arg) ==
  IF ~arg.syntax THEN NoMeaning
  ELSE Meaning(IF arg.value.ok THEN Defined(UnaryFunction(op, arg.value.value)) ELSE Undefined,
               IF op = "neg" THEN SignedType(arg.type) ELSE TByte)

IsReference(ts) ==
  CASE Len(ts) = 1 -> IsKind(ts, "id")
    [] Len(ts) = 2 -> Is(ts, "::") /\ IsKind(Tail(ts), "id")
    [] Len(ts) = 3 -> IsKind(ts, "id") /\ Is(Tail(ts), "::") /\ IsKind(Drop(ts, 2), "id")
    [] OTHER -> FALSE

Referenced(ts) ==
  Identifier(CASE Len(ts) = 1 -> NoModule [] Len(ts) = 2 -> "" [] OTHER -> ts[1].v, Last(ts).v)

RECURSIVE MeaningOf(_, _)
MeaningOf(ts, names) ==
  LET sums == BinaryAt(ts, {"+", "-"})
      splits == IF sums # {} THEN sums ELSE BinaryAt(ts, {"*", "/"})
      Valued(id) == IF id \in DOMAIN names THEN Defined(names[id]) ELSE Undefined
  IN  CASE ts = << >> -> NoMeaning
        [] ts # << >> /\ splits # {} ->
             LET i == Max(splits)
             IN  Combined(MeaningOf(SubSeq(ts, 1, i - 1), names), ts[i].v,
                          MeaningOf(Drop(ts, i), names))
        [] ts # << >> /\ splits = {} ->
             CASE UnaryOp(ts) # "none" -> Applied(UnaryOp(ts), MeaningOf(Tail(ts), names))
               [] Is(ts, "(") /\ Last(ts) = Punct(")") ->
                    MeaningOf(SubSeq(ts, 2, Len(ts) - 1), names)
               [] Len(ts) = 1 /\ IsKind(ts, "lit") ->
                    Meaning(Defined(CastTo(ts[1].type, ts[1].number)), ts[1].type)
               [] IsReference(ts) -> Meaning(Valued(Referenced(ts)), TWord)
               [] Is(ts, "@") /\ IsReference(Tail(ts)) ->
                    Meaning(Valued(Referenced(Tail(ts))), TLong)
               [] OTHER -> NoMeaning

\* The argument of an .equ line has the value and the type its text means,
\* with the usual precedence, from left to right, and the text is refused
\* when it means nothing.
ExpressionsAgree ==
  lineNumber > 0 /\ file[lineNumber][1] = Token("dir", "equ") =>
    LET ts == file[lineNumber]
        parsed == Parse(ts)
        names == [id \in {Identifier(NoModule, "x"), Identifier("", "x")} |-> 5]
        meaning == MeaningOf(SubSeq(ts, 2, Len(ts) - 1), names)
    IN  /\ parsed.ok <=> meaning.syntax
        /\ parsed.ok => LET arg == parsed.value[1].list[1]
                        IN  Evaluate(arg, names) = meaning.value /\ TypeOf(arg) = meaning.type

=============================================================================
