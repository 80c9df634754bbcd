------------------------------- MODULE Parser -------------------------------
(***************************************************************************)
(* parse.cc: a line of tokens as labels and statements, and DeduceMode of  *)
(* addressing_mode.cc, which finds the addressing mode of an operand.  A   *)
(* token has a kind ("id", "lit", "mnem", "suffix", "dir", "punct" or      *)
(* "eol"), a spelling, and a number and its type, which are a literal's.   *)
(* The registers are punctuation, as in the code.  Every line ends in one  *)
(* "eol", so a token sequence here is never empty.                         *)
(***************************************************************************)
EXTENDS Expressions, Instructions

Token(kind, v) == [kind |-> kind, v |-> v, number |-> 0, type |-> TUnknown]
Number(n, type) == [kind |-> "lit", v |-> "", number |-> n, type |-> type]
Punct(p) == Token("punct", p)
EndOfLine == Token("eol", "")

Is(ts, p) == Head(ts) = Punct(p)
IsKind(ts, kind) == Head(ts).kind = kind

AtEnd(ts) == IsKind(ts, "eol") \/ Is(ts, ":")
AtEndOrSuffix(ts) == AtEnd(ts) \/ Is(ts, "yields") \/ Is(ts, "noreturn")

\* What a parsing function returns: a value and the tokens it leaves, or an error.
Failure == [ok |-> FALSE]
Parsed(value, rest) == [ok |-> TRUE, value |-> value, rest |-> rest]

\* NSASM_RETURN_IF_ERROR
Then(r, Continue(_, _)) == IF r.ok THEN Continue(r.value, r.rest) ELSE Failure

\* Whether ts goes on with the punctuation marks.
StartsWith(ts, marks) ==
  Len(marks) < Len(ts) /\ \A i \in 1 .. Len(marks) : ts[i] = Punct(marks[i])
Drop(ts, n) == SubSeq(ts, n + 1, Len(ts))

\* Consume, for several marks in turn.
Consume(value, ts, marks) ==
  IF StartsWith(ts, marks) THEN Parsed(value, Drop(ts, Len(marks))) ELSE Failure

-----------------------------------------------------------------------------
(* expr -> term +- term, term -> factor */ factor, factor -> comp | -factor *)
(* and so on, comp -> literal | identifier | (expr)                         *)

IdentifierType(long) == IF long THEN TLong ELSE TWord

\* [@] [[module] ::] name
Name(ts, long) ==
  CASE Is(ts, "::") /\ IsKind(Tail(ts), "id") ->
         Parsed(IdentifierExpression(Identifier("", ts[2].v), IdentifierType(long)), Drop(ts, 2))
    [] IsKind(ts, "id") /\ Is(Tail(ts), "::") ->
         IF IsKind(Drop(ts, 2), "id")
           THEN Parsed(IdentifierExpression(Identifier(ts[1].v, ts[3].v), IdentifierType(long)),
                       Drop(ts, 3))
           ELSE Failure
    [] IsKind(ts, "id") /\ ~Is(Tail(ts), "::") ->
         Parsed(IdentifierExpression(Identifier(NoModule, ts[1].v), IdentifierType(long)), Tail(ts))
    [] OTHER -> Failure

UnaryOp(ts) ==
  CASE Is(ts, "-") -> "neg"
    [] \E p \in {"<", ">", "^"} : Is(ts, p) -> Head(ts).v
    [] OTHER -> "none"

RECURSIVE Expr(_), ExprTail(_, _), Term(_), TermTail(_, _), Factor(_), Comp(_)

ExprTail_FromRight(lhs, ts) ==   \* mutant: a - b - c is a - (b - c)
  IF Is(ts, "+") \/ Is(ts, "-")
    THEN Then(Expr(Tail(ts)),
              LAMBDA rhs, rest : Parsed(BinaryExpression(lhs, rhs, Head(ts).v), rest))
    ELSE Parsed(lhs, ts)

\* The loops of Expr and Term, with what they have read so far.
ExprTail(lhs, ts) ==
  IF Is(ts, "+") \/ Is(ts, "-")
    THEN Then(Term(Tail(ts)),
              LAMBDA rhs, rest : ExprTail(BinaryExpression(lhs, rhs, Head(ts).v), rest))
    ELSE Parsed(lhs, ts)

TermTail(lhs, ts) ==
  IF Is(ts, "*") \/ Is(ts, "/")
    THEN Then(Factor(Tail(ts)),
              LAMBDA rhs, rest : TermTail(BinaryExpression(lhs, rhs, Head(ts).v), rest))
    ELSE Parsed(lhs, ts)

Expr(ts) == Then(Term(ts), ExprTail)
Term(ts) == Then(Factor(ts), TermTail)

Factor(ts) ==
  IF UnaryOp(ts) # "none"
    THEN Then(Factor(Tail(ts)),
              LAMBDA arg, rest : Parsed(UnaryExpression(arg, UnaryOp(ts)), rest))
    ELSE Comp(ts)

Comp(ts) ==
  CASE IsKind(ts, "lit") -> Parsed(Literal(Head(ts).number, Head(ts).type), Tail(ts))
    [] Is(ts, "@") -> Name(Tail(ts), TRUE)
    [] Is(ts, "(") -> Then(Expr(Tail(ts)), LAMBDA inner, rest : Consume(inner, rest, <<")">>))
    [] OTHER -> Name(ts, FALSE)

-----------------------------------------------------------------------------
(* Operands: SyntacticAddressingMode *)

\* What may come after the first argument, by the mark that opens the operand.
Shapes(opener) ==
  CASE opener = "#" -> {<<"imm", << >>>>}
    [] opener = "[" -> {<<"lng", <<"]">>>>, <<"lng_y", <<"]", ",", "Y">>>>}
    [] opener = "(" -> {<<"ind", <<")">>>>, <<"ind_y", <<")", ",", "Y">>>>,
                        <<"ind_x", <<",", "X", ")">>>>, <<"stk_y", <<",", "S", ")", ",", "Y">>>>}
    [] opener = "none" -> {<<"dir", << >>>>, <<"dir_x", <<",", "X">>>>,
                           <<"dir_y", <<",", "Y">>>>, <<"stk", <<",", "S">>>>}

Operand(sam, arg1, arg2) == [sam |-> sam, arg1 |-> arg1, arg2 |-> arg2]

\* ConfirmAtEndOrSuffix after what the shape asks for.
Fits(shape, ts) == StartsWith(ts, shape[2]) /\ AtEndOrSuffix(Drop(ts, Len(shape[2])))

Shaped(opener, arg, ts) ==
  IF \E shape \in Shapes(opener) : Fits(shape, ts)
    THEN LET shape == CHOOSE shape \in Shapes(opener) : Fits(shape, ts)
         IN  Parsed(Operand(shape[1], arg, NoArg), Drop(ts, Len(shape[2])))
    ELSE Failure

DirectOperand(ts) == Then(Expr(ts), LAMBDA arg, rest : Shaped("none", arg, rest))

\* #arg, or the two arguments of a block move.
ImmediateOperand(ts) ==
  Then(Expr(ts), LAMBDA arg, rest :
    IF AtEndOrSuffix(rest) THEN Shaped("#", arg, rest)
    ELSE Then(Consume(arg, rest, <<",", "#">>), LAMBDA arg1, second :
           Then(Expr(second), LAMBDA arg2, end :
             IF AtEndOrSuffix(end) THEN Parsed(Operand("mov", arg1, arg2), end) ELSE Failure)))

\* The parenthesis may belong to the addressing mode or to the expression.
\* A comma settles it; after a closing one the operand is read again from its
\* start; and after anything else it is read from where it stopped.
ParenthesizedOperand(ts) ==
  Then(Expr(Tail(ts)), LAMBDA arg, rest :
    CASE Shaped("(", arg, rest).ok -> Shaped("(", arg, rest)
      [] ~Shaped("(", arg, rest).ok /\ (Is(rest, ",") \/ StartsWith(rest, <<")", ",">>)) -> Failure
      [] OTHER -> DirectOperand(IF Is(rest, ")") THEN ts ELSE rest))

ParseOperand(ts) ==
  CASE AtEndOrSuffix(ts) -> Parsed(Operand("imp", NoArg, NoArg), ts)
    [] Is(ts, "A") -> IF AtEndOrSuffix(Tail(ts))
                        THEN Parsed(Operand("acc", NoArg, NoArg), Tail(ts)) ELSE Failure
    [] Is(ts, "#") -> ImmediateOperand(Tail(ts))
    [] Is(ts, "[") -> Then(Expr(Tail(ts)), LAMBDA arg, rest : Shaped("[", arg, rest))
    [] Is(ts, "(") -> ParenthesizedOperand(ts)
    [] OTHER -> DirectOperand(ts)

-----------------------------------------------------------------------------
(* DeduceMode *)

Branches == {"bcc", "bcs", "beq", "bmi", "bne", "bpl", "bra", "brl", "bvc", "bvs", "per"}
OnAccumulator == {"dec", "inc", "asl", "lsr", "rol", "ror"}
OnMemory == {"adc", "add", "and", "cmp", "eor", "lda", "ora", "sbc", "sta", "sub"}
WithoutArgument ==
  {"clc", "cld", "cli", "clv", "dex", "dey", "inx", "iny", "nop", "pha", "phb", "phd", "phk", "php",
   "phx", "phy", "pla", "plb", "pld", "plp", "plx", "ply", "rti", "rtl", "rts", "sec", "sed", "sei",
   "stp", "tax", "tay", "tcd", "tcs", "tdc", "tsc", "tsx", "txa", "txs", "txy", "tya", "tyx", "wai",
   "xba", "xce"}

\* The mode of each size an argument can have.
ModesBySize ==
  [imm |-> <<"imm_b", "imm_w">>, dir |-> <<"dir_b", "dir_w", "dir_l">>,
   dir_x |-> <<"dir_bx", "dir_wx", "dir_lx">>, dir_y |-> <<"dir_by", "dir_wy">>,
   ind |-> <<"ind_b", "ind_w">>, ind_x |-> <<"ind_bx", "ind_wx">>, ind_y |-> <<"ind_by">>,
   lng |-> <<"lng_b", "lng_w">>, lng_y |-> <<"lng_by">>, stk |-> <<"stk">>,
   stk_y |-> <<"stk_y">>, mov |-> <<"mov">>]

\* The sizes an instruction takes in a syntactic mode: SwitchByteWordLong,
\* SwitchByteWord, SwitchWordLong and the Force functions.
Sizes(m, sam) ==
  CASE m \in OnMemory /\ sam \in {"dir", "dir_x"} -> {1, 2, 3}
    [] m \in OnMemory /\ sam = "dir_y" -> {2}
    [] m \in OnMemory /\ sam \in {"ind", "ind_x", "ind_y", "lng", "lng_y", "stk", "stk_y"} -> {1}
    [] sam = "imm" /\ m \in {"cop", "rep", "sep", "brk", "wdm"} -> {1}
    [] sam = "imm" /\ m = "pea" -> {2}
    [] sam = "mov" /\ m \in {"mvn", "mvp"} -> {1}
    [] sam = "dir" /\ m \in OnAccumulator \cup {"bit", "cpx", "cpy", "ldx", "ldy", "stx", "sty",
                                                "stz", "trb", "tsb"} -> {1, 2}
    [] sam = "dir" /\ m = "jmp" -> {2, 3}
    [] sam = "dir" /\ m = "pei" -> {1}
    [] sam = "dir" /\ m = "jsr" -> {2}
    [] sam = "dir" /\ m = "jsl" -> {3}
    [] sam = "dir_x" /\ m \in OnAccumulator \cup {"bit", "ldy", "stz"} -> {1, 2}
    [] sam = "dir_x" /\ m = "sty" -> {1}
    [] sam = "dir_y" /\ m = "ldx" -> {1, 2}
    [] sam = "dir_y" /\ m = "stx" -> {1}
    [] sam \in {"ind", "ind_x", "lng"} /\ m = "jmp" -> {2}
    [] sam = "ind_x" /\ m = "jsr" -> {2}
    [] OTHER -> {}

HasSize_Widened(arg, size, sam) ==   \* mutant: a byte is taken where a word is asked for
  TypeOf(arg).size \in 1 .. size

\* CoerceByte and CoerceWord take a number of unknown size when it fits.
HasSize(arg, size, sam) ==
  LET value == Evaluate(arg, NoNames)
  IN  \/ TypeOf(arg).size = size
      \/ /\ sam \in {"imm", "stk", "stk_y", "mov"} /\ TypeOf(arg).size = 0
         /\ value.ok /\ 2 * value.value >= -(256 ^ size) /\ value.value < 256 ^ size

ArgumentModes(m, o) ==
  {ModesBySize[o.sam][size] :
     size \in {s \in Sizes(m, o.sam) : /\ HasSize(o.arg1, s, o.sam)
                                       /\ o.sam = "mov" => HasSize(o.arg2, s, o.sam)}}

\* At most one mode; none is an error.
DeduceMode(m, o) ==
  CASE m \in Branches ->
         IF o.sam = "dir" /\ SimpleIdentifier(o.arg1)
           THEN {IF m \in {"brl", "per"} THEN "rel16" ELSE "rel8"} ELSE {}
    [] m \notin Branches /\ o.sam \in {"imp", "acc"} ->
         CASE m \in OnAccumulator -> {"acc"}
           [] m \in WithoutArgument /\ o.sam = "imp" -> {"imp"}
           [] OTHER -> {}
    [] m \in (OnMemory \ {"sta"}) \cup {"bit"} /\ o.sam = "imm" -> {"imm_fm"}
    [] m \in {"cpx", "cpy", "ldx", "ldy"} /\ o.sam = "imm" -> {"imm_fx"}
    [] OTHER -> ArgumentModes(m, o)

-----------------------------------------------------------------------------
(* Statements *)

\* StatusFlags::FromName, as a function on the names it knows.
WidthPart(letter) == {<<"", "unknown">>, <<letter \o "8", "on">>, <<letter \o "16", "off">>}
WidthNames == {<<m, x>> \in WidthPart("m") \X WidthPart("x") : m[1] # "" \/ x[1] # ""}

FromName ==
  [name \in {"unk", "emu", "native"} \cup {w[1][1] \o w[2][1] : w \in WidthNames} |->
     CASE name = "unk" -> UnknownFlags
       [] name = "emu" -> MakeFlags("on", "on", "on", "unknown")
       [] name = "native" -> MakeFlags("off", "unknown", "unknown", "unknown")
       [] OTHER -> LET w == CHOOSE w \in WidthNames : w[1][1] \o w[2][1] = name
                   IN  MakeFlags("off", w[1][2], w[2][2], "unknown")]

Mode(ts) ==
  IF IsKind(ts, "id") /\ Head(ts).v \in DOMAIN FromName
    THEN Parsed(FromName[Head(ts).v], Tail(ts)) ELSE Failure

ParseReturnConvention(ts) ==
  CASE Is(ts, "noreturn") -> Parsed(NoReturn, Tail(ts))
    [] Is(ts, "yields") -> Then(Mode(Tail(ts)), LAMBDA f, rest : Parsed(Yields(f), rest))
    [] OTHER -> Parsed(DefaultReturn, ts)

Instruction(m, suffix, o, mode, ret) ==
  [kind |-> "instruction", name |-> m, suffix |-> suffix, mode |-> mode,
   arg1 |-> o.arg1, arg2 |-> o.arg2, ret |-> ret]

\* CreateInstruction and what ParseInstruction asks of a return convention.
CanCreate(m, suffix, o, ret) ==
  /\ DeduceMode(m, o) # {}
  /\ suffix # "none" => FlagControllingInstructionSize(m) # "none"
  /\ ret.kind # "default" => m \in {"jsl", "jsr"}

ParseInstruction(ts) ==
  LET m == Head(ts).v
      sized == IsKind(Tail(ts), "suffix")
      suffix == IF sized THEN ts[2].v ELSE "none"
  IN  Then(ParseOperand(Drop(ts, IF sized THEN 2 ELSE 1)), LAMBDA o, rest :
        Then(ParseReturnConvention(rest), LAMBDA ret, end :
          IF CanCreate(m, suffix, o, ret)
            THEN Parsed(Instruction(m, suffix, o, CHOOSE mode \in DeduceMode(m, o) : TRUE, ret), end)
            ELSE Failure))

Directive(name, list, f, ret) ==
  [kind |-> "directive", name |-> name, list |-> list, flags |-> f, ret |-> ret]
PlainDirective(name, list) == Directive(name, list, UnknownFlags, DefaultReturn)

RECURSIVE ParseList(_, _)
ParseList(ts, read) ==
  Then(Expr(ts), LAMBDA arg, rest :
    IF Is(rest, ",") THEN ParseList(Tail(rest), Append(read, arg))
    ELSE Parsed(Append(read, arg), rest))

\* What DT_constant_arg and DT_name_arg ask of the argument.
ArgumentAllowed(name, arg) ==
  /\ name = "org" => ~RequiresLookup(arg)
  /\ name = "module" => SimpleIdentifier(arg)

\* The modes of an entry and how it returns, after the address of a .remote.
ParseEntry(name, list, ts) ==
  Then(Mode(ts), LAMBDA f, rest :
    Then(ParseReturnConvention(rest), LAMBDA ret, end :
      Parsed(Directive(name, list, f, ret), end)))

\* The caller looks for the end of the statement.
ParseDirective(ts) ==
  LET name == Head(ts).v
  IN  CASE name \in {"begin", "end", "halt"} -> Parsed(PlainDirective(name, << >>), Tail(ts))
        [] name \in {"equ", "org", "module"} ->
             Then(Expr(Tail(ts)), LAMBDA arg, rest :
               IF ArgumentAllowed(name, arg) THEN Parsed(PlainDirective(name, <<arg>>), rest)
               ELSE Failure)
        [] name \in DataDirectives ->
             Then(ParseList(Tail(ts), << >>), LAMBDA list, rest :
               Parsed(PlainDirective(name, list), rest))
        [] name = "remote" ->
             Then(Expr(Tail(ts)), LAMBDA arg, rest : ParseEntry(name, <<arg>>, rest))
        [] name = "entry" -> ParseEntry(name, << >>, Tail(ts))
        [] name = "mode" -> Then(Mode(Tail(ts)), LAMBDA f, rest :
                              Parsed(Directive(name, << >>, f, DefaultReturn), rest))

-----------------------------------------------------------------------------
(* Parse: the entities of a line, labels and statements in their order *)

Label(name, exported) == [kind |-> "label", name |-> name, exported |-> exported]

ParseStatement(ts) ==
  CASE Is(ts, "{") \/ Is(ts, "}") ->
         Parsed(PlainDirective(IF Is(ts, "{") THEN "begin" ELSE "end", << >>), Tail(ts))
    [] IsKind(ts, "dir") -> ParseDirective(ts)
    [] IsKind(ts, "mnem") -> ParseInstruction(ts)
    [] OTHER -> Failure

\* A statement other than a brace goes up to a colon or the end of the line.
AfterStatement(first, rest) ==
  CASE Is(first, "{") \/ Is(first, "}") -> Parsed(NoArg, rest)
    [] ~Is(first, "{") /\ ~Is(first, "}") /\ AtEnd(rest) -> Parsed(NoArg, Tail(rest))
    [] OTHER -> Failure

RECURSIVE ParseFrom(_, _)

\* The colon after a label was not there; ts begins a statement or nothing.
\* A colon here ends the line, whatever follows it.
ParseUnlabelled(ts, read) ==
  IF AtEnd(ts) THEN Parsed(read, << >>)
  ELSE Then(ParseStatement(ts), LAMBDA statement, rest :
         Then(AfterStatement(ts, rest), LAMBDA none, next :
           ParseFrom(next, Append(read, statement))))

ParseFrom(ts, read) ==
  LET exported == Is(ts, "export")
      named == IF exported THEN Tail(ts) ELSE ts
      labelled == Append(read, Label(Head(named).v, exported))
  IN  CASE ts = << >> -> Parsed(read, << >>)
        [] ts # << >> /\ IsKind(named, "id") ->
             IF Is(Tail(named), ":") THEN ParseFrom(Drop(named, 2), labelled)
             ELSE ParseUnlabelled(Tail(named), labelled)
        [] ts # << >> /\ exported /\ ~IsKind(named, "id") -> Failure
        [] ts # << >> /\ ~exported /\ ~IsKind(named, "id") -> ParseUnlabelled(ts, read)

Parse(ts) == ParseFrom(ts, << >>)

-----------------------------------------------------------------------------
(* ArgsToString: an operand as it is printed *)

PrintedOperand(mode, arg1, arg2) ==
  CASE mode \in ImmediateModes -> <<Punct("#")>> \o arg1
    [] mode \in {"dir_b", "dir_w", "dir_l", "rel8", "rel16"} -> arg1
    [] mode \in {"dir_bx", "dir_wx", "dir_lx"} -> arg1 \o <<Punct(","), Punct("X")>>
    [] mode \in {"dir_by", "dir_wy"} -> arg1 \o <<Punct(","), Punct("Y")>>
    [] mode \in {"ind_b", "ind_w"} -> <<Punct("(")>> \o arg1 \o <<Punct(")")>>
    [] mode \in {"ind_bx", "ind_wx"} ->
         <<Punct("(")>> \o arg1 \o <<Punct(","), Punct("X"), Punct(")")>>
    [] mode = "ind_by" -> <<Punct("(")>> \o arg1 \o <<Punct(")"), Punct(","), Punct("Y")>>
    [] mode \in {"lng_b", "lng_w"} -> <<Punct("[")>> \o arg1 \o <<Punct("]")>>
    [] mode = "lng_by" -> <<Punct("[")>> \o arg1 \o <<Punct("]"), Punct(","), Punct("Y")>>
    [] mode = "stk" -> arg1 \o <<Punct(","), Punct("S")>>
    [] mode = "stk_y" ->
         <<Punct("(")>> \o arg1 \o <<Punct(","), Punct("S"), Punct(")"), Punct(","), Punct("Y")>>
    [] mode = "mov" -> <<Punct("#")>> \o arg1 \o <<Punct(","), Punct("#")>> \o arg2
    [] OTHER -> << >>

\* Arg1Type: the type of a decoded argument, by the length of the instruction.
Arg1Type(mode) ==
  CASE mode = "mov" -> TByte
    [] mode # "mov" /\ InstructionLength(mode) >= 2 ->
         [size |-> InstructionLength(mode) - 1, signed |-> FALSE]
    [] OTHER -> TUnknown

=============================================================================
