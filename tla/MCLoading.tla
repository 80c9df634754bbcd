----------------------------- MODULE MCLoading -----------------------------
(***************************************************************************)
(* Files to load: one-line files with every printed form of an opcode,     *)
(* with every mnemonic and kind of operand, with strings of expression     *)
(* tokens and with directives; and files of a few lines with labels,       *)
(* scopes, equations and a module name.                                    *)
(***************************************************************************)
EXTENDS SourceText

CONSTANTS
  MaxTokens,   \* bound on the free strings of expression tokens
  MaxLines     \* bound on the lines of the files with scopes

Word(n) == Token("id", n)
Dot(name) == Token("dir", name)
Op(m) == Token("mnem", m)
Marked(marks) == [i \in DOMAIN marks |-> Punct(marks[i])]
Line(ts) == <<ts \o <<EndOfLine>>>>   \* a file of one line

UnsizedNumber(v) == Number(v, TUnknown)
Mnemonics == {DecodeOpcode(o)[1] : o \in 0 .. 255} \cup {"add", "sub"}

-----------------------------------------------------------------------------
(* Instructions *)

PrintedFiles ==
  {<<PrintedForm(opcode, 5, "x", width)>> : opcode \in 0 .. 255, width \in {TByte, TWord}}

Arguments ==
  {<<Number(5, t)>> : t \in {TByte, TWord, TLong, TUnknown}} \cup
  {<<UnsizedNumber(300)>>, <<Punct("-"), Number(5, TByte)>>, <<Word("x")>>,
   <<Punct("@"), Word("x")>>, <<Word("x"), Punct("+"), Number(1, TByte)>>}

\* An argument between the marks of a syntactic mode, and malformed ones.
Enclosures ==
  {<<open, shape[2]>> : open \in {"#"}, shape \in Shapes("#")} \cup
  {<<"[", shape[2]>> : shape \in Shapes("[")} \cup
  {<<"(", shape[2]>> : shape \in Shapes("(")} \cup
  {<<"none", shape[2]>> : shape \in Shapes("none")} \cup
  {<<"(", <<")", ",", "X">>>>, <<"(", << >>>>, <<"none", <<")">>>>, <<"#", <<",">>>>}

OpenedBy(mark) == IF mark = "none" THEN << >> ELSE <<Punct(mark)>>

Operands ==
  {OpenedBy(e[1]) \o arg \o Marked(e[2]) : e \in Enclosures, arg \in Arguments} \cup
  {<<Punct("#")>> \o a \o Marked(<<",", "#">>) \o b :
     a, b \in {<<Number(5, TByte)>>, <<Number(5, TWord)>>, <<UnsizedNumber(5)>>}} \cup
  {<< >>, Marked(<<"A">>), Marked(<<"A", "X">>)}

InstructionFiles == {Line(<<Op(m)>> \o operand) : m \in Mnemonics, operand \in Operands}

\* The parenthesis may turn out to belong to the expression.
ParenthesisFiles ==
  {Line(<<Op(m)>> \o Marked(<<"(">>) \o <<UnsizedNumber(1)>> \o ts) :
     m \in {"lda", "jmp"},
     ts \in {Marked(<<")", "+">>) \o <<Word("x")>>, <<Word("x")>>,
             Marked(<<"+">>) \o <<Word("x")>> \o Marked(<<")", "*">>) \o <<Word("x")>>,
             <<Word("x")>> \o Marked(<<",", "X">>)}}

Endings ==
  {Marked(<<"noreturn">>), Marked(<<"yields">>), Marked(<<"yields">>) \o <<Word("m8x16")>>,
   Marked(<<"yields">>) \o <<Word("x")>>}

SuffixFiles ==
  {Line(<<Op(m), Token("suffix", "b")>> \o operand) :
     m \in {"lda", "ldx", "nop", "jsl"}, operand \in {<< >>, <<Punct("#"), Number(5, TByte)>>}}
  \cup {Line(<<Op(m), Word("x")>> \o ending) : m \in {"jsr", "jsl", "jmp", "bra"}, ending \in Endings}

-----------------------------------------------------------------------------
(* Expressions: any string of tokens, and longer ones that are grammatical. *)

ExpressionTokens ==
  {UnsizedNumber(7), Number(254, TByte), Word("x")} \cup
  {Punct(p) : p \in {"@", "+", "-", "*", "/", "(", ")", "<"}}

Strings == UNION {[1 .. n -> ExpressionTokens] : n \in 0 .. MaxTokens}

Atoms ==
  {<<UnsizedNumber(7)>>, <<UnsizedNumber(0)>>, <<Word("x")>>, <<Punct("-"), Number(3, TByte)>>,
   <<Punct(">"), Number(4660, TWord)>>,
   Marked(<<"(">>) \o <<UnsizedNumber(2), Punct("-"), Word("x")>> \o Marked(<<")">>)}

Chains ==
  {a \o <<Punct(p)>> \o b \o <<Punct(q)>> \o c :
     a, b, c \in Atoms, p, q \in BinaryOps}

ExpressionFiles == {Line(<<Dot("equ")>> \o ts) : ts \in UNION {Strings, Chains}}

-----------------------------------------------------------------------------
(* Directives *)

Modes == {Word(f) : f \in {"m8x8", "m16", "x8", "emu", "native", "unk", "m9"}}

DirectiveFiles ==
  {Line(<<Dot(d)>> \o ts) :
     d \in {"db", "dw", "org", "module", "equ", "begin", "end", "halt", "mode", "entry"},
     ts \in {<< >>, <<UnsizedNumber(1)>>, <<Word("x")>>,
             <<UnsizedNumber(1), Punct(","), Word("x")>>, <<UnsizedNumber(1), Punct(",")>>}} \cup
  {Line(<<Dot(d), f>> \o ending) : d \in {"mode", "entry"}, f \in Modes, ending \in Endings} \cup
  {Line(<<Dot("remote"), Word("x"), f>> \o ending) : f \in Modes, ending \in Endings}

-----------------------------------------------------------------------------
(* Files with labels and scopes *)

Labelled(name, ts) == <<Word(name), Punct(":")>> \o ts
Qualified(m) == <<Word(m), Punct("::"), Word("x")>>

ScopeLines ==
  {Labelled("x", <<Op("nop")>>),
   Labelled("x", <<Punct("{")>>),
   Labelled("x", << >>),
   Labelled("y", Labelled("x", <<Dot("equ"), Word("x")>>)),
   <<Punct("export"), Word("x")>>,
   <<Punct("{")>>, <<Punct("}")>>,
   <<Dot("equ"), Word("x"), Punct("+"), Punct("::"), Word("x")>>,
   <<Dot("equ")>> \o Qualified("m") \o <<Punct("+")>> \o Qualified("n"),
   <<Dot("module"), Word("m")>>,
   <<Op("nop"), Punct(":"), Punct(":"), Op("nop")>>}

ScopeFiles ==
  UNION {[1 .. n -> {ts \o <<EndOfLine>> : ts \in ScopeLines}] : n \in 1 .. MaxLines}

-----------------------------------------------------------------------------

LoadingFiles ==
  UNION {PrintedFiles, InstructionFiles, ParenthesisFiles, SuffixFiles,
         ExpressionFiles, DirectiveFiles, ScopeFiles}

=============================================================================
