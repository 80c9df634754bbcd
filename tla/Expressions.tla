---------------------------- MODULE Expressions ----------------------------
(***************************************************************************)
(* Arguments as syntax trees: the classes of expression.h and the numeric  *)
(* types of numeric_type.h.  A tree is a record with a field op: "lit",    *)
(* "id", a unary operator with an arg, or a binary one with lhs and rhs.   *)
(* The null expression of an instruction without arguments is NoArg.       *)
(*                                                                         *)
(* Numbers are unbounded; the code computes in int, and what it does       *)
(* beyond 32 bits is left out.                                             *)
(***************************************************************************)
EXTENDS Identifiers, Integers, Sequences

-----------------------------------------------------------------------------
(* NumericType: a size in bytes, 0 when it is T_unknown, and a sign *)

NumericTypes == [size : 0 .. 3, signed : BOOLEAN]

TUnknown == [size |-> 0, signed |-> FALSE]
TByte == [size |-> 1, signed |-> FALSE]
TWord == [size |-> 2, signed |-> FALSE]
TLong == [size |-> 3, signed |-> FALSE]

SignedType(t) == [t EXCEPT !.signed = t.size # 0]

ArithmeticConversion(lhs, rhs) ==
  CASE lhs.size = 0 -> rhs
    [] lhs.size # 0 /\ rhs.size = 0 -> lhs
    [] OTHER -> [size |-> IF lhs.size > rhs.size THEN lhs.size ELSE rhs.size,
                 signed |-> lhs.signed \/ rhs.signed]

CastTo(t, value) ==
  LET modulus == 256 ^ t.size
      v == value % modulus
  IN  CASE t.size = 0 -> value
        [] t.size # 0 /\ t.signed /\ 2 * v >= modulus -> v - modulus
        [] OTHER -> v

-----------------------------------------------------------------------------
(* The classes *)

NoArg == [op |-> "null"]

Literal(value, type) == [op |-> "lit", value |-> CastTo(type, value), type |-> type]

IdentifierExpression(id, type) == [op |-> "id", id |-> id, type |-> type]

BinaryOps == {"+", "-", "*", "/"}
UnaryOps == {"neg", "<", ">", "^"}   \* "neg" is the - of one argument

BinaryExpression(lhs, rhs, op) == [op |-> op, lhs |-> lhs, rhs |-> rhs]
UnaryExpression(arg, op) == [op |-> op, arg |-> arg]

-----------------------------------------------------------------------------
(* Evaluate, Type and the names an expression refers to *)

Undefined == [ok |-> FALSE]
Defined(value) == [ok |-> TRUE, value |-> value]

Magnitude(n) == IF n < 0 THEN -n ELSE n

\* The / of C++ drops the fraction, whatever the signs.
Quotient(a, b) ==
  LET q == Magnitude(a) \div Magnitude(b)
  IN  IF (a < 0) = (b < 0) THEN q ELSE -q

BinaryFunction(op, a, b) ==
  CASE op = "+" -> Defined(a + b)
    [] op = "-" -> Defined(a - b)
    [] op = "*" -> Defined(a * b)
    [] op = "/" /\ b # 0 -> Defined(Quotient(a, b))
    [] op = "/" /\ b = 0 -> Undefined

UnaryFunction(op, a) ==
  CASE op = "neg" -> -a
    [] op = "<" -> a % 256
    [] op = ">" -> (a \div 256) % 256
    [] op = "^" -> (a \div 65536) % 256

\* names gives the value of each identifier that can be looked up.
RECURSIVE Evaluate(_, _)
Evaluate(e, names) ==
  CASE e.op = "null" -> Undefined
    [] e.op = "lit" -> Defined(e.value)
    [] e.op = "id" -> IF e.id \in DOMAIN names THEN Defined(names[e.id]) ELSE Undefined
    [] e.op \in UnaryOps ->
         LET arg == Evaluate(e.arg, names)
         IN  IF arg.ok THEN Defined(UnaryFunction(e.op, arg.value)) ELSE Undefined
    [] e.op \in BinaryOps ->
         LET lhs == Evaluate(e.lhs, names)
             rhs == Evaluate(e.rhs, names)
         IN  IF lhs.ok /\ rhs.ok THEN BinaryFunction(e.op, lhs.value, rhs.value) ELSE Undefined

RECURSIVE TypeOf(_)
TypeOf(e) ==
  CASE e.op = "null" -> TUnknown
    [] e.op \in {"lit", "id"} -> e.type
    [] e.op = "neg" -> SignedType(TypeOf(e.arg))
    [] e.op \in UnaryOps \ {"neg"} -> TByte
    [] e.op \in BinaryOps -> ArithmeticConversion(TypeOf(e.lhs), TypeOf(e.rhs))

RECURSIVE NamesIn(_)
NamesIn(e) ==
  CASE e.op \in {"null", "lit"} -> {}
    [] e.op = "id" -> {e.id}
    [] e.op \in UnaryOps -> NamesIn(e.arg)
    [] e.op \in BinaryOps -> NamesIn(e.lhs) \cup NamesIn(e.rhs)

NoNames == [id \in {} |-> 0]
RequiresLookup(e) == NamesIn(e) # {}
SimpleIdentifier(e) == e.op = "id" /\ e.id.module = NoModule

=============================================================================
