--------------------------- MODULE ExecutionState ---------------------------
(***************************************************************************)
(* The state static analysis keeps per line (execution_state.h): status    *)
(* flags, the A, X, Y and data bank registers, and the part of the stack   *)
(* pushed since the subroutine was entered.                                *)
(*                                                                         *)
(* A failed assert (or back() of an empty vector) ends the program in the  *)
(* build the repository describes, so a pull that meets one returns        *)
(* crash = TRUE.                                                           *)
(***************************************************************************)
EXTENDS Integers, Sequences, StatusFlags

ByteRange == 0 .. 255
MaxWord == 65535
WordRange == 0 .. MaxWord

-----------------------------------------------------------------------------
(* RegisterValue *)

RegisterValues == [type : {"unknown", "original", "value"}, value : WordRange]

UnknownRegister == [type |-> "unknown", value |-> 0]
OriginalRegister == [type |-> "original", value |-> 0]
KnownRegister(v) == [type |-> "value", value |-> v % 65536]

\* Add: modulus is 256 or 65536, for the masks 0xff and 0xffff.
AddToRegister(r, offset, modulus) ==
  IF r.type = "value" THEN [r EXCEPT !.value = (r.value + offset) % modulus]
                      ELSE UnknownRegister

MergeRegister(lhs, rhs) == IF lhs = rhs THEN lhs ELSE UnknownRegister

-----------------------------------------------------------------------------
(* StackValue.  flags is meaningful in an entry of type "flags" and value  *)
(* in the others; the field that is not in use keeps a fixed value, so     *)
(* that equal entries are equal records.                                   *)

HighByteTypes == {"a_hi", "x_hi", "y_hi"}
LowByteTypes == {"a_lo", "x_lo", "y_lo", "dbr"}
VarsizeTypes == {"a_varsize", "x_varsize", "y_varsize"}
EntryTypes == {"unknown", "byte", "flags"} \cup HighByteTypes \cup LowByteTypes
                                           \cup VarsizeTypes

\* The entry types PushA, PushX and PushY hand to PushReg (and the pulls to
\* PullReg).
ATypes == [lo |-> "a_lo", hi |-> "a_hi", varsize |-> "a_varsize"]
XTypes == [lo |-> "x_lo", hi |-> "x_hi", varsize |-> "x_varsize"]
YTypes == [lo |-> "y_lo", hi |-> "y_hi", varsize |-> "y_varsize"]

StackEntries == [type : EntryTypes, value : ByteRange, flags : FlagStates]

Entry(type, value) == [type |-> type, value |-> value, flags |-> UnknownFlags]
UnknownEntry == Entry("unknown", 0)
ByteEntry(v) == Entry("byte", v % 256)
FlagsEntry(f) == [type |-> "flags", value |-> 0, flags |-> f]

\* StackValue(Type, RegisterValue): the byte (or all) of a register.  The
\* value 1 of a varsize entry says that the register held its original value.
RegisterEntry(type, reg) ==
  CASE type \in VarsizeTypes -> Entry(type, IF reg.type = "original" THEN 1 ELSE 0)
    [] type \notin VarsizeTypes /\ reg.type = "original" -> Entry(type, 0)
    [] type \notin VarsizeTypes /\ reg.type = "unknown" -> UnknownEntry
    [] type \in HighByteTypes /\ reg.type = "value" -> ByteEntry(reg.value \div 256)
    [] type \in LowByteTypes /\ reg.type = "value" -> ByteEntry(reg.value)

IsVarSize(entry) == entry.type \in VarsizeTypes

CanMergeWith(lhs, rhs) == lhs.type = rhs.type \/ (~IsVarSize(lhs) /\ ~IsVarSize(rhs))

MergeEntry(lhs, rhs) ==
  CASE lhs = rhs -> lhs
    [] lhs.type = "flags" /\ rhs.type = "flags" /\ lhs # rhs ->
         FlagsEntry(MergeFlags(lhs.flags, rhs.flags))
    [] IsVarSize(lhs) /\ lhs.type = rhs.type /\ lhs # rhs -> Entry(lhs.type, 0)
    [] OTHER -> UnknownEntry

-----------------------------------------------------------------------------
(* Stack.  items[Len(items)] is the top. *)

\* An abandoned stack holds nothing.
Stacks ==
  {s \in [abandoned : BOOLEAN, items : Seq(StackEntries)] : s.abandoned => s.items = << >>}

EmptyStack == [abandoned |-> FALSE, items |-> << >>]
Abandoned == [abandoned |-> TRUE, items |-> << >>]

\* Every push is dropped once the stack is abandoned.
PushEntry(stack, entry) ==
  IF stack.abandoned THEN stack ELSE [stack EXCEPT !.items = Append(@, entry)]

PushWord(stack, v) == PushEntry(PushEntry(stack, ByteEntry(v \div 256)), ByteEntry(v))
PushUnknownWord(stack) == PushEntry(PushEntry(stack, UnknownEntry), UnknownEntry)

\* PushReg: bit is the m or x bit that gives the register its width.
PushReg(stack, reg, bit, types) ==
  CASE stack.abandoned -> stack
    [] ~stack.abandoned /\ bit = "original" -> PushEntry(stack, RegisterEntry(types.varsize, reg))
    [] ~stack.abandoned /\ bit = "unknown" -> Abandoned
    [] ~stack.abandoned /\ bit = "on" -> PushEntry(stack, RegisterEntry(types.lo, reg))
    [] ~stack.abandoned /\ bit = "off" ->
         PushEntry(PushEntry(stack, RegisterEntry(types.hi, reg)),
                   RegisterEntry(types.lo, reg))

Top(stack) == stack.items[Len(stack.items)]
Pop(stack) == [stack EXCEPT !.items = SubSeq(@, 1, Len(@) - 1)]

PullByte(stack) ==
  IF stack.abandoned \/ stack.items = << >> \/ IsVarSize(Top(stack))
    THEN [stack |-> Abandoned, entry |-> UnknownEntry]
    ELSE [stack |-> Pop(stack), entry |-> Top(stack)]

PullVarsize(stack) ==
  CASE stack.abandoned -> [stack |-> stack, entry |-> UnknownEntry, crash |-> FALSE]
    [] ~stack.abandoned /\ stack.items = << >> ->
         [stack |-> stack, entry |-> UnknownEntry, crash |-> TRUE]
    [] ~stack.abandoned /\ stack.items # << >> ->
         [stack |-> IF IsVarSize(Top(stack)) THEN Pop(stack) ELSE Abandoned,
          entry |-> IF IsVarSize(Top(stack)) THEN Top(stack) ELSE UnknownEntry,
          crash |-> FALSE]

\* The B_original case of PullReg.  value() asserts that the entry is a byte,
\* which an entry of the wanted varsize type never is.
PullOriginal(stack, types) ==
  LET pulled == PullVarsize(stack)
  IN  IF pulled.entry.type = types.varsize
        THEN [stack |-> pulled.stack, reg |-> UnknownRegister, crash |-> TRUE]
        ELSE [stack |-> Abandoned, reg |-> UnknownRegister, crash |-> pulled.crash]

PullNarrow(stack, types) ==
  LET byte == PullByte(stack)
  IN  [stack |-> byte.stack, crash |-> FALSE,
       reg |-> CASE byte.entry.type = types.lo -> OriginalRegister
                 [] byte.entry.type = "byte" -> KnownRegister(byte.entry.value)
                 [] OTHER -> UnknownRegister]

PullWide(stack, types) ==
  LET lo == PullByte(stack)
      hi == PullByte(lo.stack)
  IN  [stack |-> hi.stack, crash |-> FALSE,
       reg |-> CASE lo.entry.type = types.lo /\ hi.entry.type = types.hi ->
                      OriginalRegister
                 [] lo.entry.type = "byte" /\ hi.entry.type = "byte" ->
                      KnownRegister(lo.entry.value * 256 + hi.entry.value)
                 [] OTHER -> UnknownRegister]

PullReg(stack, bit, types) ==
  CASE stack.abandoned \/ bit = "unknown" ->
         [stack |-> Abandoned, reg |-> UnknownRegister, crash |-> FALSE]
    [] ~stack.abandoned /\ bit = "original" -> PullOriginal(stack, types)
    [] ~stack.abandoned /\ bit = "on" -> PullNarrow(stack, types)
    [] ~stack.abandoned /\ bit = "off" -> PullWide(stack, types)

\* operator|= : stacks of different heights, or a varsize entry opposite
\* anything else, cannot be merged.
MergeStack(lhs, rhs) ==
  IF \/ lhs.abandoned \/ rhs.abandoned \/ Len(lhs.items) # Len(rhs.items)
     \/ \E i \in DOMAIN lhs.items : ~CanMergeWith(lhs.items[i], rhs.items[i])
    THEN Abandoned
    ELSE [abandoned |-> FALSE,
          items |-> [i \in DOMAIN lhs.items |-> MergeEntry(lhs.items[i], rhs.items[i])]]

-----------------------------------------------------------------------------
(* ExecutionState *)

ExecutionStates ==
  [a : RegisterValues, x : RegisterValues, y : RegisterValues, dbr : RegisterValues,
   flags : FlagStates, stack : Stacks]

\* The constructor from a flag state: a subroutine is entered.
IncomingState(f) ==
  [a |-> UnknownRegister, x |-> UnknownRegister, y |-> UnknownRegister,
   dbr |-> UnknownRegister, flags |-> SetIncoming(f), stack |-> EmptyStack]

\* PullFlags: the e bit is not on the stack and is kept.
PullFlags(es) ==
  LET pulled == PullByte(es.stack)
      f == IF pulled.entry.type = "flags" THEN pulled.entry.flags ELSE UnknownFlags
  IN  [es EXCEPT !.stack = pulled.stack, !.flags = MakeFlags(es.flags.e, f.m, f.x, f.c)]

Merge(lhs, rhs) ==
  [a |-> MergeRegister(lhs.a, rhs.a), x |-> MergeRegister(lhs.x, rhs.x),
   y |-> MergeRegister(lhs.y, rhs.y), dbr |-> MergeRegister(lhs.dbr, rhs.dbr),
   flags |-> MergeFlags(lhs.flags, rhs.flags), stack |-> MergeStack(lhs.stack, rhs.stack)]

=============================================================================
