----------------------------- MODULE MCPrograms -----------------------------
(***************************************************************************)
(* Modules for RunFirstPass to work on: how they are written, statement by *)
(* statement, and what they have in common.                                *)
(***************************************************************************)
EXTENDS FirstPass

CONSTANT BodyLength   \* the bound on the size of a module

Ins(m, mode, arg) ==
  [kind |-> "instruction", mnemonic |-> m, mode |-> mode, suffix |-> "none", arg |-> arg,
   arg2 |-> NoValue, ret |-> DefaultReturn, target |-> NoLine,
   name |-> "", flags |-> UnknownFlags, count |-> 0]

Op(m) == Ins(m, "imp", NoValue)
Branch(m, target) == [Ins(m, "rel8", NoValue) EXCEPT !.target = target]
CallTo(ret) == [Ins("jsr", "dir_w", NoValue) EXCEPT !.ret = ret]

Dir(name, f, arg, count) ==
  [kind |-> "directive", mnemonic |-> "", mode |-> "imp", suffix |-> "none", arg |-> arg,
   arg2 |-> NoValue, ret |-> DefaultReturn, target |-> NoLine,
   name |-> name, flags |-> f, count |-> count]

Org == Dir("org", UnknownFlags, 32768, 0)
EntryLine(f) == Dir("entry", f, NoValue, 0)
M8X8 == MakeFlags("off", "on", "on", "unknown")
M16X16 == MakeFlags("off", "off", "off", "unknown")
Emu == MakeFlags("on", "on", "on", "unknown")

BodyLines == 3 .. BodyLength + 2

Bodies(palette) == [1 .. BodyLength -> palette]
WithHeader(bodies, flags) == {<<Org, EntryLine(f)>> \o body : body \in bodies, f \in flags}

=============================================================================
