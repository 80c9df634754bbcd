---------------------------- MODULE StatusFlags ----------------------------
(***************************************************************************)
(* The four tracked bits of the 65816 status register as static analysis   *)
(* sees them (class StatusFlags of execution_state.h).  "original" stands  *)
(* for the unknown value a bit had on subroutine entrance, "unknown" for   *)
(* no knowledge at all.                                                    *)
(***************************************************************************)

BitStates == {"off", "on", "original", "unknown"}

\* What the e bit leaves possible of an m or x bit.
ConstrainedForEBit(input, e) ==
  CASE e = "on" -> "on"
    [] e = "off" -> input
    [] input = "on" -> "on"
    [] input = "original" /\ e = "original" -> "original"
    [] OTHER -> "unknown"

\* The flag states the members of the class keep: m and x agree with e.
Coherent(f) == f.m = ConstrainedForEBit(f.m, f.e) /\ f.x = ConstrainedForEBit(f.x, f.e)

FlagStates == {f \in [e : BitStates, m : BitStates, x : BitStates, c : BitStates] : Coherent(f)}

MergeBit_KeepsKnown(lhs, rhs) == IF lhs = "unknown" THEN rhs ELSE lhs   \* mutant

\* operator| on BitState: the bit when either of two code paths was taken.
MergeBit(lhs, rhs) == IF lhs = rhs THEN lhs ELSE "unknown"

\* The StatusFlags constructor.
MakeFlags(e, m, x, c) ==
  [e |-> e, m |-> ConstrainedForEBit(m, e), x |-> ConstrainedForEBit(x, e), c |-> c]

UnknownFlags == MakeFlags("unknown", "unknown", "unknown", "unknown")

SetMBit(f, state) == [f EXCEPT !.m = ConstrainedForEBit(state, f.e)]
SetXBit(f, state) == [f EXCEPT !.x = ConstrainedForEBit(state, f.e)]
SetCBit(f, state) == [f EXCEPT !.c = state]

\* SetIncoming: the flags a subroutine is entered with.
SetIncoming(f) ==
  [bit \in DOMAIN f |-> IF f[bit] = "unknown" THEN "original" ELSE f[bit]]

\* ExchangeCE: the xce instruction; the new e bit then constrains m and x.
ExchangeCE(f) == MakeFlags(f.c, f.m, f.x, f.e)

\* operator| on StatusFlags.
MergeFlags(lhs, rhs) ==
  MakeFlags(MergeBit(lhs.e, rhs.e), MergeBit(lhs.m, rhs.m),
            MergeBit(lhs.x, rhs.x), MergeBit(lhs.c, rhs.c))

\* FromName: the flag states a source file can name; every other name of the
\* form mNxN, mN or xN is a row of m16 and x8 below.
NamedFlags ==
  {UnknownFlags, MakeFlags("on", "on", "on", "unknown")}
    \cup {MakeFlags("off", m, x, "unknown") : m, x \in {"on", "off", "unknown"}}

=============================================================================
