------------------------------ MODULE MCPaths ------------------------------
(***************************************************************************)
(* Small modules whose analysis is checked path by path.                   *)
(***************************************************************************)
EXTENDS Paths, MCPrograms

-----------------------------------------------------------------------------
(* Widths that depend on flags, over every shape of branching. *)

FlowPalette ==
  {Ins("lda", "imm_fm", 1), Ins("rep", "imm_b", 32), Ins("sep", "imm_b", 32), Op("rts"),
   Branch("bcs", NoLine)}
    \cup {Branch("bcc", t) : t \in BodyLines} \cup {Branch("bra", t) : t \in {3, BodyLength + 2}}

FlowPrograms == WithHeader(Bodies(FlowPalette), {M8X8})

-----------------------------------------------------------------------------
(* Directives: data, gaps, several entries, modes and modules that do not   *)
(* say where they go.                                                       *)

DirectivePalette ==
  {Org, Dir("org", UnknownFlags, NoValue, 0), Dir("org", UnknownFlags, 16777217, 0),
   EntryLine(UnknownFlags), EntryLine(M16X16), Dir("mode", M8X8, NoValue, 0),
   Dir("db", UnknownFlags, NoValue, 2), Dir("dl", UnknownFlags, NoValue, 1),
   Dir("halt", UnknownFlags, NoValue, 0), Dir("equ", UnknownFlags, 1, 0),
   Ins("ldy", "imm_fx", NoValue), Ins("add", "imm_fm", 1), CallTo(NoReturn),
   [Ins("lda", "dir_b", 1) EXCEPT !.suffix = "w"], Op("rti")}

Openings ==
  {Org, EntryLine(UnknownFlags), EntryLine(M16X16), Dir("equ", UnknownFlags, 1, 0),
   Dir("db", UnknownFlags, NoValue, 2)}

DirectivePrograms == {body \in Bodies(DirectivePalette) : body[1] \in Openings}

-----------------------------------------------------------------------------
(* Loops and flag changes *)

\* Loops that narrow or widen the accumulator around an immediate argument.
WideningPrograms ==
  WithHeader(Bodies({Ins("lda", "imm_fm", 1), Ins("rep", "imm_b", 32), Op("rts")}
                      \cup {Branch("bcc", t) : t \in BodyLines}), {M8X8, M16X16})

\* Every instruction that changes m, x, e or the carry, on modules that can
\* also merge, fork and enter in the middle.
MixedPalette ==
  {Ins("ldx", "imm_fx", 1), Ins("lda", "imm_b", 1), Ins("rep", "imm_b", 48),
   Ins("sep", "imm_b", NoValue), Op("sec"), Op("xce"), Op("php"), Op("plp"),
   CallTo(Yields(M16X16)), CallTo(NoReturn), EntryLine(M16X16), Branch("bcs", 4),
   Ins("inc", "acc", NoValue), [Ins("sta", "dir_b", 1) EXCEPT !.suffix = "w"], Op("pha"),
   Branch("bcc", BodyLength + 2)}

MixedPrograms ==
  WithHeader({body \o <<Op("rts")>> : body \in [1 .. BodyLength - 1 -> MixedPalette]},
             {M8X8, Emu, UnknownFlags})

AllPrograms == FlowPrograms \cup DirectivePrograms \cup MixedPrograms

=============================================================================
