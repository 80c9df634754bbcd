---------------------------- MODULE MCFirstPass ----------------------------
(***************************************************************************)
(* Modules of a few lines on which RunFirstPass is checked: an .org line,  *)
(* an .entry line, a body over a palette of statements, and a loop.        *)
(***************************************************************************)
EXTENDS MCPrograms

-----------------------------------------------------------------------------
(* Loops whose body changes registers, stack and flags on every turn, closed *)
(* by a branch back to any line or by a fork, at the end of the module too.   *)

LoopBody ==
  {Ins("ldx", "imm_b", 255), Op("inx"), Op("pha"), Op("pla"), Op("phx"), Op("php"),
   Op("plp"), Op("xce"), Op("sec"), Ins("pea", "imm_w", 4660)}

LoopPrograms ==
  WithHeader({body \o <<Branch(m, t), Op("rtl")>> :
                body \in [1 .. BodyLength -> LoopBody], m \in {"bra", "bcc"}, t \in BodyLines},
             {M8X8, UnknownFlags})
  \cup WithHeader({body \o <<Branch("bcc", BodyLength + 2)>> : body \in [1 .. BodyLength -> LoopBody]},
                  {M8X8})

-----------------------------------------------------------------------------
(* Subroutines entered with unknown flags that save and restore A. *)

PushPullPrograms == WithHeader({<<Op("pha"), Op("pla"), Op("rts")>>}, {UnknownFlags})

=============================================================================
