------------------------------- MODULE Paths -------------------------------
(***************************************************************************)
(* What the analysis of FirstPass is for: the width RunFirstPass gives an  *)
(* immediate argument must be the one the processor uses, whichever path   *)
(* control takes to the instruction.                                       *)
(*                                                                         *)
(* After a successful first pass a walker enters the module at any .entry  *)
(* line and follows one path through it, instruction by instruction, with  *)
(* an execution state of its own that is never merged with another path's. *)
(* The walker is the reference; it has no counterpart in the code besides  *)
(* the Execute and ExecuteBranch it runs.                                  *)
(***************************************************************************)
EXTENDS FirstPass

CONSTANT MaxStack   \* bound on the height of the walker's stack

VARIABLES
  at,     \* the line the walker is about to run, or NoLine
  path    \* the execution state along its path

pathVars == <<lines, decodeStack, incoming, phase, cursor, pc, value, at, path>>

PathInit ==
  /\ Init
  /\ at = NoLine
  /\ path = IncomingState(UnknownFlags)

Assembling == Next /\ UNCHANGED <<at, path>>

Enter ==
  /\ phase = "ok" /\ at = NoLine
  /\ \E i \in Lines : /\ IsDirective(lines[i], "entry")
                      /\ at' = i + 1
                      /\ path' = IncomingState(lines[i].flags)
  /\ UNCHANGED vars

CanRun ==
  /\ phase = "ok" /\ at \in Lines
  /\ ExecuteStatement(lines[at], path).result = "ok"
  /\ Len(path.stack.items) <= MaxStack

FallThrough ==
  /\ CanRun
  /\ ~IsExit(lines[at])
  /\ at' = at + 1
  /\ path' = ExecuteStatement(lines[at], path).state
  /\ UNCHANGED vars

TakeBranch ==
  /\ CanRun
  /\ IsBranch(lines[at])
  /\ at' = lines[at].target
  /\ path' = ExecuteBranch(lines[at], path).state
  /\ UNCHANGED vars

PathNext == Assembling \/ Enter \/ FallThrough \/ TakeBranch

PathSpec == PathInit /\ [][PathNext]_pathVars

-----------------------------------------------------------------------------

\* Every immediate argument on the path has the width the flags of this path
\* call for.
WidthsAgree ==
  at \in Lines /\ IsInstruction(lines[at]) => ImmediateAgrees(lines[at], path.flags)

-----------------------------------------------------------------------------
(* What a recorded state has to say of a state on a path: its flags, how   *)
(* much is on the stack and which flags are saved there, and of registers  *)
(* whether they are known.  Not their values: while its width is unknown   *)
(* Execute counts a register modulo 2^16, whatever its width on the path.  *)

RegisterDescribes(general, r) == general.type \in {"unknown", r.type}

EntryDescribes(general, e) ==
  /\ CanMergeWith(general, e)
  /\ general.type \in {"unknown", e.type}
  /\ general.type = "flags" => MergeFlags(general.flags, e.flags) = general.flags

StackDescribes(general, s) ==
  \/ general.abandoned
  \/ /\ ~s.abandoned /\ Len(general.items) = Len(s.items)
     /\ \A i \in DOMAIN general.items : EntryDescribes(general.items[i], s.items[i])

Describes(general, es) ==
  /\ MergeFlags(general.flags, es.flags) = general.flags
  /\ RegisterDescribes(general.a, es.a) /\ RegisterDescribes(general.x, es.x)
  /\ RegisterDescribes(general.y, es.y) /\ RegisterDescribes(general.dbr, es.dbr)
  /\ StackDescribes(general.stack, es.stack)

-----------------------------------------------------------------------------

EntriesCovered ==
  \A i \in Lines : IsDirective(lines[i], "entry") =>
    i + 1 \in DOMAIN incoming /\ Covers(incoming[i + 1], IncomingState(lines[i].flags))

\* When the states the pass settled on are a fixed point of the control flow,
\* they describe every path: the state of a path at a line is described by
\* the line's incoming state, and all widths are right.  (What Execute does to
\* flags and stack is monotone, and FixAddressingMode decides only what no
\* path contradicts.)
FixedPointCoversEveryPath ==
  at # NoLine /\ JoinsCoverPaths /\ EntriesCovered =>
    /\ at \in DOMAIN incoming
    /\ Describes(incoming[at], path)
    /\ WidthsAgree

=============================================================================
