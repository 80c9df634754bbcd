------------------------------ MODULE Listing ------------------------------
(***************************************************************************)
(* Disassembler::Cleanup of disassemble.cc, which the drivers call after   *)
(* the last pass and before they print: it gives every label its final     *)
(* name, in address order, lets branches and far jumps refer to these      *)
(* names, and folds clc and adc into add, sec and sbc into sub.  What it   *)
(* leaves is the listing, one row per address that is printed.             *)
(***************************************************************************)
EXTENDS Disassembler, FiniteSets

VARIABLES
  listing,   \* disassembly_ after Cleanup: address -> row
  cleaned    \* Cleanup has run

listingVars == <<vars, listing, cleaned>>

NoName == <<"none", 0>>

-----------------------------------------------------------------------------
(* Names: "entry" and "label" are numbered on their own *)

Labelled == {a \in DOMAIN disassembly : disassembly[a].label # NoLabel}
IsEntry(a) == a \in Labelled /\ a \in entryPoints

NameOf_OneCounter(a) ==   \* mutant: the prefix counts for nothing
  IF a \notin Labelled THEN NoName
  ELSE <<"label", Cardinality({b \in Labelled : b <= a /\ (IsEntry(b) <=> IsEntry(a))})>>

NameOf(a) ==
  IF a \notin Labelled THEN NoName
  ELSE <<IF IsEntry(a) THEN "entry" ELSE "label",
         Cardinality({b \in Labelled : b <= a /\ (IsEntry(b) <=> IsEntry(a))})>>

\* label_rewrite
Rewritten(label) ==
  IF \E a \in Labelled : disassembly[a].label = label
    THEN NameOf(CHOOSE a \in Labelled : disassembly[a].label = label) ELSE NoName

\* NameForAddress, once the labels have their names.
NameForAddress(a) == IF a \in DOMAIN disassembly /\ a \in entryPoints THEN NameOf(a) ELSE NoName

\* The name a row's argument is printed as, or NoName for a number.
ArgumentName(a) ==
  LET di == disassembly[a]
  IN  CASE di.to # NoLabel -> Rewritten(di.to)
        [] di.to = NoLabel /\ HasFarTarget(di.ins) -> NameForAddress(FarTarget(a, di.ins))
        [] OTHER -> NoName

Row(a) ==
  LET di == disassembly[a]
  IN  [ins |-> di.ins, current |-> di.current, next |-> di.next,
       name |-> NameOf(a), isEntry |-> IsEntry(a), argName |-> ArgumentName(a)]

-----------------------------------------------------------------------------
(* Folding *)

\* b comes next in the map, wherever in memory it is.
Follows(b, a) ==
  /\ a \in DOMAIN disassembly /\ b \in DOMAIN disassembly /\ a < b
  /\ \A c \in DOMAIN disassembly : c <= a \/ c >= b

Folded(first, second) ==
  CASE first = "clc" /\ second = "adc" -> "add"
    [] first = "sec" /\ second = "sbc" -> "sub"
    [] OTHER -> "none"

Folds_OverLabels(a, b) ==   \* mutant: a labelled adc is swallowed too
  Follows(b, a) /\ Folded(disassembly[a].ins.mnemonic, disassembly[b].ins.mnemonic) # "none"

Folds(a, b) ==
  /\ Follows(b, a)
  /\ Folded(disassembly[a].ins.mnemonic, disassembly[b].ins.mnemonic) # "none"
  /\ b \notin Labelled

\* The row of a with the instruction of b.
FoldedRow(a, b) ==
  [Row(a) EXCEPT !.ins = [disassembly[b].ins EXCEPT
                            !.mnemonic = Folded(disassembly[a].ins.mnemonic, @)],
                 !.next = disassembly[b].next]

\* No instruction is the first of one pair and the second of another.
Listed ==
  LET second == {b \in DOMAIN disassembly : \E a \in DOMAIN disassembly : Folds(a, b)}
  IN  [a \in DOMAIN disassembly \ second |->
         IF \E b \in second : Folds(a, b)
           THEN FoldedRow(a, CHOOSE b \in second : Folds(a, b)) ELSE Row(a)]

-----------------------------------------------------------------------------

ListingInit == Init /\ listing = Empty /\ cleaned = FALSE

Disassembling == Next /\ UNCHANGED <<listing, cleaned>>

Cleanup ==
  /\ status = "done" /\ ~cleaned
  /\ listing' = Listed
  /\ cleaned' = TRUE
  /\ UNCHANGED vars

ListingNext == Disassembling \/ Cleanup

ListingSpec == ListingInit /\ [][ListingNext]_listingVars

\* One thread that never waits.
FairListingSpec == ListingSpec /\ WF_listingVars(ListingNext)

-----------------------------------------------------------------------------
(* Properties *)

\* The bytes of memory at a, wrapping within the bank.
MemoryAt(a, count) == [i \in 1 .. count |-> memory[AddWrapped(a, i - 1)]]

AddressOfName(name) == CHOOSE a \in DOMAIN listing : listing[a].name = name

\* The instruction of a row as the assembler reads it back: a name stands
\* for the address of the row that carries it.
ReadBack(a) ==
  IF listing[a].argName = NoName THEN listing[a].ins
  ELSE [listing[a].ins EXCEPT !.arg = AddressOfName(listing[a].argName)]

IsFold(a) == listing[a].ins.mnemonic \in {"add", "sub"}

\* The clc or sec in the last byte of a bank: what is next in the map is in
\* another bank.
FoldsAcrossBanks(a) == IsFold(a) /\ a % 65536 = 65535

\* The flags of an .entry line are printed with the carry when it is known,
\* and such a line does not parse.
CarryKnown(f) == f.c \in {"on", "off"}
EntryLineParses(a) == listing[a].isEntry => ~CarryKnown(listing[a].current.flags)

\* A call in the assembled files goes to a where the carry is known.
SeededWithCarry(a) ==
  \E task \in Tasks : /\ task.memory = memory
                     /\ a \in DOMAIN task.seeds /\ CarryKnown(task.seeds[a])

\* Another path comes to the adc of a fold, in another width than the clc is
\* printed in; the suffix of the adc may be that of the other path.
JoinsWidths(a) ==
  /\ IsFold(a)
  /\ \E b \in DOMAIN disassembly :
       Follows(b, a) /\ disassembly[b].current.flags.m # listing[a].current.flags.m

\* The listing is a program for the ROM: each name it uses is on one row, the
\* .entry lines parse, and every row passes the checks of the assembler in
\* the state it is printed in and assembles to the bytes it came from
\* (Cleanup against CheckConsistency and Instruction::Assemble).  It fails in
\* four cases: a per, whose distance is printed as a number, a fold across
\* banks, the width of a fold whose adc another path comes to, and the .entry
\* line of an entry point whose call failed or whose first caller knew the carry.
ListingReassembles ==
  \A a \in DOMAIN listing :
    LET row == listing[a]
        ins == ReadBack(a)
    IN  /\ row.argName # NoName =>
             Cardinality({b \in DOMAIN listing : listing[b].name = row.argName}) = 1
        /\ EntryLineParses(a) \/ a \in failed \/ SeededWithCarry(a)
        /\ row.ins.mnemonic = "per" \/ FoldsAcrossBanks(a) \/
             /\ JoinsWidths(a) \/ CheckConsistency(ins, row.current.flags)
             /\ CanEncode(ins, a)
             /\ Encode(ins, a) = MemoryAt(a, InstructionSize(ins))

\* Where control goes when it does not branch.
RowEnd(a) == AddWrapped(a, InstructionSize(listing[a].ins))

\* a is the adc or sbc that a row swallowed, for control that comes to it from
\* an instruction the clc or sec is itself a part of.
InsideFold(a, from) ==
  \E b \in DOMAIN listing :
    /\ IsFold(b) /\ a = AddWrapped(b, 1)
    /\ \E i \in 1 .. InstructionSize(listing[from].ins) - 1 : b = AddWrapped(from, i)

\* No row of the listing leads out of it: what comes after a row and what a
\* branch goes to are rows, in a state that covers the one they are reached
\* in, so that nothing was lost in a fold that another path still needs
\* (Cleanup's check for a label).  Instructions that overlap a fold, and a
\* fold across banks, are the exceptions.
ListingClosed ==
  \A a \in DOMAIN listing :
    LET row == listing[a]
        Leads(to, es) ==
          \/ to \in DOMAIN listing /\ Covers(listing[to].current, es)
          \/ InsideFold(to, a)
          \/ \E b \in DOMAIN listing : FoldsAcrossBanks(b) /\ (a = b \/ Follows(to, b))
    IN  /\ ~IsExitInstruction(row.ins) => Leads(RowEnd(a), row.next)
        /\ IsLocalBranch(row.ins) =>
             \E b \in DOMAIN listing :
               listing[b].name = row.argName /\ Leads(b, ExecuteBranch(row.ins, row.current).state)

\* Every call comes to an end, and the program prints its listing unless an
\* assertion stops it.
ListingPrinted == <>(cleaned \/ status = "crash")

=============================================================================
