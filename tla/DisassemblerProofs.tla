------------------------- MODULE DisassemblerProofs -------------------------
(****************************************************************************)
(* Proofs about the disassembler, its driver and the listing it leaves, for *)
(* every ROM, every set of seeds and any number of passes: the labels of    *)
(* the disassembly resolve, whatever calls are repeated, joined or fail     *)
(* half way; no row of the listing leads out of it, and it assembles to the *)
(* bytes it came from.                                                      *)
(****************************************************************************)
EXTENDS Listing, InstructionsProofs, FiniteSetTheorems, SequenceTheorems

-----------------------------------------------------------------------------
(* The inductive invariant *)

\* DecodedInstruction and Instruction as the program builds them.
Instruction(ins) == DOMAIN ins = {"mnemonic", "mode", "suffix", "arg", "arg2", "ret"}
Shaped(di) ==
  /\ DOMAIN di = {"ins", "current", "next", "label", "to"}
  /\ Instruction(di.ins)

Shapes ==
  /\ \A a \in DOMAIN disassembly : Shaped(disassembly[a])
  /\ \A a \in DOMAIN newDisassembly : Shaped(newDisassembly[a])

\* Every label in use was handed out by GenSym.
Numbers ==
  /\ currentSym \in Nat
  /\ \A a \in DOMAIN disassembly : disassembly[a].label \in 0 .. currentSym
  /\ \A a \in DOMAIN labelNames : labelNames[a] \in 1 .. currentSym

\* No label is used twice, and an instruction that has one is not given another.
Apart ==
  /\ \A a, b \in DOMAIN disassembly :
       disassembly[a].label = disassembly[b].label /\ disassembly[a].label # NoLabel => a = b
  /\ \A a, b \in DOMAIN labelNames : labelNames[a] = labelNames[b] => a = b
  /\ \A a \in DOMAIN labelNames, b \in DOMAIN disassembly : labelNames[a] # disassembly[b].label
  /\ \A a \in DOMAIN labelNames \cap DOMAIN disassembly : disassembly[a].label = NoLabel

\* The branches of finished calls.
Resolved ==
  \A a \in DOMAIN disassembly :
    LET t == BranchTarget(a, disassembly[a].ins)
    IN  IsLocalBranch(disassembly[a].ins) =>
          /\ disassembly[a].to # NoLabel
          /\ t \in DOMAIN disassembly /\ disassembly[t].label = disassembly[a].to

\* The label t is going to have when the call returns.
Named(t, n) ==
  \/ t \in DOMAIN labelNames /\ labelNames[t] = n
  \/ t \in DOMAIN disassembly \ DOMAIN labelNames /\ disassembly[t].label = n

Reached == DOMAIN newDisassembly \cup DOMAIN decodeStack \cup DOMAIN disassembly

\* The instructions of the running call: those of earlier calls are as they
\* were, the others have no label yet.
Continued ==
  \A a \in DOMAIN newDisassembly :
    IF a \in DOMAIN disassembly
      THEN /\ newDisassembly[a].ins = disassembly[a].ins
           /\ newDisassembly[a].to = disassembly[a].to
           /\ newDisassembly[a].label = disassembly[a].label
      ELSE newDisassembly[a].label = NoLabel

\* The branches of the running call.
Pending ==
  \A a \in DOMAIN newDisassembly :
    LET t == BranchTarget(a, newDisassembly[a].ins)
    IN  IsLocalBranch(newDisassembly[a].ins) =>
          /\ newDisassembly[a].to # NoLabel
          /\ t \in Reached /\ Named(t, newDisassembly[a].to)

LabelInv == Shapes /\ Numbers /\ Apart /\ Resolved /\ Continued /\ Pending

-----------------------------------------------------------------------------
(* Lemmas *)

\* With is a function over one more address.
LEMMA WithAt ==
  ASSUME NEW f, NEW a, NEW v
  PROVE  /\ DOMAIN With(f, a, v) = DOMAIN f \cup {a}
         /\ With(f, a, v)[a] = v
         /\ \A b \in DOMAIN f \ {a} : With(f, a, v)[b] = f[b]
BY DEF With

\* Nothing is at an address of an empty map.
LEMMA EmptyMap == DOMAIN Empty = {}
BY DEF Empty

\* Joining a state adds its address to the decode stack.
LEMMA StackGrows ==
  ASSUME NEW stack, NEW pc, NEW ins, NEW es
  PROVE  /\ DOMAIN stack \subseteq DOMAIN AfterFallThrough(stack, pc, ins, es)
         /\ DOMAIN stack \subseteq DOMAIN AfterBranch(stack, pc, ins, es)
         /\ IsLocalBranch(ins) => BranchTarget(pc, ins) \in DOMAIN AfterBranch(stack, pc, ins, es)
<1>1. \A a, e : DOMAIN JoinState(stack, a, e) = DOMAIN stack \cup {a}
  BY WithAt DEF JoinState
<1>2. CASE IsLocalBranch(ins)
  BY <1>1, <1>2 DEF AfterFallThrough, AfterBranch
<1>3. CASE ~IsLocalBranch(ins)
  BY <1>1, <1>3 DEF AfterFallThrough, AfterBranch
<1>4. QED
  BY <1>2, <1>3

\* What decoding builds is an instruction.
LEMMA DecodeShape == ASSUME NEW pc, NEW f PROVE Instruction(Decode(pc, f))
BY DEF Decode, DecodeBytes, Instruction

\* Where a branch goes depends on its mnemonic, mode and argument only.
LEMMA BranchKept ==
  ASSUME NEW ins, NEW j, j.mnemonic = ins.mnemonic, j.mode = ins.mode, j.arg = ins.arg
  PROVE  /\ IsLocalBranch(j) <=> IsLocalBranch(ins)
         /\ \A pc : BranchTarget(pc, j) = BranchTarget(pc, ins)
BY DEF IsLocalBranch, BranchTarget, NextPc

-----------------------------------------------------------------------------
(* get_label *)

\* get_label keeps the labels apart; the label it gives is the one the
\* address will have, and no other address loses its own.
LEMMA NameStep ==
  ASSUME Numbers, Apart, NEW a, NEW names \in {labelNames, Empty}, NameTarget(a, names),
         UNCHANGED disassembly, NEW l, l = Label(a)
  PROVE  /\ Numbers' /\ Apart'
         /\ l # NoLabel
         /\ names = labelNames =>
              /\ Named(a, l)'
              /\ \A t, n : n # NoLabel /\ Named(t, n) => Named(t, n)'
<1>1. CASE a \in DOMAIN labelNames
  <2>1. Label(a) = labelNames[a] /\ Label(a) \in 1 .. currentSym
    BY <1>1 DEF Label, Numbers
  <2>2. labelNames' = names /\ currentSym' = currentSym
    BY <2>1 DEF NameTarget, Numbers
  <2>3. Numbers' /\ Apart'
    BY <2>2, EmptyMap DEF Numbers, Apart
  <2>4. QED
    BY <1>1, <2>1, <2>2, <2>3 DEF Named, NoLabel
<1>2. CASE a \notin DOMAIN labelNames /\ a \in DOMAIN disassembly /\ disassembly[a].label # NoLabel
  <2>1. Label(a) = disassembly[a].label /\ Label(a) \in 1 .. currentSym
    BY <1>2 DEF Label, Numbers, NoLabel
  <2>2. labelNames' = names /\ currentSym' = currentSym
    BY <2>1 DEF NameTarget, Numbers
  <2>3. Numbers' /\ Apart'
    BY <2>2, EmptyMap DEF Numbers, Apart
  <2>4. QED
    BY <1>2, <2>1, <2>2, <2>3 DEF Named, NoLabel
<1>3. CASE /\ a \notin DOMAIN labelNames
           /\ a \notin DOMAIN disassembly \/ disassembly[a].label = NoLabel
  <2>1. Label(a) = currentSym + 1
    BY <1>3 DEF Label
  <2>2. labelNames' = With(names, a, currentSym + 1) /\ currentSym' = currentSym + 1
    BY <2>1 DEF NameTarget
  <2>3. /\ DOMAIN labelNames' = DOMAIN names \cup {a}
        /\ labelNames'[a] = currentSym + 1
        /\ \A b \in DOMAIN names : labelNames'[b] = labelNames[b] /\ b # a /\ b \in DOMAIN labelNames
    <3>1. \A b \in DOMAIN names : names[b] = labelNames[b] /\ b \in DOMAIN labelNames
      BY EmptyMap
    <3>2. QED
      BY <1>3, <2>2, <3>1 DEF With
  <2>4. Numbers'
    BY <2>2, <2>3 DEF Numbers
  <2>5. Apart'
    BY <1>3, <2>3 DEF Apart, Numbers
  <2>6. ASSUME names = labelNames
        PROVE  /\ Named(a, l)'
               /\ \A t, n : n # NoLabel /\ Named(t, n) => Named(t, n)'
    BY <1>3, <2>1, <2>3, <2>6 DEF Named
  <2>7. l # NoLabel
    BY <2>1 DEF Numbers, NoLabel
  <2>8. QED
    BY <2>4, <2>5, <2>6, <2>7
<1>4. QED
  BY <1>1, <1>2, <1>3

-----------------------------------------------------------------------------
(* The steps *)

\* Before the first call there is nothing to resolve.
LEMMA LabelInit == Init => LabelInv
BY EmptyMap DEF Init, LabelInv, Shapes, Numbers, Apart, Resolved, Continued, Pending

\* A call begins.
LEMMA LabelBegin == ASSUME LabelInv, NEW a, Begin(a) PROVE LabelInv'
<1>1. NameTarget(a, Empty) /\ newDisassembly' = Empty /\ UNCHANGED disassembly
  BY DEF Begin
<1>2. Numbers' /\ Apart'
  BY <1>1, NameStep DEF LabelInv
<1>3. Shapes' /\ Resolved' /\ Continued' /\ Pending'
  BY <1>1, EmptyMap DEF LabelInv, Shapes, Resolved, Continued, Pending
<1>4. QED
  BY <1>2, <1>3 DEF LabelInv

\* A failed call leaves nothing behind.
LEMMA LabelFail == ASSUME LabelInv, NEW pc, Fail(pc) PROVE LabelInv'
<1>1. /\ newDisassembly' = Empty /\ labelNames' = Empty
      /\ UNCHANGED disassembly /\ UNCHANGED currentSym
  BY DEF Fail, own
<1>2. Numbers' /\ Apart'
  BY <1>1, EmptyMap DEF LabelInv, Numbers, Apart
<1>3. Shapes' /\ Resolved' /\ Continued' /\ Pending'
  BY <1>1, EmptyMap DEF LabelInv, Shapes, Resolved, Continued, Pending
<1>4. QED
  BY <1>2, <1>3 DEF LabelInv

\* Nothing the labels depend on changes, though a path may have been popped
\* whose instruction is known.
LEMMA LabelStutter ==
  ASSUME LabelInv, UNCHANGED <<disassembly, currentSym, decodeStack, newDisassembly, labelNames>>
  PROVE  LabelInv'
BY DEF LabelInv, Shapes, Numbers, Apart, Resolved, Continued, Pending, Reached, Named

\* An instruction that is known gets its state changed, or not.
LEMMA LabelRevisit ==
  ASSUME LabelInv, NEW pc, Seen(pc),
         UNCHANGED <<disassembly, currentSym, labelNames>>,
         DOMAIN decodeStack \ {pc} \subseteq DOMAIN decodeStack',
         NEW di, newDisassembly' = With(newDisassembly, pc, di),
         Shaped(di), di.ins = Existing(pc).ins, di.to = Existing(pc).to,
         di.label = Existing(pc).label
  PROVE  LabelInv'
<1>1. /\ DOMAIN newDisassembly' = DOMAIN newDisassembly \cup {pc}
      /\ newDisassembly'[pc] = di
      /\ \A a \in DOMAIN newDisassembly \ {pc} : newDisassembly'[a] = newDisassembly[a]
  BY DEF With
<1>2. Shapes'
  BY <1>1 DEF LabelInv, Shapes
<1>3. Numbers' /\ Apart' /\ Resolved'
  BY DEF LabelInv, Numbers, Apart, Resolved
<1>4. Continued'
  BY <1>1 DEF LabelInv, Continued, Seen, Existing
<1>5. Pending'
  <2>1. Reached \subseteq Reached'
    BY <1>1 DEF Reached
  <2>2. \A t, n : Named(t, n) => Named(t, n)'
    BY DEF Named
  <2>3. ASSUME IsLocalBranch(di.ins)
        PROVE  /\ di.to # NoLabel
               /\ BranchTarget(pc, di.ins) \in Reached
               /\ Named(BranchTarget(pc, di.ins), di.to)
    <3>1. CASE pc \in DOMAIN newDisassembly
      BY <2>3, <3>1 DEF LabelInv, Pending, Existing
    <3>2. CASE pc \notin DOMAIN newDisassembly
      <4>1. pc \in DOMAIN disassembly /\ di.ins = disassembly[pc].ins /\ di.to = disassembly[pc].to
        BY <3>2 DEF Seen, Existing
      <4>2. /\ di.to # NoLabel
            /\ BranchTarget(pc, di.ins) \in DOMAIN disassembly
            /\ disassembly[BranchTarget(pc, di.ins)].label = di.to
        BY <2>3, <4>1 DEF LabelInv, Resolved
      <4>3. BranchTarget(pc, di.ins) \notin DOMAIN labelNames
        BY <4>2 DEF LabelInv, Apart
      <4>4. QED
        BY <4>2, <4>3 DEF Named, Reached
    <3>3. QED
      BY <3>1, <3>2
  <2>4. QED
    BY <1>1, <2>1, <2>2, <2>3 DEF LabelInv, Pending
<1>6. QED
  BY <1>2, <1>3, <1>4, <1>5 DEF LabelInv


\* Back at pc with nothing new.
LEMMA LabelConfirm == ASSUME LabelInv, NEW pc, Confirm(pc) PROVE LabelInv'
<1>1. Shaped(Existing(pc))
  BY DEF LabelInv, Shapes, Existing, Confirm, Seen
<1>2. DOMAIN decodeStack' = DOMAIN decodeStack \ {pc}
  BY DEF Confirm, Popped
<1>3. QED
  BY <1>1, <1>2, LabelRevisit DEF Confirm, own

\* Back at pc with a weaker state.
LEMMA LabelWeaken == ASSUME LabelInv, NEW pc, Weaken(pc) PROVE LabelInv'
<1> DEFINE old == Existing(pc)
           c == Combined(pc)
           n == Executed(pc).state
           di == [old EXCEPT !.current = c, !.next = n]
<1>1. Shaped(old)
  BY DEF LabelInv, Shapes, Existing, Weaken, Seen
<1>2. Shaped(di) /\ di.ins = old.ins /\ di.to = old.to /\ di.label = old.label
  <2> HIDE DEF old, c, n
  <2>1. QED
    BY <1>1 DEF Shaped, Instruction
<1>3. DOMAIN decodeStack \ {pc} \subseteq DOMAIN decodeStack'
  <2>1. DOMAIN Popped(pc) = DOMAIN decodeStack \ {pc}
    BY DEF Popped
  <2>2. QED
    BY <2>1, StackGrows DEF Weaken
<1>4. /\ newDisassembly' = With(newDisassembly, pc, di) /\ Seen(pc)
      /\ UNCHANGED <<disassembly, currentSym, labelNames>>
  BY DEF Weaken, own
<1>5. QED
  BY <1>2, <1>3, <1>4, LabelRevisit

\* The first time at pc: a branch takes the label of its target.
LEMMA LabelDiscover == ASSUME LabelInv, NEW pc, Discover(pc) PROVE LabelInv'
<1> DEFINE ins == Decode(pc, decodeStack[pc].flags)
           called == [ins EXCEPT !.ret = ReturnOf(pc, ins)]
           di == newDisassembly'[pc]
<1> PICK t, l : t = BranchTarget(pc, ins) /\ l = Label(t)
  OBVIOUS
<1>1. /\ Instruction(called)
      /\ IsLocalBranch(called) <=> IsLocalBranch(ins)
      /\ BranchTarget(pc, called) = t
  <2> DEFINE r == ReturnOf(pc, ins)
  <2>1. Instruction(ins)
    BY DecodeShape
  <2> HIDE DEF ins, r
  <2>2. /\ Instruction(called)
        /\ called.mnemonic = ins.mnemonic /\ called.mode = ins.mode /\ called.arg = ins.arg
    BY <2>1 DEF Instruction
  <2> HIDE DEF called
  <2>3. QED
    BY <2>2, BranchKept
<1>2. /\ DOMAIN newDisassembly' = DOMAIN newDisassembly \cup {pc}
      /\ \A a \in DOMAIN newDisassembly \ {pc} : newDisassembly'[a] = newDisassembly[a]
      /\ Shaped(di) /\ di.ins = called /\ di.label = NoLabel
      /\ IsLocalBranch(ins) => di.to = l
  <2> DEFINE after == ApplyReturn(called.ret, Executed(pc).state)
             to == IF IsLocalBranch(ins) THEN l ELSE NoLabel
             new == [ins |-> called, current |-> decodeStack[pc], next |-> after, label |-> NoLabel,
                     to |-> to]
  <2>1. newDisassembly' = With(newDisassembly, pc, new)
    BY DEF Discover
  <2> HIDE DEF called, after, to
  <2>2. Shaped(new) /\ new.ins = called /\ new.label = NoLabel /\ new.to = to
    BY <1>1 DEF Shaped
  <2> HIDE DEF new
  <2>3. /\ DOMAIN newDisassembly' = DOMAIN newDisassembly \cup {pc}
        /\ newDisassembly'[pc] = new
        /\ \A a \in DOMAIN newDisassembly \ {pc} : newDisassembly'[a] = newDisassembly[a]
    BY <2>1 DEF With
  <2>4. QED
    BY <2>2, <2>3 DEF to
<1>3. /\ DOMAIN decodeStack \ {pc} \subseteq DOMAIN decodeStack'
      /\ IsLocalBranch(ins) => t \in DOMAIN decodeStack'
  <2>1. DOMAIN Popped(pc) = DOMAIN decodeStack \ {pc}
    BY DEF Popped
  <2>2. QED
    BY <2>1, StackGrows DEF Discover
<1>4. pc \notin DOMAIN newDisassembly /\ pc \notin DOMAIN disassembly /\ UNCHANGED disassembly
  BY DEF Discover, Seen
<1>5. /\ Numbers' /\ Apart'
      /\ \A b, n : n # NoLabel /\ Named(b, n) => Named(b, n)'
      /\ IsLocalBranch(ins) => l # NoLabel /\ Named(t, l)'
  <2>1. CASE IsLocalBranch(ins)
    <3>1. NameTarget(t, labelNames)
      BY <2>1 DEF Discover
    <3>2. QED
      BY <1>4, <3>1, NameStep DEF LabelInv
  <2>2. CASE ~IsLocalBranch(ins)
    <3>1. UNCHANGED <<labelNames, currentSym>>
      BY <2>2 DEF Discover
    <3>2. QED
      BY <1>4, <2>2, <3>1 DEF LabelInv, Numbers, Apart, Named
  <2>3. QED
    BY <2>1, <2>2
<1>6. Shapes' /\ Resolved' /\ Continued'
  BY <1>2, <1>4 DEF LabelInv, Shapes, Resolved, Continued
<1>7. Pending'
  <2>1. Reached \subseteq Reached' /\ (IsLocalBranch(ins) => t \in Reached')
    BY <1>2, <1>3, <1>4 DEF Reached
  <2>2. \A a \in DOMAIN newDisassembly : newDisassembly'[a] = newDisassembly[a]
    BY <1>2, <1>4
  <2> SUFFICES ASSUME NEW a \in DOMAIN newDisassembly \cup {pc},
                      NEW after, after = newDisassembly'[a], IsLocalBranch(after.ins),
                      NEW b, b = BranchTarget(a, after.ins)
               PROVE  after.to # NoLabel /\ b \in Reached' /\ Named(b, after.to)'
    BY <1>2 DEF Pending
  <2>3. CASE a = pc
    BY <1>1, <1>2, <1>5, <2>1, <2>3
  <2>4. CASE a \in DOMAIN newDisassembly
    <3>1. after.to # NoLabel /\ b \in Reached /\ Named(b, after.to)
      BY <2>2, <2>4 DEF LabelInv, Pending
    <3>2. QED
      BY <1>5, <2>1, <3>1
  <2>5. QED
    BY <2>3, <2>4
<1>8. QED
  BY <1>5, <1>6, <1>7 DEF LabelInv

\* A call returns: its labels are put on its instructions.
LEMMA LabelReturn == ASSUME LabelInv, Return PROVE LabelInv'
<1> DEFINE Kept(a) == IF a \in DOMAIN newDisassembly THEN Suffixed(newDisassembly[a])
                                                     ELSE disassembly[a]
           Before(a) == IF a \in DOMAIN newDisassembly THEN newDisassembly[a] ELSE disassembly[a]
           all == DOMAIN disassembly \cup DOMAIN newDisassembly
<1>1. \A a \in all : Shaped(Before(a))
  BY DEF LabelInv, Shapes
<1>2. \A a \in all :
        /\ Shaped(Kept(a))
        /\ IsLocalBranch(Kept(a).ins) <=> IsLocalBranch(Before(a).ins)
        /\ BranchTarget(a, Kept(a).ins) = BranchTarget(a, Before(a).ins)
        /\ Kept(a).to = Before(a).to /\ Kept(a).label = Before(a).label
  <2> TAKE a \in all
  <2>1. CASE a \notin DOMAIN newDisassembly
    BY <1>1, <2>1
  <2>2. CASE a \in DOMAIN newDisassembly
    <3> DEFINE old == newDisassembly[a]
    <3>1. PICK s : Suffixed(old) = [old EXCEPT !.ins = [old.ins EXCEPT !.suffix = s]]
      BY <1>1, <2>2 DEF Suffixed, Shaped, Instruction
    <3>2. /\ Kept(a).ins = [old.ins EXCEPT !.suffix = s]
          /\ Kept(a).to = old.to /\ Kept(a).label = old.label
          /\ DOMAIN Kept(a) = DOMAIN old
      BY <1>1, <2>2, <3>1 DEF Shaped
    <3>3. Shaped(old) /\ Before(a) = old
      BY <1>1, <2>2
    <3> HIDE DEF old, Kept, Before
    <3>4. /\ Instruction(Kept(a).ins)
          /\ IsLocalBranch(Kept(a).ins) <=> IsLocalBranch(old.ins)
          /\ BranchTarget(a, Kept(a).ins) = BranchTarget(a, old.ins)
      <4>1. /\ Instruction(Kept(a).ins)
            /\ Kept(a).ins.mnemonic = old.ins.mnemonic /\ Kept(a).ins.mode = old.ins.mode
            /\ Kept(a).ins.arg = old.ins.arg
        BY <3>2, <3>3 DEF Shaped, Instruction
      <4>2. QED
        BY <4>1, BranchKept
    <3>5. QED
      BY <3>2, <3>3, <3>4 DEF Shaped
  <2>3. QED
    BY <2>1, <2>2
<1>3. /\ DOMAIN disassembly' = all
      /\ \A a \in all :
           disassembly'[a] = IF a \in DOMAIN labelNames THEN [Kept(a) EXCEPT !.label = labelNames[a]]
                                                        ELSE Kept(a)
      /\ newDisassembly' = Empty /\ labelNames' = Empty /\ currentSym' = currentSym
      /\ DOMAIN decodeStack = {}
  BY DEF Return
<1>4. \A a \in all :
        /\ Shaped(disassembly'[a])
        /\ disassembly'[a].ins = Kept(a).ins /\ disassembly'[a].to = Kept(a).to
        /\ disassembly'[a].label = IF a \in DOMAIN labelNames THEN labelNames[a] ELSE Before(a).label
  BY ZenonT(60), <1>2, <1>3 DEF Shaped
<1>5. \A a \in all : Before(a).label = IF a \in DOMAIN disassembly THEN disassembly[a].label ELSE NoLabel
  BY DEF LabelInv, Continued
<1>6. Shapes' /\ Continued' /\ Pending'
  BY <1>3, <1>4, EmptyMap DEF Shapes, Continued, Pending
<1>7. Numbers'
  BY <1>3, <1>4, <1>5, EmptyMap DEF LabelInv, Numbers, NoLabel
<1>8. Apart'
  BY <1>3, <1>4, <1>5, EmptyMap DEF LabelInv, Apart
<1>9. Resolved'
  <2> SUFFICES ASSUME NEW a \in all, IsLocalBranch(Before(a).ins),
                      NEW t, t = BranchTarget(a, Before(a).ins)
               PROVE  /\ Before(a).to # NoLabel
                      /\ t \in all /\ disassembly'[t].label = Before(a).to
    BY <1>2, <1>3, <1>4 DEF Resolved
  <2>1. CASE a \in DOMAIN newDisassembly
    <3>1. Before(a).to # NoLabel /\ t \in all /\ Named(t, Before(a).to)
      BY <1>3, <2>1 DEF LabelInv, Pending, Reached
    <3>2. QED
      BY <1>4, <1>5, <3>1 DEF Named
  <2>2. CASE a \notin DOMAIN newDisassembly
    <3>1. /\ Before(a).to # NoLabel
          /\ t \in DOMAIN disassembly /\ disassembly[t].label = Before(a).to
      BY <2>2 DEF LabelInv, Resolved
    <3>2. t \notin DOMAIN labelNames
      BY <3>1 DEF LabelInv, Apart
    <3>3. QED
      BY <1>4, <1>5, <3>1, <3>2
  <2>3. QED
    BY <2>1, <2>2
<1>10. QED
  BY <1>6, <1>7, <1>8, <1>9 DEF LabelInv

\* Every step keeps the invariant.
LEMMA LabelStep == ASSUME LabelInv, [Next]_vars PROVE LabelInv'
<1>1. CASE \E a \in todo : SkipAssembled(a)
  BY <1>1, LabelStutter DEF SkipAssembled, own, call
<1>2. CASE \E a \in todo : Begin(a)
  BY <1>2, LabelBegin
<1>3. CASE EndPass \/ EndDriver
  BY <1>3, LabelStutter DEF EndPass, EndDriver, own, call
<1>4. CASE \E pc \in DOMAIN decodeStack : Discover(pc)
  BY <1>4, LabelDiscover
<1>5. CASE \E pc \in DOMAIN decodeStack : Confirm(pc)
  BY <1>5, LabelConfirm
<1>6. CASE \E pc \in DOMAIN decodeStack : Weaken(pc)
  BY <1>6, LabelWeaken
<1>7. CASE \E pc \in DOMAIN decodeStack : Fail(pc)
  BY <1>7, LabelFail
<1>8. CASE \E pc \in DOMAIN decodeStack : Crash(pc)
  BY <1>8, LabelStutter DEF Crash, own, call
<1>9. CASE Return
  BY <1>9, LabelReturn
<1>10. CASE Finished \/ UNCHANGED vars
  BY <1>10, LabelStutter DEF Finished, vars, own, call
<1>11. QED
  BY <1>1, <1>2, <1>3, <1>4, <1>5, <1>6, <1>7, <1>8, <1>9, <1>10 DEF Next

\* A branch names the label of the very instruction it goes to, and no two
\* instructions share a label, over repeated and failed calls (get_label,
\* GenSym and the naming at the end of Disassemble).
THEOREM LabelsAlwaysResolve == Spec => []LabelsResolve
<1>1. Init => LabelInv
  BY LabelInit
<1>2. LabelInv /\ [Next]_vars => LabelInv'
  BY LabelStep
<1>3. LabelInv => LabelsResolve
  BY DEF LabelInv, Apart, Resolved, LabelsResolve
<1>4. QED
  BY <1>1, <1>2, <1>3, PTL DEF Spec

-----------------------------------------------------------------------------
(* The inductive invariant of what is known of instructions *)

RomTypes ==
  /\ DOMAIN memory \subseteq Addresses
  /\ \A a \in DOMAIN memory : memory[a] \in ByteRange
  /\ \A a \in DOMAIN conventions : conventions[a] \in ReturnConventions

\* What Decode makes of the bytes at a.
DecodedAt(a, ins) ==
  /\ InstructionTypes(ins)
  /\ ins.mode \in AddressingModes \ SizedImmediate
  /\ IsLocalBranch(ins) => ins.arg \in Int
  /\ HasFarTarget(ins) => FarTarget(a, ins) \in Addresses

KnownAt(a, di) ==
  /\ a \in Addresses
  /\ DecodedAt(a, di.ins)
  /\ di.current \in ExecutionStates /\ di.next \in ExecutionStates
  /\ di.to \in 0 .. currentSym

StatesOf(stack) == \A a \in DOMAIN stack : a \in Addresses /\ stack[a] \in ExecutionStates
FlagsOf(targets) == \A a \in DOMAIN targets : a \in Addresses /\ targets[a] \in FlagStates

Known ==
  /\ \A a \in DOMAIN disassembly : KnownAt(a, disassembly[a])
  /\ \A a \in DOMAIN newDisassembly : KnownAt(a, newDisassembly[a])

Carried == StatesOf(decodeStack) /\ FlagsOf(farTargets) /\ FlagsOf(seeds) /\ FlagsOf(newSeeds)

\* The running call has only weakened what earlier calls found.
Weakened ==
  \A a \in DOMAIN newDisassembly \cap DOMAIN disassembly :
    Covers(newDisassembly[a].current, disassembly[a].current)

KnownInv == RomTypes /\ Known /\ Carried /\ Weakened

-----------------------------------------------------------------------------
(* What is decoded *)

\* Every row of decode_map has one of the addressing modes.
LEMMA TableModes == \A i \in 1 .. 256 : DecodeMap[i][2] \in AddressingModes
BY SMTT(60) DEF DecodeMap, AddressingModes, SizedImmediate

\* An argument has as many bytes as its mode says; a distance may be negative.
LEMMA ArgumentType ==
  ASSUME NEW mode \in AddressingModes \ SizedImmediate,
         NEW bytes, \A i \in 1 .. 4 : bytes[i] \in 0 .. 255
  PROVE  /\ Argument(mode, bytes) \in Int \cup {NoValue}
         /\ mode \in {"rel8", "rel16"} => Argument(mode, bytes) \in Int
         /\ mode = "dir_w" => Argument(mode, bytes) \in Int /\ 0 <= Argument(mode, bytes)
                              /\ Argument(mode, bytes) < 65536
         /\ mode = "dir_l" => Argument(mode, bytes) \in Int /\ 0 <= Argument(mode, bytes)
                              /\ Argument(mode, bytes) < 256 * 65536
<1> DEFINE word == bytes[2] + 256 * bytes[3]
<1>1. /\ bytes[2] \in Int /\ 0 <= bytes[2] /\ bytes[2] < 256
      /\ bytes[3] \in Int /\ 0 <= bytes[3] /\ bytes[3] < 256
      /\ bytes[4] \in Int /\ 0 <= bytes[4] /\ bytes[4] < 256
  OBVIOUS
<1>2. word \in Int /\ 0 <= word /\ word < 65536
  BY <1>1
<1>3. /\ word + 65536 * bytes[4] \in Int
      /\ 0 <= word + 65536 * bytes[4] /\ word + 65536 * bytes[4] < 256 * 65536
  <2> HIDE DEF word
  <2>1. QED
    BY <1>1, <1>2
<1>4. Signed(bytes[2], 256) \in Int /\ Signed(word, 65536) \in Int
  <2> HIDE DEF word
  <2>1. QED
    BY <1>1, <1>2 DEF Signed
<1>5. CASE mode \in {"rel8", "rel16", "mov"}
  <2>1. /\ mode = "rel8" => Argument(mode, bytes) = Signed(bytes[2], 256)
        /\ mode = "rel16" => Argument(mode, bytes) = Signed(word, 65536)
        /\ mode = "mov" => Argument(mode, bytes) = bytes[3]
    <3>1. InstructionLength(mode) \in {2, 3}
      BY <1>5 DEF InstructionLength
    <3>2. QED
      BY <1>5, <3>1 DEF Argument
  <2> HIDE DEF word
  <2>2. QED
    BY <1>1, <1>4, <1>5, <2>1
<1>6. CASE mode \notin {"rel8", "rel16", "mov"}
  <2>1. InstructionLength(mode) \in 1 .. 4
    BY DEF InstructionLength, AddressingModes, SizedImmediate
  <2>2. /\ mode = "dir_w" => InstructionLength(mode) = 3
        /\ mode = "dir_l" => InstructionLength(mode) = 4
    BY DEF InstructionLength
  <2>3. Argument(mode, bytes) =
          CASE InstructionLength(mode) = 2 -> bytes[2]
            [] InstructionLength(mode) = 3 -> word
            [] InstructionLength(mode) = 4 -> word + 65536 * bytes[4]
            [] InstructionLength(mode) = 1 -> NoValue
    BY <1>6, <2>1 DEF Argument
  <2> HIDE DEF word
  <2>4. QED
    BY <1>1, <1>2, <1>3, <1>6, <2>1, <2>2, <2>3
<1>7. QED
  BY <1>5, <1>6

\* What is decoded at pc, under any flags, is typed, and a far jump leads to
\* an address.
LEMMA DecodeType ==
  ASSUME RomTypes, NEW pc \in Addresses, Readable(pc), NEW f
  PROVE  DecodedAt(pc, Decode(pc, f))
<1> DEFINE bytes == BytesAt(pc)
           row == DecodeOpcode(bytes[1])
           mode == FixedMode([mode |-> row[2]], f)
           ins == Decode(pc, f)
<1>1. \A i \in 1 .. 4 : bytes[i] \in 0 .. 255
  <2> TAKE i \in 1 .. 4
  <2>1. bytes[i] = memory[AddWrapped(pc, i - 1)] /\ i - 1 \in 0 .. 3
    BY DEF BytesAt
  <2>2. QED
    BY <2>1 DEF RomTypes, Readable, ByteRange
<1>2. mode \in AddressingModes \ SizedImmediate
  <2>1. bytes[1] + 1 \in 1 .. 256
    <3> HIDE DEF bytes
    <3>1. QED
      BY <1>1
  <2>2. row[2] \in AddressingModes
    BY <2>1, TableModes DEF DecodeOpcode
  <2> HIDE DEF row
  <2>3. QED
    BY <2>2, FixedModeIsSized
<1>3. /\ ins.mode = mode /\ ins.arg = Argument(mode, bytes) /\ ins.ret = DefaultReturn
      /\ ins.arg2 = IF mode = "mov" THEN bytes[2] ELSE NoValue
  BY DEF Decode, DecodeBytes
<1> HIDE DEF bytes, mode, row, ins
<1>4. /\ ins.arg \in Int \cup {NoValue}
      /\ mode \in {"rel8", "rel16"} => ins.arg \in Int
      /\ mode = "dir_w" => ins.arg \in Int /\ 0 <= ins.arg /\ ins.arg < 65536
      /\ mode = "dir_l" => ins.arg \in Int /\ 0 <= ins.arg /\ ins.arg < 256 * 65536
  BY <1>1, <1>2, <1>3, ArgumentType
<1>5. ins.arg2 \in Int \cup {NoValue}
  BY <1>1, <1>3
<1>6. ins.ret \in ReturnConventions
  BY <1>3, UnknownFlagsType DEF DefaultReturn, ReturnConventions
<1>7. HasFarTarget(ins) => FarTarget(pc, ins) \in Addresses
  <2>1. MaxAddress = 256 * 65536 - 1
    BY DEF MaxAddress
  <2>2. pc \in Int /\ 0 <= pc /\ pc < 256 * 65536
    BY <2>1, AddressesAreIntegers, AddressBounds
  <2>3. mode = "dir_w" =>
          /\ Bank(pc) * 65536 + ins.arg \in Int
          /\ 0 <= Bank(pc) * 65536 + ins.arg /\ Bank(pc) * 65536 + ins.arg < 256 * 65536
    BY <1>4, <2>2 DEF Bank
  <2>4. \A n \in Int : 0 <= n /\ n < 256 * 65536 => n \in Addresses
    BY <2>1, AddressBounds
  <2>5. QED
    BY <1>3, <1>4, <2>3, <2>4 DEF HasFarTarget, FarTarget
<1>8. QED
  BY <1>2, <1>3, <1>4, <1>5, <1>6, <1>7 DEF DecodedAt, InstructionTypes, IsLocalBranch, ins

\* Both ways out of an instruction lead to addresses.
LEMMA SuccessorTypes ==
  ASSUME NEW pc \in Addresses, NEW ins, DecodedAt(pc, ins)
  PROVE  /\ NextPc(pc, ins) \in Addresses
         /\ IsLocalBranch(ins) => BranchTarget(pc, ins) \in Addresses
<1>1. InstructionLength(ins.mode) \in Int
  BY DEF InstructionLength
<1>2. pc \in Int /\ \A a \in Addresses : a \in Int
  BY AddressesAreIntegers
<1>3. NextPc(pc, ins) \in Addresses
  BY <1>1, <1>2, AddWrappedType DEF NextPc
<1>4. IsLocalBranch(ins) => BranchTarget(pc, ins) \in Addresses
  BY <1>2, <1>3, AddWrappedType DEF BranchTarget, DecodedAt
<1>5. QED
  BY <1>3, <1>4

\* Joining keeps stacks and maps of flags typed.
LEMMA JoinTypes ==
  ASSUME NEW a \in Addresses
  PROVE  /\ \A stack, es : StatesOf(stack) /\ es \in ExecutionStates => StatesOf(JoinState(stack, a, es))
         /\ \A targets, f : FlagsOf(targets) /\ f \in FlagStates => FlagsOf(JoinFlags(targets, a, f))
<1>1. ASSUME NEW stack, NEW es \in ExecutionStates, StatesOf(stack)
      PROVE  StatesOf(JoinState(stack, a, es))
  <2>1. PICK v \in ExecutionStates : JoinState(stack, a, es) = With(stack, a, v)
    BY <1>1, MergeType DEF JoinState, StatesOf
  <2>2. /\ DOMAIN With(stack, a, v) = DOMAIN stack \cup {a} /\ With(stack, a, v)[a] = v
        /\ \A b \in DOMAIN stack \ {a} : With(stack, a, v)[b] = stack[b]
    BY DEF With
  <2>3. QED
    BY <1>1, <2>1, <2>2 DEF StatesOf
<1>2. ASSUME NEW targets, NEW f \in FlagStates, FlagsOf(targets)
      PROVE  FlagsOf(JoinFlags(targets, a, f))
  <2>1. PICK v \in FlagStates : JoinFlags(targets, a, f) = With(targets, a, v)
    BY <1>2, MergeFlagsType DEF JoinFlags, FlagsOf
  <2>2. /\ DOMAIN With(targets, a, v) = DOMAIN targets \cup {a} /\ With(targets, a, v)[a] = v
        /\ \A b \in DOMAIN targets \ {a} : With(targets, a, v)[b] = targets[b]
    BY DEF With
  <2>3. QED
    BY <1>2, <2>1, <2>2 DEF FlagsOf
<1>3. QED
  BY <1>1, <1>2

LEMMA CombineTypes ==
  ASSUME NEW targets, NEW new, FlagsOf(targets), FlagsOf(new)
  PROVE  FlagsOf(CombineStates(targets, new))
<1> DEFINE all == CombineStates(targets, new)
<1>1. DOMAIN all = DOMAIN targets \cup DOMAIN new
  BY DEF CombineStates
<1> SUFFICES ASSUME NEW a \in DOMAIN targets \cup DOMAIN new
             PROVE  a \in Addresses /\ all[a] \in FlagStates
  BY <1>1 DEF FlagsOf
<1>2. all[a] \in {targets[a], new[a], MergeFlags(targets[a], new[a])}
      /\ (a \notin DOMAIN targets => all[a] = new[a])
      /\ (a \notin DOMAIN new => all[a] = targets[a])
  BY DEF CombineStates
<1>3. QED
  BY <1>2, MergeFlagsType DEF FlagsOf

\* Whether what is decoded is typed does not depend on the suffix; the
\* convention only has to be one.
LEMMA DecodedKept ==
  ASSUME NEW a, NEW ins, DecodedAt(a, ins),
         NEW j, j.mnemonic = ins.mnemonic, j.mode = ins.mode, j.arg = ins.arg, j.arg2 = ins.arg2,
         j.ret \in ReturnConventions
  PROVE  DecodedAt(a, j)
<1>1. /\ IsLocalBranch(j) <=> IsLocalBranch(ins)
      /\ HasFarTarget(j) <=> HasFarTarget(ins)
      /\ FarTarget(a, j) = FarTarget(a, ins)
  BY DEF IsLocalBranch, HasFarTarget, FarTarget
<1>2. QED
  BY <1>1 DEF DecodedAt, InstructionTypes

-----------------------------------------------------------------------------
(* What a turn of the loop computes *)

LEMMA ExecutedType ==
  ASSUME KnownInv, NEW pc \in DOMAIN decodeStack
  PROVE  /\ Combined(pc) \in ExecutionStates
         /\ Executed(pc).state \in ExecutionStates
         /\ Seen(pc) => KnownAt(pc, Existing(pc))
         /\ ~Seen(pc) /\ Executed(pc).result = "ok" =>
              DecodedAt(pc, Decode(pc, decodeStack[pc].flags))
<1> DEFINE ins == IF Seen(pc) THEN Existing(pc).ins ELSE Decode(pc, Combined(pc).flags)
<1>1. pc \in Addresses /\ decodeStack[pc] \in ExecutionStates
  BY DEF KnownInv, Carried, StatesOf
<1>2. Seen(pc) => KnownAt(pc, Existing(pc))
  BY DEF Seen, Existing, KnownInv, Known
<1>3. Combined(pc) \in ExecutionStates
  BY <1>1, <1>2, MergeType DEF Combined, KnownAt
<1>4. CanDecode(pc, Combined(pc).flags) => DecodedAt(pc, ins)
  BY <1>1, <1>2, DecodeType DEF CanDecode, KnownInv, KnownAt
<1>5. Executed(pc).state \in ExecutionStates
  <2>1. CASE CanDecode(pc, Combined(pc).flags)
    <3>1. Executed(pc) = Execute(ins, Combined(pc))
      BY <2>1 DEF Executed
    <3> HIDE DEF ins
    <3>2. QED
      BY <1>3, <1>4, <2>1, <3>1, ExecuteType DEF DecodedAt
  <2>2. CASE ~CanDecode(pc, Combined(pc).flags)
    BY <1>3, <2>2 DEF Executed
  <2>3. QED
    BY <2>1, <2>2
<1>6. Executed(pc).result = "ok" => CanDecode(pc, Combined(pc).flags)
  BY DEF Executed
<1>7. ~Seen(pc) => ins = Decode(pc, decodeStack[pc].flags)
  BY DEF Combined
<1>8. QED
  BY <1>2, <1>3, <1>4, <1>5, <1>6, <1>7

\* What the turn adds to the worklist and to the far targets is typed.
LEMMA OnwardTypes ==
  ASSUME NEW pc \in Addresses, NEW ins, DecodedAt(pc, ins), NEW stack, StatesOf(stack),
         NEW es \in ExecutionStates
  PROVE  /\ StatesOf(AfterFallThrough(stack, pc, ins, es))
         /\ StatesOf(AfterBranch(stack, pc, ins, es))
         /\ FlagsOf(farTargets) => FlagsOf(AfterFarBranch(pc, ins, es))
<1>1. /\ NextPc(pc, ins) \in Addresses
      /\ IsLocalBranch(ins) => BranchTarget(pc, ins) \in Addresses
      /\ HasFarTarget(ins) => FarTarget(pc, ins) \in Addresses
  BY SuccessorTypes DEF DecodedAt
<1>2. ExecuteBranch(ins, es).state \in ExecutionStates /\ es.flags \in FlagStates
  BY ExecuteType, StateFields DEF DecodedAt
<1>3. StatesOf(AfterFallThrough(stack, pc, ins, es))
  BY <1>1, JoinTypes DEF AfterFallThrough
<1>4. StatesOf(AfterBranch(stack, pc, ins, es))
  BY <1>1, <1>2, JoinTypes DEF AfterBranch
<1>5. FlagsOf(farTargets) => FlagsOf(AfterFarBranch(pc, ins, es))
  BY <1>1, <1>2, JoinTypes DEF AfterFarBranch
<1>6. QED
  BY <1>3, <1>4, <1>5

LEMMA PoppedType == ASSUME Carried, NEW pc PROVE StatesOf(Popped(pc))
BY DEF Carried, StatesOf, Popped

\* What the running call holds for an instruction covers what earlier calls
\* left there.
LEMMA ExistingCovers ==
  ASSUME KnownInv, NEW pc \in DOMAIN disassembly
  PROVE  Covers(Existing(pc).current, disassembly[pc].current)
<1>1. disassembly[pc].current \in ExecutionStates
  BY DEF KnownInv, Known, KnownAt
<1>2. Covers(disassembly[pc].current, disassembly[pc].current)
  BY <1>1, MergeLaws DEF Covers
<1>3. QED
  BY <1>2 DEF Existing, KnownInv, Weakened

\* More labels do not disturb what is known.
LEMMA KnownStays ==
  ASSUME NEW a, NEW di, KnownAt(a, di), currentSym \in Nat, currentSym' \in Nat, currentSym <= currentSym'
  PROVE  KnownAt(a, di)'
<1>1. di.to \in 0 .. currentSym'
  BY DEF KnownAt
<1>2. QED
  BY <1>1 DEF KnownAt, DecodedAt, InstructionTypes, IsLocalBranch, HasFarTarget, FarTarget

-----------------------------------------------------------------------------
(* The steps keep what is known *)

LEMMA KnownInit == Init => KnownInv
<1> SUFFICES ASSUME Init PROVE KnownInv
  OBVIOUS
<1>1. PICK task \in Tasks : memory = task.memory /\ conventions = task.conventions /\ seeds = task.seeds
  BY DEF Init
<1>2. RomTypes /\ FlagsOf(seeds)
  BY <1>1, TasksAssumption DEF RomTypes, FlagsOf
<1>3. /\ DOMAIN disassembly = {} /\ DOMAIN newDisassembly = {} /\ DOMAIN decodeStack = {}
      /\ DOMAIN farTargets = {} /\ DOMAIN newSeeds = {}
  BY EmptyMap DEF Init
<1>4. QED
  BY <1>2, <1>3 DEF KnownInv, Known, Carried, Weakened, StatesOf, FlagsOf

\* A turn of the loop writes one instruction, weaker than it was found.
LEMMA KnownStore ==
  ASSUME KnownInv, NEW pc, NEW di, newDisassembly' = With(newDisassembly, pc, di),
         UNCHANGED <<rom, disassembly>>,
         currentSym \in Nat, currentSym' \in Nat, currentSym <= currentSym', KnownAt(pc, di)',
         pc \in DOMAIN disassembly => Covers(di.current, disassembly[pc].current)
  PROVE  RomTypes' /\ Known' /\ Weakened'
<1>1. /\ DOMAIN newDisassembly' = DOMAIN newDisassembly \cup {pc} /\ newDisassembly'[pc] = di
      /\ \A a \in DOMAIN newDisassembly \ {pc} : newDisassembly'[a] = newDisassembly[a]
  BY DEF With
<1>2. RomTypes'
  BY DEF rom, RomTypes, KnownInv
<1>3. Known'
  <2>1. ASSUME NEW a \in DOMAIN disassembly, NEW old, old = disassembly[a]
        PROVE  KnownAt(a, old)'
    BY <2>1, KnownStays DEF KnownInv, Known
  <2>2. ASSUME NEW a \in DOMAIN newDisassembly, NEW old, old = newDisassembly[a]
        PROVE  KnownAt(a, old)'
    BY <2>2, KnownStays DEF KnownInv, Known
  <2>3. \A a \in DOMAIN disassembly' : KnownAt(a, disassembly[a])'
    BY <2>1
  <2>4. ASSUME NEW a \in DOMAIN newDisassembly', NEW new, new = newDisassembly'[a]
        PROVE  KnownAt(a, new)'
    BY <1>1, <2>2, <2>4
  <2>5. \A a \in DOMAIN newDisassembly' : KnownAt(a, newDisassembly[a])'
    BY <2>4
  <2>6. QED
    BY <2>3, <2>5 DEF Known
<1>4. Weakened'
  BY <1>1 DEF KnownInv, Weakened, Covers
<1>5. QED
  BY <1>2, <1>3, <1>4

LEMMA KnownBegin == ASSUME LabelInv, KnownInv, NEW a, Begin(a), a \in DOMAIN seeds PROVE KnownInv'
<1>1. /\ UNCHANGED <<rom, disassembly, seeds, newSeeds>>
      /\ DOMAIN newDisassembly' = {} /\ DOMAIN farTargets' = {}
      /\ decodeStack' = With(Empty, a, IncomingState(seeds[a]))
  BY EmptyMap DEF Begin, driver
<1>2. currentSym \in Nat /\ currentSym' \in Nat /\ currentSym <= currentSym'
  BY DEF Begin, NameTarget, LabelInv, Numbers
<1>3. \A b \in DOMAIN disassembly : KnownAt(b, disassembly[b])'
  <2>1. ASSUME NEW b \in DOMAIN disassembly, NEW old, old = disassembly[b]
        PROVE  KnownAt(b, old)'
    BY <1>2, <2>1, KnownStays DEF KnownInv, Known
  <2>2. QED
    BY <1>1, <2>1
<1>4. StatesOf(decodeStack')
  <2>1. a \in Addresses /\ IncomingState(seeds[a]) \in ExecutionStates
    BY IncomingStateType DEF KnownInv, Carried, FlagsOf
  <2>2. DOMAIN decodeStack' = {a} /\ decodeStack'[a] = IncomingState(seeds[a])
    BY <1>1, EmptyMap DEF With
  <2>3. QED
    BY <2>1, <2>2 DEF StatesOf
<1>5. RomTypes' /\ Weakened'
  BY <1>1 DEF KnownInv, RomTypes, Weakened, rom
<1>6. Known'
  BY <1>1, <1>3 DEF Known
<1>7. Carried'
  BY <1>1, <1>4 DEF KnownInv, Carried, FlagsOf, StatesOf
<1>8. QED
  BY <1>5, <1>6, <1>7 DEF KnownInv

LEMMA KnownDiscover ==
  ASSUME LabelInv, KnownInv, NEW pc \in DOMAIN decodeStack, Discover(pc) PROVE KnownInv'
<1> DEFINE ins == Decode(pc, decodeStack[pc].flags)
           next == Executed(pc).state
           r == ReturnOf(pc, ins)
           called == [ins EXCEPT !.ret = r]
           after == ApplyReturn(called.ret, next)
           to == IF IsLocalBranch(ins) THEN Label(BranchTarget(pc, ins)) ELSE NoLabel
           di == [ins |-> called, current |-> decodeStack[pc], next |-> after, label |-> NoLabel,
                  to |-> to]
<1> PICK d : d = di
  OBVIOUS
<1>1. /\ ~Seen(pc) /\ Executed(pc).result = "ok"
      /\ UNCHANGED <<rom, disassembly, seeds, newSeeds>>
      /\ newDisassembly' = With(newDisassembly, pc, d)
  BY DEF Discover, driver
<1>2. pc \in Addresses /\ decodeStack[pc] \in ExecutionStates
  BY DEF KnownInv, Carried, StatesOf
<1>3. DecodedAt(pc, ins) /\ next \in ExecutionStates /\ Instruction(ins)
  BY <1>1, ExecutedType, DecodeShape
<1>4. r \in ReturnConventions
  <2> HIDE DEF ins
  <2>1. ins.ret \in ReturnConventions
    BY <1>3 DEF DecodedAt, InstructionTypes
  <2>2. QED
    BY <2>1 DEF ReturnOf, KnownInv, RomTypes
<1>5. DecodedAt(pc, called) /\ called.ret = r
  <2> HIDE DEF ins, r
  <2>1. /\ called.mnemonic = ins.mnemonic /\ called.mode = ins.mode
        /\ called.arg = ins.arg /\ called.arg2 = ins.arg2 /\ called.ret = r
    BY <1>3 DEF Instruction
  <2> HIDE DEF called
  <2>2. QED
    BY <1>3, <1>4, <2>1, DecodedKept
<1>6. after \in ExecutionStates
  <2> HIDE DEF r, next, called
  <2>1. r.flags \in FlagStates
    BY <1>4 DEF ReturnConventions
  <2>2. [next EXCEPT !.flags = r.flags] \in ExecutionStates
    BY <1>3, <2>1, StateFields, UpdatedStateTypes
  <2>3. QED
    BY <1>3, <1>5, <2>2 DEF ApplyReturn
<1>7. /\ currentSym \in Nat /\ currentSym' \in Nat /\ currentSym <= currentSym'
      /\ to \in 0 .. currentSym'
  <2> DEFINE t == BranchTarget(pc, ins)
  <2>1. currentSym \in Nat /\ Label(t) \in 0 .. currentSym + 1
    BY DEF Label, LabelInv, Numbers
  <2>2. CASE IsLocalBranch(ins)
    <3>1. currentSym' = IF Label(t) = currentSym + 1 THEN currentSym + 1 ELSE currentSym
      BY <2>2 DEF Discover, NameTarget
    <3> HIDE DEF t
    <3>2. QED
      BY <2>1, <2>2, <3>1 DEF t
  <2>3. CASE ~IsLocalBranch(ins)
    <3>1. currentSym' = currentSym
      BY <2>3 DEF Discover
    <3>2. QED
      BY <2>1, <2>3, <3>1 DEF NoLabel
  <2>4. QED
    BY <2>2, <2>3
<1>8. KnownAt(pc, d)'
  <2> HIDE DEF called, after, to
  <2>1. d.ins = called /\ d.current = decodeStack[pc] /\ d.next = after /\ d.to = to
    OBVIOUS
  <2>2. DecodedAt(pc, d.ins)'
    BY <1>5, <2>1 DEF DecodedAt, InstructionTypes, IsLocalBranch, HasFarTarget, FarTarget
  <2>3. QED
    BY <1>2, <1>6, <1>7, <2>1, <2>2 DEF KnownAt
<1>9. RomTypes' /\ Known' /\ Weakened'
  <2> HIDE DEF di
  <2>1. pc \notin DOMAIN disassembly
    BY <1>1 DEF Seen
  <2>2. QED
    BY <1>1, <1>7, <1>8, <2>1, KnownStore
<1>10. Carried'
  <2> HIDE DEF ins, next, called, after
  <2>1. StatesOf(Popped(pc)) /\ FlagsOf(farTargets)
    BY PoppedType DEF KnownInv, Carried
  <2>2. /\ decodeStack' = AfterFallThrough(AfterBranch(Popped(pc), pc, ins, decodeStack[pc]),
                                           pc, called, after)
        /\ farTargets' = AfterFarBranch(pc, ins, next)
    BY DEF Discover, ins, next, called, after
  <2>3. StatesOf(AfterBranch(Popped(pc), pc, ins, decodeStack[pc]))
    BY <1>2, <1>3, <2>1, OnwardTypes
  <2>4. StatesOf(decodeStack')
    BY <1>2, <1>5, <1>6, <2>2, <2>3, OnwardTypes
  <2>5. FlagsOf(farTargets')
    BY <1>2, <1>3, <2>1, <2>2, OnwardTypes
  <2>6. QED
    BY <1>1, <2>4, <2>5 DEF KnownInv, Carried, FlagsOf, StatesOf
<1>11. QED
  BY <1>9, <1>10 DEF KnownInv

LEMMA KnownConfirm ==
  ASSUME LabelInv, KnownInv, NEW pc \in DOMAIN decodeStack, Confirm(pc) PROVE KnownInv'
<1> PICK d : d = Existing(pc)
  OBVIOUS
<1>1. /\ Seen(pc) /\ UNCHANGED <<rom, disassembly, seeds, newSeeds, farTargets, currentSym>>
      /\ newDisassembly' = With(newDisassembly, pc, d) /\ decodeStack' = Popped(pc)
  BY DEF Confirm, own, driver
<1>2. currentSym \in Nat
  BY DEF LabelInv, Numbers
<1>3. KnownAt(pc, d)
  BY <1>1, ExecutedType
<1>4. KnownAt(pc, d)'
  BY <1>1, <1>2, <1>3, KnownStays
<1>5. RomTypes' /\ Known' /\ Weakened'
  BY <1>1, <1>2, <1>4, ExistingCovers, KnownStore
<1>6. Carried'
  BY <1>1, PoppedType DEF KnownInv, Carried, FlagsOf, StatesOf
<1>7. QED
  BY <1>5, <1>6 DEF KnownInv

LEMMA KnownWeaken ==
  ASSUME LabelInv, KnownInv, NEW pc \in DOMAIN decodeStack, Weaken(pc) PROVE KnownInv'
<1> DEFINE old == Existing(pc)
           c == Combined(pc)
           next == Executed(pc).state
           di == [old EXCEPT !.current = c, !.next = next]
           onward == AfterFallThrough(Popped(pc), pc, old.ins, next)
<1> PICK d : d = di
  OBVIOUS
<1>1. /\ Seen(pc) /\ UNCHANGED <<rom, disassembly, seeds, newSeeds, currentSym>>
      /\ newDisassembly' = With(newDisassembly, pc, d)
      /\ decodeStack' = AfterBranch(onward, pc, old.ins, decodeStack[pc])
      /\ farTargets' = AfterFarBranch(pc, old.ins, next)
  BY DEF Weaken, own, driver
<1>2. currentSym \in Nat
  BY DEF LabelInv, Numbers
<1>3. KnownAt(pc, old) /\ c \in ExecutionStates /\ next \in ExecutionStates
  BY <1>1, ExecutedType
<1>4. pc \in Addresses /\ decodeStack[pc] \in ExecutionStates
  BY DEF KnownInv, Carried, StatesOf
<1>5. Shaped(old)
  BY <1>1 DEF Seen, Existing, LabelInv, Shapes
<1>6. d.ins = old.ins /\ d.to = old.to /\ d.current = c /\ d.next = next
  <2> HIDE DEF old, c, next
  <2>1. QED
    BY <1>5 DEF Shaped
<1>7. KnownAt(pc, d)
  BY <1>3, <1>6 DEF KnownAt
<1>8. KnownAt(pc, d)'
  BY <1>1, <1>2, <1>7, KnownStays
<1>9. pc \in DOMAIN disassembly => Covers(d.current, disassembly[pc].current)
  <2> SUFFICES ASSUME pc \in DOMAIN disassembly
               PROVE  Covers(c, disassembly[pc].current)
    BY <1>6
  <2>1. c = Merge(decodeStack[pc], old.current)
    BY <1>1 DEF Combined
  <2>2. Covers(old.current, disassembly[pc].current)
    BY ExistingCovers
  <2>3. old.current \in ExecutionStates /\ disassembly[pc].current \in ExecutionStates
    BY <1>3 DEF KnownInv, Known, KnownAt
  <2> HIDE DEF old, c
  <2>4. QED
    BY <1>4, <2>1, <2>2, <2>3, MergeCovers DEF Covers
<1>10. RomTypes' /\ Known' /\ Weakened'
  <2> HIDE DEF di, old, c, next, onward
  <2>1. /\ UNCHANGED <<rom, disassembly>> /\ newDisassembly' = With(newDisassembly, pc, d)
        /\ currentSym' \in Nat /\ currentSym <= currentSym'
    BY <1>1, <1>2
  <2>2. QED
    BY <1>2, <1>8, <1>9, <2>1, KnownStore
<1>11. Carried'
  <2> HIDE DEF old, next
  <2>1. DecodedAt(pc, old.ins) /\ StatesOf(Popped(pc)) /\ FlagsOf(farTargets)
    BY <1>3, PoppedType DEF KnownAt, KnownInv, Carried
  <2>2. StatesOf(onward)
    BY <1>3, <1>4, <2>1, OnwardTypes
  <2> HIDE DEF onward
  <2>3. StatesOf(decodeStack') /\ FlagsOf(farTargets')
    BY <1>1, <1>3, <1>4, <2>1, <2>2, OnwardTypes
  <2>4. QED
    BY <1>1, <2>3 DEF KnownInv, Carried, FlagsOf, StatesOf
<1>12. QED
  BY <1>10, <1>11 DEF KnownInv

\* Steps that write no instruction and no state.
LEMMA KnownStutter ==
  ASSUME LabelInv, KnownInv, UNCHANGED <<rom, disassembly, currentSym>>,
         UNCHANGED <<decodeStack, newDisassembly, farTargets>>
           \/ (decodeStack' = Empty /\ newDisassembly' = Empty /\ farTargets' = Empty),
         FlagsOf(seeds'), FlagsOf(newSeeds')
  PROVE  KnownInv'
<1>1. /\ \A a \in DOMAIN newDisassembly' :
           a \in DOMAIN newDisassembly /\ newDisassembly'[a] = newDisassembly[a]
      /\ \A a \in DOMAIN decodeStack' : a \in DOMAIN decodeStack /\ decodeStack'[a] = decodeStack[a]
      /\ \A a \in DOMAIN farTargets' : a \in DOMAIN farTargets /\ farTargets'[a] = farTargets[a]
  BY EmptyMap
<1>2. RomTypes'
  BY DEF KnownInv, RomTypes, rom
<1>3. Known'
  <2>1. ASSUME NEW a, NEW di, KnownAt(a, di)
        PROVE  KnownAt(a, di)'
    BY <2>1, KnownStays DEF LabelInv, Numbers
  <2>2. ASSUME NEW a \in DOMAIN disassembly', NEW di, di = disassembly'[a]
        PROVE  KnownAt(a, di)'
    BY <2>1, <2>2 DEF KnownInv, Known
  <2>3. ASSUME NEW a \in DOMAIN newDisassembly', NEW di, di = newDisassembly'[a]
        PROVE  KnownAt(a, di)'
    BY <1>1, <2>1, <2>3 DEF KnownInv, Known
  <2>4. QED
    BY <2>2, <2>3 DEF Known
<1>4. Carried'
  BY <1>1 DEF KnownInv, Carried, StatesOf, FlagsOf
<1>5. Weakened'
  BY <1>1 DEF KnownInv, Weakened, Covers
<1>6. QED
  BY <1>2, <1>3, <1>4, <1>5 DEF KnownInv

\* The suffix is all that is set on an instruction at the end of a call.
LEMMA SuffixedKeeps ==
  ASSUME NEW di, Shaped(di), NEW new, new = Suffixed(di)
  PROVE  /\ Shaped(new)
         /\ new.current = di.current /\ new.next = di.next /\ new.to = di.to /\ new.label = di.label
         /\ new.ins.mnemonic = di.ins.mnemonic /\ new.ins.mode = di.ins.mode
         /\ new.ins.arg = di.ins.arg /\ new.ins.arg2 = di.ins.arg2 /\ new.ins.ret = di.ins.ret
<1>1. PICK s : new = [di EXCEPT !.ins = [di.ins EXCEPT !.suffix = s]]
  BY DEF Suffixed, Shaped, Instruction
<1>2. /\ new.ins = [di.ins EXCEPT !.suffix = s] /\ DOMAIN new = DOMAIN di
      /\ new.current = di.current /\ new.next = di.next /\ new.to = di.to /\ new.label = di.label
  BY <1>1 DEF Shaped
<1>3. QED
  BY <1>2 DEF Shaped, Instruction

\* What is at a after the call is what was there, but for suffix and label.
LEMMA ReturnKeeps ==
  ASSUME LabelInv, Return, NEW a \in DOMAIN disassembly'
  PROVE  /\ a \in DOMAIN newDisassembly \cup DOMAIN disassembly
         /\ LET old == Existing(a)
                new == disassembly'[a]
            IN  /\ new.current = old.current /\ new.next = old.next /\ new.to = old.to
                /\ new.ins.mnemonic = old.ins.mnemonic /\ new.ins.mode = old.ins.mode
                /\ new.ins.arg = old.ins.arg /\ new.ins.arg2 = old.ins.arg2
                /\ new.ins.ret = old.ins.ret
                /\ new.label = IF a \in DOMAIN labelNames THEN labelNames[a] ELSE old.label
<1> DEFINE kept == IF a \in DOMAIN newDisassembly THEN Suffixed(newDisassembly[a]) ELSE disassembly[a]
           old == Existing(a)
<1>1. /\ a \in DOMAIN newDisassembly \cup DOMAIN disassembly
      /\ disassembly'[a] = IF a \in DOMAIN labelNames THEN [kept EXCEPT !.label = labelNames[a]]
                                                      ELSE kept
  BY DEF Return
<1>2. Shaped(old)
  BY <1>1 DEF LabelInv, Shapes, Existing
<1>3. kept = Suffixed(old) \/ kept = old
  BY <1>1 DEF Existing
<1> HIDE DEF kept, old
<1>4. /\ Shaped(kept)
      /\ kept.current = old.current /\ kept.next = old.next /\ kept.to = old.to
      /\ kept.label = old.label
      /\ kept.ins.mnemonic = old.ins.mnemonic /\ kept.ins.mode = old.ins.mode
      /\ kept.ins.arg = old.ins.arg /\ kept.ins.arg2 = old.ins.arg2 /\ kept.ins.ret = old.ins.ret
  BY <1>2, <1>3, SuffixedKeeps
<1>5. /\ disassembly'[a].ins = kept.ins /\ disassembly'[a].current = kept.current
      /\ disassembly'[a].next = kept.next /\ disassembly'[a].to = kept.to
      /\ disassembly'[a].label = IF a \in DOMAIN labelNames THEN labelNames[a] ELSE kept.label
  BY <1>1, <1>4 DEF Shaped
<1>6. QED
  BY <1>1, <1>4, <1>5 DEF old

LEMMA KnownReturn == ASSUME LabelInv, KnownInv, Return PROVE KnownInv'
<1>1. /\ UNCHANGED <<rom, seeds, decodeStack, currentSym>>
      /\ newSeeds' = CombineStates(newSeeds, farTargets)
      /\ DOMAIN newDisassembly' = {} /\ DOMAIN farTargets' = {}
  BY EmptyMap DEF Return
<1>2. ASSUME NEW a \in DOMAIN disassembly', NEW new, new = disassembly'[a]
      PROVE  KnownAt(a, new)'
  <2> PICK old : old = Existing(a)
    OBVIOUS
  <2>1. KnownAt(a, old)
    BY ReturnKeeps DEF Existing, KnownInv, Known
  <2>2. /\ new.current = old.current /\ new.next = old.next /\ new.to = old.to
        /\ new.ins.mnemonic = old.ins.mnemonic /\ new.ins.mode = old.ins.mode
        /\ new.ins.arg = old.ins.arg /\ new.ins.arg2 = old.ins.arg2 /\ new.ins.ret = old.ins.ret
    BY <1>2, ReturnKeeps
  <2>3. DecodedAt(a, new.ins)
    BY <2>1, <2>2, DecodedKept DEF KnownAt, DecodedAt, InstructionTypes
  <2>4. KnownAt(a, new)
    BY <2>1, <2>2, <2>3 DEF KnownAt
  <2>5. currentSym \in Nat
    BY DEF LabelInv, Numbers
  <2>6. QED
    BY <1>1, <2>4, <2>5, KnownStays
<1>3. \A a \in DOMAIN disassembly' : KnownAt(a, disassembly[a])'
  BY <1>2
<1>4. RomTypes' /\ Known' /\ Weakened'
  BY <1>1, <1>3 DEF KnownInv, RomTypes, rom, Known, Weakened
<1>5. Carried'
  <2>1. FlagsOf(newSeeds')
    BY <1>1, CombineTypes DEF KnownInv, Carried
  <2>2. QED
    BY <1>1, <2>1 DEF KnownInv, Carried, FlagsOf, StatesOf
<1>6. QED
  BY <1>4, <1>5 DEF KnownInv

\* Every step keeps what is known.
LEMMA KnownStep ==
  ASSUME LabelInv, KnownInv, todo \subseteq DOMAIN seeds, [Next]_vars
  PROVE  KnownInv'
<1>1. FlagsOf(seeds) /\ FlagsOf(newSeeds)
  BY DEF KnownInv, Carried
<1>2. CASE \E a \in todo : SkipAssembled(a)
  BY <1>1, <1>2, KnownStutter DEF SkipAssembled, own, call
<1>3. CASE \E a \in todo : Begin(a)
  BY <1>3, KnownBegin
<1>4. CASE EndPass
  <2>1. FlagsOf(seeds') /\ FlagsOf(newSeeds')
    BY <1>1, <1>4, EmptyMap DEF EndPass, FlagsOf
  <2>2. UNCHANGED <<rom, disassembly, currentSym, decodeStack, newDisassembly, farTargets>>
    BY <1>4 DEF EndPass, own, call
  <2>3. QED
    BY <2>1, <2>2, KnownStutter
<1>5. CASE EndDriver
  BY <1>1, <1>5, KnownStutter DEF EndDriver, own, call, driver
<1>6. CASE \E pc \in DOMAIN decodeStack : Discover(pc)
  BY <1>6, KnownDiscover
<1>7. CASE \E pc \in DOMAIN decodeStack : Confirm(pc)
  BY <1>7, KnownConfirm
<1>8. CASE \E pc \in DOMAIN decodeStack : Weaken(pc)
  BY <1>8, KnownWeaken
<1>9. CASE \E pc \in DOMAIN decodeStack : Fail(pc)
  BY <1>1, <1>9, KnownStutter DEF Fail, own
<1>10. CASE \E pc \in DOMAIN decodeStack : Crash(pc)
  BY <1>1, <1>10, KnownStutter DEF Crash, own, call, driver
<1>11. CASE Return
  BY <1>11, KnownReturn
<1>12. CASE Finished \/ UNCHANGED vars
  BY <1>1, <1>12, KnownStutter DEF Finished, vars, own, call, driver
<1>13. QED
  BY <1>2, <1>3, <1>4, <1>5, <1>6, <1>7, <1>8, <1>9, <1>10, <1>11, <1>12 DEF Next

-----------------------------------------------------------------------------
(* The driver *)

\* While a call runs, its seed is the lowest one left and an entry point.
DriverInv ==
  /\ entryPoints \subseteq Addresses /\ failed \subseteq entryPoints
  /\ todo \subseteq DOMAIN seeds /\ pass \in 0 .. MaxPasses
  /\ status \in {"driver", "call", "done", "crash"}
  /\ status = "call" => \E a \in todo : IsLowest(a, todo) /\ a \in entryPoints

LEMMA LowestIsOne ==
  ASSUME NEW set, set \subseteq Addresses, NEW a, IsLowest(a, set), NEW b, IsLowest(b, set)
  PROVE  a = b
<1>1. a \in Int /\ b \in Int /\ a <= b /\ b <= a
  BY AddressesAreIntegers DEF IsLowest
<1>2. QED
  BY <1>1

LEMMA DriverInit == Init => DriverInv
BY MaxPassesAssumption DEF Init, DriverInv

LEMMA DriverStep == ASSUME KnownInv, DriverInv, [Next]_vars PROVE DriverInv'
<1>1. DOMAIN seeds \subseteq Addresses /\ todo \subseteq Addresses
  BY DEF KnownInv, Carried, FlagsOf, DriverInv
<1>2. CASE \E a \in todo : SkipAssembled(a)
  BY <1>2 DEF SkipAssembled, own, DriverInv
<1>3. CASE \E a \in todo : Begin(a)
  BY <1>1, <1>3 DEF Begin, driver, DriverInv
<1>4. CASE EndPass
  BY <1>4, MaxPassesAssumption DEF EndPass, own, DriverInv
<1>5. CASE EndDriver
  BY <1>5 DEF EndDriver, own, driver, DriverInv
<1>6. ASSUME NEW pc \in DOMAIN decodeStack, Discover(pc) \/ Confirm(pc) \/ Weaken(pc)
      PROVE  DriverInv'
  BY <1>6 DEF Discover, Confirm, Weaken, own, driver, DriverInv
<1>7. ASSUME NEW pc \in DOMAIN decodeStack, Fail(pc)
      PROVE  DriverInv'
  <2>1. PICK a \in todo : IsLowest(a, todo) /\ todo' = todo \ {a} /\ failed' = failed \cup {a}
    BY <1>7 DEF Fail
  <2>2. a \in entryPoints
    BY <1>1, <1>7, <2>1, LowestIsOne DEF Fail, IsNext, DriverInv
  <2>3. status' = "driver" /\ UNCHANGED <<entryPoints, seeds, pass>>
    BY <1>7 DEF Fail, own
  <2>4. QED
    BY <2>1, <2>2, <2>3 DEF DriverInv
<1>8. ASSUME NEW pc \in DOMAIN decodeStack, Crash(pc)
      PROVE  DriverInv'
  BY <1>8 DEF Crash, own, driver, DriverInv
<1>9. CASE Return
  BY <1>9 DEF Return, DriverInv
<1>10. CASE Finished \/ UNCHANGED vars
  BY <1>10 DEF Finished, vars, own, driver, DriverInv
<1>11. QED
  BY <1>2, <1>3, <1>4, <1>5, <1>6, <1>7, <1>8, <1>9, <1>10 DEF Next

-----------------------------------------------------------------------------
(* The theorems *)

\* The three invariants hold together.
Inv == LabelInv /\ KnownInv /\ DriverInv

LEMMA InvHolds == Spec => []Inv
<1>1. Init => Inv
  BY LabelInit, KnownInit, DriverInit DEF Inv
<1>2. Inv /\ [Next]_vars => Inv'
  BY LabelStep, KnownStep, DriverStep DEF Inv, DriverInv
<1>3. QED
  BY <1>1, <1>2, PTL DEF Spec

\* The disassembler and its driver keep their types: whatever bytes are
\* decoded, each state and each address that is recorded is one.
THEOREM DisassemblerTypeCorrect == Spec => []TypeOK
<1>1. Inv => TypeOK
  <2> SUFFICES ASSUME Inv PROVE TypeOK
    OBVIOUS
  <2>1. \A a \in DOMAIN disassembly :
          /\ disassembly[a].ins.mode \in AddressingModes \ SizedImmediate
          /\ disassembly[a].current \in ExecutionStates /\ disassembly[a].next \in ExecutionStates
          /\ disassembly[a].label \in 0 .. currentSym /\ disassembly[a].to \in 0 .. currentSym
    BY DEF Inv, LabelInv, Numbers, KnownInv, Known, KnownAt, DecodedAt
  <2>2. DOMAIN memory \subseteq Addresses
    BY DEF Inv, KnownInv, RomTypes
  <2>3. DOMAIN newDisassembly \cup DOMAIN decodeStack \subseteq Addresses
    BY DEF Inv, KnownInv, Known, KnownAt, Carried, StatesOf
  <2>4. /\ \A a \in DOMAIN decodeStack : decodeStack[a] \in ExecutionStates
        /\ \A a \in DOMAIN farTargets : farTargets[a] \in FlagStates
    BY DEF Inv, KnownInv, Carried, StatesOf, FlagsOf
  <2>5. QED
    BY <2>1, <2>2, <2>3, <2>4 DEF Inv, DriverInv, TypeOK
<1>2. QED
  BY <1>1, InvHolds, PTL

\* What a later call learns only weakens what is known of an instruction; it
\* never decodes it differently or renames it (the joins of Disassemble and
\* what it leaves in disassembly_).
THEOREM ResultsOnlyWeaken == Spec => ResultOnlyWeakens
<1> DEFINE Kept ==
             \A a \in DOMAIN disassembly :
               /\ a \in DOMAIN disassembly'
               /\ Covers(disassembly'[a].current, disassembly[a].current)
               /\ disassembly'[a].ins.mode = disassembly[a].ins.mode
               /\ disassembly[a].label # NoLabel => disassembly'[a].label = disassembly[a].label
<1>1. Inv /\ [Next]_vars => [Kept]_vars
  <2> SUFFICES ASSUME Inv, [Next]_vars, NEW a \in DOMAIN disassembly
               PROVE  /\ a \in DOMAIN disassembly'
                      /\ Covers(disassembly'[a].current, disassembly[a].current)
                      /\ disassembly'[a].ins.mode = disassembly[a].ins.mode
                      /\ disassembly[a].label # NoLabel =>
                           disassembly'[a].label = disassembly[a].label
    OBVIOUS
  <2>1. CASE Return
    <3>1. a \in DOMAIN disassembly'
      BY <2>1 DEF Return
    <3>2. /\ disassembly'[a].current = Existing(a).current
          /\ disassembly'[a].ins.mode = Existing(a).ins.mode
          /\ disassembly'[a].label = IF a \in DOMAIN labelNames THEN labelNames[a] ELSE Existing(a).label
      BY <2>1, <3>1, ReturnKeeps DEF Inv
    <3>3. Existing(a).ins = disassembly[a].ins /\ Existing(a).label = disassembly[a].label
      BY DEF Existing, Inv, LabelInv, Continued
    <3>4. disassembly[a].label # NoLabel => a \notin DOMAIN labelNames
      BY DEF Inv, LabelInv, Apart
    <3>5. Covers(Existing(a).current, disassembly[a].current)
      BY ExistingCovers DEF Inv
    <3>6. QED
      BY <3>1, <3>2, <3>3, <3>4, <3>5
  <2>2. CASE UNCHANGED disassembly
    <3>1. disassembly[a].current \in ExecutionStates
      BY DEF Inv, KnownInv, Known, KnownAt
    <3>2. Covers(disassembly[a].current, disassembly[a].current)
      BY <3>1, MergeLaws DEF Covers
    <3>3. QED
      BY <2>2, <3>2
  <2>3. Return \/ UNCHANGED disassembly
    BY DEF Next, SkipAssembled, Begin, EndPass, EndDriver, Discover, Confirm, Weaken, Fail, Crash,
           Finished, own, vars
  <2>4. QED
    BY <2>1, <2>2, <2>3
<1>2. QED
  BY <1>1, InvHolds, PTL DEF Spec, ResultOnlyWeakens

-----------------------------------------------------------------------------
(* The bytes decode to what is shown *)

\* What DecodingStands says of one instruction.
Stands(a, di) ==
  /\ CanDecode(a, di.current.flags)
  /\ [Decode(a, di.current.flags) EXCEPT !.suffix = di.ins.suffix, !.ret = di.ins.ret] = di.ins

\* The instructions of the running call stand too.
StandsInv ==
  /\ \A a \in DOMAIN disassembly : Stands(a, disassembly[a])
  /\ \A a \in DOMAIN newDisassembly : Stands(a, newDisassembly[a])

\* A width that is known after a join was known, and the same, before it.
LEMMA KnownWidths ==
  ASSUME NEW l \in FlagStates, NEW r \in FlagStates, NEW f, f = MergeFlags(l, r)
  PROVE  /\ f.m \in {"on", "off"} => r.m = f.m
         /\ f.x \in {"on", "off"} => r.x = f.x
<1>1. /\ r.e \in BitStates /\ r.m \in BitStates /\ r.x \in BitStates
      /\ r.m = ConstrainedForEBit(r.m, r.e) /\ r.x = ConstrainedForEBit(r.x, r.e)
  BY DEF FlagStates, Coherent
<1>2. /\ f.m = ConstrainedForEBit(MergeBit(l.m, r.m), MergeBit(l.e, r.e))
      /\ f.x = ConstrainedForEBit(MergeBit(l.x, r.x), MergeBit(l.e, r.e))
  BY DEF MergeFlags, MakeFlags
<1>3. ASSUME NEW p \in BitStates, NEW q \in BitStates, q = ConstrainedForEBit(q, p), NEW s, NEW t,
             ConstrainedForEBit(MergeBit(s, q), MergeBit(t, p)) \in {"on", "off"}
      PROVE  q = ConstrainedForEBit(MergeBit(s, q), MergeBit(t, p))
  <2> DEFINE e == MergeBit(t, p)
             b == MergeBit(s, q)
  <2>1. e \in {p, "unknown"} /\ b \in {q, "unknown"}
    BY DEF MergeBit
  <2>2. CASE e = "on"
    BY <1>3, <2>1, <2>2 DEF ConstrainedForEBit
  <2> HIDE DEF e, b
  <2>3. CASE e = "off"
    BY <1>3, <2>1, <2>3 DEF ConstrainedForEBit, e, b
  <2>4. CASE e \notin {"on", "off"}
    BY <1>3, <2>1, <2>4 DEF ConstrainedForEBit, e, b
  <2>5. QED
    BY <2>2, <2>3, <2>4 DEF e, b
<1>4. QED
  BY <1>1, <1>2, <1>3

\* The bytes decode alike under the flags of a path and under the joined
\* flags, where these suffice to decode them.
LEMMA DecodesAlike ==
  ASSUME NEW a, NEW l \in FlagStates, NEW r \in FlagStates, CanDecode(a, MergeFlags(l, r))
  PROVE  Decode(a, MergeFlags(l, r)) = Decode(a, r)
<1> DEFINE f == MergeFlags(l, r)
           row == DecodeOpcode(BytesAt(a)[1])
<1>1. /\ f.m \in {"on", "off"} => r.m = f.m
      /\ f.x \in {"on", "off"} => r.x = f.x
  BY KnownWidths
<1>2. CanFixMode([mode |-> row[2]], f)
  BY DEF CanDecode, CanDecodeBytes
<1> HIDE DEF f, row
<1>3. FixedMode([mode |-> row[2]], f) = FixedMode([mode |-> row[2]], r)
  BY <1>1, <1>2 DEF CanFixMode, FixedMode, WidthBit, SizedImmediate
<1>4. QED
  BY <1>3 DEF Decode, DecodeBytes, f, row

\* The ROM does not change.
LEMMA StandsKept ==
  ASSUME UNCHANGED memory, NEW a, NEW di, Stands(a, di) PROVE Stands(a, di)'
BY DEF Stands, CanDecode, Readable, Decode, BytesAt

\* A turn of the loop writes an instruction that stands.
LEMMA StandsStore ==
  ASSUME StandsInv, NEW pc, NEW di, newDisassembly' = With(newDisassembly, pc, di),
         UNCHANGED <<memory, disassembly>>, Stands(pc, di)
  PROVE  StandsInv'
<1>1. /\ DOMAIN newDisassembly' = DOMAIN newDisassembly \cup {pc} /\ newDisassembly'[pc] = di
      /\ \A a \in DOMAIN newDisassembly \ {pc} : newDisassembly'[a] = newDisassembly[a]
  BY DEF With
<1>2. ASSUME NEW a \in DOMAIN disassembly', NEW d, d = disassembly'[a]
      PROVE  Stands(a, d)'
  BY <1>2, StandsKept DEF StandsInv
<1>3. ASSUME NEW a \in DOMAIN newDisassembly', NEW d, d = newDisassembly'[a]
      PROVE  Stands(a, d)'
  BY <1>1, <1>3, StandsKept DEF StandsInv
<1>4. QED
  BY <1>2, <1>3 DEF StandsInv

LEMMA StandsDiscover == ASSUME StandsInv, NEW pc, Discover(pc) PROVE StandsInv'
<1> DEFINE ins == Decode(pc, decodeStack[pc].flags)
           called == [ins EXCEPT !.ret = ReturnOf(pc, ins)]
           di == [ins |-> called, current |-> decodeStack[pc],
                  next |-> ApplyReturn(called.ret, Executed(pc).state), label |-> NoLabel,
                  to |-> IF IsLocalBranch(ins) THEN Label(BranchTarget(pc, ins)) ELSE NoLabel]
<1> PICK d : d = di
  OBVIOUS
<1>1. /\ ~Seen(pc) /\ Executed(pc).result = "ok"
      /\ UNCHANGED <<rom, disassembly>> /\ newDisassembly' = With(newDisassembly, pc, d)
  BY DEF Discover
<1>2. CanDecode(pc, decodeStack[pc].flags)
  BY <1>1 DEF Executed, Combined
<1>3. d.current = decodeStack[pc] /\ d.ins = called
  OBVIOUS
<1>4. called = [ins EXCEPT !.suffix = called.suffix, !.ret = called.ret]
  BY DEF Decode, DecodeBytes
<1> HIDE DEF called, di
<1>5. Stands(pc, d)
  BY <1>2, <1>3, <1>4 DEF Stands
<1>6. QED
  BY <1>1, <1>5, StandsStore DEF rom

LEMMA StandsConfirm == ASSUME StandsInv, NEW pc, Confirm(pc) PROVE StandsInv'
<1> PICK d : d = Existing(pc)
  OBVIOUS
<1>1. /\ Seen(pc) /\ UNCHANGED <<rom, disassembly>>
      /\ newDisassembly' = With(newDisassembly, pc, d)
  BY DEF Confirm, own
<1>2. Stands(pc, d)
  BY <1>1 DEF Seen, Existing, StandsInv
<1>3. QED
  BY <1>1, <1>2, StandsStore DEF rom

LEMMA StandsWeaken ==
  ASSUME LabelInv, KnownInv, StandsInv, NEW pc \in DOMAIN decodeStack, Weaken(pc) PROVE StandsInv'
<1> DEFINE old == Existing(pc)
           c == Combined(pc)
           di == [old EXCEPT !.current = c, !.next = Executed(pc).state]
<1> PICK d : d = di
  OBVIOUS
<1>1. /\ Seen(pc) /\ Executed(pc).result = "ok" /\ UNCHANGED <<rom, disassembly>>
      /\ newDisassembly' = With(newDisassembly, pc, d)
  BY DEF Weaken, own
<1>2. Shaped(old) /\ Stands(pc, old)
  BY <1>1 DEF Seen, Existing, LabelInv, Shapes, StandsInv
<1>3. d.current = c /\ d.ins = old.ins
  <2> HIDE DEF old, c
  <2>1. QED
    BY <1>2 DEF Shaped
<1>4. CanDecode(pc, c.flags)
  BY <1>1 DEF Executed
<1>5. c.flags = MergeFlags(decodeStack[pc].flags, old.current.flags)
  BY <1>1 DEF Combined, Merge
<1>6. decodeStack[pc].flags \in FlagStates /\ old.current.flags \in FlagStates
  BY <1>1, ExecutedType, StateFields DEF KnownInv, Carried, StatesOf, KnownAt
<1> HIDE DEF old, c, di
<1>7. Decode(pc, c.flags) = Decode(pc, old.current.flags)
  BY <1>4, <1>5, <1>6, DecodesAlike
<1>8. Stands(pc, d)
  BY <1>2, <1>3, <1>4, <1>7 DEF Stands
<1>9. QED
  BY <1>1, <1>8, StandsStore DEF rom

\* Only the suffix of an instruction changes when the call returns.
LEMMA ReturnedInstruction ==
  ASSUME LabelInv, Return, NEW a \in DOMAIN disassembly'
  PROVE  \/ disassembly'[a].ins = Existing(a).ins
         \/ \E s : disassembly'[a].ins = [Existing(a).ins EXCEPT !.suffix = s]
<1> DEFINE old == Existing(a)
           kept == IF a \in DOMAIN newDisassembly THEN Suffixed(newDisassembly[a]) ELSE disassembly[a]
<1>1. /\ a \in DOMAIN newDisassembly \cup DOMAIN disassembly
      /\ disassembly'[a] = IF a \in DOMAIN labelNames THEN [kept EXCEPT !.label = labelNames[a]]
                                                      ELSE kept
  BY DEF Return
<1>2. Shaped(old)
  BY <1>1 DEF LabelInv, Shapes, Existing
<1>3. kept = old \/ \E s : kept = [old EXCEPT !.ins = [old.ins EXCEPT !.suffix = s]]
  <2>1. CASE a \in DOMAIN newDisassembly
    <3>1. kept = Suffixed(old)
      BY <2>1 DEF Existing
    <3>2. \E s : Suffixed(old) = [old EXCEPT !.ins = [old.ins EXCEPT !.suffix = s]]
      <4> HIDE DEF old
      <4>1. QED
        BY <1>2 DEF Suffixed, Shaped, Instruction
    <3>3. QED
      BY <3>1, <3>2
  <2>2. CASE a \notin DOMAIN newDisassembly
    BY <1>1, <2>2 DEF Existing
  <2>3. QED
    BY <2>1, <2>2
<1>4. disassembly'[a].ins = kept.ins
  <2> HIDE DEF old, kept
  <2>1. Shaped(kept)
    BY <1>2, <1>3 DEF Shaped, Instruction
  <2>2. QED
    BY <1>1, <2>1 DEF Shaped
<1> HIDE DEF old, kept
<1>5. kept.ins = old.ins \/ \E s : kept.ins = [old.ins EXCEPT !.suffix = s]
  BY <1>2, <1>3 DEF Shaped
<1>6. QED
  BY <1>4, <1>5 DEF old

LEMMA StandsReturn == ASSUME LabelInv, StandsInv, Return PROVE StandsInv'
<1>1. UNCHANGED memory /\ DOMAIN newDisassembly' = {}
  BY EmptyMap DEF Return, rom
<1>2. ASSUME NEW a \in DOMAIN disassembly', NEW new, new = disassembly'[a]
      PROVE  Stands(a, new)'
  <2> PICK old : old = Existing(a)
    OBVIOUS
  <2>1. Stands(a, old)
    BY ReturnKeeps DEF Existing, StandsInv
  <2>2. new.current = old.current /\ new.ins.ret = old.ins.ret
    BY <1>2, ReturnKeeps
  <2>3. new.ins = old.ins \/ \E s : new.ins = [old.ins EXCEPT !.suffix = s]
    BY <1>2, ReturnedInstruction
  <2>4. Stands(a, new)
    <3> PICK dec : dec = Decode(a, old.current.flags)
      OBVIOUS
    <3>1. old.ins = [dec EXCEPT !.suffix = old.ins.suffix, !.ret = old.ins.ret]
      BY <2>1 DEF Stands
    <3>2. DOMAIN dec = {"mnemonic", "mode", "suffix", "arg", "arg2", "ret"}
      BY DEF Decode, DecodeBytes
    <3>3. new.ins = [dec EXCEPT !.suffix = new.ins.suffix, !.ret = old.ins.ret]
      <4>1. CASE new.ins = old.ins
        BY <3>1, <4>1
      <4>2. ASSUME NEW s, new.ins = [old.ins EXCEPT !.suffix = s]
            PROVE  new.ins = [dec EXCEPT !.suffix = new.ins.suffix, !.ret = old.ins.ret]
        <5> PICK p, q : p = old.ins.suffix /\ q = old.ins.ret
          OBVIOUS
        <5>1. new.ins = [[dec EXCEPT !.suffix = p, !.ret = q] EXCEPT !.suffix = s]
          BY <3>1, <4>2
        <5>2. new.ins = [dec EXCEPT !.suffix = s, !.ret = q]
          BY <3>2, <5>1
        <5>3. new.ins.suffix = s
          BY <3>2, <5>2
        <5>4. QED
          BY <5>2, <5>3
      <4>3. QED
        BY <2>3, <4>1, <4>2
    <3>4. QED
      BY <2>1, <2>2, <3>3 DEF Stands
  <2>5. QED
    BY <1>1, <2>4, StandsKept
<1>3. \A a \in DOMAIN disassembly' : Stands(a, disassembly[a])'
  BY <1>2
<1>4. QED
  BY <1>1, <1>3 DEF StandsInv

\* Steps that write no instruction.
LEMMA StandsStutter ==
  ASSUME StandsInv, UNCHANGED <<rom, disassembly>>,
         UNCHANGED newDisassembly \/ newDisassembly' = Empty
  PROVE  StandsInv'
<1>1. \A a \in DOMAIN newDisassembly' :
        a \in DOMAIN newDisassembly /\ newDisassembly'[a] = newDisassembly[a]
  BY EmptyMap
<1>2. ASSUME NEW a \in DOMAIN disassembly', NEW d, d = disassembly'[a]
      PROVE  Stands(a, d)'
  BY <1>2, StandsKept DEF StandsInv, rom
<1>3. ASSUME NEW a \in DOMAIN newDisassembly', NEW d, d = newDisassembly'[a]
      PROVE  Stands(a, d)'
  BY <1>1, <1>3, StandsKept DEF StandsInv, rom
<1>4. QED
  BY <1>2, <1>3 DEF StandsInv

\* The steps that are not a turn of the loop or its end leave every
\* instruction as it is, or drop those of the running call.
LEMMA OtherSteps ==
  ASSUME [Next]_vars
  PROVE  \/ \E pc \in DOMAIN decodeStack : Discover(pc) \/ Confirm(pc) \/ Weaken(pc)
         \/ Return
         \/ /\ UNCHANGED <<rom, disassembly>>
            /\ \/ UNCHANGED <<decodeStack, newDisassembly>>
               \/ newDisassembly' = Empty
BY DEF Next, SkipAssembled, Begin, EndPass, EndDriver, Fail, Crash, Finished, vars, own, call

LEMMA StandsStep ==
  ASSUME LabelInv, KnownInv, StandsInv, [Next]_vars PROVE StandsInv'
<1>1. ASSUME NEW pc \in DOMAIN decodeStack, Discover(pc) \/ Confirm(pc) \/ Weaken(pc)
      PROVE  StandsInv'
  BY <1>1, StandsDiscover, StandsConfirm, StandsWeaken
<1>2. CASE Return
  BY <1>2, StandsReturn
<1>3. CASE /\ UNCHANGED <<rom, disassembly>>
           /\ UNCHANGED <<decodeStack, newDisassembly>> \/ newDisassembly' = Empty
  BY <1>3, StandsStutter
<1>4. QED
  BY <1>1, <1>2, <1>3, OtherSteps

LEMMA StandsHolds == Spec => []StandsInv
<1>1. Init => StandsInv
  BY EmptyMap DEF Init, StandsInv
<1>2. Inv /\ StandsInv /\ [Next]_vars => StandsInv'
  BY StandsStep DEF Inv
<1>3. QED
  BY <1>1, <1>2, InvHolds, PTL DEF Spec

\* The bytes at an address still decode to the instruction shown there, in
\* the state that all paths to it share: the error Decode gives when a width
\* is no longer known keeps Disassemble from joining further.
THEOREM DecodingAlwaysStands == Spec => []DecodingStands
<1>1. StandsInv => DecodingStands
  BY DEF StandsInv, Stands, DecodingStands
<1>2. QED
  BY <1>1, StandsHolds, PTL

-----------------------------------------------------------------------------
(* Every path is covered *)

\* The branches of decode_map that IsLocalBranch knows.
LocalBranches == {"bpl", "bmi", "bvc", "bvs", "bra", "brl", "bcc", "bcs", "bne", "beq"}

\* Control may go from an instruction at a to t, in the state es.
LeadsTo(a, di, t, es) ==
  \/ ~IsExitInstruction(di.ins) /\ t = NextPc(a, di.ins) /\ es = di.next
  \/ IsLocalBranch(di.ins) /\ t = BranchTarget(a, di.ins) /\ es = BranchCarry(di.ins, di.current)

\* What is known, or about to be known, of all paths to t.
Bound(t) == IF t \in DOMAIN decodeStack THEN Combined(t) ELSE Existing(t).current
Awaited(t, es) == (t \in DOMAIN decodeStack \/ Seen(t)) /\ Covers(Bound(t), es)

\* The finished calls leave no path open, the running call none that is not
\* on its stack.
Closed ==
  \A a \in DOMAIN disassembly : \A t, es : LeadsTo(a, disassembly[a], t, es) =>
    t \in DOMAIN disassembly /\ Covers(disassembly[t].current, es)

Flowing ==
  \A a \in DOMAIN newDisassembly : \A t, es :
    LeadsTo(a, newDisassembly[a], t, es) => Awaited(t, es)

PathInv == Closed /\ Flowing

\* The rows of decode_map with a relative mode are those branches and per.
LEMMA TableBranches ==
  \A i \in 1 .. 256 :
    DecodeMap[i][2] \in {"rel8", "rel16"} => DecodeMap[i][1] \in LocalBranches \cup {"per"}
BY SMTT(60) DEF DecodeMap, LocalBranches

\* An instruction that stands is one of them if it branches.
LEMMA BranchMnemonic ==
  ASSUME RomTypes, NEW a, NEW di, Stands(a, di), IsLocalBranch(di.ins)
  PROVE  di.ins.mnemonic \in LocalBranches
<1> DEFINE byte == BytesAt(a)[1]
           row == DecodeOpcode(byte)
           dec == Decode(a, di.current.flags)
<1>1. Readable(a)
  BY DEF Stands, CanDecode
<1>2. byte \in 0 .. 255
  <2>1. byte = memory[AddWrapped(a, 0)] /\ 0 \in 0 .. 3
    BY DEF BytesAt
  <2>2. QED
    BY <1>1, <2>1 DEF RomTypes, Readable, ByteRange
<1>3. dec.mnemonic = row[1] /\ dec.mode = FixedMode([mode |-> row[2]], di.current.flags)
  BY DEF Decode, DecodeBytes
<1>4. di.ins.mnemonic = dec.mnemonic /\ di.ins.mode = dec.mode
  <2>1. DOMAIN dec = {"mnemonic", "mode", "suffix", "arg", "arg2", "ret"}
    BY DEF Decode, DecodeBytes
  <2> HIDE DEF dec
  <2>2. [dec EXCEPT !.suffix = di.ins.suffix, !.ret = di.ins.ret] = di.ins
    BY DEF Stands, dec
  <2>3. QED
    BY <2>1, <2>2
<1> HIDE DEF byte, row, dec
<1>5. row[2] \in {"rel8", "rel16"}
  <2>1. di.ins.mode \in {"rel8", "rel16"}
    BY DEF IsLocalBranch
  <2>2. CASE row[2] \in SizedImmediate
    BY <1>3, <1>4, <2>1, <2>2 DEF FixedMode, SizedImmediate
  <2>3. CASE row[2] \notin SizedImmediate
    BY <1>3, <1>4, <2>1, <2>3 DEF FixedMode
  <2>4. QED
    BY <2>2, <2>3
<1>6. row[1] \in LocalBranches \cup {"per"}
  <2>1. byte + 1 \in 1 .. 256
    BY <1>2
  <2>2. QED
    BY <1>5, <2>1, TableBranches DEF DecodeOpcode, row
<1>7. QED
  BY <1>3, <1>4, <1>6 DEF IsLocalBranch

\* A branch passes the state it is reached in to its target, but for the
\* carry that bcc and bcs decide on, whatever Execute says of it.
LEMMA BranchState ==
  ASSUME NEW ins, ins.mnemonic \in LocalBranches, NEW es \in ExecutionStates
  PROVE  ExecuteBranch(ins, es).state = BranchCarry(ins, es)
<1>1. ins.mnemonic \notin {"pla", "plx", "ply"}
  BY DEF LocalBranches
<1>2. Execute(ins, es).state = es \/ Execute(ins, es).state = Transfer(ins, es)
  BY <1>1 DEF Execute
<1>3. ExecuteBranch(ins, es).state = BranchCarry(ins, Execute(ins, es).state)
  <2>1. "state" \in DOMAIN Execute(ins, es)
    BY <1>1 DEF Execute
  <2>2. QED
    BY <2>1 DEF ExecuteBranch
<1>4. BranchCarry(ins, Transfer(ins, es)) = BranchCarry(ins, es)
  <2> PICK f : f = es.flags
    OBVIOUS
  <2>0. \A p, q : [[es EXCEPT !.flags = p] EXCEPT !.flags = q] = [es EXCEPT !.flags = q]
    BY DEF ExecutionStates
  <2>1. CASE ins.mnemonic = "bcc"
    <3>1. Transfer(ins, es) = [es EXCEPT !.flags = SetCBit(f, "on")]
      BY <2>1 DEF Transfer, WipesAccumulatorAndCarry
    <3>2. BranchCarry(ins, Transfer(ins, es)) = [es EXCEPT !.flags = SetCBit(SetCBit(f, "on"), "off")]
      <4> PICK g : g = SetCBit(f, "on")
        OBVIOUS
      <4>1. BranchCarry(ins, Transfer(ins, es))
              = [[es EXCEPT !.flags = g] EXCEPT !.flags = SetCBit(g, "off")]
        BY <2>1, <3>1 DEF BranchCarry
      <4>2. QED
        BY <2>0, <4>1
    <3>3. SetCBit(SetCBit(f, "on"), "off") = SetCBit(f, "off")
      BY DEF SetCBit
    <3>4. QED
      BY <2>1, <3>2, <3>3 DEF BranchCarry
  <2>2. CASE ins.mnemonic = "bcs"
    <3>1. Transfer(ins, es) = [es EXCEPT !.flags = SetCBit(f, "off")]
      BY <2>2 DEF Transfer, WipesAccumulatorAndCarry
    <3>2. BranchCarry(ins, Transfer(ins, es)) = [es EXCEPT !.flags = SetCBit(SetCBit(f, "off"), "on")]
      <4> PICK g : g = SetCBit(f, "off")
        OBVIOUS
      <4>1. BranchCarry(ins, Transfer(ins, es))
              = [[es EXCEPT !.flags = g] EXCEPT !.flags = SetCBit(g, "on")]
        BY <2>2, <3>1 DEF BranchCarry
      <4>2. QED
        BY <2>0, <4>1
    <3>3. SetCBit(SetCBit(f, "off"), "on") = SetCBit(f, "on")
      BY DEF SetCBit
    <3>4. QED
      BY <2>2, <3>2, <3>3 DEF BranchCarry
  <2>3. CASE ins.mnemonic \notin {"bcc", "bcs"}
    BY <2>3 DEF Transfer, BranchCarry, LocalBranches, WipesAccumulatorAndCarry
  <2>4. QED
    BY <2>1, <2>2, <2>3
<1>5. QED
  BY <1>2, <1>3, <1>4

\* The joined state on a branch's target is the join of the states there.
LEMMA BranchMerge ==
  ASSUME NEW ins, NEW l \in ExecutionStates, NEW r \in ExecutionStates
  PROVE  /\ BranchCarry(ins, l) \in ExecutionStates
         /\ BranchCarry(ins, Merge(l, r)) = Merge(BranchCarry(ins, l), BranchCarry(ins, r))
<1>1. \A es \in ExecutionStates, c \in BitStates :
        [es EXCEPT !.flags = SetCBit(es.flags, c)] \in ExecutionStates
  BY StateFields, FlagSetterTypes, UpdatedStateTypes
<1>2. ASSUME NEW f \in FlagStates, NEW g \in FlagStates, NEW c
      PROVE  MergeFlags(SetCBit(f, c), SetCBit(g, c)) = SetCBit(MergeFlags(f, g), c)
  <2>1. /\ SetCBit(f, c) = [e |-> f.e, m |-> f.m, x |-> f.x, c |-> c]
        /\ SetCBit(g, c) = [e |-> g.e, m |-> g.m, x |-> g.x, c |-> c]
    BY FlagFields DEF SetCBit, FlagStates
  <2>2. QED
    BY <2>1 DEF MergeFlags, MakeFlags, MergeBit, SetCBit
<1>3. ASSUME NEW c, NEW p, NEW q, p = [l EXCEPT !.flags = SetCBit(l.flags, c)],
             q = [r EXCEPT !.flags = SetCBit(r.flags, c)]
      PROVE  Merge(p, q) = [Merge(l, r) EXCEPT !.flags = SetCBit(Merge(l, r).flags, c)]
  <2>1. /\ p.a = l.a /\ p.x = l.x /\ p.y = l.y /\ p.dbr = l.dbr /\ p.stack = l.stack
        /\ p.flags = SetCBit(l.flags, c)
        /\ q.a = r.a /\ q.x = r.x /\ q.y = r.y /\ q.dbr = r.dbr /\ q.stack = r.stack
        /\ q.flags = SetCBit(r.flags, c)
    BY <1>3 DEF ExecutionStates
  <2>2. MergeFlags(p.flags, q.flags) = SetCBit(MergeFlags(l.flags, r.flags), c)
    BY <1>2, <2>1, StateFields
  <2>3. QED
    BY <2>1, <2>2 DEF Merge
<1>4. "on" \in BitStates /\ "off" \in BitStates
  BY DEF BitStates
<1>5. BranchCarry(ins, l) \in ExecutionStates
  BY <1>1, <1>4 DEF BranchCarry
<1>6. BranchCarry(ins, Merge(l, r)) = Merge(BranchCarry(ins, l), BranchCarry(ins, r))
  <2>1. CASE ins.mnemonic = "bcc"
    BY <1>3, <2>1 DEF BranchCarry
  <2>2. CASE ins.mnemonic = "bcs"
    BY <1>3, <2>2 DEF BranchCarry
  <2>3. CASE ins.mnemonic \notin {"bcc", "bcs"}
    BY <2>3 DEF BranchCarry
  <2>4. QED
    BY <2>1, <2>2, <2>3
<1>7. QED
  BY <1>5, <1>6

\* Covers is an order, and a join covers what is joined and nothing more.
LEMMA CoversLaws ==
  ASSUME NEW x \in ExecutionStates, NEW y \in ExecutionStates
  PROVE  /\ Covers(x, x) /\ Covers(Merge(x, y), x) /\ Covers(Merge(x, y), y)
         /\ \A z \in ExecutionStates : Covers(x, y) /\ Covers(y, z) => Covers(x, z)
         /\ \A z \in ExecutionStates : Covers(z, x) /\ Covers(z, y) => Covers(z, Merge(x, y))
<1>1. Merge(x, x) = x /\ Merge(y, y) = y /\ Merge(x, y) = Merge(y, x) /\ Merge(x, y) \in ExecutionStates
  BY MergeLaws, MergeType
<1>2. Merge(Merge(x, y), y) = Merge(x, y) /\ Merge(Merge(y, x), x) = Merge(y, x)
  BY <1>1, MergeCovers
<1>3. QED
  BY <1>1, <1>2, MergeTransitive, MergeLub DEF Covers

\* Every state on the stack is still on it, or one that covers it.
Grown(old, new) == \A t \in DOMAIN old : t \in DOMAIN new /\ Covers(new[t], old[t])

LEMMA GrownTransitive ==
  ASSUME NEW x, NEW y, NEW z, StatesOf(x), StatesOf(y), StatesOf(z), Grown(x, y), Grown(y, z)
  PROVE  Grown(x, z)
<1> SUFFICES ASSUME NEW t \in DOMAIN x
             PROVE  t \in DOMAIN z /\ Covers(z[t], x[t])
  BY DEF Grown
<1>1. t \in DOMAIN y /\ t \in DOMAIN z /\ Covers(z[t], y[t]) /\ Covers(y[t], x[t])
  BY DEF Grown
<1>2. x[t] \in ExecutionStates /\ y[t] \in ExecutionStates /\ z[t] \in ExecutionStates
  BY <1>1 DEF StatesOf
<1>3. QED
  BY <1>1, <1>2, CoversLaws

\* add_to_decode_stack.
LEMMA JoinCovers ==
  ASSUME NEW a \in Addresses, NEW stack, StatesOf(stack), NEW es \in ExecutionStates,
         NEW new, new = JoinState(stack, a, es)
  PROVE  StatesOf(new) /\ a \in DOMAIN new /\ Covers(new[a], es) /\ Grown(stack, new)
<1> DEFINE v == IF a \in DOMAIN stack THEN Merge(stack[a], es) ELSE es
<1>1. /\ DOMAIN new = DOMAIN stack \cup {a} /\ new[a] = v
      /\ \A t \in DOMAIN stack \ {a} : new[t] = stack[t]
  BY DEF JoinState, With
<1>2. \A t \in DOMAIN stack : stack[t] \in ExecutionStates
  BY DEF StatesOf
<1>3. Covers(v, es)
  BY <1>2, CoversLaws
<1>4. a \in DOMAIN stack => Covers(v, stack[a])
  BY <1>2, CoversLaws
<1>5. Grown(stack, new)
  BY <1>1, <1>2, <1>4, CoversLaws DEF Grown
<1>6. QED
  BY <1>1, <1>3, <1>5, JoinTypes

\* What the turn adds to the worklist covers the states that it passes on.
LEMMA OnwardCovers ==
  ASSUME NEW pc \in Addresses, NEW ins, DecodedAt(pc, ins), NEW stack, StatesOf(stack),
         NEW es \in ExecutionStates
  PROVE  /\ \A new : new = AfterFallThrough(stack, pc, ins, es) =>
              /\ Grown(stack, new)
              /\ ~IsExitInstruction(ins) =>
                   NextPc(pc, ins) \in DOMAIN new /\ Covers(new[NextPc(pc, ins)], es)
         /\ \A new : new = AfterBranch(stack, pc, ins, es) =>
              /\ Grown(stack, new)
              /\ IsLocalBranch(ins) /\ ins.mnemonic \in LocalBranches =>
                   /\ BranchTarget(pc, ins) \in DOMAIN new
                   /\ Covers(new[BranchTarget(pc, ins)], BranchCarry(ins, es))
<1>1. NextPc(pc, ins) \in Addresses /\ (IsLocalBranch(ins) => BranchTarget(pc, ins) \in Addresses)
  BY SuccessorTypes
<1>2. Grown(stack, stack)
  BY CoversLaws DEF Grown, StatesOf
<1>3. ASSUME NEW new, new = AfterFallThrough(stack, pc, ins, es)
      PROVE  /\ Grown(stack, new)
             /\ ~IsExitInstruction(ins) =>
                  NextPc(pc, ins) \in DOMAIN new /\ Covers(new[NextPc(pc, ins)], es)
  BY <1>1, <1>2, <1>3, JoinCovers DEF AfterFallThrough
<1>4. ASSUME NEW new, new = AfterBranch(stack, pc, ins, es)
      PROVE  /\ Grown(stack, new)
             /\ IsLocalBranch(ins) /\ ins.mnemonic \in LocalBranches =>
                  /\ BranchTarget(pc, ins) \in DOMAIN new
                  /\ Covers(new[BranchTarget(pc, ins)], BranchCarry(ins, es))
  <2>1. CASE IsLocalBranch(ins)
    <3> PICK b : b = ExecuteBranch(ins, es).state
      OBVIOUS
    <3>1. b \in ExecutionStates
      BY ExecuteType DEF DecodedAt
    <3>2. new = JoinState(stack, BranchTarget(pc, ins), b)
      BY <1>4, <2>1 DEF AfterBranch
    <3>3. ins.mnemonic \in LocalBranches => b = BranchCarry(ins, es)
      BY BranchState
    <3>4. QED
      BY <1>1, <2>1, <3>1, <3>2, <3>3, JoinCovers
  <2>2. CASE ~IsLocalBranch(ins)
    BY <1>2, <1>4, <2>2 DEF AfterBranch
  <2>3. QED
    BY <2>1, <2>2
<1>5. QED
  BY <1>3, <1>4

\* What is awaited at an address is a state, and covers what is there.
LEMMA BoundType ==
  ASSUME KnownInv, NEW t, t \in DOMAIN decodeStack \/ Seen(t)
  PROVE  /\ Bound(t) \in ExecutionStates
         /\ Seen(t) => Existing(t).current \in ExecutionStates /\ Covers(Bound(t), Existing(t).current)
         /\ t \in DOMAIN decodeStack => Covers(Bound(t), decodeStack[t])
<1>1. Seen(t) => Existing(t).current \in ExecutionStates
  BY DEF Seen, Existing, KnownInv, Known, KnownAt
<1>2. t \in DOMAIN decodeStack => decodeStack[t] \in ExecutionStates
  BY DEF KnownInv, Carried, StatesOf
<1>3. CASE t \in DOMAIN decodeStack
  BY <1>1, <1>2, <1>3, CoversLaws, MergeType DEF Bound, Combined
<1>4. CASE t \notin DOMAIN decodeStack
  BY <1>1, <1>4, CoversLaws DEF Bound
<1>5. QED
  BY <1>1, <1>3, <1>4

\* What earlier calls knew of an instruction is awaited there.
LEMMA DisassemblyAwaited ==
  ASSUME KnownInv, NEW t \in DOMAIN disassembly, NEW es \in ExecutionStates,
         Covers(disassembly[t].current, es)
  PROVE  Awaited(t, es)
<1>1. Seen(t) /\ Covers(Existing(t).current, disassembly[t].current)
  BY ExistingCovers DEF Seen
<1>2. disassembly[t].current \in ExecutionStates
  BY DEF KnownInv, Known, KnownAt
<1>3. /\ Bound(t) \in ExecutionStates /\ Existing(t).current \in ExecutionStates
      /\ Covers(Bound(t), Existing(t).current)
  BY <1>1, BoundType
<1>4. QED
  BY <1>1, <1>2, <1>3, CoversLaws DEF Awaited

\* A turn of the loop: the instruction at pc is stored with all that is known
\* of the paths to it, and the rest of the stack is kept or joined to.
Turn(pc, d) ==
  /\ UNCHANGED disassembly
  /\ newDisassembly' = With(newDisassembly, pc, d) /\ d.current = Combined(pc)
  /\ Grown(Popped(pc), decodeStack')

\* All that the instruction leads to is awaited after the turn.
Turns(pc, d) == Turn(pc, d) /\ \A t, es : LeadsTo(pc, d, t, es) => Awaited(t, es)'

\* What was awaited before the turn is awaited after it.
LEMMA TurnAwaits ==
  ASSUME KnownInv, KnownInv', NEW pc \in DOMAIN decodeStack, NEW d, Turn(pc, d),
         NEW t, NEW es \in ExecutionStates, Awaited(t, es)
  PROVE  Awaited(t, es)'
<1> PICK b, c, s, q : b = Bound(t) /\ c = Bound(t)' /\ s = Existing(t).current
                        /\ q = Existing(t)'.current
  OBVIOUS
<1>1. /\ DOMAIN newDisassembly' = DOMAIN newDisassembly \cup {pc} /\ newDisassembly'[pc] = d
      /\ \A a \in DOMAIN newDisassembly \ {pc} : newDisassembly'[a] = newDisassembly[a]
      /\ disassembly' = disassembly
  BY DEF Turn, With
<1>2. \A a : Seen(a)' <=> Seen(a) \/ a = pc
  BY <1>1 DEF Seen
<1>3. b \in ExecutionStates /\ Covers(b, es)
  BY BoundType DEF Awaited
<1>4. CASE t = pc
  <2>1. Seen(t)' /\ q = b
    BY <1>1, <1>2, <1>4 DEF Existing, Turn, Bound
  <2>2. c \in ExecutionStates /\ q \in ExecutionStates /\ Covers(c, q)
    <3>1. KnownInv' /\ Seen(t)'
      BY <2>1
    <3>2. (Existing(t).current \in ExecutionStates)'
      BY <1>1, <1>4 DEF Existing, KnownInv, Known, KnownAt
    <3>3. CASE t \in DOMAIN decodeStack'
      <4> PICK j : j = decodeStack'[t]
        OBVIOUS
      <4>1. j \in ExecutionStates
        BY <3>3 DEF KnownInv, Carried, StatesOf
      <4>2. c = Merge(j, q)
        BY <2>1, <3>3 DEF Bound, Combined
      <4>3. c \in ExecutionStates
        BY <3>2, <4>1, <4>2, MergeType
      <4>4. QED
        BY <3>2, <4>1, <4>2, <4>3, CoversLaws
    <3>4. CASE t \notin DOMAIN decodeStack'
      BY <3>2, <3>4, CoversLaws DEF Bound
    <3>5. QED
      BY <3>3, <3>4
  <2>3. Covers(c, es)
    BY <1>3, <2>1, <2>2, CoversLaws
  <2>4. QED
    BY <2>1, <2>3 DEF Awaited, Covers
<1>5. CASE t # pc
  <2>1. (Seen(t)' <=> Seen(t)) /\ q = s
    <3>1. Seen(t)' <=> Seen(t)
      BY <1>2, <1>5
    <3>2. Existing(t)' = Existing(t)
      BY <1>1, <1>5 DEF Existing
    <3>3. QED
      BY <3>1, <3>2
  <2>2. Seen(t) => s \in ExecutionStates
    BY BoundType
  <2>3. CASE t \in DOMAIN decodeStack
    <3> PICK i, j : i = decodeStack[t] /\ j = decodeStack'[t]
      OBVIOUS
    <3>1. t \in DOMAIN decodeStack' /\ Covers(j, i)
      BY <1>5, <2>3 DEF Turn, Grown, Popped
    <3>2. i \in ExecutionStates /\ j \in ExecutionStates
      BY <2>3, <3>1 DEF KnownInv, Carried, StatesOf
    <3>3. b = IF Seen(t) THEN Merge(i, s) ELSE i
      BY <2>3 DEF Bound, Combined
    <3>4. c = IF Seen(t) THEN Merge(j, s) ELSE j
      BY <2>1, <3>1 DEF Bound, Combined
    <3>5. c \in ExecutionStates /\ Covers(c, b)
      <4>1. CASE Seen(t)
        <5>1. c = Merge(j, s) /\ b = Merge(i, s) /\ s \in ExecutionStates /\ c \in ExecutionStates
          BY <2>2, <3>2, <3>3, <3>4, <4>1, MergeType
        <5>2. Covers(c, j) /\ Covers(c, s)
          BY <3>2, <5>1, CoversLaws
        <5>3. Covers(c, i)
          BY <3>1, <3>2, <5>1, <5>2, CoversLaws
        <5>4. QED
          BY <3>2, <5>1, <5>2, <5>3, CoversLaws
      <4>2. CASE ~Seen(t)
        BY <3>1, <3>2, <3>3, <3>4, <4>2
      <4>3. QED
        BY <4>1, <4>2
    <3>6. Covers(c, es)
      BY <1>3, <3>5, CoversLaws
    <3>7. QED
      BY <3>1, <3>6 DEF Awaited, Covers
  <2>4. CASE t \notin DOMAIN decodeStack
    <3>1. Seen(t) /\ b = s
      BY <2>4 DEF Awaited, Bound
    <3>2. Seen(t)'
      BY <2>1, <3>1
    <3>3. c \in ExecutionStates /\ Covers(c, s)
      <4>1. CASE t \in DOMAIN decodeStack'
        <5> PICK j : j = decodeStack'[t]
          OBVIOUS
        <5>1. j \in ExecutionStates
          BY <4>1 DEF KnownInv, Carried, StatesOf
        <5>2. c = Merge(j, s)
          BY <2>1, <3>2, <4>1 DEF Bound, Combined
        <5>3. c \in ExecutionStates
          BY <2>2, <3>1, <5>1, <5>2, MergeType
        <5>4. QED
          BY <2>2, <3>1, <5>1, <5>2, <5>3, CoversLaws
      <4>2. CASE t \notin DOMAIN decodeStack'
        <5>1. c = s
          BY <2>1, <4>2 DEF Bound
        <5>2. QED
          BY <2>2, <3>1, <5>1, CoversLaws
      <4>3. QED
        BY <4>1, <4>2
    <3>4. Covers(c, es)
      BY <1>3, <3>1, <3>3, CoversLaws
    <3>5. QED
      BY <3>2, <3>4 DEF Awaited, Covers
  <2>5. QED
    BY <2>3, <2>4
<1>6. QED
  BY <1>4, <1>5

\* What is on the stack after a turn is awaited.
LEMMA JoinedAwaited ==
  ASSUME KnownInv', NEW t, t \in DOMAIN decodeStack', NEW es \in ExecutionStates,
         NEW j, j = decodeStack'[t], Covers(j, es)
  PROVE  Awaited(t, es)'
<1> PICK c, q : c = Bound(t)' /\ q = Existing(t)'.current
  OBVIOUS
<1>1. j \in ExecutionStates
  BY DEF KnownInv, Carried, StatesOf
<1>2. Seen(t)' => q \in ExecutionStates
  BY DEF Seen, Existing, KnownInv, Known, KnownAt
<1>3. c = IF Seen(t)' THEN Merge(j, q) ELSE j
  BY DEF Bound, Combined
<1>4. Covers(c, j) /\ c \in ExecutionStates
  <2>1. CASE Seen(t)'
    <3>1. q \in ExecutionStates /\ c = Merge(j, q)
      BY <1>2, <1>3, <2>1
    <3>2. c \in ExecutionStates
      BY <1>1, <3>1, MergeType
    <3>3. QED
      BY <1>1, <3>1, <3>2, CoversLaws
  <2>2. CASE ~Seen(t)'
    BY <1>1, <1>3, <2>2, CoversLaws
  <2>3. QED
    BY <2>1, <2>2
<1>5. Covers(c, es)
  BY <1>1, <1>4, CoversLaws
<1>6. QED
  BY <1>5 DEF Awaited, Covers

\* What an instruction passes on is a state.
LEMMA LeadsToState ==
  ASSUME NEW a, NEW di, KnownAt(a, di), NEW t, NEW es, LeadsTo(a, di, t, es)
  PROVE  es \in ExecutionStates
BY BranchMerge DEF KnownAt, LeadsTo

\* A turn that awaits all that its instruction leads to keeps the invariant.
LEMMA PathTurn ==
  ASSUME KnownInv, KnownInv', PathInv, NEW pc \in DOMAIN decodeStack, NEW d, Turns(pc, d)
  PROVE  PathInv'
<1>1. /\ DOMAIN newDisassembly' = DOMAIN newDisassembly \cup {pc} /\ newDisassembly'[pc] = d
      /\ \A a \in DOMAIN newDisassembly \ {pc} : newDisassembly'[a] = newDisassembly[a]
      /\ disassembly' = disassembly
  BY DEF Turns, Turn, With
<1>2. Closed'
  BY <1>1 DEF PathInv, Closed, LeadsTo, Covers
<1>3. ASSUME NEW a \in DOMAIN newDisassembly', NEW di, di = newDisassembly'[a],
             NEW t, NEW es, LeadsTo(a, di, t, es)
      PROVE  Awaited(t, es)'
  <2>1. CASE a = pc
    BY <1>1, <1>3, <2>1 DEF Turns
  <2>2. CASE a # pc
    <3>1. a \in DOMAIN newDisassembly /\ di = newDisassembly[a]
      BY <1>1, <1>3, <2>2
    <3>2. Awaited(t, es)
      BY <1>3, <3>1 DEF PathInv, Flowing
    <3>3. es \in ExecutionStates
      BY <1>3, <3>1, LeadsToState DEF KnownInv, Known
    <3>4. QED
      BY <3>2, <3>3, TurnAwaits DEF Turns
  <2>3. QED
    BY <2>1, <2>2
<1>4. Flowing'
  BY <1>3 DEF Flowing, LeadsTo
<1>5. QED
  BY <1>2, <1>4 DEF PathInv

\* An instruction that stands after a turn stood before it.
LEMMA StoodBefore ==
  ASSUME UNCHANGED memory, NEW a, NEW di, Stands(a, di)' PROVE Stands(a, di)
BY DEF Stands, CanDecode, Readable, Decode, BytesAt

\* What earlier turns and calls found at pc already awaits what it leads to.
LEMMA ExistingAwaited ==
  ASSUME KnownInv, PathInv, NEW pc, Seen(pc), NEW t, NEW es, LeadsTo(pc, Existing(pc), t, es)
  PROVE  Awaited(t, es) /\ es \in ExecutionStates
<1>1. es \in ExecutionStates
  BY LeadsToState DEF Seen, Existing, KnownInv, Known
<1>2. CASE pc \in DOMAIN newDisassembly
  BY <1>1, <1>2 DEF Existing, PathInv, Flowing
<1>3. CASE pc \notin DOMAIN newDisassembly
  <2>1. pc \in DOMAIN disassembly /\ LeadsTo(pc, disassembly[pc], t, es)
    BY <1>3 DEF Seen, Existing
  <2>2. t \in DOMAIN disassembly /\ Covers(disassembly[t].current, es)
    BY <2>1 DEF PathInv, Closed
  <2>3. QED
    BY <1>1, <2>2, DisassemblyAwaited
<1>4. QED
  BY <1>2, <1>3

LEMMA ConfirmTurns ==
  ASSUME LabelInv, KnownInv, KnownInv', PathInv, NEW pc \in DOMAIN decodeStack, Confirm(pc)
  PROVE  \E d : Turns(pc, d)
<1> PICK d : d = Existing(pc)
  OBVIOUS
<1>1. /\ Seen(pc) /\ UNCHANGED disassembly /\ d.current = Combined(pc)
      /\ newDisassembly' = With(newDisassembly, pc, d) /\ decodeStack' = Popped(pc)
  BY DEF Confirm, own
<1>2. StatesOf(Popped(pc))
  BY PoppedType DEF KnownInv
<1>3. Turn(pc, d)
  BY <1>1, <1>2, CoversLaws DEF Turn, Grown, StatesOf
<1>4. ASSUME NEW t, NEW es, LeadsTo(pc, d, t, es)
      PROVE  Awaited(t, es)'
  BY <1>1, <1>3, <1>4, ExistingAwaited, TurnAwaits
<1>5. QED
  BY <1>3, <1>4 DEF Turns

LEMMA DiscoverTurns ==
  ASSUME LabelInv, KnownInv, KnownInv', StandsInv', PathInv,
         NEW pc \in DOMAIN decodeStack, Discover(pc)
  PROVE  \E d : Turns(pc, d)
<1> DEFINE ins == Decode(pc, decodeStack[pc].flags)
           next == Executed(pc).state
           called == [ins EXCEPT !.ret = ReturnOf(pc, ins)]
           after == ApplyReturn(called.ret, next)
           di == [ins |-> called, current |-> decodeStack[pc], next |-> after, label |-> NoLabel,
                  to |-> IF IsLocalBranch(ins) THEN Label(BranchTarget(pc, ins)) ELSE NoLabel]
           branched == AfterBranch(Popped(pc), pc, ins, decodeStack[pc])
<1> PICK d : d = di
  OBVIOUS
<1>1. /\ ~Seen(pc) /\ Executed(pc).result = "ok"
      /\ UNCHANGED <<rom, disassembly>> /\ newDisassembly' = With(newDisassembly, pc, d)
      /\ decodeStack' = AfterFallThrough(branched, pc, called, after)
  BY DEF Discover
<1>2. d.ins = called /\ d.current = decodeStack[pc] /\ d.next = after
  OBVIOUS
<1>3. pc \in Addresses /\ decodeStack[pc] \in ExecutionStates /\ StatesOf(Popped(pc))
  BY PoppedType DEF KnownInv, Carried, StatesOf
<1>4. DecodedAt(pc, ins)
  BY <1>1, ExecutedType
<1>5. d = newDisassembly'[pc] /\ pc \in DOMAIN newDisassembly'
  BY <1>1 DEF With
<1>6. KnownAt(pc, d)' /\ Stands(pc, d)
  <2>1. KnownAt(pc, d)' /\ Stands(pc, d)'
    BY <1>5 DEF KnownInv, Known, StandsInv
  <2>2. QED
    BY <1>1, <2>1, StoodBefore DEF rom
<1>7. DecodedAt(pc, called) /\ after \in ExecutionStates
  <2> HIDE DEF called, after, di
  <2>1. DecodedAt(pc, d.ins) /\ d.next \in ExecutionStates
    BY <1>6 DEF KnownAt, DecodedAt, InstructionTypes, IsLocalBranch, HasFarTarget, FarTarget
  <2>2. QED
    BY <1>2, <2>1
<1>8. /\ IsLocalBranch(called) <=> IsLocalBranch(ins)
      /\ BranchTarget(pc, called) = BranchTarget(pc, ins)
      /\ \A es : BranchCarry(called, es) = BranchCarry(ins, es)
      /\ called.mnemonic = ins.mnemonic
  <2>1. Instruction(ins)
    BY DecodeShape
  <2>2. /\ called.mnemonic = ins.mnemonic /\ called.mode = ins.mode /\ called.arg = ins.arg
    <3> HIDE DEF ins
    <3>1. QED
      BY <2>1 DEF Instruction
  <2> HIDE DEF called, ins
  <2>3. QED
    BY <2>2, BranchKept DEF BranchCarry
<1>9. IsLocalBranch(called) => called.mnemonic \in LocalBranches
  BY <1>2, <1>6, BranchMnemonic DEF KnownInv
<1> HIDE DEF ins, called, after, di
<1>10. /\ StatesOf(branched) /\ Grown(Popped(pc), branched)
       /\ IsLocalBranch(called) =>
            /\ BranchTarget(pc, called) \in DOMAIN branched
            /\ Covers(branched[BranchTarget(pc, called)], BranchCarry(called, decodeStack[pc]))
  BY <1>3, <1>4, <1>8, <1>9, OnwardTypes, OnwardCovers
<1> HIDE DEF branched
<1>11. /\ StatesOf(decodeStack') /\ Grown(branched, decodeStack')
       /\ ~IsExitInstruction(called) =>
            /\ NextPc(pc, called) \in DOMAIN decodeStack'
            /\ Covers(decodeStack'[NextPc(pc, called)], after)
  BY <1>1, <1>3, <1>7, <1>10, OnwardTypes, OnwardCovers
<1>12. Turn(pc, d)
  <2>1. Grown(Popped(pc), decodeStack')
    BY <1>3, <1>10, <1>11, GrownTransitive
  <2>2. d.current = Combined(pc)
    BY <1>1, <1>2 DEF Combined
  <2>3. QED
    BY <1>1, <2>1, <2>2 DEF Turn
<1>13. ASSUME NEW t, NEW es, LeadsTo(pc, d, t, es)
       PROVE  Awaited(t, es)'
  <2>1. CASE ~IsExitInstruction(called) /\ t = NextPc(pc, called) /\ es = after
    BY <1>7, <1>11, <2>1, JoinedAwaited
  <2>2. CASE IsLocalBranch(called) /\ t = BranchTarget(pc, called)
             /\ es = BranchCarry(called, decodeStack[pc])
    <3>1. es \in ExecutionStates
      BY <1>3, <2>2, BranchMerge
    <3>2. t \in DOMAIN branched /\ Covers(branched[t], es) /\ branched[t] \in ExecutionStates
      BY <1>10, <2>2 DEF StatesOf
    <3>3. t \in DOMAIN decodeStack' /\ Covers(decodeStack'[t], branched[t])
          /\ decodeStack'[t] \in ExecutionStates
      BY <1>11, <3>2 DEF Grown, StatesOf
    <3>4. Covers(decodeStack'[t], es)
      BY <3>1, <3>2, <3>3, CoversLaws
    <3>5. QED
      BY <3>1, <3>3, <3>4, JoinedAwaited
  <2>3. QED
    BY <1>2, <1>13, <2>1, <2>2 DEF LeadsTo
<1>14. QED
  BY <1>12, <1>13 DEF Turns

LEMMA WeakenTurns ==
  ASSUME LabelInv, KnownInv, KnownInv', StandsInv, PathInv,
         NEW pc \in DOMAIN decodeStack, Weaken(pc)
  PROVE  \E d : Turns(pc, d)
<1> DEFINE old == Existing(pc)
           c == Combined(pc)
           next == Executed(pc).state
           di == [old EXCEPT !.current = c, !.next = next]
           onward == AfterFallThrough(Popped(pc), pc, old.ins, next)
<1> PICK d, s : d = di /\ s = decodeStack[pc]
  OBVIOUS
<1>1. /\ Seen(pc) /\ UNCHANGED disassembly /\ newDisassembly' = With(newDisassembly, pc, d)
      /\ decodeStack' = AfterBranch(onward, pc, old.ins, s)
  BY DEF Weaken, own
<1>2. /\ KnownAt(pc, old) /\ Shaped(old) /\ Stands(pc, old) /\ next \in ExecutionStates
      /\ c = Merge(s, old.current)
  <2>1. KnownAt(pc, old) /\ next \in ExecutionStates
    BY <1>1, ExecutedType
  <2>2. Shaped(old) /\ Stands(pc, old)
    BY <1>1 DEF Seen, Existing, LabelInv, Shapes, StandsInv
  <2>3. QED
    BY <1>1, <2>1, <2>2 DEF Combined
<1>3. d.ins = old.ins /\ d.current = c /\ d.next = next
  <2> HIDE DEF old, c, next
  <2>1. QED
    BY <1>2 DEF Shaped
<1>4. pc \in Addresses /\ s \in ExecutionStates /\ StatesOf(Popped(pc))
  BY PoppedType DEF KnownInv, Carried, StatesOf
<1>5. DecodedAt(pc, old.ins) /\ (IsLocalBranch(old.ins) => old.ins.mnemonic \in LocalBranches)
  BY <1>2, BranchMnemonic DEF KnownAt, KnownInv
<1>6. \A t, es : LeadsTo(pc, old, t, es) => Awaited(t, es) /\ es \in ExecutionStates
  BY <1>1, ExistingAwaited
<1>7. c = Combined(pc)
  OBVIOUS
<1> HIDE DEF old, c, next, di
<1>8. /\ StatesOf(onward) /\ Grown(Popped(pc), onward)
      /\ ~IsExitInstruction(old.ins) =>
           NextPc(pc, old.ins) \in DOMAIN onward /\ Covers(onward[NextPc(pc, old.ins)], next)
  BY <1>2, <1>4, <1>5, OnwardTypes, OnwardCovers
<1> HIDE DEF onward
<1>9. /\ StatesOf(decodeStack') /\ Grown(onward, decodeStack')
      /\ IsLocalBranch(old.ins) =>
           /\ BranchTarget(pc, old.ins) \in DOMAIN decodeStack'
           /\ Covers(decodeStack'[BranchTarget(pc, old.ins)], BranchCarry(old.ins, s))
  BY <1>1, <1>4, <1>5, <1>8, OnwardTypes, OnwardCovers
<1>10. Turn(pc, d)
  BY <1>1, <1>3, <1>4, <1>7, <1>8, <1>9, GrownTransitive DEF Turn
<1>11. ASSUME NEW t, NEW es, LeadsTo(pc, d, t, es)
       PROVE  Awaited(t, es)'
  <2>1. CASE ~IsExitInstruction(old.ins) /\ t = NextPc(pc, old.ins) /\ es = next
    <3>1. t \in DOMAIN onward /\ Covers(onward[t], next) /\ onward[t] \in ExecutionStates
      BY <1>8, <2>1 DEF StatesOf
    <3>2. t \in DOMAIN decodeStack' /\ Covers(decodeStack'[t], onward[t])
          /\ decodeStack'[t] \in ExecutionStates
      BY <1>9, <3>1 DEF Grown, StatesOf
    <3>3. Covers(decodeStack'[t], next)
      BY <1>2, <3>1, <3>2, CoversLaws
    <3>4. QED
      BY <1>2, <2>1, <3>2, <3>3, JoinedAwaited
  <2>2. CASE IsLocalBranch(old.ins) /\ t = BranchTarget(pc, old.ins) /\ es = BranchCarry(old.ins, c)
    <3> PICK p, q : p = BranchCarry(old.ins, s) /\ q = BranchCarry(old.ins, old.current)
      OBVIOUS
    <3>1. p \in ExecutionStates /\ q \in ExecutionStates /\ es = Merge(p, q)
      BY <1>2, <1>4, <2>2, BranchMerge DEF KnownAt
    <3>2. Awaited(t, p)'
      BY <1>9, <2>2, <3>1, JoinedAwaited
    <3>3. Awaited(t, q)'
      <4>1. LeadsTo(pc, old, t, q)
        BY <2>2 DEF LeadsTo
      <4>2. QED
        BY <1>6, <1>10, <4>1, TurnAwaits
    <3> PICK b : b = Bound(t)'
      OBVIOUS
    <3>4. b \in ExecutionStates
      <4>1. t \in DOMAIN decodeStack'
        BY <1>9, <2>2
      <4> PICK j, o : j = decodeStack'[t] /\ o = Existing(t)'.current
        OBVIOUS
      <4>2. j \in ExecutionStates
        BY <1>9, <4>1 DEF StatesOf
      <4>3. Seen(t)' => o \in ExecutionStates
        BY DEF Seen, Existing, KnownInv, Known, KnownAt
      <4>4. b = IF Seen(t)' THEN Merge(j, o) ELSE j
        BY <4>1 DEF Bound, Combined
      <4>5. QED
        BY <4>2, <4>3, <4>4, MergeType
    <3>5. Covers(b, p) /\ Covers(b, q)
      BY <3>2, <3>3 DEF Awaited, Covers
    <3>6. Covers(b, es)
      BY <3>1, <3>4, <3>5, CoversLaws
    <3>7. QED
      BY <3>2, <3>6 DEF Awaited, Covers
  <2>3. QED
    BY <1>3, <1>11, <2>1, <2>2 DEF LeadsTo
<1>12. QED
  BY <1>10, <1>11 DEF Turns

LEMMA LoopTurns ==
  ASSUME LabelInv, KnownInv, KnownInv', StandsInv, StandsInv', PathInv,
         NEW pc \in DOMAIN decodeStack, Discover(pc) \/ Confirm(pc) \/ Weaken(pc)
  PROVE  \E d : Turns(pc, d)
BY DiscoverTurns, ConfirmTurns, WeakenTurns

LEMMA PathReturn == ASSUME LabelInv, KnownInv, PathInv, Return PROVE PathInv'
<1>1. DOMAIN decodeStack = {} /\ DOMAIN newDisassembly' = {}
  BY EmptyMap DEF Return
<1>2. ASSUME NEW t, Seen(t)
      PROVE  /\ t \in DOMAIN disassembly'
             /\ disassembly'[t].current = Existing(t).current
  <2>1. t \in DOMAIN disassembly'
    BY <1>2 DEF Seen, Return
  <2>2. QED
    BY <2>1, ReturnKeeps
<1>3. ASSUME NEW a \in DOMAIN disassembly', NEW new, new = disassembly'[a],
             NEW t, NEW es, LeadsTo(a, new, t, es)
      PROVE  t \in DOMAIN disassembly' /\ Covers(disassembly'[t].current, es)
  <2> PICK old : old = Existing(a)
    OBVIOUS
  <2>1. /\ new.current = old.current /\ new.next = old.next
        /\ new.ins.mnemonic = old.ins.mnemonic /\ new.ins.mode = old.ins.mode
        /\ new.ins.arg = old.ins.arg /\ new.ins.ret = old.ins.ret /\ Seen(a)
    BY <1>3, ReturnKeeps DEF Seen
  <2>2. LeadsTo(a, old, t, es)
    BY <1>3, <2>1, BranchKept DEF LeadsTo, IsExitInstruction, NextPc, BranchCarry
  <2>3. Awaited(t, es)
    BY <2>1, <2>2, ExistingAwaited
  <2>4. Seen(t) /\ Covers(Existing(t).current, es)
    BY <1>1, <2>3 DEF Awaited, Bound
  <2>5. QED
    BY <1>2, <2>4
<1>4. Closed'
  BY <1>3 DEF Closed, LeadsTo, Covers
<1>5. QED
  BY <1>1, <1>4 DEF PathInv, Flowing

LEMMA PathStutter ==
  ASSUME PathInv, UNCHANGED disassembly,
         UNCHANGED <<decodeStack, newDisassembly>> \/ newDisassembly' = Empty
  PROVE  PathInv'
<1>1. Closed'
  BY DEF PathInv, Closed, LeadsTo, Covers
<1>2. Flowing'
  BY EmptyMap DEF PathInv, Flowing, LeadsTo, Covers, Awaited, Bound, Combined, Existing, Seen
<1>3. QED
  BY <1>1, <1>2 DEF PathInv

LEMMA PathStep ==
  ASSUME LabelInv, KnownInv, KnownInv', StandsInv, StandsInv', PathInv, [Next]_vars PROVE PathInv'
<1>1. ASSUME NEW pc \in DOMAIN decodeStack, Discover(pc) \/ Confirm(pc) \/ Weaken(pc)
      PROVE  PathInv'
  BY <1>1, LoopTurns, PathTurn
<1>2. CASE Return
  BY <1>2, PathReturn
<1>3. CASE /\ UNCHANGED <<rom, disassembly>>
           /\ UNCHANGED <<decodeStack, newDisassembly>> \/ newDisassembly' = Empty
  BY <1>3, PathStutter
<1>4. QED
  BY <1>1, <1>2, <1>3, OtherSteps

LEMMA PathsHold == Spec => []PathInv
<1>1. Init => PathInv
  BY EmptyMap DEF Init, PathInv, Closed, Flowing
<1>2. Inv /\ Inv' /\ StandsInv /\ StandsInv' /\ PathInv /\ [Next]_vars => PathInv'
  BY PathStep DEF Inv
<1>3. QED
  BY <1>1, <1>2, InvHolds, StandsHolds, PTL DEF Spec

\* After every call, each successor of each instruction is disassembled in a
\* state that covers the one control comes with, however many paths, loops
\* and calls joined there (add_to_decode_stack and the joins of Disassemble).
THEOREM EveryPathIsCovered == Spec => []EveryPathCovered
<1>1. Inv /\ StandsInv /\ PathInv => EveryPathCovered
  <2> SUFFICES ASSUME Inv, StandsInv, PathInv, NEW a \in DOMAIN disassembly,
                      NEW di, di = disassembly[a]
               PROVE  /\ ~IsExitInstruction(di.ins) =>
                           /\ NextPc(a, di.ins) \in DOMAIN disassembly
                           /\ Covers(disassembly[NextPc(a, di.ins)].current, di.next)
                      /\ IsLocalBranch(di.ins) =>
                           /\ BranchTarget(a, di.ins) \in DOMAIN disassembly
                           /\ Covers(disassembly[BranchTarget(a, di.ins)].current,
                                     ExecuteBranch(di.ins, di.current).state)
    BY DEF EveryPathCovered
  <2>1. KnownAt(a, di) /\ Stands(a, di)
    BY DEF Inv, KnownInv, Known, StandsInv
  <2>2. IsLocalBranch(di.ins) =>
          ExecuteBranch(di.ins, di.current).state = BranchCarry(di.ins, di.current)
    BY <2>1, BranchMnemonic, BranchState DEF Inv, KnownInv, KnownAt
  <2>3. \A t, es : LeadsTo(a, di, t, es) =>
          t \in DOMAIN disassembly /\ Covers(disassembly[t].current, es)
    BY DEF PathInv, Closed
  <2>4. ~IsExitInstruction(di.ins) => LeadsTo(a, di, NextPc(a, di.ins), di.next)
    BY DEF LeadsTo
  <2>5. IsLocalBranch(di.ins) =>
          LeadsTo(a, di, BranchTarget(a, di.ins), BranchCarry(di.ins, di.current))
    BY DEF LeadsTo
  <2>6. QED
    BY <2>2, <2>3, <2>4, <2>5
<1>2. QED
  BY <1>1, PathsHold, InvHolds, StandsHolds, PTL

-----------------------------------------------------------------------------
(* Far targets are followed, where no subroutine yields flags *)

\* No subroutine is known to return with flags of its own.
NoYields == \A task \in Tasks : \A a \in DOMAIN task.conventions : task.conventions[a].kind # "yields"

FlagsCover(general, f) == MergeFlags(general, f) = general

\* The instruction at a leaves for t with the flags f.
FarAt(a, di, t, f) ==
  HasFarTarget(di.ins) /\ t = FarTarget(a, di.ins) /\ f = SetCBit(di.current.flags, "unknown")

\* t is disassembled for callers with the flags f, was given up, or is a seed
\* that the driver has still to look at.
Sought(t, f) ==
  \/ t \in assembled \cup failed
  \/ t \in DOMAIN newSeeds /\ FlagsCover(newSeeds[t], f)
  \/ t \in todo /\ FlagsCover(seeds[t], f)
  \/ t \in DOMAIN disassembly /\ Describes(disassembly[t].current.flags, f)

\* The running call has recorded it, or it was sought before.
Recorded(t, f) == Sought(t, f) \/ (t \in DOMAIN farTargets /\ FlagsCover(farTargets[t], f))

Unyielding ==
  /\ \A a \in DOMAIN conventions : conventions[a].kind # "yields"
  /\ \A a \in DOMAIN disassembly : disassembly[a].ins.ret.kind # "yields"
  /\ \A a \in DOMAIN newDisassembly : newDisassembly[a].ins.ret.kind # "yields"

AllSought == \A a \in DOMAIN disassembly : \A t, f : FarAt(a, disassembly[a], t, f) => Sought(t, f)
AllRecorded ==
  \A a \in DOMAIN newDisassembly : \A t, f : FarAt(a, newDisassembly[a], t, f) => Recorded(t, f)

\* The seed of the running call is being disassembled, and the last pass
\* leaves no seeds that another could have looked at.
SeedInv ==
  /\ status = "call" => \A a \in todo : IsLowest(a, todo) => Awaited(a, IncomingState(seeds[a]))
  /\ status = "call" => pass < MaxPasses
  /\ pass = MaxPasses => newSeeds = Empty
  /\ status = "done" => pass = MaxPasses

FarInv == Unyielding /\ AllSought /\ AllRecorded /\ SeedInv

\* Covering flags agree with the covered ones or say nothing.
LEMMA FlagsCoverBits ==
  ASSUME NEW g \in FlagStates, NEW f \in FlagStates, FlagsCover(g, f)
  PROVE  /\ g.e \in {f.e, "unknown"} /\ g.m \in {f.m, "unknown"}
         /\ g.x \in {f.x, "unknown"} /\ g.c \in {f.c, "unknown"}
<1>1. /\ g.e = MergeBit(g.e, f.e) /\ g.c = MergeBit(g.c, f.c)
      /\ g.m = ConstrainedForEBit(MergeBit(g.m, f.m), g.e)
      /\ g.x = ConstrainedForEBit(MergeBit(g.x, f.x), g.e)
  BY DEF FlagsCover, MergeFlags, MakeFlags
<1>2. f.m = ConstrainedForEBit(f.m, f.e) /\ f.x = ConstrainedForEBit(f.x, f.e)
  BY DEF FlagStates, Coherent
<1>3. g.e \in {f.e, "unknown"} /\ g.c \in {f.c, "unknown"}
  BY <1>1 DEF MergeBit
<1>4. ASSUME NEW b, NEW d, d = ConstrainedForEBit(d, f.e), b = ConstrainedForEBit(MergeBit(b, d), g.e)
      PROVE  b \in {d, "unknown"}
  <2> DEFINE h == MergeBit(b, d)
  <2>1. h \in {d, "unknown"}
    BY DEF MergeBit
  <2>2. CASE g.e = "on"
    BY <1>3, <1>4, <2>2 DEF ConstrainedForEBit
  <2> HIDE DEF h
  <2>3. CASE g.e = "off"
    BY <1>4, <2>1, <2>3 DEF ConstrainedForEBit, h
  <2>4. CASE g.e \notin {"on", "off"}
    BY <1>4, <2>1, <2>4 DEF ConstrainedForEBit, h
  <2>5. QED
    BY <2>2, <2>3, <2>4
<1>5. QED
  BY <1>1, <1>2, <1>3, <1>4

\* Describing a caller survives covering, at the entry and at the caller, and
\* says nothing of a carry that is not known.
LEMMA DescribesLaws ==
  ASSUME NEW g \in FlagStates, NEW s \in FlagStates, NEW f \in FlagStates
  PROVE  /\ FlagsCover(g, SetIncoming(s)) /\ FlagsCover(s, f) => Describes(g, f)
         /\ FlagsCover(g, s) /\ Describes(s, f) => Describes(g, f)
         /\ Describes(g, SetCBit(f, "unknown")) => Describes(g, f)
<1>1. \A h \in FlagStates : DOMAIN h = {"e", "m", "x", "c"}
  BY DEF FlagStates
<1>2. \A a, b : b \in FlagStates =>
        (Describes(a, b) <=>
          /\ a.e \in {b.e, "original", "unknown"} /\ a.m \in {b.m, "original", "unknown"}
          /\ a.x \in {b.x, "original", "unknown"} /\ a.c \in {b.c, "original", "unknown"})
  BY <1>1 DEF Describes
<1>3. SetIncoming(s) \in FlagStates /\ SetCBit(f, "unknown") \in FlagStates
  BY FlagSetterTypes DEF BitStates
<1>4. /\ SetIncoming(s).e \in {s.e, "original"} /\ SetIncoming(s).m \in {s.m, "original"}
      /\ SetIncoming(s).x \in {s.x, "original"} /\ SetIncoming(s).c \in {s.c, "original"}
      /\ s.e = "unknown" => SetIncoming(s).e = "original"
      /\ s.m = "unknown" => SetIncoming(s).m = "original"
      /\ s.x = "unknown" => SetIncoming(s).x = "original"
      /\ s.c = "unknown" => SetIncoming(s).c = "original"
  BY <1>1 DEF SetIncoming
<1>5. /\ SetCBit(f, "unknown").e = f.e /\ SetCBit(f, "unknown").m = f.m
      /\ SetCBit(f, "unknown").x = f.x /\ SetCBit(f, "unknown").c = "unknown"
  BY DEF SetCBit, FlagStates
<1>6. FlagsCover(g, SetIncoming(s)) /\ FlagsCover(s, f) => Describes(g, f)
  <2> SUFFICES ASSUME FlagsCover(g, SetIncoming(s)), FlagsCover(s, f)
               PROVE  Describes(g, f)
    OBVIOUS
  <2> PICK i : i = SetIncoming(s)
    OBVIOUS
  <2>1. /\ g.e \in {i.e, "unknown"} /\ g.m \in {i.m, "unknown"}
        /\ g.x \in {i.x, "unknown"} /\ g.c \in {i.c, "unknown"}
    BY <1>3, FlagsCoverBits
  <2>2. /\ s.e \in {f.e, "unknown"} /\ s.m \in {f.m, "unknown"}
        /\ s.x \in {f.x, "unknown"} /\ s.c \in {f.c, "unknown"}
    BY FlagsCoverBits
  <2>3. QED
    BY <1>2, <1>4, <2>1, <2>2
<1>7. FlagsCover(g, s) /\ Describes(s, f) => Describes(g, f)
  BY <1>2, FlagsCoverBits
<1>8. Describes(g, SetCBit(f, "unknown")) => Describes(g, f)
  BY <1>2, <1>3, <1>5
<1>9. QED
  BY <1>6, <1>7, <1>8

\* FlagsCover is an order, and a join covers what is joined.
LEMMA FlagsCoverLaws ==
  ASSUME NEW x \in FlagStates, NEW y \in FlagStates
  PROVE  /\ FlagsCover(x, x) /\ FlagsCover(MergeFlags(x, y), x) /\ FlagsCover(MergeFlags(x, y), y)
         /\ \A z \in FlagStates : FlagsCover(x, y) /\ FlagsCover(y, z) => FlagsCover(x, z)
<1>1. /\ MergeFlags(x, x) = x /\ MergeFlags(y, y) = y /\ MergeFlags(x, y) = MergeFlags(y, x)
      /\ MergeFlags(x, y) \in FlagStates
  BY MergeFlagsLaws, MergeFlagsType
<1>2. MergeFlags(MergeFlags(x, y), y) = MergeFlags(x, y) /\ MergeFlags(MergeFlags(y, x), x) = MergeFlags(y, x)
  BY <1>1, MergeFlagsCovers
<1>3. \A z \in FlagStates : FlagsCover(x, y) /\ FlagsCover(y, z) => FlagsCover(x, z)
  BY MergeFlagsCovers, MergeFlagsLaws DEF FlagsCover
<1>4. QED
  BY <1>1, <1>2, <1>3 DEF FlagsCover

\* States that cover one another have flags that do.
LEMMA CoversFlags ==
  ASSUME NEW x \in ExecutionStates, NEW y \in ExecutionStates, Covers(x, y)
  PROVE  FlagsCover(x.flags, y.flags)
BY DEF Covers, FlagsCover, Merge

\* A far jump or call that does not yield leaves with the carry unknown.
LEMMA FarExecuted ==
  ASSUME NEW ins, HasFarTarget(ins), ins.ret.kind # "yields", NEW es \in ExecutionStates
  PROVE  /\ Execute(ins, es).result = "ok" => Execute(ins, es).state.flags = SetCBit(es.flags, "unknown")
         /\ Execute(ins, es).state.flags \in {es.flags, SetCBit(es.flags, "unknown")}
<1>1. ins.mnemonic \in {"jmp", "jsl", "jsr"}
  BY DEF HasFarTarget
<1>2. Transfer(ins, es) = Call(es, ins)
  BY <1>1 DEF Transfer, WipesAccumulatorAndCarry
<1>3. Call(es, ins).flags = SetCBit(es.flags, "unknown")
  BY DEF Call, ExecutionStates
<1>4. CASE CheckConsistency(ins, es.flags)
  BY <1>1, <1>2, <1>3, <1>4 DEF Execute
<1>5. CASE ~CheckConsistency(ins, es.flags)
  BY <1>5 DEF Execute
<1>6. QED
  BY <1>4, <1>5

\* Every far target on record stays there, with flags that cover its own.
FlagsGrown(old, new) == \A t \in DOMAIN old : t \in DOMAIN new /\ FlagsCover(new[t], old[t])

\* add_far_branch.
LEMMA FarJoin ==
  ASSUME FlagsOf(farTargets), NEW pc, NEW ins, NEW es \in ExecutionStates,
         NEW new, new = AfterFarBranch(pc, ins, es)
  PROVE  /\ FlagsGrown(farTargets, new)
         /\ HasFarTarget(ins) => /\ FarTarget(pc, ins) \in DOMAIN new
                                 /\ FlagsCover(new[FarTarget(pc, ins)], es.flags)
<1> PICK a, f : a = FarTarget(pc, ins) /\ f = es.flags
  OBVIOUS
<1>1. f \in FlagStates /\ \A t \in DOMAIN farTargets : farTargets[t] \in FlagStates
  BY StateFields DEF FlagsOf
<1>2. CASE HasFarTarget(ins)
  <2> DEFINE v == IF a \in DOMAIN farTargets THEN MergeFlags(farTargets[a], f) ELSE f
  <2>1. /\ DOMAIN new = DOMAIN farTargets \cup {a} /\ new[a] = v
        /\ \A t \in DOMAIN farTargets \ {a} : new[t] = farTargets[t]
    BY <1>2 DEF AfterFarBranch, JoinFlags, With
  <2>2. FlagsCover(v, f) /\ (a \in DOMAIN farTargets => FlagsCover(v, farTargets[a]))
    BY <1>1, FlagsCoverLaws
  <2> HIDE DEF v
  <2>3. FlagsGrown(farTargets, new)
    BY <1>1, <2>1, <2>2, FlagsCoverLaws DEF FlagsGrown
  <2>4. QED
    BY <2>1, <2>2, <2>3
<1>3. CASE ~HasFarTarget(ins)
  BY <1>1, <1>3, FlagsCoverLaws DEF AfterFarBranch, FlagsGrown
<1>4. QED
  BY <1>2, <1>3

\* CombineStates: the seeds of the next pass cover those it had and those the
\* call has recorded.
LEMMA CombineCovers ==
  ASSUME NEW old, NEW more, FlagsOf(old), FlagsOf(more), NEW new, new = CombineStates(old, more)
  PROVE  FlagsGrown(old, new) /\ FlagsGrown(more, new)
<1>1. /\ \A t \in DOMAIN old : old[t] \in FlagStates
      /\ \A t \in DOMAIN more : more[t] \in FlagStates
  BY DEF FlagsOf
<1>2. /\ DOMAIN new = DOMAIN old \cup DOMAIN more
      /\ \A t \in DOMAIN old \cap DOMAIN more : new[t] = MergeFlags(old[t], more[t])
      /\ \A t \in DOMAIN old \ DOMAIN more : new[t] = old[t]
      /\ \A t \in DOMAIN more \ DOMAIN old : new[t] = more[t]
  BY DEF CombineStates
<1>3. QED
  BY <1>1, <1>2, FlagsCoverLaws DEF FlagsGrown

LEMMA FarTyped ==
  ASSUME NEW a, NEW di, KnownAt(a, di), NEW t, NEW f, FarAt(a, di, t, f)
  PROVE  f \in FlagStates
BY StateFields, FlagSetterTypes DEF KnownAt, FarAt, BitStates

\* What was sought or recorded before a turn is so after it.
LEMMA RecordedKept ==
  ASSUME KnownInv, KnownInv', UNCHANGED <<assembled, disassembly, driver>>,
         FlagsGrown(farTargets, farTargets'), NEW t, NEW f \in FlagStates
  PROVE  (Sought(t, f) => Sought(t, f)') /\ (Recorded(t, f) => Recorded(t, f)')
<1>1. Sought(t, f) => Sought(t, f)'
  BY DEF Sought, driver, FlagsCover, Describes
<1>2. ASSUME t \in DOMAIN farTargets, FlagsCover(farTargets[t], f)
      PROVE  t \in DOMAIN farTargets' /\ FlagsCover(farTargets'[t], f)
  <2>1. t \in DOMAIN farTargets' /\ FlagsCover(farTargets'[t], farTargets[t])
    BY <1>2 DEF FlagsGrown
  <2>2. farTargets[t] \in FlagStates /\ farTargets'[t] \in FlagStates
    BY <1>2, <2>1 DEF KnownInv, Carried, FlagsOf
  <2>3. QED
    BY <1>2, <2>1, <2>2, FlagsCoverLaws
<1>3. QED
  BY <1>1, <1>2 DEF Recorded, FlagsCover

\* A turn that records the far target of its instruction keeps the invariant.
LEMMA FarTurn ==
  ASSUME KnownInv, KnownInv', FarInv, todo \subseteq DOMAIN seeds,
         NEW pc \in DOMAIN decodeStack, NEW d, Turn(pc, d),
         UNCHANGED <<rom, driver, status>>, FlagsGrown(farTargets, farTargets'),
         d.ins.ret.kind # "yields", \A t, f : FarAt(pc, d, t, f) => Recorded(t, f)'
  PROVE  FarInv'
<1>1. /\ DOMAIN newDisassembly' = DOMAIN newDisassembly \cup {pc} /\ newDisassembly'[pc] = d
      /\ \A a \in DOMAIN newDisassembly \ {pc} : newDisassembly'[a] = newDisassembly[a]
      /\ disassembly' = disassembly /\ conventions' = conventions /\ assembled' = assembled
  BY DEF Turn, With, rom
<1>2. Unyielding'
  BY <1>1 DEF FarInv, Unyielding
<1>3. AllSought'
  <2>1. ASSUME NEW a \in DOMAIN disassembly', NEW di, di = disassembly'[a],
               NEW t, NEW f, FarAt(a, di, t, f)
        PROVE  Sought(t, f)'
    <3>1. Sought(t, f)
      BY <1>1, <2>1 DEF FarInv, AllSought
    <3>2. f \in FlagStates
      BY <1>1, <2>1, FarTyped DEF KnownInv, Known
    <3>3. QED
      BY <1>1, <3>1, <3>2, RecordedKept
  <2>2. QED
    BY <2>1 DEF AllSought, FarAt
<1>4. AllRecorded'
  <2>1. ASSUME NEW a \in DOMAIN newDisassembly', NEW di, di = newDisassembly'[a],
               NEW t, NEW f, FarAt(a, di, t, f)
        PROVE  Recorded(t, f)'
    <3>1. CASE a = pc
      BY <1>1, <2>1, <3>1
    <3>2. CASE a # pc
      <4>1. a \in DOMAIN newDisassembly /\ di = newDisassembly[a]
        BY <1>1, <2>1, <3>2
      <4>2. Recorded(t, f)
        BY <2>1, <4>1 DEF FarInv, AllRecorded
      <4>3. f \in FlagStates
        BY <2>1, <4>1, FarTyped DEF KnownInv, Known
      <4>4. QED
        BY <1>1, <4>2, <4>3, RecordedKept
    <3>3. QED
      BY <3>1, <3>2
  <2>2. QED
    BY <2>1 DEF AllRecorded, FarAt
<1>5. SeedInv'
  <2>1. ASSUME status' = "call", NEW a \in todo', IsLowest(a, todo'), NEW es, es = IncomingState(seeds[a])
        PROVE  Awaited(a, es)'
    <3>1. Awaited(a, es)
      BY <2>1 DEF FarInv, SeedInv, driver
    <3>2. seeds[a] \in FlagStates
      BY <2>1 DEF KnownInv, Carried, FlagsOf, driver
    <3>3. QED
      BY <2>1, <3>1, <3>2, IncomingStateType, TurnAwaits
  <2>2. QED
    BY <2>1 DEF FarInv, SeedInv, driver
<1>6. QED
  BY <1>2, <1>3, <1>4, <1>5 DEF FarInv

LEMMA FarDiscover ==
  ASSUME LabelInv, KnownInv, KnownInv', FarInv, todo \subseteq DOMAIN seeds,
         NEW pc \in DOMAIN decodeStack, NEW d, Turn(pc, d), Discover(pc)
  PROVE  FarInv'
<1> DEFINE ins == Decode(pc, decodeStack[pc].flags)
           r == ReturnOf(pc, ins)
           called == [ins EXCEPT !.ret = r]
           di == [ins |-> called, current |-> decodeStack[pc],
                  next |-> ApplyReturn(called.ret, Executed(pc).state), label |-> NoLabel,
                  to |-> IF IsLocalBranch(ins) THEN Label(BranchTarget(pc, ins)) ELSE NoLabel]
<1> PICK next, c : next = Executed(pc).state /\ c = decodeStack[pc]
  OBVIOUS
<1>1. /\ ~Seen(pc) /\ Executed(pc).result = "ok" /\ UNCHANGED <<rom, driver, status>>
      /\ newDisassembly' = With(newDisassembly, pc, di)
      /\ farTargets' = AfterFarBranch(pc, ins, next)
  BY DEF Discover
<1>2. d = di
  <2> HIDE DEF di
  <2>1. newDisassembly' = With(newDisassembly, pc, d)
    BY DEF Turn
  <2>2. QED
    BY <1>1, <2>1 DEF With
<1>3. d.ins = called /\ d.current = c
  BY <1>2
<1>4. c \in ExecutionStates /\ next \in ExecutionStates
  BY ExecutedType DEF KnownInv, Carried, StatesOf
<1>5. Instruction(ins) /\ ins.ret.kind # "yields"
  BY DecodeShape DEF Decode, DecodeBytes, DefaultReturn
<1>6. r.kind # "yields"
  <2> HIDE DEF ins
  <2>1. QED
    BY <1>5 DEF ReturnOf, FarInv, Unyielding
<1>7. /\ called.mnemonic = ins.mnemonic /\ called.mode = ins.mode /\ called.arg = ins.arg
      /\ called.ret = r
  <2> HIDE DEF ins, r
  <2>1. QED
    BY <1>5 DEF Instruction
<1>8. Executed(pc) = Execute(ins, c)
  BY <1>1 DEF Executed, Combined
<1> HIDE DEF ins, r, called, di
<1>9. FlagsGrown(farTargets, farTargets')
  BY <1>1, <1>4, FarJoin DEF KnownInv, Carried
<1>10. ASSUME NEW t, NEW f, FarAt(pc, d, t, f)
       PROVE  Recorded(t, f)'
  <2>1. HasFarTarget(ins) /\ t = FarTarget(pc, ins) /\ f = SetCBit(c.flags, "unknown")
    BY <1>3, <1>7, <1>10 DEF FarAt, HasFarTarget, FarTarget
  <2>2. next.flags = f
    BY <1>1, <1>4, <1>5, <1>8, <2>1, FarExecuted
  <2>3. t \in DOMAIN farTargets' /\ FlagsCover(farTargets'[t], f)
    BY <1>1, <1>4, <2>1, <2>2, FarJoin DEF KnownInv, Carried
  <2>4. QED
    BY <2>3 DEF Recorded, FlagsCover
<1>11. QED
  BY <1>1, <1>3, <1>6, <1>7, <1>9, <1>10, FarTurn

\* What was found at pc before has its far target recorded.
LEMMA ExistingRecorded ==
  ASSUME KnownInv, FarInv, NEW pc, Seen(pc), NEW t, NEW f, FarAt(pc, Existing(pc), t, f)
  PROVE  Recorded(t, f) /\ f \in FlagStates
<1>1. f \in FlagStates
  BY FarTyped DEF Seen, Existing, KnownInv, Known
<1>2. CASE pc \in DOMAIN newDisassembly
  BY <1>1, <1>2 DEF Existing, FarInv, AllRecorded
<1>3. CASE pc \notin DOMAIN newDisassembly
  BY <1>1, <1>3 DEF Seen, Existing, FarInv, AllSought, Recorded
<1>4. QED
  BY <1>2, <1>3

LEMMA FarConfirm ==
  ASSUME KnownInv, KnownInv', FarInv, todo \subseteq DOMAIN seeds,
         NEW pc \in DOMAIN decodeStack, NEW d, Turn(pc, d), Confirm(pc)
  PROVE  FarInv'
<1>1. /\ Seen(pc) /\ UNCHANGED <<rom, driver, status, farTargets, disassembly>>
      /\ newDisassembly' = With(newDisassembly, pc, Existing(pc))
  BY DEF Confirm, own
<1>2. d = Existing(pc)
  BY <1>1 DEF Turn, With
<1>3. FlagsGrown(farTargets, farTargets')
  BY <1>1, FlagsCoverLaws DEF FlagsGrown, KnownInv, Carried, FlagsOf
<1>4. d.ins.ret.kind # "yields"
  BY <1>1, <1>2 DEF Seen, Existing, FarInv, Unyielding
<1>5. ASSUME NEW t, NEW f, FarAt(pc, d, t, f)
      PROVE  Recorded(t, f)'
  BY <1>1, <1>2, <1>3, <1>5, ExistingRecorded, RecordedKept DEF rom
<1>6. QED
  BY <1>1, <1>3, <1>4, <1>5, FarTurn

LEMMA FarWeaken ==
  ASSUME LabelInv, KnownInv, KnownInv', FarInv, todo \subseteq DOMAIN seeds,
         NEW pc \in DOMAIN decodeStack, NEW d, Turn(pc, d), Weaken(pc)
  PROVE  FarInv'
<1> DEFINE di == [Existing(pc) EXCEPT !.current = Combined(pc), !.next = Executed(pc).state]
<1> PICK old, c, next : old = Existing(pc) /\ c = Combined(pc) /\ next = Executed(pc).state
  OBVIOUS
<1>1. /\ Seen(pc) /\ Executed(pc).result = "ok" /\ UNCHANGED <<rom, driver, status>>
      /\ newDisassembly' = With(newDisassembly, pc, di)
      /\ farTargets' = AfterFarBranch(pc, old.ins, next)
  BY DEF Weaken
<1>2. d = [old EXCEPT !.current = c, !.next = next]
  <2>1. d = di
    <3> HIDE DEF di
    <3>1. newDisassembly' = With(newDisassembly, pc, d)
      BY DEF Turn
    <3>2. QED
      BY <1>1, <3>1 DEF With
  <2>2. QED
    BY <2>1
<1> HIDE DEF di
<1>3. d.ins = old.ins /\ d.current = c
  <2>1. Shaped(old)
    BY <1>1 DEF Seen, Existing, LabelInv, Shapes
  <2>2. QED
    BY <1>2, <2>1 DEF Shaped
<1>4. c \in ExecutionStates /\ next \in ExecutionStates
  BY ExecutedType
<1>5. old.ins.ret.kind # "yields"
  BY <1>1 DEF Seen, Existing, FarInv, Unyielding
<1>6. Executed(pc) = Execute(old.ins, c)
  BY <1>1 DEF Executed
<1>7. FlagsGrown(farTargets, farTargets')
  BY <1>1, <1>4, FarJoin DEF KnownInv, Carried
<1>8. ASSUME NEW t, NEW f, FarAt(pc, d, t, f)
      PROVE  Recorded(t, f)'
  <2>1. HasFarTarget(old.ins) /\ t = FarTarget(pc, old.ins) /\ f = SetCBit(c.flags, "unknown")
    BY <1>3, <1>8 DEF FarAt
  <2>2. next.flags = f
    BY <1>1, <1>4, <1>5, <1>6, <2>1, FarExecuted
  <2>3. t \in DOMAIN farTargets' /\ FlagsCover(farTargets'[t], f)
    BY <1>1, <1>4, <2>1, <2>2, FarJoin DEF KnownInv, Carried
  <2>4. QED
    BY <2>3 DEF Recorded, FlagsCover
<1>9. QED
  BY <1>1, <1>3, <1>5, <1>7, <1>8, FarTurn

\* Steps that write no instruction keep what is known of the far targets,
\* where they lose no seed.
LEMMA FarStutter ==
  ASSUME FarInv, UNCHANGED <<rom, disassembly>>, \A t, f : Sought(t, f) => Sought(t, f)',
         UNCHANGED <<newDisassembly, farTargets>> \/ newDisassembly' = Empty, SeedInv'
  PROVE  FarInv'
<1>1. Unyielding'
  BY EmptyMap DEF FarInv, Unyielding, rom
<1>2. AllSought'
  BY DEF FarInv, AllSought, FarAt
<1>3. AllRecorded'
  BY EmptyMap DEF FarInv, AllRecorded, Recorded, FarAt, FlagsCover
<1>4. QED
  BY <1>1, <1>2, <1>3 DEF FarInv

LEMMA FarBegin ==
  ASSUME KnownInv, KnownInv', FarInv, DriverInv, NEW a \in todo, Begin(a)
  PROVE  FarInv'
<1>1. /\ UNCHANGED <<rom, disassembly, driver>> /\ newDisassembly' = Empty
      /\ decodeStack' = With(Empty, a, IncomingState(seeds[a])) /\ status' = "call"
      /\ pass < MaxPasses /\ IsLowest(a, todo)
  BY DEF Begin
<1>2. \A t, f : Sought(t, f) => Sought(t, f)'
  BY <1>1 DEF Sought, rom, driver, FlagsCover, Describes
<1>3. todo \subseteq Addresses /\ seeds[a] \in FlagStates
  BY DEF DriverInv, KnownInv, Carried, FlagsOf
<1>4. ASSUME NEW b \in todo', IsLowest(b, todo'), NEW es, es = IncomingState(seeds[b])
      PROVE  Awaited(b, es)'
  <2>1. b = a
    BY <1>1, <1>3, <1>4, LowestIsOne DEF driver
  <2>2. es \in ExecutionStates /\ Covers(es, es)
    BY <1>3, <1>4, <2>1, IncomingStateType, CoversLaws
  <2>3. b \in DOMAIN decodeStack' /\ decodeStack'[b] = es
    BY <1>1, <1>4, <2>1 DEF With
  <2>4. QED
    BY <2>2, <2>3, JoinedAwaited
<1>5. SeedInv'
  BY <1>1, <1>4 DEF SeedInv, FarInv, driver
<1>6. QED
  BY <1>1, <1>2, <1>5, FarStutter

LEMMA FarReturn ==
  ASSUME LabelInv, KnownInv, KnownInv', FarInv, DriverInv, Return
  PROVE  FarInv'
<1>1. PICK s \in todo : IsLowest(s, todo) /\ todo' = todo \ {s}
  BY DEF Return
<1>2. /\ UNCHANGED <<rom, seeds, pass, failed>> /\ status = "call" /\ status' = "driver"
      /\ DOMAIN decodeStack = {} /\ newDisassembly' = Empty
      /\ newSeeds' = CombineStates(newSeeds, farTargets)
  BY DEF Return
<1>3. ASSUME NEW t, Seen(t)
      PROVE  /\ t \in DOMAIN disassembly'
             /\ disassembly'[t].current = Existing(t).current
             /\ Existing(t).current \in ExecutionStates
  <2>1. t \in DOMAIN disassembly'
    BY <1>3 DEF Seen, Return
  <2>2. QED
    BY <1>3, <2>1, ReturnKeeps DEF Seen, Existing, KnownInv, Known, KnownAt
<1>4. FlagsGrown(newSeeds, newSeeds') /\ FlagsGrown(farTargets, newSeeds')
  BY <1>2, CombineCovers DEF KnownInv, Carried
<1>5. ASSUME NEW t, NEW f \in FlagStates, NEW map, FlagsOf(map), FlagsGrown(map, newSeeds'),
             t \in DOMAIN map, FlagsCover(map[t], f)
      PROVE  Sought(t, f)'
  <2>1. t \in DOMAIN newSeeds' /\ FlagsCover(newSeeds'[t], map[t])
    BY <1>5 DEF FlagsGrown
  <2>2. newSeeds'[t] \in FlagStates /\ map[t] \in FlagStates
    BY <1>5, <2>1 DEF KnownInv, Carried, FlagsOf
  <2>3. FlagsCover(newSeeds'[t], f)
    BY <1>5, <2>1, <2>2, FlagsCoverLaws
  <2>4. QED
    BY <2>1, <2>3 DEF Sought, FlagsCover
<1>6. ASSUME NEW t, NEW f \in FlagStates, Sought(t, f)
      PROVE  Sought(t, f)'
  <2>1. CASE t \in assembled \cup failed
    BY <1>2, <2>1 DEF Sought, rom
  <2>2. CASE t \in DOMAIN newSeeds /\ FlagsCover(newSeeds[t], f)
    BY <1>4, <1>5, <2>2 DEF KnownInv, Carried
  <2>3. CASE t \in todo \ {s} /\ FlagsCover(seeds[t], f)
    BY <1>1, <1>2, <2>3 DEF Sought, FlagsCover
  <2>4. CASE t = s /\ FlagsCover(seeds[t], f)
    <3> PICK e, es, new : e = Existing(s).current /\ es = IncomingState(seeds[s])
                            /\ new = disassembly'[s].current
      OBVIOUS
    <3>1. seeds[s] \in FlagStates /\ es \in ExecutionStates
      BY IncomingStateType DEF DriverInv, KnownInv, Carried, FlagsOf
    <3>2. Awaited(s, es)
      BY <1>1, <1>2 DEF FarInv, SeedInv
    <3>3. Seen(s) /\ Covers(e, es)
      BY <1>2, <3>2 DEF Awaited, Bound
    <3>4. s \in DOMAIN disassembly' /\ new = e /\ e \in ExecutionStates
      BY <1>3, <3>3
    <3>5. FlagsCover(e.flags, SetIncoming(seeds[s]))
      BY <3>1, <3>3, <3>4, CoversFlags DEF IncomingState
    <3>6. Describes(e.flags, f)
      BY <2>4, <3>1, <3>4, <3>5, StateFields, DescribesLaws
    <3>7. QED
      BY <2>4, <3>4, <3>6 DEF Sought, Describes
  <2>5. CASE t \in DOMAIN disassembly /\ Describes(disassembly[t].current.flags, f)
    <3> PICK e, old, new : e = Existing(t).current /\ old = disassembly[t].current
                             /\ new = disassembly'[t].current
      OBVIOUS
    <3>1. Seen(t) /\ Covers(e, old) /\ old \in ExecutionStates
      BY <2>5, ExistingCovers DEF Seen, KnownInv, Known, KnownAt
    <3>2. t \in DOMAIN disassembly' /\ new = e /\ e \in ExecutionStates
      BY <1>3, <3>1
    <3>3. FlagsCover(e.flags, old.flags)
      BY <3>1, <3>2, CoversFlags
    <3>4. Describes(e.flags, f)
      BY <2>5, <3>1, <3>2, <3>3, StateFields, DescribesLaws
    <3>5. QED
      BY <3>2, <3>4 DEF Sought, Describes
  <2>6. QED
    BY <1>1, <1>6, <2>1, <2>2, <2>3, <2>4, <2>5 DEF Sought
<1>7. ASSUME NEW a \in DOMAIN disassembly', NEW new, new = disassembly'[a]
      PROVE  /\ new.ins.ret.kind # "yields"
             /\ \A t, f : FarAt(a, new, t, f) => Sought(t, f)'
  <2> PICK old : old = Existing(a)
    OBVIOUS
  <2>1. /\ Seen(a) /\ new.current = old.current /\ new.ins.mnemonic = old.ins.mnemonic
        /\ new.ins.mode = old.ins.mode /\ new.ins.arg = old.ins.arg /\ new.ins.ret = old.ins.ret
    BY <1>7, ReturnKeeps DEF Seen
  <2>2. old.ins.ret.kind # "yields"
    BY <2>1 DEF Seen, Existing, FarInv, Unyielding
  <2>3. ASSUME NEW t, NEW f, FarAt(a, new, t, f)
        PROVE  Sought(t, f)'
    <3>1. FarAt(a, old, t, f)
      BY <2>1, <2>3 DEF FarAt, HasFarTarget, FarTarget
    <3>2. Recorded(t, f) /\ f \in FlagStates
      BY <2>1, <3>1, ExistingRecorded
    <3>3. QED
      BY <1>4, <1>5, <1>6, <3>2 DEF Recorded, KnownInv, Carried
  <2>4. QED
    BY <2>1, <2>2, <2>3
<1>8. Unyielding'
  BY <1>2, <1>7, EmptyMap DEF Unyielding, FarInv, rom
<1>9. AllSought' /\ AllRecorded'
  BY <1>2, <1>7, EmptyMap DEF AllSought, AllRecorded, FarAt
<1>10. SeedInv'
  <2>1. pass < MaxPasses /\ pass \in Int /\ pass' = pass
    BY <1>2, MaxPassesAssumption DEF FarInv, SeedInv, DriverInv
  <2>2. QED
    BY <1>2, <2>1 DEF SeedInv
<1>11. QED
  BY <1>8, <1>9, <1>10 DEF FarInv

LEMMA FarStep ==
  ASSUME Inv, Inv', StandsInv, StandsInv', PathInv, FarInv, [Next]_vars PROVE FarInv'
<1>0. LabelInv /\ KnownInv /\ KnownInv' /\ DriverInv /\ todo \subseteq DOMAIN seeds
  BY DEF Inv, DriverInv
<1>1. ASSUME NEW a \in todo, SkipAssembled(a)
      PROVE  FarInv'
  <2>1. \A t, f : Sought(t, f) => Sought(t, f)'
    BY <1>1 DEF SkipAssembled, Sought, rom, own, FlagsCover, Describes
  <2>2. SeedInv'
    BY <1>1 DEF SkipAssembled, FarInv, SeedInv
  <2>3. QED
    BY <1>1, <2>1, <2>2, FarStutter DEF SkipAssembled, own, call
<1>2. ASSUME NEW a \in todo, Begin(a)
      PROVE  FarInv'
  BY <1>0, <1>2, FarBegin
<1>3. CASE EndPass
  <2>1. \A t, f : Sought(t, f) => Sought(t, f)'
    BY <1>3 DEF EndPass, Sought, rom, own, FlagsCover, Describes
  <2>2. SeedInv'
    BY <1>3 DEF EndPass, FarInv, SeedInv
  <2>3. QED
    BY <1>3, <2>1, <2>2, FarStutter DEF EndPass, own, call
<1>4. CASE EndDriver
  <2>1. \A t, f : Sought(t, f) => Sought(t, f)'
    BY <1>4 DEF EndDriver, Sought, rom, own, driver, FlagsCover, Describes
  <2>2. SeedInv'
    BY <1>4 DEF EndDriver, driver, FarInv, SeedInv
  <2>3. QED
    BY <1>4, <2>1, <2>2, FarStutter DEF EndDriver, own, call
<1>5. ASSUME NEW pc \in DOMAIN decodeStack, Discover(pc) \/ Confirm(pc) \/ Weaken(pc)
      PROVE  FarInv'
  <2>1. PICK d : Turn(pc, d)
    BY <1>0, <1>5, LoopTurns DEF Turns
  <2>2. QED
    BY <1>0, <1>5, <2>1, FarDiscover, FarConfirm, FarWeaken
<1>6. ASSUME NEW pc \in DOMAIN decodeStack, Fail(pc)
      PROVE  FarInv'
  <2>1. PICK a \in todo : todo' = todo \ {a} /\ failed' = failed \cup {a}
    BY <1>6 DEF Fail
  <2>2. UNCHANGED <<rom, own, seeds, newSeeds, pass>> /\ status' = "driver" /\ newDisassembly' = Empty
    BY <1>6 DEF Fail
  <2>3. \A t, f : Sought(t, f) => Sought(t, f)'
    BY <2>1, <2>2 DEF Sought, rom, own, FlagsCover, Describes
  <2>4. SeedInv'
    BY <2>2 DEF FarInv, SeedInv
  <2>5. QED
    BY <2>2, <2>3, <2>4, FarStutter DEF own
<1>7. ASSUME NEW pc \in DOMAIN decodeStack, Crash(pc)
      PROVE  FarInv'
  <2>1. \A t, f : Sought(t, f) => Sought(t, f)'
    BY <1>7 DEF Crash, Sought, rom, own, driver, FlagsCover, Describes
  <2>2. SeedInv'
    BY <1>7 DEF Crash, driver, FarInv, SeedInv
  <2>3. QED
    BY <1>7, <2>1, <2>2, FarStutter DEF Crash, own, call
<1>8. CASE Return
  BY <1>0, <1>8, FarReturn
<1>9. CASE Finished \/ UNCHANGED vars
  <2>1. UNCHANGED <<rom, own, call, driver, status>>
    BY <1>9 DEF Finished, vars
  <2>2. \A t, f : Sought(t, f) => Sought(t, f)'
    BY <2>1 DEF Sought, rom, own, driver, FlagsCover, Describes
  <2>3. SeedInv'
    BY <2>1 DEF own, call, driver, FarInv, SeedInv, Awaited, Bound, Seen, Existing, Combined, Covers
  <2>4. QED
    BY <2>1, <2>2, <2>3, FarStutter DEF own, call
<1>10. QED
  BY <1>1, <1>2, <1>3, <1>4, <1>5, <1>6, <1>7, <1>8, <1>9 DEF Next

LEMMA FarInit == ASSUME NoYields PROVE Init => FarInv
<1> SUFFICES ASSUME Init PROVE FarInv
  OBVIOUS
<1>1. PICK task \in Tasks : conventions = task.conventions
  BY DEF Init
<1>2. /\ DOMAIN disassembly = {} /\ DOMAIN newDisassembly = {} /\ newSeeds = Empty
      /\ status = "driver"
  BY EmptyMap DEF Init
<1>3. Unyielding
  BY <1>1, <1>2 DEF NoYields, Unyielding
<1>4. QED
  BY <1>2, <1>3 DEF FarInv, AllSought, AllRecorded, SeedInv

\* Where no subroutine is known to yield flags, a driver that stops with
\* nothing left has followed every far target: it is disassembled in a state
\* that describes each of its callers, in whatever pass and order they were
\* found, or an error was printed for it (add_far_branch, CombineStates and
\* the passes of the driver).
THEOREM FarTargetsAreFollowed == ASSUME NoYields PROVE Spec => []FarTargetsFollowed
<1>1. Init => FarInv
  BY FarInit
<1>2. Inv /\ Inv' /\ StandsInv /\ StandsInv' /\ PathInv /\ FarInv /\ [Next]_vars => FarInv'
  BY FarStep
<1>3. Inv /\ FarInv => FarTargetsFollowed
  <2> SUFFICES ASSUME Inv, FarInv, status = "done", seeds = Empty, NEW a \in DOMAIN disassembly,
                      NEW di, di = disassembly[a], HasFarTarget(di.ins),
                      NEW target, target = FarTarget(a, di.ins), target \notin assembled \cup failed
               PROVE  /\ target \in DOMAIN disassembly
                      /\ Describes(disassembly[target].current.flags, LeavingFlags(di))
    BY DEF FarTargetsFollowed
  <2> PICK f, ins : f = SetCBit(di.current.flags, "unknown") /\ ins = [di.ins EXCEPT !.ret = DefaultReturn]
    OBVIOUS
  <2>1. KnownAt(a, di) /\ Instruction(di.ins)
    BY DEF Inv, KnownInv, Known, LabelInv, Shapes, Shaped
  <2>2. Sought(target, f)
    BY DEF FarInv, AllSought, FarAt
  <2>3. newSeeds = Empty /\ todo = {} /\ DOMAIN newSeeds = {}
    BY EmptyMap DEF FarInv, SeedInv, Inv, DriverInv
  <2>4. target \in DOMAIN disassembly /\ Describes(disassembly[target].current.flags, f)
    BY <2>2, <2>3 DEF Sought
  <2>5. ins.ret = DefaultReturn /\ HasFarTarget(ins)
    BY <2>1 DEF Instruction, HasFarTarget
  <2>6. LeavingFlags(di) \in {di.current.flags, f}
    <3>1. ins.ret.kind # "yields" /\ di.current \in ExecutionStates
      BY <2>1, <2>5 DEF DefaultReturn, KnownAt
    <3>2. LeavingFlags(di) = Execute(ins, di.current).state.flags
      BY DEF LeavingFlags
    <3>3. QED
      BY <2>5, <3>1, <3>2, FarExecuted
  <2>7. disassembly[target].current.flags \in FlagStates /\ di.current.flags \in FlagStates
    BY <2>1, <2>4, StateFields DEF Inv, KnownInv, Known, KnownAt
  <2>8. QED
    BY <2>4, <2>6, <2>7, DescribesLaws
<1>4. Spec => []FarInv
  BY <1>1, <1>2, PathsHold, InvHolds, StandsHolds, PTL DEF Spec
<1>5. QED
  BY <1>3, <1>4, InvHolds, PTL

-----------------------------------------------------------------------------
-----------------------------------------------------------------------------
(* The listing is made once, from the disassembly as the driver left it *)

ListingInv ==
  IF cleaned THEN status = "done" /\ listing = Listed ELSE listing = Empty

\* Nothing but the disassembly and the entry points decides what is listed.
LEMMA ListedKept == ASSUME UNCHANGED <<disassembly, entryPoints>> PROVE Listed' = Listed
<1>1. Labelled' = Labelled /\ \A a : IsEntry(a)' <=> IsEntry(a)
  BY DEF Labelled, IsEntry
<1>2. \A a : NameOf(a)' = NameOf(a)
  BY <1>1 DEF NameOf
<1>3. \A a : Row(a)' = Row(a)
  BY <1>1, <1>2 DEF Row, ArgumentName, Rewritten, NameForAddress
<1>4. \A a, b : Folds(a, b)' <=> Folds(a, b)
  BY <1>1 DEF Folds, Follows
<1>5. \A a, b : FoldedRow(a, b)' = FoldedRow(a, b)
  BY <1>3 DEF FoldedRow
<1>6. QED
  BY <1>3, <1>4, <1>5 DEF Listed

LEMMA ListingStep == ASSUME ListingInv, [ListingNext]_listingVars PROVE ListingInv'
<1>1. CASE Cleanup
  <2>1. status' = "done" /\ cleaned' /\ listing' = Listed /\ UNCHANGED <<disassembly, entryPoints>>
    BY <1>1 DEF Cleanup, vars, own
  <2>2. Listed' = Listed
    BY <2>1, ListedKept
  <2>3. QED
    BY <2>1, <2>2 DEF ListingInv
<1>2. CASE ~cleaned /\ UNCHANGED <<listing, cleaned>>
  BY <1>2 DEF ListingInv, Empty
<1>3. CASE cleaned /\ [Next]_vars /\ UNCHANGED <<listing, cleaned>>
  <2>1. status = "done" /\ listing = Listed
    BY <1>3 DEF ListingInv
  <2>2. UNCHANGED vars
    BY <1>3, <2>1 DEF Next, SkipAssembled, Begin, EndPass, EndDriver, Discover, Confirm, Weaken,
                      Fail, Crash, IsNext, Return, Finished
  <2>3. status' = "done" /\ cleaned' /\ listing' = Listed /\ UNCHANGED <<disassembly, entryPoints>>
    BY <1>3, <2>1, <2>2 DEF vars, own
  <2>4. Listed' = Listed
    BY <2>3, ListedKept
  <2>5. QED
    BY <2>3, <2>4 DEF ListingInv
<1>4. QED
  BY <1>1, <1>2, <1>3 DEF ListingInv, ListingNext, Disassembling, listingVars

LEMMA ListingHolds == ListingSpec => []ListingInv
<1>1. ListingInit => ListingInv
  BY DEF ListingInit, ListingInv
<1>2. QED
  BY <1>1, ListingStep, PTL DEF ListingSpec

\* The listing does not disturb the disassembler.
LEMMA ListingDisassembles == ListingSpec => Spec
<1>1. ListingInit => Init
  BY DEF ListingInit
<1>2. [ListingNext]_listingVars => [Next]_vars
  BY DEF ListingNext, Disassembling, Cleanup, listingVars
<1>3. QED
  BY <1>1, <1>2, PTL DEF ListingSpec, Spec

-----------------------------------------------------------------------------
(* What the disassembly holds of an instruction *)

\* The rows of decode_map that Cleanup folds, and those of its result.
LEMMA TableCarry ==
  \A i \in 1 .. 256 : /\ DecodeMap[i][1] \in {"clc", "sec"} => DecodeMap[i][2] = "imp"
                      /\ DecodeMap[i][1] \notin {"add", "sub"}
BY SMTT(60) DEF DecodeMap

\* What an instruction has of the bytes at a, and the row of decode_map it is of.
DecodedFrom(a, di) ==
  /\ \A k \in 1 .. 4 : BytesAt(a)[k] \in 0 .. 255
  /\ \E i \in 1 .. 256 :
       /\ BytesAt(a)[1] = i - 1
       /\ di.ins.mnemonic = DecodeMap[i][1]
       /\ di.ins.mode = FixedMode([mode |-> DecodeMap[i][2]], di.current.flags)
  /\ di.ins.arg = Argument(di.ins.mode, BytesAt(a))
  /\ di.ins.arg2 = IF di.ins.mode = "mov" THEN BytesAt(a)[2] ELSE NoValue

LEMMA DecodedRow == ASSUME RomTypes, NEW a, NEW di, Stands(a, di) PROVE DecodedFrom(a, di)
<1> DEFINE bytes == BytesAt(a)
           row == DecodeOpcode(bytes[1])
           dec == Decode(a, di.current.flags)
<1>1. \A k \in 1 .. 4 : bytes[k] \in 0 .. 255
  <2> TAKE k \in 1 .. 4
  <2>1. bytes[k] = memory[AddWrapped(a, k - 1)] /\ k - 1 \in 0 .. 3
    BY DEF BytesAt
  <2>2. QED
    BY <2>1 DEF Stands, CanDecode, RomTypes, Readable, ByteRange
<1>2. /\ dec.mnemonic = row[1] /\ dec.mode = FixedMode([mode |-> row[2]], di.current.flags)
      /\ dec.arg = Argument(dec.mode, bytes)
      /\ dec.arg2 = IF dec.mode = "mov" THEN bytes[2] ELSE NoValue
  BY DEF Decode, DecodeBytes
<1>3. DOMAIN dec = {"mnemonic", "mode", "suffix", "arg", "arg2", "ret"}
  BY DEF Decode, DecodeBytes
<1>4. [dec EXCEPT !.suffix = di.ins.suffix, !.ret = di.ins.ret] = di.ins
  BY DEF Stands
<1> HIDE DEF row, dec
<1>5. /\ di.ins.mnemonic = dec.mnemonic /\ di.ins.mode = dec.mode
      /\ di.ins.arg = dec.arg /\ di.ins.arg2 = dec.arg2
  BY <1>3, <1>4
<1>6. PICK i \in 1 .. 256 : bytes[1] = i - 1 /\ row = DecodeMap[i]
  <2>1. bytes[1] \in 0 .. 255 /\ row = DecodeMap[bytes[1] + 1]
    BY <1>1 DEF DecodeOpcode, row
  <2>2. QED
    BY <2>1
<1>7. QED
  BY <1>1, <1>2, <1>5, <1>6 DEF DecodedFrom

LEMMA PlainRow ==
  ASSUME RomTypes, NEW a, NEW di, Stands(a, di), di.ins.mode \in AddressingModes \ SizedImmediate
  PROVE  /\ di.ins.mnemonic \notin {"add", "sub"}
         /\ di.ins.mnemonic \in {"clc", "sec"} => di.ins.mode = "imp"
         /\ InstructionSize(di.ins) = InstructionLength(di.ins.mode)
         /\ InstructionLength(di.ins.mode) \in 1 .. 4
<1>1. PICK i \in 1 .. 256 : /\ di.ins.mnemonic = DecodeMap[i][1]
                            /\ di.ins.mode = FixedMode([mode |-> DecodeMap[i][2]], di.current.flags)
  <2>1. DecodedFrom(a, di)
    BY DecodedRow
  <2>2. QED
    BY <2>1 DEF DecodedFrom
<1>2. di.ins.mnemonic \notin {"add", "sub"}
  BY <1>1, TableCarry
<1>3. di.ins.mnemonic \in {"clc", "sec"} => di.ins.mode = "imp"
  BY <1>1, TableCarry DEF FixedMode, SizedImmediate
<1>4. InstructionLength(di.ins.mode) \in 1 .. 4
  BY DEF InstructionLength, AddressingModes, SizedImmediate
<1>5. QED
  BY <1>2, <1>3, <1>4 DEF InstructionSize

\* Only a call can have a convention that ends it, only a branch refers to a
\* label, and every instruction passed the checks of Execute in the state it
\* is known in.
Sound(di) ==
  /\ IsLocalBranch(di.ins) \/ di.to = NoLabel
  /\ di.ins.ret.kind = "noreturn" => di.ins.mnemonic \in {"jsr", "jsl"}
  /\ CheckConsistency(di.ins, di.current.flags)

SoundInv ==
  /\ \A a \in DOMAIN disassembly : Sound(disassembly[a])
  /\ \A a \in DOMAIN newDisassembly : Sound(newDisassembly[a])

\* The checks look at the mnemonic, the mode and the suffix.
LEMMA CheckedAlike ==
  ASSUME NEW ins, NEW j, j.mnemonic = ins.mnemonic, j.mode = ins.mode, j.suffix = ins.suffix, NEW f
  PROVE  CheckConsistency(j, f) <=> CheckConsistency(ins, f)
BY DEF CheckConsistency, SuffixAgrees, ImmediateAgrees

\* What Execute accepts passed the checks.
LEMMA ExecutedChecked ==
  ASSUME NEW pc, Executed(pc).result = "ok"
  PROVE  CheckConsistency(IF Seen(pc) THEN Existing(pc).ins ELSE Decode(pc, decodeStack[pc].flags),
                          Combined(pc).flags)
<1> DEFINE ins == IF Seen(pc) THEN Existing(pc).ins ELSE Decode(pc, Combined(pc).flags)
<1>1. Executed(pc) = Execute(ins, Combined(pc))
  BY DEF Executed
<1> HIDE DEF ins
<1>2. CheckConsistency(ins, Combined(pc).flags)
  BY <1>1 DEF Execute
<1>3. QED
  BY <1>2 DEF ins, Combined

LEMMA SoundStore ==
  ASSUME SoundInv, NEW pc, NEW di, newDisassembly' = With(newDisassembly, pc, di),
         UNCHANGED disassembly, Sound(di)
  PROVE  SoundInv'
<1>1. /\ DOMAIN newDisassembly' = DOMAIN newDisassembly \cup {pc} /\ newDisassembly'[pc] = di
      /\ \A a \in DOMAIN newDisassembly \ {pc} : newDisassembly'[a] = newDisassembly[a]
  BY DEF With
<1>2. QED
  BY <1>1 DEF SoundInv, Sound

LEMMA SoundDiscover == ASSUME SoundInv, NEW pc, Discover(pc) PROVE SoundInv'
<1> DEFINE ins == Decode(pc, decodeStack[pc].flags)
           called == [ins EXCEPT !.ret = ReturnOf(pc, ins)]
           di == [ins |-> called, current |-> decodeStack[pc],
                  next |-> ApplyReturn(called.ret, Executed(pc).state), label |-> NoLabel,
                  to |-> IF IsLocalBranch(ins) THEN Label(BranchTarget(pc, ins)) ELSE NoLabel]
<1> PICK d : d = di
  OBVIOUS
<1>1. /\ ~Seen(pc) /\ Executed(pc).result = "ok"
      /\ UNCHANGED disassembly /\ newDisassembly' = With(newDisassembly, pc, d)
  BY DEF Discover
<1>2. CheckConsistency(ins, decodeStack[pc].flags)
  BY <1>1, ExecutedChecked DEF Combined
<1>3. /\ d.current = decodeStack[pc] /\ d.ins = called
      /\ IsLocalBranch(ins) \/ d.to = NoLabel
  OBVIOUS
<1>4. Instruction(ins) /\ ins.ret.kind = "default"
  BY DecodeShape DEF Decode, DecodeBytes, DefaultReturn
<1>5. /\ called.mnemonic = ins.mnemonic /\ called.mode = ins.mode /\ called.suffix = ins.suffix
      /\ called.ret = ReturnOf(pc, ins)
  <2> HIDE DEF ins
  <2>1. QED
    BY <1>4 DEF Instruction
<1> HIDE DEF ins, called, di
<1>6. CheckConsistency(called, d.current.flags)
  BY <1>2, <1>3, <1>5, CheckedAlike
<1>7. called.ret.kind = "noreturn" => called.mnemonic \in {"jsr", "jsl"}
  BY <1>4, <1>5 DEF ReturnOf
<1>8. Sound(d)
  BY <1>3, <1>5, <1>6, <1>7 DEF Sound, IsLocalBranch
<1>9. QED
  BY <1>1, <1>8, SoundStore

LEMMA SoundConfirm == ASSUME SoundInv, NEW pc, Confirm(pc) PROVE SoundInv'
<1> PICK d : d = Existing(pc)
  OBVIOUS
<1>1. Seen(pc) /\ UNCHANGED disassembly /\ newDisassembly' = With(newDisassembly, pc, d)
  BY DEF Confirm, own
<1>2. Sound(d)
  BY <1>1 DEF Seen, Existing, SoundInv
<1>3. QED
  BY <1>1, <1>2, SoundStore

LEMMA SoundWeaken == ASSUME LabelInv, SoundInv, NEW pc, Weaken(pc) PROVE SoundInv'
<1> DEFINE old == Existing(pc)
           c == Combined(pc)
           di == [old EXCEPT !.current = c, !.next = Executed(pc).state]
<1> PICK d : d = di
  OBVIOUS
<1>1. /\ Seen(pc) /\ Executed(pc).result = "ok" /\ UNCHANGED disassembly
      /\ newDisassembly' = With(newDisassembly, pc, d)
  BY DEF Weaken, own
<1>2. Shaped(old) /\ Sound(old)
  BY <1>1 DEF Seen, Existing, LabelInv, Shapes, SoundInv
<1>3. CheckConsistency(old.ins, c.flags)
  BY <1>1, ExecutedChecked
<1>4. d.current = c /\ d.ins = old.ins /\ d.to = old.to
  <2> HIDE DEF old, c
  <2>1. QED
    BY <1>2 DEF Shaped
<1> HIDE DEF old, c, di
<1>5. Sound(d)
  BY <1>2, <1>3, <1>4 DEF Sound
<1>6. QED
  BY <1>1, <1>5, SoundStore

\* The suffix that is added at the end of a call is the one of the state.
LEMMA SuffixedSound ==
  ASSUME NEW di, Shaped(di), Sound(di), di.ins.mnemonic \notin {"add", "sub"}, NEW new, new = Suffixed(di)
  PROVE  Sound(new)
<1> DEFINE used == FlagControllingInstructionSize(di.ins.mnemonic)
           bit == IF used = "none" THEN "unknown" ELSE WidthBit(di.current.flags, used)
           s == CASE bit = "on" -> "b" [] bit = "off" -> "w" [] OTHER -> di.ins.suffix
<1>1. new = [di EXCEPT !.ins.suffix = s]
  BY DEF Suffixed
<1>2. /\ new.current = di.current /\ new.to = di.to /\ new.ins.ret = di.ins.ret
      /\ new.ins.mnemonic = di.ins.mnemonic /\ new.ins.mode = di.ins.mode
  BY SuffixedKeeps
<1>3. new.ins.suffix = s
  <2> HIDE DEF s
  <2>1. QED
    BY <1>1 DEF Shaped, Instruction
<1>4. SuffixAgrees(new.ins, di.current.flags)
  <2>1. EffectiveMnemonic(di.ins.mnemonic) = di.ins.mnemonic
    BY DEF EffectiveMnemonic
  <2>2. SuffixAgrees(di.ins, di.current.flags)
    BY DEF Sound, CheckConsistency
  <2>3. CASE bit \in {"on", "off"}
    <3>1. used # "none" /\ bit = WidthBit(di.current.flags, used)
      BY <2>3
    <3>2. s = IF bit = "on" THEN "b" ELSE "w"
      BY <2>3
    <3> HIDE DEF s, bit
    <3>3. QED
      BY <1>2, <1>3, <2>1, <2>3, <3>1, <3>2 DEF SuffixAgrees
  <2>4. CASE bit \notin {"on", "off"}
    <3>1. s = di.ins.suffix
      BY <2>4
    <3> HIDE DEF s, bit
    <3>2. QED
      BY <1>2, <1>3, <2>2, <3>1 DEF SuffixAgrees
  <2>5. QED
    BY <2>3, <2>4
<1> HIDE DEF s
<1>5. CheckConsistency(new.ins, new.current.flags)
  BY <1>2, <1>4 DEF Sound, CheckConsistency, ImmediateAgrees
<1>6. QED
  BY <1>2, <1>5 DEF Sound, IsLocalBranch

LEMMA SoundReturn == ASSUME LabelInv, KnownInv, StandsInv, SoundInv, Return PROVE SoundInv'
<1>1. DOMAIN newDisassembly' = {}
  BY EmptyMap DEF Return
<1>2. ASSUME NEW a \in DOMAIN disassembly', NEW new, new = disassembly'[a]
      PROVE  Sound(new)
  <2> DEFINE kept == IF a \in DOMAIN newDisassembly THEN Suffixed(newDisassembly[a]) ELSE disassembly[a]
  <2> PICK old : old = Existing(a)
    OBVIOUS
  <2>1. /\ a \in DOMAIN newDisassembly \cup DOMAIN disassembly
        /\ new = IF a \in DOMAIN labelNames THEN [kept EXCEPT !.label = labelNames[a]] ELSE kept
    BY <1>2 DEF Return
  <2>2. Shaped(old) /\ Sound(old) /\ Stands(a, old) /\ KnownAt(a, old)
    BY <2>1 DEF LabelInv, Shapes, Existing, SoundInv, StandsInv, KnownInv, Known
  <2>3. kept = Suffixed(old) \/ kept = old
    BY <2>1 DEF Existing
  <2> HIDE DEF kept
  <2>4. old.ins.mnemonic \notin {"add", "sub"}
    BY <2>2, PlainRow DEF KnownInv, KnownAt, DecodedAt
  <2>5. Sound(kept) /\ Shaped(kept)
    BY <2>2, <2>3, <2>4, SuffixedSound, SuffixedKeeps
  <2>6. new.ins = kept.ins /\ new.current = kept.current /\ new.to = kept.to
    BY <2>1, <2>5 DEF Shaped
  <2>7. QED
    BY <2>5, <2>6 DEF Sound
<1>3. QED
  BY <1>1, <1>2 DEF SoundInv, Sound

LEMMA SoundStep ==
  ASSUME LabelInv, KnownInv, StandsInv, SoundInv, [Next]_vars PROVE SoundInv'
<1>1. ASSUME NEW pc \in DOMAIN decodeStack, Discover(pc) \/ Confirm(pc) \/ Weaken(pc)
      PROVE  SoundInv'
  BY <1>1, SoundDiscover, SoundConfirm, SoundWeaken
<1>2. CASE Return
  BY <1>2, SoundReturn
<1>3. CASE /\ UNCHANGED <<rom, disassembly>>
           /\ UNCHANGED <<decodeStack, newDisassembly>> \/ newDisassembly' = Empty
  BY <1>3, EmptyMap DEF SoundInv, Sound
<1>4. QED
  BY <1>1, <1>2, <1>3, OtherSteps

LEMMA SoundHolds == Spec => []SoundInv
<1>1. Init => SoundInv
  BY EmptyMap DEF Init, SoundInv
<1>2. Inv /\ StandsInv /\ SoundInv /\ [Next]_vars => SoundInv'
  BY SoundStep DEF Inv
<1>3. QED
  BY <1>1, <1>2, InvHolds, StandsHolds, PTL DEF Spec

-----------------------------------------------------------------------------
(* No row leads out of the listing *)

\* What the disassembler guarantees of its result, when it is done.
Result ==
  Inv /\ StandsInv /\ SoundInv /\ EveryPathCovered /\ LabelsResolve /\ status = "done"

\* An instruction of the result.
LEMMA ResultRow ==
  ASSUME Result, NEW a \in DOMAIN disassembly, NEW di, di = disassembly[a]
  PROVE  /\ KnownAt(a, di) /\ Stands(a, di) /\ Sound(di) /\ Shaped(di)
         /\ a \in Int /\ 0 <= a /\ a <= 16777215
         /\ di.ins.mnemonic \notin {"add", "sub"}
         /\ di.ins.mnemonic \in {"clc", "sec"} => InstructionLength(di.ins.mode) = 1
         /\ di.ins.mnemonic \in {"clc", "sec", "adc", "sbc"} =>
              ~IsExitInstruction(di.ins) /\ ~IsLocalBranch(di.ins)
         /\ InstructionSize(di.ins) = InstructionLength(di.ins.mode)
         /\ InstructionLength(di.ins.mode) \in 1 .. 4
         /\ ~IsExitInstruction(di.ins) =>
              /\ NextPc(a, di.ins) \in DOMAIN disassembly
              /\ Covers(disassembly[NextPc(a, di.ins)].current, di.next)
         /\ IsLocalBranch(di.ins) =>
              /\ BranchTarget(a, di.ins) \in DOMAIN disassembly
              /\ Covers(disassembly[BranchTarget(a, di.ins)].current,
                        ExecuteBranch(di.ins, di.current).state)
              /\ di.to # NoLabel
              /\ disassembly[BranchTarget(a, di.ins)].label = di.to
<1>1. /\ KnownAt(a, di) /\ Stands(a, di) /\ Sound(di) /\ Shaped(di) /\ RomTypes
      /\ di.ins.mode \in AddressingModes \ SizedImmediate /\ a \in Addresses
  BY DEF Result, Inv, KnownInv, Known, StandsInv, SoundInv, LabelInv, Shapes, KnownAt, DecodedAt
<1>2. /\ di.ins.mnemonic \notin {"add", "sub"}
      /\ di.ins.mnemonic \in {"clc", "sec"} => di.ins.mode = "imp"
      /\ InstructionSize(di.ins) = InstructionLength(di.ins.mode)
      /\ InstructionLength(di.ins.mode) \in 1 .. 4
  BY <1>1, PlainRow
<1>3. a \in Int /\ 0 <= a /\ a <= 16777215
  <2>1. a \in Int /\ 0 <= a /\ a <= MaxAddress
    BY <1>1, AddressesAreIntegers, AddressBounds
  <2>2. QED
    BY <2>1, SMT DEF MaxAddress
<1>4. di.ins.mnemonic \in {"clc", "sec", "adc", "sbc"} =>
        ~IsExitInstruction(di.ins) /\ ~IsLocalBranch(di.ins)
  <2>1. di.ins.mnemonic \in {"clc", "sec", "adc", "sbc"} => ~IsExitInstruction(di.ins)
    BY <1>1 DEF IsExitInstruction, Sound
  <2>2. IsLocalBranch(di.ins) => di.ins.mnemonic \in LocalBranches
    BY <1>1, BranchMnemonic
  <2>3. QED
    BY <2>1, <2>2 DEF LocalBranches
<1>5. di.ins.mode = "imp" => InstructionLength(di.ins.mode) = 1
  BY DEF InstructionLength
<1>6. /\ ~IsExitInstruction(di.ins) =>
           /\ NextPc(a, di.ins) \in DOMAIN disassembly
           /\ Covers(disassembly[NextPc(a, di.ins)].current, di.next)
      /\ IsLocalBranch(di.ins) =>
           /\ BranchTarget(a, di.ins) \in DOMAIN disassembly
           /\ Covers(disassembly[BranchTarget(a, di.ins)].current,
                     ExecuteBranch(di.ins, di.current).state)
  BY DEF Result, EveryPathCovered
<1>7. IsLocalBranch(di.ins) =>
        di.to # NoLabel /\ disassembly[BranchTarget(a, di.ins)].label = di.to
  BY DEF Result, LabelsResolve
<1>8. QED
  BY <1>1, <1>2, <1>3, <1>4, <1>5, <1>6, <1>7

-----------------------------------------------------------------------------
(* Addresses that wrap around in their bank *)

LEMMA WrappedSum ==
  ASSUME NEW a \in Int, 0 <= a, a <= 16777215, NEW i \in Int
  PROVE  AddWrapped(a, i) = (a \div 65536) * 65536 + ((a + i) % 65536)
<1> DEFINE bank == a \div 65536
           low == (a + i) % 65536
<1>1. bank % 256 = bank
  BY SMT
<1> HIDE DEF bank, low
<1>2. QED
  BY <1>1 DEF AddWrapped, Bank, bank, low

LEMMA WrappedParts ==
  ASSUME NEW a \in Int, 0 <= a, a <= 16777215, NEW i \in Int
  PROVE  /\ AddWrapped(a, i) \in Int
         /\ AddWrapped(a, i) \div 65536 = a \div 65536
         /\ AddWrapped(a, i) % 65536 = (a + i) % 65536
         /\ AddWrapped(a, i) = (a \div 65536) * 65536 + ((a + i) % 65536)
         /\ 0 <= AddWrapped(a, i) /\ AddWrapped(a, i) <= 16777215
<1> DEFINE bank == a \div 65536
           low == (a + i) % 65536
<1>1. bank \in 0 .. 255
  BY SMT
<1>2. low \in Int /\ 0 <= low /\ low <= 65535
  BY SMT
<1>3. bank % 256 = bank
  BY SMT, <1>1
<1> HIDE DEF bank, low
<1> DEFINE sum == bank * 65536 + low
<1>4. sum \in Int /\ 0 <= sum /\ sum <= 16777215
  BY SMT, <1>1, <1>2
<1>5. sum \div 65536 = bank /\ sum % 65536 = low
  BY SMT, <1>1, <1>2
<1>6. AddWrapped(a, i) = sum
  BY SMT, <1>3 DEF AddWrapped, Bank, bank, low
<1> HIDE DEF sum
<1>7. QED
  BY SMT, <1>4, <1>5, <1>6 DEF bank, low, sum

\* Steps within a bank add up.
AddUp(a, i, n) == AddWrapped(AddWrapped(a, i), n) = AddWrapped(a, i + n)

LEMMA WrappedAgain ==
  ASSUME NEW a \in Int, 0 <= a, a <= 16777215, NEW i \in Int, NEW n \in Int
  PROVE  AddUp(a, i, n)
<1> DEFINE b == AddWrapped(a, i)
<1>1. /\ b \in Int /\ 0 <= b /\ b <= 16777215
      /\ b \div 65536 = a \div 65536 /\ b % 65536 = (a + i) % 65536
  BY SMT, WrappedParts
<1> HIDE DEF b
<1>2. AddWrapped(b, n) = (b \div 65536) * 65536 + ((b + n) % 65536)
  BY SMT, <1>1, WrappedSum
<1>3. i + n \in Int /\ AddWrapped(a, i + n) = (a \div 65536) * 65536 + ((a + (i + n)) % 65536)
  <2>1. i + n \in Int
    BY SMT
  <2>2. QED
    BY SMT, <2>1, WrappedSum
<1>4. (b + n) % 65536 = (a + (i + n)) % 65536
  BY SMT, <1>1
<1>5. QED
  BY SMT, <1>1, <1>2, <1>3, <1>4 DEF b, AddUp

LEMMA WrappedNext ==
  ASSUME NEW a \in Int, 0 <= a, a <= 16777215
  PROVE  /\ AddWrapped(a, 0) = a
         /\ a % 65536 # 65535 => AddWrapped(a, 1) = a + 1
<1>1. ASSUME NEW n \in Int
      PROVE  AddWrapped(a, n) = (a \div 65536) * 65536 + ((a + n) % 65536)
  BY SMT, WrappedSum
<1>2. ASSUME NEW n \in Int, n = 0
      PROVE  AddWrapped(a, n) = a
  <2>1. (a \div 65536) * 65536 + ((a + n) % 65536) = a
    BY SMT, <1>2
  <2>2. QED
    BY SMT, <1>1, <2>1
<1>3. ASSUME NEW n \in Int, n = 1, a % 65536 # 65535
      PROVE  AddWrapped(a, n) = a + 1
  <2>1. (a \div 65536) * 65536 + ((a + n) % 65536) = a + 1
    BY SMT, <1>3
  <2>2. QED
    BY SMT, <1>1, <2>1
<1>4. QED
  BY SMT, <1>2, <1>3

\* The byte before the one n + 1 bytes on is n bytes on.
LEMMA WrappedBefore ==
  ASSUME NEW a \in Int, 0 <= a, a <= 16777215, NEW c \in Int, 0 <= c, c <= 16777215,
         NEW n \in Int, AddWrapped(a, n + 1) = AddWrapped(c, 1)
  PROVE  AddWrapped(a, n) = c
<1>1. /\ AddWrapped(a, n + 1) \div 65536 = a \div 65536
      /\ AddWrapped(a, n + 1) % 65536 = (a + (n + 1)) % 65536
      /\ AddWrapped(a, n) = (a \div 65536) * 65536 + ((a + n) % 65536)
  <2>1. n + 1 \in Int
    BY SMT
  <2>2. QED
    BY SMT, <2>1, WrappedParts
<1>2. /\ AddWrapped(c, 1) \div 65536 = c \div 65536
      /\ AddWrapped(c, 1) % 65536 = (c + 1) % 65536
  BY SMT, WrappedParts
<1>3. a \div 65536 = c \div 65536 /\ (a + (n + 1)) % 65536 = (c + 1) % 65536
  BY SMT, <1>1, <1>2
<1>4. (a + n) % 65536 = c % 65536
  BY SMT, <1>3
<1>5. c = (c \div 65536) * 65536 + (c % 65536)
  BY SMT
<1>6. QED
  BY SMT, <1>1, <1>3, <1>4, <1>5

-----------------------------------------------------------------------------
(* What is folded *)

\* What a fold is made of.
LEMMA FoldParts ==
  ASSUME Result, NEW a, NEW b, Folds(a, b)
  PROVE  /\ a \in DOMAIN disassembly /\ b \in DOMAIN disassembly /\ b \notin Labelled
         /\ \/ /\ disassembly[a].ins.mnemonic = "clc" /\ disassembly[b].ins.mnemonic = "adc"
               /\ Folded("clc", "adc") = "add"
            \/ /\ disassembly[a].ins.mnemonic = "sec" /\ disassembly[b].ins.mnemonic = "sbc"
               /\ Folded("sec", "sbc") = "sub"
         /\ \A c : Folds(a, c) => c = b
         /\ AddWrapped(a, 1) \in DOMAIN disassembly
         /\ a % 65536 # 65535 => b = AddWrapped(a, 1)
<1>1. /\ a \in DOMAIN disassembly /\ b \in DOMAIN disassembly /\ b \notin Labelled
      /\ a < b /\ \A c \in DOMAIN disassembly : c <= a \/ c >= b
      /\ Folded(disassembly[a].ins.mnemonic, disassembly[b].ins.mnemonic) # "none"
  BY DEF Folds, Follows
<1>2. \A c \in DOMAIN disassembly : c \in Int /\ 0 <= c /\ c <= 16777215
  BY ResultRow, SMT
<1>3. \/ /\ disassembly[a].ins.mnemonic = "clc" /\ disassembly[b].ins.mnemonic = "adc"
         /\ Folded("clc", "adc") = "add"
      \/ /\ disassembly[a].ins.mnemonic = "sec" /\ disassembly[b].ins.mnemonic = "sbc"
         /\ Folded("sec", "sbc") = "sub"
  BY <1>1 DEF Folded
<1>4. ASSUME NEW c, Folds(a, c)
      PROVE  c = b
  <2>1. /\ c \in DOMAIN disassembly /\ a < c
        /\ \A d \in DOMAIN disassembly : d <= a \/ d >= c
    BY <1>4 DEF Folds, Follows
  <2>2. c >= b /\ b >= c
    BY <1>1, <1>2, <2>1, SMT
  <2>3. QED
    BY <1>1, <1>2, <2>1, <2>2, SMT
<1>5. AddWrapped(a, 1) \in DOMAIN disassembly
  <2>1. /\ InstructionLength(disassembly[a].ins.mode) = 1
        /\ NextPc(a, disassembly[a].ins) \in DOMAIN disassembly
    BY <1>1, <1>3, ResultRow, SMT
  <2>2. QED
    BY <2>1 DEF NextPc
<1>6. a % 65536 # 65535 => b = AddWrapped(a, 1)
  <2>1. a % 65536 # 65535 => AddWrapped(a, 1) = a + 1
    BY <1>1, <1>2, WrappedNext, SMT
  <2>2. QED
    BY <1>1, <1>2, <1>5, <2>1, SMT
<1>7. QED
  BY <1>1, <1>3, <1>4, <1>5, <1>6, SMT

\* What a row swallows.
Second == {b \in DOMAIN disassembly : \E a \in DOMAIN disassembly : Folds(a, b)}

\* A row that stands for the two instructions at a and b.
FoldOf(a, b, row) ==
  /\ Folds(a, b)
  /\ row.next = disassembly[b].next
  /\ row.ins = [disassembly[b].ins EXCEPT !.mnemonic = row.ins.mnemonic]
  /\ row.ins.mnemonic = Folded(disassembly[a].ins.mnemonic, disassembly[b].ins.mnemonic)
  /\ row.ins.mode = disassembly[b].ins.mode /\ row.ins.suffix = disassembly[b].ins.suffix
  /\ row.ins.arg = disassembly[b].ins.arg /\ row.ins.arg2 = disassembly[b].ins.arg2
  /\ row.ins.ret = disassembly[b].ins.ret

\* A row of the listing is an instruction of the disassembly, or two of them.
LEMMA ListedRow ==
  ASSUME Result, listing = Listed, NEW a \in DOMAIN listing, NEW row, row = listing[a]
  PROVE  /\ a \in DOMAIN disassembly /\ a \notin Second
         /\ row.current = disassembly[a].current /\ row.name = NameOf(a)
         /\ row.isEntry = IsEntry(a) /\ row.argName = ArgumentName(a)
         /\ \/ /\ row.ins = disassembly[a].ins /\ row.next = disassembly[a].next
               /\ ~IsFold(a) /\ \A b : ~Folds(a, b)
            \/ IsFold(a) /\ \E b \in DOMAIN disassembly : FoldOf(a, b, row)
<1>1. /\ a \in DOMAIN disassembly /\ a \notin Second
      /\ row = IF \E b \in Second : Folds(a, b)
                 THEN FoldedRow(a, CHOOSE b \in Second : Folds(a, b)) ELSE Row(a)
  BY DEF Listed, Second
<1>2. /\ Row(a).current = disassembly[a].current /\ Row(a).name = NameOf(a)
      /\ Row(a).isEntry = IsEntry(a) /\ Row(a).argName = ArgumentName(a)
      /\ Row(a).ins = disassembly[a].ins /\ Row(a).next = disassembly[a].next
      /\ DOMAIN Row(a) = {"ins", "current", "next", "name", "isEntry", "argName"}
  BY DEF Row
<1>3. CASE \E b \in Second : Folds(a, b)
  <2>1. PICK b \in Second : Folds(a, b) /\ row = FoldedRow(a, b)
    BY <1>1, <1>3
  <2>2. b \in DOMAIN disassembly
    BY <2>1 DEF Second
  <2> DEFINE ins == [disassembly[b].ins EXCEPT
                       !.mnemonic = Folded(disassembly[a].ins.mnemonic, disassembly[b].ins.mnemonic)]
  <2>3. row = [Row(a) EXCEPT !.ins = ins, !.next = disassembly[b].next]
    BY <2>1, <2>2, ResultRow DEF FoldedRow, Shaped, Instruction
  <2>4. /\ ins.mode = disassembly[b].ins.mode /\ ins.suffix = disassembly[b].ins.suffix
        /\ ins.arg = disassembly[b].ins.arg /\ ins.arg2 = disassembly[b].ins.arg2
        /\ ins.ret = disassembly[b].ins.ret
        /\ ins.mnemonic = Folded(disassembly[a].ins.mnemonic, disassembly[b].ins.mnemonic)
        /\ ins = [disassembly[b].ins EXCEPT !.mnemonic = ins.mnemonic]
    BY <2>2, ResultRow DEF Shaped, Instruction
  <2> HIDE DEF ins
  <2>5. /\ row.ins = ins /\ row.next = disassembly[b].next
        /\ row.current = Row(a).current /\ row.name = Row(a).name
        /\ row.isEntry = Row(a).isEntry /\ row.argName = Row(a).argName
    BY <1>2, <2>3
  <2>6. IsFold(a)
    <3>1. Folded(disassembly[a].ins.mnemonic, disassembly[b].ins.mnemonic) \in {"add", "sub"}
      BY <2>1, FoldParts
    <3>2. QED
      BY <2>4, <2>5, <3>1 DEF IsFold
  <2>7. FoldOf(a, b, row)
    BY <2>1, <2>4, <2>5 DEF FoldOf
  <2>8. QED
    BY <1>1, <1>2, <2>2, <2>5, <2>6, <2>7
<1>4. CASE ~\E b \in Second : Folds(a, b)
  <2>1. row = Row(a)
    BY <1>1, <1>4
  <2>2. \A b : ~Folds(a, b)
    BY <1>1, <1>4, FoldParts DEF Second
  <2>3. ~IsFold(a)
    BY <1>1, <1>2, <2>1, ResultRow DEF IsFold
  <2>4. QED
    BY <1>1, <1>2, <2>1, <2>2, <2>3
<1>5. QED
  BY <1>3, <1>4

LEMMA ListedDomain ==
  ASSUME listing = Listed
  PROVE  DOMAIN listing = DOMAIN disassembly \ Second
BY DEF Listed, Second

\* Where a row ends.
LEMMA ListedSize ==
  ASSUME Result, listing = Listed, NEW a \in DOMAIN listing, NEW row, row = listing[a]
  PROVE  /\ InstructionSize(row.ins) \in 1 .. 5
         /\ IsFold(a) => /\ InstructionSize(row.ins) >= 2
                         /\ ~IsExitInstruction(row.ins) /\ ~IsLocalBranch(row.ins)
         /\ \A b : Folds(a, b) =>
              InstructionSize(row.ins) = 1 + InstructionLength(disassembly[b].ins.mode)
<1>1. CASE ~IsFold(a)
  <2>1. row.ins = disassembly[a].ins /\ (\A b : ~Folds(a, b)) /\ a \in DOMAIN disassembly
    BY <1>1, ListedRow
  <2>2. InstructionSize(row.ins) \in 1 .. 4
    BY <2>1, ResultRow
  <2>3. QED
    BY <1>1, <2>1, <2>2, SMT
<1>2. CASE IsFold(a)
  <2>0. PICK b \in DOMAIN disassembly : FoldOf(a, b, row)
    BY <1>2, ListedRow
  <2>1. /\ Folds(a, b)
        /\ row.ins.mode = disassembly[b].ins.mode /\ row.ins.ret = disassembly[b].ins.ret
    BY <2>0 DEF FoldOf
  <2>2. /\ disassembly[b].ins.mnemonic \in {"adc", "sbc"}
        /\ \A c : Folds(a, c) => c = b
    BY <2>1, FoldParts
  <2>3. row.ins.mnemonic \in {"add", "sub"}
    BY <1>2 DEF IsFold
  <2>4. InstructionSize(row.ins) = InstructionLength(disassembly[b].ins.mode) + 1
    BY <2>1, <2>3 DEF InstructionSize
  <2>5. /\ InstructionLength(disassembly[b].ins.mode) \in 1 .. 4
        /\ ~IsExitInstruction(disassembly[b].ins) /\ ~IsLocalBranch(disassembly[b].ins)
    BY <2>2, ResultRow
  <2>6. ~IsExitInstruction(row.ins)
    BY <2>1, <2>3, <2>5 DEF IsExitInstruction
  <2>7. ~IsLocalBranch(row.ins)
    <3>1. disassembly[b].ins.mnemonic # "per"
      BY <2>2
    <3>2. QED
      BY <2>1, <2>5, <3>1 DEF IsLocalBranch
  <2>8. QED
    BY <2>2, <2>4, <2>5, <2>6, <2>7, SMT
<1>3. QED
  BY <1>1, <1>2

\* The instruction a row is followed by is a row, or was swallowed by a row.
LEMMA ListedNext ==
  ASSUME Result, listing = Listed, NEW a \in DOMAIN listing, NEW n \in Int,
         InstructionSize(listing[a].ins) = n, NEW t \in DOMAIN disassembly, t = AddWrapped(a, n)
  PROVE  \/ t \in DOMAIN listing
         \/ InsideFold(t, a)
         \/ \E c \in DOMAIN listing : FoldsAcrossBanks(c) /\ Follows(t, c)
<1>1. SUFFICES ASSUME t \notin DOMAIN listing
               PROVE  \/ InsideFold(t, a)
                      \/ \E c \in DOMAIN listing : FoldsAcrossBanks(c) /\ Follows(t, c)
  OBVIOUS
<1>2. PICK c \in DOMAIN disassembly : Folds(c, t)
  BY <1>1, ListedDomain DEF Second
<1>3. c \in DOMAIN listing /\ IsFold(c)
  <2>1. disassembly[c].ins.mnemonic \in {"clc", "sec"}
    BY <1>2, FoldParts
  <2>2. ~\E d : Folds(d, c)
    <3>1. ASSUME NEW d, Folds(d, c) PROVE disassembly[c].ins.mnemonic \in {"adc", "sbc"}
      BY <3>1, FoldParts
    <3>2. QED
      BY <2>1, <3>1
  <2>3. c \in DOMAIN listing
    BY <2>2, ListedDomain DEF Second
  <2>4. QED
    BY <1>2, <2>3, ListedRow
<1>4. CASE c % 65536 = 65535
  <2>1. FoldsAcrossBanks(c) /\ Follows(t, c)
    BY <1>2, <1>3, <1>4, SMT DEF FoldsAcrossBanks, Folds
  <2>2. QED
    BY <1>3, <2>1
<1>5. CASE c % 65536 # 65535
  <2>1. t = AddWrapped(c, 1)
    BY <1>2, <1>5, FoldParts, SMT
  <2>2. /\ a \in Int /\ 0 <= a /\ a <= 16777215
        /\ c \in Int /\ 0 <= c /\ c <= 16777215
    BY ListedRow, ResultRow, SMT
  <2>3. PICK i : i = n - 1
    OBVIOUS
  <2>4. i \in Int /\ n = i + 1
    BY <2>3, SMT
  <2>5. c = AddWrapped(a, i)
    <3>1. AddWrapped(a, i + 1) = AddWrapped(c, 1)
      BY <2>1, <2>4
    <3>2. QED
      BY <2>2, <2>4, <3>1, WrappedBefore, SMT
  <2>6. n \in 1 .. 5 /\ (IsFold(a) => n >= 2)
    BY ListedSize
  <2>7. i # 0
    <3>1. SUFFICES ASSUME i = 0 PROVE FALSE
      OBVIOUS
    <3>2. c = a
      BY <2>2, <2>5, <3>1, WrappedNext, SMT
    <3>3. n = 1
      BY <2>3, <3>1, SMT
    <3>4. QED
      BY <1>3, <2>6, <3>2, <3>3, SMT
  <2>8. i \in 1 .. InstructionSize(listing[a].ins) - 1
    BY <2>3, <2>6, <2>7, SMT
  <2>9. QED
    BY <1>3, <2>1, <2>5, <2>8 DEF InsideFold
<1>6. QED
  BY <1>4, <1>5

\* Where a row ends there is an instruction, unless the row is a fold across banks.
LEMMA ListedEnd ==
  ASSUME Result, listing = Listed, NEW a \in DOMAIN listing, ~IsExitInstruction(listing[a].ins),
         ~FoldsAcrossBanks(a)
  PROVE  RowEnd(a) \in DOMAIN disassembly /\ Covers(disassembly[RowEnd(a)].current, listing[a].next)
<1> PICK row : row = listing[a]
  OBVIOUS
<1>1. CASE ~IsFold(a)
  <2>1. /\ row.ins = disassembly[a].ins /\ row.next = disassembly[a].next
        /\ a \in DOMAIN disassembly
    BY <1>1, ListedRow
  <2>2. RowEnd(a) = NextPc(a, disassembly[a].ins)
    BY <2>1, ResultRow DEF RowEnd, NextPc
  <2>3. QED
    BY <2>1, <2>2, ResultRow
<1>2. CASE IsFold(a)
  <2>0. PICK b \in DOMAIN disassembly : FoldOf(a, b, row)
    BY <1>2, ListedRow
  <2>1. Folds(a, b) /\ row.next = disassembly[b].next
    BY <2>0 DEF FoldOf
  <2>2. a % 65536 # 65535
    BY <1>2, SMT DEF FoldsAcrossBanks
  <2>3. b = AddWrapped(a, 1) /\ a \in DOMAIN disassembly /\ disassembly[b].ins.mnemonic \in {"adc", "sbc"}
    BY <2>1, <2>2, FoldParts, SMT
  <2>4. PICK n : n = InstructionLength(disassembly[b].ins.mode)
    OBVIOUS
  <2>5. /\ n \in 1 .. 4 /\ NextPc(b, disassembly[b].ins) \in DOMAIN disassembly
        /\ Covers(disassembly[NextPc(b, disassembly[b].ins)].current, row.next)
    BY <2>1, <2>3, <2>4, ResultRow
  <2>6. RowEnd(a) = AddWrapped(a, 1 + n)
    BY <2>1, <2>4, ListedSize DEF RowEnd
  <2>7. NextPc(b, disassembly[b].ins) = AddWrapped(AddWrapped(a, 1), n)
    BY <2>3, <2>4 DEF NextPc
  <2>8. AddWrapped(AddWrapped(a, 1), n) = AddWrapped(a, 1 + n)
    <3>1. a \in Int /\ 0 <= a /\ a <= 16777215 /\ n \in Int /\ 1 \in Int
      BY <2>3, <2>5, ResultRow, SMT
    <3>2. AddUp(a, 1, n)
      BY <3>1, WrappedAgain, SMT
    <3>3. QED
      BY <3>2 DEF AddUp
  <2>9. QED
    BY <2>5, <2>6, <2>7, <2>8
<1>3. QED
  BY <1>1, <1>2

\* A row with a label keeps it, and the row that branches there is printed
\* with its name.
LEMMA ListedBranch ==
  ASSUME Result, listing = Listed, NEW a \in DOMAIN listing, IsLocalBranch(listing[a].ins),
         NEW t, t = BranchTarget(a, listing[a].ins)
  PROVE  /\ t \in DOMAIN listing /\ listing[t].name = listing[a].argName
         /\ Covers(listing[t].current, ExecuteBranch(listing[a].ins, listing[a].current).state)
<1> PICK row : row = listing[a]
  OBVIOUS
<1>1. ~IsFold(a)
  BY ListedSize
<1>2. /\ row.ins = disassembly[a].ins /\ row.current = disassembly[a].current
      /\ a \in DOMAIN disassembly /\ row.argName = ArgumentName(a)
  BY <1>1, ListedRow
<1>3. /\ t \in DOMAIN disassembly /\ disassembly[a].to # NoLabel
      /\ Covers(disassembly[t].current, ExecuteBranch(row.ins, row.current).state)
      /\ disassembly[t].label = disassembly[a].to
  BY <1>2, ResultRow
<1>4. t \in Labelled
  BY <1>3 DEF Labelled
<1>5. t \in DOMAIN listing
  <2>1. t \notin Second
    BY <1>4, FoldParts DEF Second
  <2>2. QED
    BY <1>3, <2>1, ListedDomain
<1>6. \A b \in Labelled : disassembly[b].label = disassembly[a].to => b = t
  BY <1>3 DEF Labelled, Result, LabelsResolve
<1>7. row.argName = NameOf(t)
  <2>1. Rewritten(disassembly[a].to) = NameOf(t)
    BY <1>3, <1>4, <1>6 DEF Rewritten
  <2>2. QED
    BY <1>2, <1>3, <2>1 DEF ArgumentName
<1>8. listing[t].name = NameOf(t) /\ listing[t].current = disassembly[t].current
  BY <1>5, ListedRow
<1>9. QED
  BY <1>3, <1>5, <1>7, <1>8

LEMMA ClosedWhenListed == ASSUME Result, listing = Listed PROVE ListingClosed
<1> SUFFICES ASSUME NEW a \in DOMAIN listing
             PROVE  LET row == listing[a]
                        Leads(to, es) ==
                          \/ to \in DOMAIN listing /\ Covers(listing[to].current, es)
                          \/ InsideFold(to, a)
                          \/ \E b \in DOMAIN listing : FoldsAcrossBanks(b) /\ (a = b \/ Follows(to, b))
                    IN  /\ ~IsExitInstruction(row.ins) => Leads(RowEnd(a), row.next)
                        /\ IsLocalBranch(row.ins) =>
                             \E b \in DOMAIN listing :
                               listing[b].name = row.argName
                                 /\ Leads(b, ExecuteBranch(row.ins, row.current).state)
  BY DEF ListingClosed
<1> DEFINE row == listing[a]
           end == RowEnd(a)
<1>1. ASSUME ~IsExitInstruction(row.ins)
      PROVE  \/ end \in DOMAIN listing /\ Covers(listing[end].current, row.next)
             \/ InsideFold(end, a)
             \/ \E b \in DOMAIN listing : FoldsAcrossBanks(b) /\ (a = b \/ Follows(end, b))
  <2>1. CASE FoldsAcrossBanks(a)
    BY <2>1
  <2>2. CASE ~FoldsAcrossBanks(a)
    <3>1. end \in DOMAIN disassembly /\ Covers(disassembly[end].current, row.next)
      BY <1>1, <2>2, ListedEnd
    <3>2. \/ end \in DOMAIN listing
          \/ InsideFold(end, a)
          \/ \E b \in DOMAIN listing : FoldsAcrossBanks(b) /\ Follows(end, b)
      <4>1. PICK n : n = InstructionSize(row.ins)
        OBVIOUS
      <4>2. n \in Int /\ end = AddWrapped(a, n)
        BY <4>1, ListedSize DEF RowEnd
      <4> HIDE DEF end
      <4>3. QED
        BY <3>1, <4>1, <4>2, ListedNext
    <3>3. end \in DOMAIN listing => listing[end].current = disassembly[end].current
      BY ListedRow
    <3>4. QED
      BY <3>1, <3>2, <3>3
  <2>3. QED
    BY <2>1, <2>2
<1>2. ASSUME IsLocalBranch(row.ins)
      PROVE  \E b \in DOMAIN listing :
               /\ listing[b].name = row.argName
               /\ Covers(listing[b].current, ExecuteBranch(row.ins, row.current).state)
  BY <1>2, ListedBranch
<1>3. QED
  BY <1>1, <1>2

\* No row of the listing leads out of it, whatever was disassembled and
\* folded: what comes after a row and what a branch goes to are rows, in a
\* state that covers the one they are reached in, but for code inside a fold
\* and folds across banks (the label test of Cleanup).
THEOREM RowsLeadNowhereElse == ListingSpec => []ListingClosed
<1>1. /\ Inv /\ StandsInv /\ SoundInv /\ EveryPathCovered /\ LabelsResolve /\ ListingInv
      => ListingClosed
  <2>1. SUFFICES ASSUME Inv, StandsInv, SoundInv, EveryPathCovered, LabelsResolve, ListingInv
                 PROVE  ListingClosed
    OBVIOUS
  <2>2. CASE cleaned
    BY <2>1, <2>2, ClosedWhenListed DEF ListingInv, Result
  <2>3. CASE ~cleaned
    BY <2>1, <2>3, EmptyMap DEF ListingInv, ListingClosed
  <2>4. QED
    BY <2>2, <2>3
<1>2. QED
  BY <1>1, InvHolds, StandsHolds, SoundHolds, EveryPathIsCovered, LabelsAlwaysResolve,
     ListingHolds, ListingDisassembles, PTL

-----------------------------------------------------------------------------
(* The opcode table can be read backwards *)

\* Where each addressing mode is in decode_map.  The immediate modes are one,
\* as MakeReverseOpcodeMap enters both widths of a row without a fixed one.
ImpRows == {9, 12, 25, 28, 41, 44, 57, 60, 65, 73, 76, 89, 91, 92, 97, 105, 108, 121,
  123, 124, 137, 139, 140, 153, 155, 156, 169, 171, 172, 185, 187, 188, 201, 203, 204,
  217, 219, 220, 233, 235, 236, 249, 251, 252}
DirWRows == {13, 14, 15, 29, 33, 45, 46, 47, 77, 78, 79, 110, 111, 141, 142, 143, 157,
  173, 174, 175, 205, 206, 207, 237, 238, 239}
DirBRows == {5, 6, 7, 21, 37, 38, 39, 70, 71, 101, 102, 103, 133, 134, 135, 165, 166,
  167, 197, 198, 199, 213, 229, 230, 231}
ImmRows == {1, 3, 10, 42, 67, 74, 106, 138, 161, 163, 170, 193, 195, 202, 225, 227, 234,
  245}
DirBxRows == {22, 23, 53, 54, 55, 86, 87, 117, 118, 119, 149, 150, 181, 182, 214, 215,
  246, 247}
DirWxRows == {30, 31, 61, 62, 63, 94, 95, 126, 127, 158, 159, 189, 190, 222, 223, 254,
  255}
DirLRows == {16, 35, 48, 80, 93, 112, 144, 176, 208, 240}
Rel8Rows == {17, 49, 81, 113, 129, 145, 177, 209, 241}
DirWyRows == {26, 58, 90, 122, 154, 186, 191, 218, 250}
IndBxRows == {2, 34, 66, 98, 130, 162, 194, 226}
StkRows == {4, 36, 68, 100, 132, 164, 196, 228}
LngBRows == {8, 40, 72, 104, 136, 168, 200, 232}
IndByRows == {18, 50, 82, 114, 146, 178, 210, 242}
IndBRows == {19, 51, 83, 115, 147, 179, 211, 243}
StkYRows == {20, 52, 84, 116, 148, 180, 212, 244}
LngByRows == {24, 56, 88, 120, 152, 184, 216, 248}
DirLxRows == {32, 64, 96, 128, 160, 192, 224, 256}
AccRows == {11, 27, 43, 59, 75, 107}
MovRows == {69, 85}
Rel16Rows == {99, 131}
IndWxRows == {125, 253}
DirByRows == {151, 183}
IndWRows == {109}
LngWRows == {221}

RowsOfMode(mode) ==
  CASE mode = "imp" -> ImpRows
    [] mode = "dir_w" -> DirWRows
    [] mode = "dir_b" -> DirBRows
    [] mode \in {"imm_b", "imm_w", "imm_fm", "imm_fx"} -> ImmRows
    [] mode = "dir_bx" -> DirBxRows
    [] mode = "dir_wx" -> DirWxRows
    [] mode = "dir_l" -> DirLRows
    [] mode = "rel8" -> Rel8Rows
    [] mode = "dir_wy" -> DirWyRows
    [] mode = "ind_bx" -> IndBxRows
    [] mode = "stk" -> StkRows
    [] mode = "lng_b" -> LngBRows
    [] mode = "ind_by" -> IndByRows
    [] mode = "ind_b" -> IndBRows
    [] mode = "stk_y" -> StkYRows
    [] mode = "lng_by" -> LngByRows
    [] mode = "dir_lx" -> DirLxRows
    [] mode = "acc" -> AccRows
    [] mode = "mov" -> MovRows
    [] mode = "rel16" -> Rel16Rows
    [] mode = "ind_wx" -> IndWxRows
    [] mode = "dir_by" -> DirByRows
    [] mode = "ind_w" -> IndWRows
    [] mode = "lng_w" -> LngWRows

LEMMA RowModes == \A i \in 1 .. 256 : i \in RowsOfMode(DecodeMap[i][2])
<1>1. \A i \in 1 .. 256 : /\ DecodeMap[i][2] = "imp" => i \in ImpRows
                          /\ DecodeMap[i][2] = "dir_w" => i \in DirWRows
                          /\ DecodeMap[i][2] = "dir_b" => i \in DirBRows
                          /\ DecodeMap[i][2] \in {"imm_b", "imm_w", "imm_fm", "imm_fx"} => i \in ImmRows
                          /\ DecodeMap[i][2] = "dir_bx" => i \in DirBxRows
                          /\ DecodeMap[i][2] = "dir_wx" => i \in DirWxRows
  BY SMTT(120)
  DEF DecodeMap, ImpRows, DirWRows, DirBRows, ImmRows, DirBxRows, DirWxRows
<1>2. \A i \in 1 .. 256 : /\ DecodeMap[i][2] = "dir_l" => i \in DirLRows
                          /\ DecodeMap[i][2] = "rel8" => i \in Rel8Rows
                          /\ DecodeMap[i][2] = "dir_wy" => i \in DirWyRows
                          /\ DecodeMap[i][2] = "ind_bx" => i \in IndBxRows
                          /\ DecodeMap[i][2] = "stk" => i \in StkRows
                          /\ DecodeMap[i][2] = "lng_b" => i \in LngBRows
  BY SMTT(120)
  DEF DecodeMap, DirLRows, Rel8Rows, DirWyRows, IndBxRows, StkRows, LngBRows
<1>3. \A i \in 1 .. 256 : /\ DecodeMap[i][2] = "ind_by" => i \in IndByRows
                          /\ DecodeMap[i][2] = "ind_b" => i \in IndBRows
                          /\ DecodeMap[i][2] = "stk_y" => i \in StkYRows
                          /\ DecodeMap[i][2] = "lng_by" => i \in LngByRows
                          /\ DecodeMap[i][2] = "dir_lx" => i \in DirLxRows
                          /\ DecodeMap[i][2] = "acc" => i \in AccRows
  BY SMTT(120)
  DEF DecodeMap, IndByRows, IndBRows, StkYRows, LngByRows, DirLxRows, AccRows
<1>4. \A i \in 1 .. 256 : /\ DecodeMap[i][2] = "mov" => i \in MovRows
                          /\ DecodeMap[i][2] = "rel16" => i \in Rel16Rows
                          /\ DecodeMap[i][2] = "ind_wx" => i \in IndWxRows
                          /\ DecodeMap[i][2] = "dir_by" => i \in DirByRows
                          /\ DecodeMap[i][2] = "ind_w" => i \in IndWRows
                          /\ DecodeMap[i][2] = "lng_w" => i \in LngWRows
  BY SMTT(120)
  DEF DecodeMap, MovRows, Rel16Rows, IndWxRows, DirByRows, IndWRows, LngWRows
<1>5. ASSUME NEW i \in 1 .. 256, NEW mode, mode = DecodeMap[i][2]
      PROVE  i \in RowsOfMode(mode)
  <2>1. CASE mode \in {"imp", "dir_w", "dir_b", "imm_b", "imm_w", "imm_fm", "imm_fx",
             "dir_bx", "dir_wx"}
    BY <1>1, <1>5, <2>1 DEF RowsOfMode
  <2>2. CASE mode \in {"dir_l", "rel8", "dir_wy", "ind_bx", "stk", "lng_b"}
    BY <1>2, <1>5, <2>2 DEF RowsOfMode
  <2>3. CASE mode \in {"ind_by", "ind_b", "stk_y", "lng_by", "dir_lx", "acc"}
    BY <1>3, <1>5, <2>3 DEF RowsOfMode
  <2>4. CASE mode \in {"mov", "rel16", "ind_wx", "dir_by", "ind_w", "lng_w"}
    BY <1>4, <1>5, <2>4 DEF RowsOfMode
  <2>5. mode \in AddressingModes
    BY <1>5, TableModes
  <2>6. QED
    BY <2>1, <2>2, <2>3, <2>4, <2>5 DEF AddressingModes, SizedImmediate
<1>6. QED
  BY <1>5

\* A mnemonic is only once among the rows of a mode.
OncePerMnemonic(set) == \A i, j \in set : DecodeMap[i][1] = DecodeMap[j][1] => i = j

LEMMA RowsApart == \A mode \in AddressingModes : OncePerMnemonic(RowsOfMode(mode))
<1>1. OncePerMnemonic(ImpRows)
  BY SMTT(120) DEF OncePerMnemonic, DecodeMap, ImpRows
<1>2. OncePerMnemonic(DirWRows)
  BY SMTT(120) DEF OncePerMnemonic, DecodeMap, DirWRows
<1>3. OncePerMnemonic(DirBRows)
  BY SMTT(120) DEF OncePerMnemonic, DecodeMap, DirBRows
<1>4. OncePerMnemonic(ImmRows)
  BY SMTT(120) DEF OncePerMnemonic, DecodeMap, ImmRows
<1>5. OncePerMnemonic(DirBxRows)
  BY SMTT(120) DEF OncePerMnemonic, DecodeMap, DirBxRows
<1>6. OncePerMnemonic(DirWxRows)
  BY SMTT(120) DEF OncePerMnemonic, DecodeMap, DirWxRows
<1>7. /\ OncePerMnemonic(DirLRows)
      /\ OncePerMnemonic(Rel8Rows)
      /\ OncePerMnemonic(DirWyRows)
      /\ OncePerMnemonic(IndBxRows)
      /\ OncePerMnemonic(StkRows)
  <2>1. OncePerMnemonic(DirLRows)
    BY SMTT(120) DEF OncePerMnemonic, DecodeMap, DirLRows
  <2>2. OncePerMnemonic(Rel8Rows)
    BY SMTT(120) DEF OncePerMnemonic, DecodeMap, Rel8Rows
  <2>3. OncePerMnemonic(DirWyRows)
    BY SMTT(120) DEF OncePerMnemonic, DecodeMap, DirWyRows
  <2>4. OncePerMnemonic(IndBxRows)
    BY SMTT(120) DEF OncePerMnemonic, DecodeMap, IndBxRows
  <2>5. OncePerMnemonic(StkRows)
    BY SMTT(120) DEF OncePerMnemonic, DecodeMap, StkRows
  <2>6. QED
    BY <2>1, <2>2, <2>3, <2>4, <2>5
<1>8. /\ OncePerMnemonic(LngBRows)
      /\ OncePerMnemonic(IndByRows)
      /\ OncePerMnemonic(IndBRows)
      /\ OncePerMnemonic(StkYRows)
      /\ OncePerMnemonic(LngByRows)
      /\ OncePerMnemonic(DirLxRows)
  <2>1. OncePerMnemonic(LngBRows)
    BY SMTT(120) DEF OncePerMnemonic, DecodeMap, LngBRows
  <2>2. OncePerMnemonic(IndByRows)
    BY SMTT(120) DEF OncePerMnemonic, DecodeMap, IndByRows
  <2>3. OncePerMnemonic(IndBRows)
    BY SMTT(120) DEF OncePerMnemonic, DecodeMap, IndBRows
  <2>4. OncePerMnemonic(StkYRows)
    BY SMTT(120) DEF OncePerMnemonic, DecodeMap, StkYRows
  <2>5. OncePerMnemonic(LngByRows)
    BY SMTT(120) DEF OncePerMnemonic, DecodeMap, LngByRows
  <2>6. OncePerMnemonic(DirLxRows)
    BY SMTT(120) DEF OncePerMnemonic, DecodeMap, DirLxRows
  <2>7. QED
    BY <2>1, <2>2, <2>3, <2>4, <2>5, <2>6
<1>9. /\ OncePerMnemonic(AccRows)
      /\ OncePerMnemonic(MovRows)
      /\ OncePerMnemonic(Rel16Rows)
      /\ OncePerMnemonic(IndWxRows)
      /\ OncePerMnemonic(DirByRows)
      /\ OncePerMnemonic(IndWRows)
      /\ OncePerMnemonic(LngWRows)
  <2>1. OncePerMnemonic(AccRows)
    BY SMTT(120) DEF OncePerMnemonic, DecodeMap, AccRows
  <2>2. OncePerMnemonic(MovRows)
    BY SMTT(120) DEF OncePerMnemonic, DecodeMap, MovRows
  <2>3. OncePerMnemonic(Rel16Rows)
    BY SMTT(120) DEF OncePerMnemonic, DecodeMap, Rel16Rows
  <2>4. OncePerMnemonic(IndWxRows)
    BY SMTT(120) DEF OncePerMnemonic, DecodeMap, IndWxRows
  <2>5. OncePerMnemonic(DirByRows)
    BY SMTT(120) DEF OncePerMnemonic, DecodeMap, DirByRows
  <2>6. OncePerMnemonic(IndWRows)
    BY SMTT(120) DEF OncePerMnemonic, DecodeMap, IndWRows
  <2>7. OncePerMnemonic(LngWRows)
    BY SMTT(120) DEF OncePerMnemonic, DecodeMap, LngWRows
  <2>8. QED
    BY <2>1, <2>2, <2>3, <2>4, <2>5, <2>6, <2>7
<1>10. ASSUME NEW mode \in AddressingModes
       PROVE  OncePerMnemonic(RowsOfMode(mode))
  <2> USE DEF RowsOfMode
  <2>1. CASE mode \in {"imp", "dir_w", "dir_b", "imm_b", "imm_w", "imm_fm", "imm_fx",
             "dir_bx", "dir_wx", "dir_l", "rel8"}
    BY <1>1, <1>2, <1>3, <1>4, <1>5, <1>6, <1>7, <2>1
  <2>2. CASE mode \in {"dir_wy", "ind_bx", "stk", "lng_b", "ind_by", "ind_b", "stk_y",
             "lng_by"}
    BY <1>7, <1>8, <2>2
  <2>3. CASE mode \in {"dir_lx", "acc", "mov", "rel16", "ind_wx", "dir_by", "ind_w",
             "lng_w"}
    BY <1>8, <1>9, <2>3
  <2>4. QED
    BY <2>1, <2>2, <2>3 DEF AddressingModes, SizedImmediate
<1>11. QED
  BY <1>10

\* A row that assembles m in mode a.
Assembles(row, m, a) ==
  row[1] = m /\ (row[2] = a \/ (row[2] \in SizedImmediate /\ a \in {"imm_b", "imm_w"}))

LEMMA OneOpcode ==
  ASSUME NEW i \in 1 .. 256, NEW m, NEW a, Assembles(DecodeMap[i], m, a)
  PROVE  EncodeOpcode(m, a) = i - 1
<1>1. ASSUME NEW j \in 1 .. 256, Assembles(DecodeMap[j], m, a)
      PROVE  j = i
  <2>1. /\ i \in RowsOfMode(DecodeMap[i][2]) /\ j \in RowsOfMode(DecodeMap[j][2])
        /\ DecodeMap[i][2] \in AddressingModes /\ DecodeMap[i][1] = DecodeMap[j][1]
    BY <1>1, RowModes, TableModes DEF Assembles
  <2>2. RowsOfMode(DecodeMap[j][2]) = RowsOfMode(DecodeMap[i][2])
    <3>1. CASE DecodeMap[j][2] = DecodeMap[i][2]
      BY <3>1
    <3>2. CASE DecodeMap[j][2] # DecodeMap[i][2]
      <4>1. /\ DecodeMap[i][2] \in {"imm_b", "imm_w", "imm_fm", "imm_fx"}
            /\ DecodeMap[j][2] \in {"imm_b", "imm_w", "imm_fm", "imm_fx"}
        BY <1>1, <3>2 DEF Assembles, SizedImmediate
      <4>2. QED
        BY <4>1, SMT DEF RowsOfMode
    <3>3. QED
      BY <3>1, <3>2
  <2>3. QED
    BY <2>1, <2>2, RowsApart DEF OncePerMnemonic
<1>2. EncodeOpcode(m, a) = CHOOSE opcode \in 0 .. 255 : Assembles(DecodeMap[opcode + 1], m, a)
  BY DEF EncodeOpcode, DecodeOpcode, Assembles
<1>3. \A opcode \in 0 .. 255 : opcode + 1 \in 1 .. 256
  BY SMT
<1>4. \A opcode \in 0 .. 255 : Assembles(DecodeMap[opcode + 1], m, a) <=> opcode = i - 1
  <2>1. TAKE opcode \in 0 .. 255
  <2>2. opcode + 1 \in 1 .. 256
    BY SMT
  <2>3. ASSUME Assembles(DecodeMap[opcode + 1], m, a) PROVE opcode = i - 1
    <3>1. opcode + 1 = i
      BY <1>1, <2>2, <2>3
    <3>2. QED
      BY <3>1, SMT
  <2>4. ASSUME opcode = i - 1 PROVE Assembles(DecodeMap[opcode + 1], m, a)
    <3>1. opcode + 1 = i
      BY <2>4, SMT
    <3>2. QED
      BY <3>1
  <2>5. QED
    BY <2>3, <2>4
<1>5. i - 1 \in 0 .. 255
  BY SMT
<1>6. QED
  BY <1>2, <1>4, <1>5

-----------------------------------------------------------------------------
(* Arguments are the bytes they were read from *)

LEMMA BytesOfNumber ==
  ASSUME NEW v
  PROVE  /\ ByteOf(v, 0) = (v \div 1) % 256
         /\ ByteOf(v, 1) = (v \div 256) % 256
         /\ ByteOf(v, 2) = (v \div 65536) % 256
BY SMT DEF ByteOf

\* A number by its bytes, the bank and higher ones together.
Composed(v, bank, c, b) == v = bank * 65536 + (b + 256 * c)

\* LittleEndian takes apart what Argument puts together.
LEMMA WordBytes ==
  ASSUME NEW b \in Int, 0 <= b, b <= 255, NEW c \in Int, 0 <= c, c <= 255,
         NEW bank \in Int, NEW v, Composed(v, bank, c, b)
  PROVE  ByteOf(v, 0) = b /\ ByteOf(v, 1) = c
<1>0. v = bank * 65536 + (b + 256 * c)
  BY DEF Composed
<1>1. (v \div 1) % 256 = b
  BY SMT, <1>0
<1>2. v \div 256 = bank * 256 + c
  BY SMT, <1>0
<1>3. (bank * 256 + c) % 256 = c
  BY SMT
<1>4. QED
  BY SMT, <1>1, <1>2, <1>3, BytesOfNumber

LEMMA LongBytes ==
  ASSUME NEW b \in Int, 0 <= b, b <= 255, NEW c \in Int, 0 <= c, c <= 255,
         NEW d \in Int, 0 <= d, d <= 255, NEW v, Composed(v, d, c, b)
  PROVE  ByteOf(v, 0) = b /\ ByteOf(v, 1) = c /\ ByteOf(v, 2) = d
<1>1. v = d * 65536 + (b + 256 * c)
  BY SMT DEF Composed
<1>2. ByteOf(v, 0) = b /\ ByteOf(v, 1) = c
  BY WordBytes
<1>3. v \div 65536 = d
  BY SMT, <1>1
<1>4. d % 256 = d
  BY SMT
<1>5. QED
  BY SMT, <1>2, <1>3, <1>4, BytesOfNumber

\* The distances that are read from one byte and from two, and their bytes.
Distances(b, c) ==
  /\ Signed(b, 256) \in Int /\ -128 <= Signed(b, 256) /\ Signed(b, 256) <= 127
  /\ ByteOf(Signed(b, 256), 0) = b
  /\ Signed(b + 256 * c, 65536) \in Int
  /\ -32768 <= Signed(b + 256 * c, 65536) /\ Signed(b + 256 * c, 65536) <= 32767
  /\ ByteOf(Signed(b + 256 * c, 65536), 0) = b
  /\ ByteOf(Signed(b + 256 * c, 65536), 1) = c

\* A distance is written as the number it was read from.
LEMMA DistanceBytes ==
  ASSUME NEW b \in Int, 0 <= b, b <= 255, NEW c \in Int, 0 <= c, c <= 255
  PROVE  Distances(b, c)
<1>1. Signed(b, 256) = b \/ Signed(b, 256) = b - 256
  BY SMT DEF Signed
<1>2. Signed(b, 256) \in Int /\ -128 <= Signed(b, 256) /\ Signed(b, 256) <= 127
  BY SMT DEF Signed
<1>3. (Signed(b, 256) \div 1) % 256 = b
  BY SMT, <1>1
<1>4. PICK w : w = b + 256 * c
  BY SMT
<1>5. w \in Int /\ 0 <= w /\ w <= 65535
  BY SMT, <1>4
<1>6. PICK s : s = Signed(w, 65536)
  BY SMT
<1>7. s \in Int /\ -32768 <= s /\ s <= 32767 /\ (s = w \/ s = w - 65536)
  BY SMT, <1>5, <1>6 DEF Signed
<1>8. PICK bank \in Int : Composed(s, bank, c, b)
  <2>1. s = w => Composed(s, 0, c, b)
    BY SMT, <1>4 DEF Composed
  <2>2. s = w - 65536 => Composed(s, -1, c, b)
    BY SMT, <1>4 DEF Composed
  <2>3. 0 \in Int /\ -1 \in Int
    BY SMT
  <2>4. QED
    BY SMT, <1>7, <2>1, <2>2, <2>3
<1>9. ByteOf(s, 0) = b /\ ByteOf(s, 1) = c
  BY <1>8, WordBytes
<1>10. ByteOf(Signed(b, 256), 0) = b
  <2>1. PICK v : v = Signed(b, 256)
    BY SMT
  <2>2. ByteOf(v, 0) = (v \div 1) % 256
    BY SMT, BytesOfNumber
  <2>3. QED
    BY SMT, <1>3, <2>1, <2>2
<1>11. QED
  BY SMT, <1>2, <1>4, <1>6, <1>7, <1>9, <1>10 DEF Distances

\* What the assembler makes of the target of a branch is the distance that
\* the disassembler added.
LEMMA DistanceBack ==
  ASSUME NEW p \in Int, 0 <= p, p <= 16777215, NEW n \in Int, -32768 <= n, n <= 32767,
         NEW t, t = AddWrapped(p, n)
  PROVE  t \in Int /\ SubtractWrapped(t, p) = n /\ Bank(t) = Bank(p)
<1>1. t \in Int /\ t \div 65536 = p \div 65536 /\ t % 65536 = (p + n) % 65536
  BY SMT, WrappedParts
<1>2. (t - p) % 65536 = n % 65536
  <2>1. t = (p \div 65536) * 65536 + ((p + n) % 65536)
    <3>1. ASSUME NEW i \in Int
          PROVE  AddWrapped(p, i) = (p \div 65536) * 65536 + ((p + i) % 65536)
      BY SMT, WrappedSum
    <3>2. n \in Int
      BY SMT
    <3>3. QED
      BY SMT, <3>1, <3>2
  <2>2. PICK P, Q, u : P = p \div 65536 /\ Q = (p + n) \div 65536 /\ u = (p + n) % 65536
    BY SMT
  <2>3. P \in Int /\ Q \in Int /\ u \in Int /\ p + n = Q * 65536 + u
    BY SMT, <2>2
  <2>4. PICK k : k = P - Q
    BY SMT
  <2>5. k \in Int /\ t - p = n + 65536 * k
    BY SMT, <2>1, <2>2, <2>3, <2>4
  <2>6. (n + 65536 * k) % 65536 = n % 65536
    BY SMT, <2>5
  <2>7. QED
    BY SMT, <2>5, <2>6
<1>3. PICK r : r = n % 65536
  BY SMT
<1>4. r \in Int /\ r = IF n >= 0 THEN n ELSE n + 65536
  BY SMT, <1>3
<1>5. Signed(r, 65536) = n
  BY SMT, <1>4 DEF Signed
<1>6. SubtractWrapped(t, p) = n
  BY SMT, <1>2, <1>3, <1>5 DEF SubtractWrapped
<1>7. QED
  BY SMT, <1>1, <1>6 DEF Bank
-----------------------------------------------------------------------------
(* Names stand for addresses *)

LEMMA LabelledRows ==
  ASSUME Result, listing = Listed
  PROVE  Labelled \subseteq DOMAIN listing
<1>1. ASSUME NEW b \in Second PROVE b \notin Labelled
  BY <1>1, FoldParts DEF Second
<1>2. QED
  BY <1>1, ListedDomain DEF Labelled

\* Labels of one kind are counted in the order of their addresses.
LEMMA NamesApart ==
  ASSUME Result, NEW x \in Labelled, NEW y \in Labelled, NameOf(x) = NameOf(y)
  PROVE  x = y
<1> DEFINE upTo(z) == {b \in Labelled : b <= z /\ (IsEntry(b) <=> IsEntry(z))}
<1>1. /\ Cardinality(upTo(x)) = Cardinality(upTo(y)) /\ (IsEntry(x) <=> IsEntry(y))
  BY DEF NameOf
<1>2. \A z \in Labelled : z \in Int /\ 0 <= z /\ z <= 16777215
  BY ResultRow, SMT DEF Labelled
<1>3. \A z : IsFiniteSet(upTo(z))
  <2>1. PICK n \in Int : n = 16777215
    BY SMT
  <2>2. PICK m \in Int : m = 0
    BY SMT
  <2>3. IsFiniteSet(m .. n)
    BY FS_Interval
  <2>4. TAKE z
  <2>5. upTo(z) \in SUBSET (m .. n)
    <3>1. \A b \in upTo(z) : b \in Int /\ m <= b /\ b <= n
      BY <1>2, <2>1, <2>2, SMT
    <3> HIDE DEF upTo
    <3>2. QED
      BY <3>1
  <2> HIDE DEF upTo
  <2>6. QED
    BY <2>3, <2>5, FS_Subset
<1>4. ASSUME NEW z \in Labelled, NEW w \in Labelled, z <= w, IsEntry(z) <=> IsEntry(w),
             Cardinality(upTo(z)) = Cardinality(upTo(w))
      PROVE  w <= z
  <2>1. upTo(z) \in SUBSET upTo(w)
    <3>1. \A b \in Labelled : b <= z => b <= w
      BY <1>2, <1>4, SMT
    <3>2. QED
      BY <1>4, <3>1
  <2>2. w \in upTo(w)
    BY <1>2, SMT
  <2>3. upTo(w) = upTo(z)
    <3> HIDE DEF upTo
    <3>1. QED
      BY <1>3, <1>4, <2>1, FS_Subset
  <2>4. w \in upTo(z)
    BY <2>2, <2>3
  <2>5. QED
    BY <2>4
<1> HIDE DEF upTo
<1>5. x <= y \/ y <= x
  BY <1>2, SMT
<1>6. x <= y /\ y <= x
  BY <1>1, <1>4, <1>5
<1>7. QED
  BY <1>2, <1>6, SMT

\* A name is on one row, the one it was given to.
LEMMA NamedRow ==
  ASSUME Result, listing = Listed, NEW t \in Labelled
  PROVE  /\ NameOf(t) # NoName /\ AddressOfName(NameOf(t)) = t
         /\ Cardinality({b \in DOMAIN listing : listing[b].name = NameOf(t)}) = 1
<1>1. NameOf(t) # NoName
  BY DEF NameOf, NoName
<1>2. ASSUME NEW b \in DOMAIN listing
      PROVE  listing[b].name = NameOf(t) <=> b = t
  <2>1. listing[b].name = NameOf(b)
    BY ListedRow
  <2>2. b \notin Labelled => NameOf(b) = NoName
    BY DEF NameOf
  <2>3. QED
    BY <1>1, <2>1, <2>2, NamesApart
<1>3. t \in DOMAIN listing
  BY LabelledRows
<1>4. {b \in DOMAIN listing : listing[b].name = NameOf(t)} = {t}
  BY <1>2, <1>3
<1>5. Cardinality({t}) = 1
  BY FS_Singleton
<1>6. AddressOfName(NameOf(t)) = t
  BY <1>2, <1>3 DEF AddressOfName
<1>7. QED
  BY <1>1, <1>4, <1>5, <1>6

\* What an argument's name stands for.
LEMMA ArgumentNamed ==
  ASSUME Result, NEW a \in DOMAIN disassembly, NEW di, di = disassembly[a]
  PROVE  /\ IsLocalBranch(di.ins) =>
              /\ BranchTarget(a, di.ins) \in Labelled
              /\ ArgumentName(a) = NameOf(BranchTarget(a, di.ins))
         /\ ~IsLocalBranch(di.ins) /\ ArgumentName(a) # NoName =>
              /\ HasFarTarget(di.ins) /\ FarTarget(a, di.ins) \in Labelled
              /\ ArgumentName(a) = NameOf(FarTarget(a, di.ins))
<1>1. Sound(di)
  BY ResultRow
<1>2. ASSUME IsLocalBranch(di.ins), NEW t, t = BranchTarget(a, di.ins)
      PROVE  t \in Labelled /\ ArgumentName(a) = NameOf(t)
  <2>1. t \in DOMAIN disassembly /\ di.to # NoLabel /\ disassembly[t].label = di.to
    BY <1>2, ResultRow
  <2>2. t \in Labelled
    BY <2>1 DEF Labelled
  <2>3. \A b \in Labelled : disassembly[b].label = di.to => b = t
    BY <2>1 DEF Labelled, Result, LabelsResolve
  <2>4. Rewritten(di.to) = NameOf(t)
    BY <2>1, <2>2, <2>3 DEF Rewritten
  <2>5. QED
    BY <2>1, <2>2, <2>4 DEF ArgumentName
<1>3. ASSUME ~IsLocalBranch(di.ins), ArgumentName(a) # NoName, NEW t, t = FarTarget(a, di.ins)
      PROVE  HasFarTarget(di.ins) /\ t \in Labelled /\ ArgumentName(a) = NameOf(t)
  <2>1. di.to = NoLabel
    BY <1>1, <1>3 DEF Sound
  <2>2. HasFarTarget(di.ins) /\ ArgumentName(a) = NameForAddress(t)
    BY <1>3, <2>1 DEF ArgumentName
  <2>3. NameForAddress(t) = NameOf(t)
    BY <1>3, <2>2 DEF NameForAddress
  <2>4. t \in Labelled
    BY <1>3, <2>2, <2>3 DEF NameOf
  <2>5. QED
    BY <2>2, <2>3, <2>4
<1>4. QED
  BY <1>2, <1>3
-----------------------------------------------------------------------------
(* An instruction assembles to the bytes it was decoded from *)

\* The bytes of an instruction after its opcode.
Following(bytes, n) == [k \in 1 .. n - 1 |-> bytes[k + 1]]

LEMMA ByteItself ==
  ASSUME NEW b \in 0 .. 255 PROVE ByteOf(b, 0) = b
<1>1. (b \div 1) % 256 = b
  BY SMT
<1>2. ByteOf(b, 0) = (b \div 1) % 256
  BY SMT, BytesOfNumber
<1>3. QED
  BY <1>1, <1>2

LEMMA BytesFollow ==
  ASSUME NEW v, NEW bytes, NEW n \in 1 .. 4,
         n >= 2 => ByteOf(v, 0) = bytes[2],
         n >= 3 => ByteOf(v, 1) = bytes[3],
         n >= 4 => ByteOf(v, 2) = bytes[4]
  PROVE  LittleEndian(v, n - 1) = Following(bytes, n)
<1>1. ASSUME NEW k \in 1 .. n - 1
      PROVE  ByteOf(v, k - 1) = bytes[k + 1]
  <2>1. CASE k = 1
    <3>1. n >= 2 /\ k - 1 = 0 /\ k + 1 = 2
      BY <2>1, SMT
    <3>2. QED
      BY <3>1
  <2>2. CASE k = 2
    <3>1. n >= 3 /\ k - 1 = 1 /\ k + 1 = 3
      BY <2>2, SMT
    <3>2. QED
      BY <3>1
  <2>3. CASE k = 3
    <3>1. n >= 4 /\ k - 1 = 2 /\ k + 1 = 4
      BY <2>3, SMT
    <3>2. QED
      BY <3>1
  <2>4. k = 1 \/ k = 2 \/ k = 3
    BY SMT
  <2>5. QED
    BY <2>1, <2>2, <2>3, <2>4
<1>2. QED
  BY <1>1 DEF LittleEndian, Following

\* The bytes of a number that was read from up to three of them.
ReadFrom(v, b, c, d) ==
  /\ v = b => ByteOf(v, 0) = b
  /\ v = b + 256 * c => ByteOf(v, 0) = b /\ ByteOf(v, 1) = c
  /\ v = (b + 256 * c) + 65536 * d =>
       ByteOf(v, 0) = b /\ ByteOf(v, 1) = c /\ ByteOf(v, 2) = d

LEMMA NumberBytes ==
  ASSUME NEW b \in Int, 0 <= b, b <= 255, NEW c \in Int, 0 <= c, c <= 255,
         NEW d \in Int, 0 <= d, d <= 255, NEW v
  PROVE  ReadFrom(v, b, c, d)
<1>1. v = b => ByteOf(v, 0) = b
  <2>1. b \in 0 .. 255
    BY SMT
  <2>2. QED
    BY SMT, <2>1, ByteItself
<1>2. ASSUME v = b + 256 * c
      PROVE  ByteOf(v, 0) = b /\ ByteOf(v, 1) = c
  <2>1. PICK z \in Int : z = 0
    BY SMT
  <2>2. Composed(v, z, c, b)
    BY SMT, <1>2, <2>1 DEF Composed
  <2>3. QED
    BY SMT, <2>2, WordBytes
<1>3. ASSUME v = (b + 256 * c) + 65536 * d
      PROVE  ByteOf(v, 0) = b /\ ByteOf(v, 1) = c /\ ByteOf(v, 2) = d
  <2>1. Composed(v, d, c, b)
    BY SMT, <1>3 DEF Composed
  <2>2. QED
    BY SMT, <2>1, LongBytes
<1>4. QED
  BY SMT, <1>1, <1>2, <1>3 DEF ReadFrom

\* The argument of an instruction that is not a branch, by its length.
LEMMA PlainArgument ==
  ASSUME NEW bytes, NEW mode \in AddressingModes \ SizedImmediate,
         mode \notin {"rel8", "rel16", "mov"}, NEW v, v = Argument(mode, bytes),
         NEW n, n = InstructionLength(mode),
         NEW b, b = bytes[2], NEW c, c = bytes[3], NEW d, d = bytes[4]
  PROVE  /\ n = 2 => v = b
         /\ n = 3 => v = b + 256 * c
         /\ n = 4 => v = (b + 256 * c) + 65536 * d
<1> DEFINE word == b + 256 * c
           long == word + 65536 * d
<1>1. Argument(mode, bytes) =
        CASE n = 2 -> b [] n = 3 -> word [] n = 4 -> long [] n = 1 -> NoValue
  <2>1. n \in 1 .. 4
    BY DEF InstructionLength, AddressingModes, SizedImmediate
  <2>2. QED
    BY <2>1 DEF Argument
<1> HIDE DEF word, long
<1>2. (n = 2 => v = b) /\ (n = 3 => v = word) /\ (n = 4 => v = long)
  BY <1>1
<1>3. QED
  BY SMT, <1>2 DEF word, long

\* The modes whose argument is printed as the number that was read.
LEMMA OperandPlain ==
  ASSUME NEW bytes, \A k \in 1 .. 4 : bytes[k] \in 0 .. 255,
         NEW mode \in AddressingModes \ SizedImmediate, mode \notin {"rel8", "rel16"},
         NEW ins, ins.mode = mode, ins.arg = Argument(mode, bytes),
         ins.arg2 = IF mode = "mov" THEN bytes[2] ELSE NoValue, NEW p
  PROVE  Operand(ins, p) = Following(bytes, InstructionLength(mode))
<1> PICK b, c, d : b = bytes[2] /\ c = bytes[3] /\ d = bytes[4]
  OBVIOUS
<1>1. b \in 0 .. 255 /\ c \in 0 .. 255 /\ d \in 0 .. 255
  BY SMT
<1>2. PICK n \in 1 .. 4 : n = InstructionLength(mode)
  BY DEF InstructionLength, AddressingModes, SizedImmediate
<1>3. CASE mode = "mov"
  <2>1. ins.arg2 = b /\ ins.arg = c /\ n = 3
    BY <1>2, <1>3 DEF Argument, InstructionLength
  <2>2. Operand(ins, p) = <<b, c>>
    BY <1>1, <1>3, <2>1, ByteItself DEF Operand
  <2>3. <<b, c>> = Following(bytes, 3)
    BY SMT DEF Following
  <2>4. QED
    BY <1>2, <2>1, <2>2, <2>3
<1>4. CASE mode # "mov"
  <2> PICK v : v = ins.arg
    OBVIOUS
  <2>1. Operand(ins, p) = LittleEndian(v, n - 1)
    BY <1>2, <1>4 DEF Operand
  <2>2. /\ n = 2 => v = b
        /\ n = 3 => v = b + 256 * c
        /\ n = 4 => v = (b + 256 * c) + 65536 * d
    BY SMT, <1>2, <1>4, PlainArgument
  <2>3. /\ b \in Int /\ 0 <= b /\ b <= 255 /\ c \in Int /\ 0 <= c /\ c <= 255
        /\ d \in Int /\ 0 <= d /\ d <= 255
    BY SMT, <1>1
  <2>4. /\ n = 2 => ByteOf(v, 0) = b
        /\ n = 3 => ByteOf(v, 0) = b /\ ByteOf(v, 1) = c
        /\ n = 4 => ByteOf(v, 0) = b /\ ByteOf(v, 1) = c /\ ByteOf(v, 2) = d
    <3>1. ReadFrom(v, b, c, d)
      BY SMT, <2>3, NumberBytes
    <3>2. QED
      BY SMT, <2>2, <3>1 DEF ReadFrom
  <2>5. /\ n >= 2 => ByteOf(v, 0) = b
        /\ n >= 3 => ByteOf(v, 1) = c
        /\ n >= 4 => ByteOf(v, 2) = d
    BY SMT, <2>4
  <2>6. QED
    BY <1>2, <2>1, <2>5, BytesFollow
<1>5. QED
  BY <1>3, <1>4

\* A far target is printed with its bank.
LEMMA OperandFar ==
  ASSUME NEW bytes, \A k \in 1 .. 4 : bytes[k] \in 0 .. 255, NEW a \in Int,
         NEW ins, ins.mode = "dir_w", ins.arg = Bank(a) * 65536 + Argument("dir_w", bytes), NEW p
  PROVE  Operand(ins, p) = Following(bytes, 3)
<1> PICK b, c, bank : b = bytes[2] /\ c = bytes[3] /\ bank = Bank(a)
  BY SMT
<1>1. b \in Int /\ 0 <= b /\ b <= 255 /\ c \in Int /\ 0 <= c /\ c <= 255
  BY SMT
<1>2. PICK word : word = b + 256 * c
  BY SMT
<1>3. Argument("dir_w", bytes) = word
  BY SMT, <1>2 DEF Argument, InstructionLength
<1>4. bank \in Int
  BY SMT DEF Bank
<1>5. PICK v : v = ins.arg
  BY SMT
<1>6. Composed(v, bank, c, b)
  BY SMT, <1>2, <1>3, <1>5 DEF Composed
<1>7. ByteOf(v, 0) = b /\ ByteOf(v, 1) = c
  BY SMT, <1>1, <1>4, <1>6, WordBytes
<1>8. PICK n \in 1 .. 4 : n = 3
  BY SMT
<1>9. LittleEndian(v, n - 1) = Following(bytes, n)
  <2>1. ~(n >= 4)
    BY SMT, <1>8
  <2>2. QED
    BY SMT, <1>7, <2>1, BytesFollow
<1>10. Operand(ins, p) = LittleEndian(v, n - 1)
  BY SMT, <1>5, <1>8 DEF Operand, InstructionLength
<1>11. QED
  BY SMT, <1>8, <1>9, <1>10

\* The argument of a branch is a distance.
LEMMA BranchArgument ==
  ASSUME NEW bytes, \A k \in 1 .. 4 : bytes[k] \in 0 .. 255,
         NEW mode \in {"rel8", "rel16"}, NEW s, s = Argument(mode, bytes)
  PROVE  /\ s \in Int /\ -32768 <= s /\ s <= 32767 /\ ByteOf(s, 0) = bytes[2]
         /\ mode = "rel8" => -128 <= s /\ s <= 127
         /\ mode = "rel16" => ByteOf(s, 1) = bytes[3]
<1> PICK b, c : b = bytes[2] /\ c = bytes[3]
  OBVIOUS
<1>1. b \in Int /\ 0 <= b /\ b <= 255 /\ c \in Int /\ 0 <= c /\ c <= 255
  BY SMT
<1>2. PICK t : t = Signed(b, 256)
  BY SMT
<1>3. PICK w : w = Signed(b + 256 * c, 65536)
  BY SMT
<1>4. /\ mode = "rel8" => s = t
      /\ mode = "rel16" => s = w
  <2> PICK word : word = b + 256 * c
    BY SMT
  <2>1. /\ mode = "rel8" => s = Signed(b, 256)
        /\ mode = "rel16" => s = Signed(word, 65536)
    <3>1. InstructionLength(mode) \in {2, 3}
      BY DEF InstructionLength
    <3>2. QED
      BY SMT, <3>1 DEF Argument
  <2>2. QED
    BY SMT, <1>2, <1>3, <2>1
<1>5. /\ t \in Int /\ -128 <= t /\ t <= 127 /\ ByteOf(t, 0) = b
      /\ w \in Int /\ -32768 <= w /\ w <= 32767
      /\ ByteOf(w, 0) = b /\ ByteOf(w, 1) = c
  <2>1. Distances(b, c)
    BY SMT, <1>1, DistanceBytes
  <2>2. QED
    BY SMT, <1>2, <1>3, <2>1 DEF Distances
<1>6. QED
  BY SMT, <1>4, <1>5

LEMMA WrappedAddress ==
  ASSUME NEW a \in Int, 0 <= a, a <= 16777215, NEW i \in Int, NEW p, p = AddWrapped(a, i)
  PROVE  p \in Int /\ 0 <= p /\ p <= 16777215
<1>1. /\ AddWrapped(a, i) \in Int
      /\ 0 <= AddWrapped(a, i) /\ AddWrapped(a, i) <= 16777215
  BY SMT, WrappedParts
<1>2. QED
  BY SMT, <1>1

\* A branch is printed with the address it goes to.
LEMMA OperandBranch ==
  ASSUME NEW bytes, \A k \in 1 .. 4 : bytes[k] \in 0 .. 255,
         NEW a \in Int, 0 <= a, a <= 16777215, NEW mode \in {"rel8", "rel16"},
         NEW ins, ins.mode = mode,
         ins.arg = AddWrapped(AddWrapped(a, InstructionLength(mode)), Argument(mode, bytes))
  PROVE  /\ Operand(ins, a) = Following(bytes, InstructionLength(mode))
         /\ Reaches(ins, a) /\ ins.arg \in Int
<1>1. /\ mode = "rel8" => InstructionLength(mode) = 2
      /\ mode = "rel16" => InstructionLength(mode) = 3
  BY SMT DEF InstructionLength
<1>2. PICK n \in 1 .. 4 : n = InstructionLength(mode)
  BY SMT, <1>1
<1>3. PICK p : p = AddWrapped(a, n)
  BY SMT
<1>4. p \in Int /\ 0 <= p /\ p <= 16777215
  <2>1. n \in Int
    BY SMT
  <2>2. QED
    BY SMT, <1>3, <2>1, WrappedAddress
<1>5. PICK s : s = Argument(mode, bytes)
  BY SMT
<1>6. /\ s \in Int /\ -32768 <= s /\ s <= 32767 /\ ByteOf(s, 0) = bytes[2]
      /\ mode = "rel8" => -128 <= s /\ s <= 127
      /\ mode = "rel16" => ByteOf(s, 1) = bytes[3]
  BY SMT, <1>5, BranchArgument
<1>7. PICK t : t = ins.arg
  BY SMT
<1>8. t = AddWrapped(p, s)
  BY SMT, <1>2, <1>3, <1>5, <1>7
<1>9. t \in Int /\ SubtractWrapped(t, p) = s /\ Bank(t) = Bank(p)
  BY SMT, <1>4, <1>6, <1>8, DistanceBack
<1>10. Offset(ins, a) = s
  BY SMT, <1>2, <1>3, <1>7, <1>9 DEF Offset
<1>11. Reaches(ins, a)
  <2>1. mode = "rel8" => s \in -128 .. 127
    BY SMT, <1>6
  <2>2. QED
    BY SMT, <1>2, <1>3, <1>7, <1>9, <1>10, <2>1 DEF Reaches
<1>12. Operand(ins, a) = LittleEndian(s, n - 1)
  BY SMT, <1>2, <1>10 DEF Operand
<1>13. LittleEndian(s, n - 1) = Following(bytes, n)
  <2>1. (n >= 3 => ByteOf(s, 1) = bytes[3]) /\ ~(n >= 4)
    BY SMT, <1>1, <1>2, <1>6
  <2>2. QED
    BY SMT, <1>6, <2>1, BytesFollow
<1>14. QED
  BY SMT, <1>2, <1>7, <1>9, <1>11, <1>12, <1>13
LEMMA FunctionAsSequence ==
  ASSUME NEW n \in Nat, NEW f, f = [k \in 1 .. n |-> f[k]], \A k \in 1 .. n : f[k] \in Int
  PROVE  f \in Seq(Int) /\ Len(f) = n
<1>1. f \in [1 .. n -> Int] /\ DOMAIN f = 1 .. n
  OBVIOUS
<1>2. f \in Seq(Int)
  BY <1>1, SeqDef
<1>3. Len(f) \in Nat /\ DOMAIN f = 1 .. Len(f)
  BY <1>2, LenProperties
<1>4. Len(f) = n
  <2> PICK l \in Nat : l = Len(f)
    BY <1>3
  <2>1. 1 .. l = 1 .. n
    BY <1>1, <1>3
  <2>2. QED
    BY <2>1, SMT
<1>5. QED
  BY <1>2, <1>4

LEMMA Places ==
  ASSUME NEW m \in Nat, NEW n \in 1 .. 4, NEW k \in 1 .. m + n
  PROVE  /\ k <= m \/ k = m + 1 \/ k > m + 1
         /\ k > m + 1 =>
              /\ ~(k <= m) /\ ~(k <= m + 1) /\ k - (m + 1) \in 1 .. n - 1
              /\ (k - (m + 1)) + 1 = k - m /\ (k - (m + 1)) + 1 \in 1 .. 4
BY SMT

\* m bytes of a prefix and then n others.
InOrder(prefix, m, bytes, n) ==
  [k \in 1 .. m + n |-> IF k <= m THEN prefix[k] ELSE bytes[k - m]]

\* A prefix, the opcode and the bytes after it.
LEMMA BytesInOrder ==
  ASSUME NEW prefix \in Seq(Int), NEW m \in Nat, m = Len(prefix),
         NEW bytes, \A k \in 1 .. 4 : bytes[k] \in Int, NEW n \in 1 .. 4
  PROVE  prefix \o <<bytes[1]>> \o Following(bytes, n) = InOrder(prefix, m, bytes, n)
<1> PICK rest : rest = Following(bytes, n)
  OBVIOUS
<1> PICK all : all = [k \in 1 .. m + n |-> IF k <= m THEN prefix[k] ELSE bytes[k - m]]
  OBVIOUS
<1> PICK first, op : op = bytes[1] /\ first = prefix \o <<op>>
  OBVIOUS
<1>1. rest \in Seq(Int) /\ Len(rest) = n - 1 /\ \A k \in 1 .. n - 1 : rest[k] = bytes[k + 1]
  <2>1. n - 1 \in Nat /\ \A k \in 1 .. n - 1 : k + 1 \in 1 .. 4
    BY SMT
  <2>2. rest = [k \in 1 .. n - 1 |-> rest[k]] /\ \A k \in 1 .. n - 1 : rest[k] = bytes[k + 1]
    BY DEF Following
  <2>3. QED
    BY <2>1, <2>2, FunctionAsSequence
<1>2. /\ first \in Seq(Int) /\ Len(first) = m + 1 /\ first[m + 1] = op
      /\ \A k \in 1 .. m : first[k] = prefix[k]
  <2>1. op \in Int
    BY SMT
  <2>2. <<op>> \in Seq(Int) /\ Len(<<op>>) = 1 /\ <<op>>[1] = op
    BY <2>1
  <2>3. /\ first \in Seq(Int) /\ Len(first) = m + Len(<<op>>)
        /\ \A k \in 1 .. m + Len(<<op>>) :
             first[k] = IF k <= m THEN prefix[k] ELSE <<op>>[k - m]
    BY <2>2, ConcatProperties
  <2>4. m + 1 \in 1 .. m + 1 /\ ~(m + 1 <= m) /\ (m + 1) - m = 1
        /\ \A k \in 1 .. m : k \in 1 .. m + 1 /\ k <= m
    BY SMT
  <2>5. QED
    BY <2>2, <2>3, <2>4
<1>3. /\ first \o rest \in Seq(Int) /\ Len(first \o rest) = m + n
      /\ \A k \in 1 .. m + n :
           (first \o rest)[k] = IF k <= m + 1 THEN first[k] ELSE rest[k - (m + 1)]
  <2>1. /\ first \o rest \in Seq(Int) /\ Len(first \o rest) = Len(first) + Len(rest)
        /\ \A k \in 1 .. Len(first) + Len(rest) :
             (first \o rest)[k] = IF k <= Len(first) THEN first[k] ELSE rest[k - Len(first)]
    <3>1. first \in Seq(Int) /\ rest \in Seq(Int)
      BY <1>1, <1>2
    <3>2. QED
      <4>1. \A s, t \in Seq(Int) :
              /\ s \o t \in Seq(Int) /\ Len(s \o t) = Len(s) + Len(t)
              /\ \A k \in 1 .. Len(s) + Len(t) :
                   (s \o t)[k] = IF k <= Len(s) THEN s[k] ELSE t[k - Len(s)]
        BY ConcatProperties
      <4>2. QED
        BY <3>1, <4>1
  <2>2. (m + 1) + (n - 1) = m + n
    BY SMT
  <2>3. QED
    BY <1>1, <1>2, <2>1, <2>2
<1>4. \A k \in 1 .. m + n : all[k] = IF k <= m THEN prefix[k] ELSE bytes[k - m]
  OBVIOUS
<1>5. ASSUME NEW k \in 1 .. m + n
      PROVE  (first \o rest)[k] = all[k] /\ all[k] \in Int
  <2>1. CASE k <= m
    <3>1. k \in 1 .. m /\ k <= m + 1
      BY <2>1, SMT
    <3>2. prefix[k] \in Int
      BY <3>1, ElementOfSeq
    <3>3. QED
      BY <1>2, <1>3, <1>4, <2>1, <3>1, <3>2
  <2>2. CASE k = m + 1
    <3>1. ~(k <= m) /\ k <= m + 1 /\ k - m = 1
      BY <2>2, SMT
    <3>2. op \in Int
      BY SMT
    <3>3. QED
      BY <1>2, <1>3, <1>4, <2>2, <3>1, <3>2
  <2>3. CASE k > m + 1
    <3> PICK j : j = k - (m + 1)
      OBVIOUS
    <3>1. ~(k <= m) /\ ~(k <= m + 1) /\ j \in 1 .. n - 1 /\ j + 1 = k - m /\ j + 1 \in 1 .. 4
      BY <2>3, Places
    <3>2. rest[j] = bytes[k - m] /\ bytes[k - m] \in Int
      BY <1>1, <3>1
    <3>3. QED
      BY <1>3, <1>4, <3>1, <3>2
  <2>4. QED
    BY <2>1, <2>2, <2>3, Places
<1>6. all \in Seq(Int) /\ Len(all) = m + n
  <2>1. m + n \in Nat
    BY SMT
  <2>2. QED
    BY <1>5, <2>1, FunctionAsSequence
<1>7. first \o rest = all
  <2>1. m + n = Len(first \o rest)
    BY <1>3
  <2>2. QED
    BY <1>3, <1>5, <1>6, <2>1, SeqEqual
<1>8. QED
  BY <1>7 DEF InOrder

LEMMA PlainArgumentType ==
  ASSUME NEW bytes, \A k \in 1 .. 4 : bytes[k] \in 0 .. 255,
         NEW mode \in AddressingModes \ SizedImmediate, mode \notin {"rel8", "rel16", "imp", "acc"}
  PROVE  Argument(mode, bytes) \in Int
<1> PICK b, c, d, n, v : /\ b = bytes[2] /\ c = bytes[3] /\ d = bytes[4]
                         /\ n = InstructionLength(mode) /\ v = Argument(mode, bytes)
  OBVIOUS
<1>1. b \in Int /\ c \in Int /\ d \in Int
  BY SMT
<1>2. n \in {2, 3, 4}
  BY DEF InstructionLength, AddressingModes, SizedImmediate
<1>3. CASE mode = "mov"
  <2>1. v = c
    BY <1>3 DEF Argument, InstructionLength
  <2>2. QED
    BY <1>1, <2>1
<1>4. CASE mode # "mov"
  <2>1. /\ n = 2 => v = b
        /\ n = 3 => v = b + 256 * c
        /\ n = 4 => v = (b + 256 * c) + 65536 * d
    BY SMT, <1>4, PlainArgument
  <2>2. b + 256 * c \in Int /\ (b + 256 * c) + 65536 * d \in Int
    BY SMT, <1>1
  <2>3. QED
    BY SMT, <1>1, <1>2, <2>1, <2>2
<1>5. QED
  BY <1>3, <1>4

\* An instruction is decoded from the opcode it assembles to.
LEMMA OpcodeBack ==
  ASSUME Result, NEW p \in DOMAIN disassembly, NEW di, di = disassembly[p]
  PROVE  EncodeOpcode(di.ins.mnemonic, di.ins.mode) = BytesAt(p)[1]
<1>1. Stands(p, di) /\ RomTypes
  BY ResultRow DEF Result, Inv, KnownInv
<1>2. PICK i \in 1 .. 256 :
        /\ BytesAt(p)[1] = i - 1
        /\ di.ins.mnemonic = DecodeMap[i][1]
        /\ di.ins.mode = FixedMode([mode |-> DecodeMap[i][2]], di.current.flags)
  <2>1. DecodedFrom(p, di)
    BY <1>1, DecodedRow
  <2>2. QED
    BY <2>1 DEF DecodedFrom
<1>3. Assembles(DecodeMap[i], di.ins.mnemonic, di.ins.mode)
  BY <1>2 DEF Assembles, FixedMode, SizedImmediate
<1>4. QED
  BY <1>2, <1>3, OneOpcode

\* What an instruction that stands is made of.
LEMMA StandingArgument ==
  ASSUME Result, NEW p \in DOMAIN disassembly, NEW ins, ins = disassembly[p].ins
  PROVE  /\ \A k \in 1 .. 4 : BytesAt(p)[k] \in 0 .. 255
         /\ ins.mode \in AddressingModes \ SizedImmediate
         /\ ins.mode \in {"rel8", "rel16"} /\ ins.mnemonic # "per" => IsLocalBranch(ins)
         /\ ins.arg = Argument(ins.mode, BytesAt(p))
         /\ ins.arg2 = IF ins.mode = "mov" THEN BytesAt(p)[2] ELSE NoValue
         /\ IsLegalCombination(ins.mnemonic, ins.mode)
         /\ TrueMnemonic(ins.mnemonic) = ins.mnemonic /\ Prefix(ins.mnemonic) = << >>
<1> PICK di : di = disassembly[p]
  OBVIOUS
<1>1. Stands(p, di) /\ RomTypes /\ KnownAt(p, di) /\ Sound(di) /\ ins.mnemonic \notin {"add", "sub"}
  BY ResultRow DEF Result, Inv, KnownInv
<1>2. IsLegalCombination(ins.mnemonic, ins.mode)
  BY <1>1 DEF Sound, CheckConsistency, EffectiveMnemonic
<1>3. TrueMnemonic(ins.mnemonic) = ins.mnemonic /\ Prefix(ins.mnemonic) = << >>
  BY <1>1 DEF TrueMnemonic, Prefix
<1>4. /\ \A k \in 1 .. 4 : BytesAt(p)[k] \in 0 .. 255
      /\ ins.arg = Argument(ins.mode, BytesAt(p))
      /\ ins.arg2 = IF ins.mode = "mov" THEN BytesAt(p)[2] ELSE NoValue
  <2>1. DecodedFrom(p, di)
    BY <1>1, DecodedRow
  <2>2. QED
    BY <2>1 DEF DecodedFrom
<1>5. QED
  BY <1>1, <1>2, <1>3, <1>4 DEF KnownAt, DecodedAt, IsLocalBranch

\* A row that is not a fold, read back: a name stands for the address that
\* the argument went to.
LEMMA RowReadBack ==
  ASSUME Result, listing = Listed, NEW a \in DOMAIN listing, ~IsFold(a),
         NEW ins, ins = disassembly[a].ins, ins.mnemonic # "per", NEW j, j = ReadBack(a)
  PROVE  /\ j.mnemonic = ins.mnemonic /\ j.mode = ins.mode /\ j.suffix = ins.suffix
         /\ Operand(j, a) = Following(BytesAt(a), InstructionLength(ins.mode))
         /\ CanEncode(j, a)
<1>1. /\ a \in DOMAIN disassembly /\ listing[a].ins = ins /\ listing[a].argName = ArgumentName(a)
  BY ListedRow
<1> PICK bytes : bytes = BytesAt(a)
  OBVIOUS
<1>2. /\ \A k \in 1 .. 4 : bytes[k] \in 0 .. 255
      /\ ins.mode \in AddressingModes \ SizedImmediate
      /\ ins.mode \in {"rel8", "rel16"} => IsLocalBranch(ins)
      /\ ins.arg = Argument(ins.mode, bytes)
      /\ ins.arg2 = IF ins.mode = "mov" THEN bytes[2] ELSE NoValue
      /\ IsLegalCombination(TrueMnemonic(ins.mnemonic), ins.mode)
  BY <1>1, StandingArgument
<1>3. a \in Int /\ 0 <= a /\ a <= 16777215 /\ Instruction(ins)
  BY SMT, <1>1, ResultRow DEF Shaped
<1>4. ASSUME NEW v, j = [ins EXCEPT !.arg = v]
      PROVE  /\ j.mnemonic = ins.mnemonic /\ j.mode = ins.mode /\ j.suffix = ins.suffix
             /\ j.arg = v /\ j.arg2 = ins.arg2
  BY <1>3, <1>4 DEF Instruction
<1>5. bytes[2] \in Int /\ bytes[3] \in Int
  BY SMT, <1>2
<1>6. CASE IsLocalBranch(ins)
  <2> PICK t : t = BranchTarget(a, ins)
    OBVIOUS
  <2>1. t \in Labelled /\ listing[a].argName = NameOf(t)
    BY <1>1, <1>6, ArgumentNamed
  <2>2. NameOf(t) # NoName /\ AddressOfName(NameOf(t)) = t
    BY <2>1, NamedRow
  <2>3. j = [ins EXCEPT !.arg = t]
    BY <1>1, <2>1, <2>2 DEF ReadBack
  <2>4. /\ j.mnemonic = ins.mnemonic /\ j.mode = ins.mode /\ j.suffix = ins.suffix /\ j.arg = t
    BY <1>4, <2>3
  <2>5. t = AddWrapped(AddWrapped(a, InstructionLength(ins.mode)), Argument(ins.mode, bytes))
    BY <1>2 DEF BranchTarget, NextPc
  <2>6. ins.mode \in {"rel8", "rel16"}
    BY <1>6 DEF IsLocalBranch
  <2>7. /\ Operand(j, a) = Following(bytes, InstructionLength(ins.mode))
        /\ Reaches(j, a) /\ j.arg \in Int
    BY SMT, <1>2, <1>3, <2>4, <2>5, <2>6, OperandBranch
  <2>8. CanEncode(j, a)
    BY <1>2, <2>4, <2>6, <2>7, NoValueAssumption DEF CanEncode
  <2>9. QED
    BY <2>4, <2>7, <2>8
<1>7. CASE ~IsLocalBranch(ins) /\ ArgumentName(a) # NoName
  <2> PICK t : t = FarTarget(a, ins)
    OBVIOUS
  <2>1. HasFarTarget(ins) /\ t \in Labelled /\ listing[a].argName = NameOf(t)
    BY <1>1, <1>7, ArgumentNamed
  <2>2. NameOf(t) # NoName /\ AddressOfName(NameOf(t)) = t
    BY <2>1, NamedRow
  <2>3. j = [ins EXCEPT !.arg = t]
    BY <1>1, <2>1, <2>2 DEF ReadBack
  <2>4. /\ j.mnemonic = ins.mnemonic /\ j.mode = ins.mode /\ j.suffix = ins.suffix /\ j.arg = t
        /\ j.arg2 = ins.arg2
    BY <1>4, <2>3
  <2>5. ins.mode \in {"dir_l", "dir_w"}
    BY <2>1 DEF HasFarTarget
  <2>6. t \in Int
    <3>1. t \in DOMAIN disassembly
      BY <2>1 DEF Labelled
    <3>2. QED
      BY <3>1, ResultRow
  <2>7. Operand(j, a) = Following(bytes, InstructionLength(ins.mode))
    <3>1. CASE ins.mode = "dir_l"
      <4>1. j.arg = Argument(ins.mode, bytes)
        BY <1>2, <2>4, <3>1 DEF FarTarget
      <4>2. QED
        BY <1>2, <2>4, <3>1, <4>1, OperandPlain
    <3>2. CASE ins.mode = "dir_w"
      <4>1. j.arg = Bank(a) * 65536 + Argument("dir_w", bytes)
        BY SMT, <1>2, <2>4, <3>2 DEF FarTarget
      <4>2. InstructionLength(ins.mode) = 3
        BY <3>2 DEF InstructionLength
      <4>3. Operand(j, a) = Following(bytes, 3)
        BY SMT, <1>2, <1>3, <2>4, <3>2, <4>1, OperandFar
      <4>4. QED
        BY <4>2, <4>3
    <3>3. QED
      BY <2>5, <3>1, <3>2
  <2>8. CanEncode(j, a)
    BY <1>2, <2>4, <2>5, <2>6, NoValueAssumption DEF CanEncode, SizedImmediate
  <2>9. QED
    BY <2>4, <2>7, <2>8
<1>8. CASE ~IsLocalBranch(ins) /\ ArgumentName(a) = NoName
  <2>1. j = ins
    BY <1>1, <1>8 DEF ReadBack
  <2>2. ins.mode \notin {"rel8", "rel16"}
    BY <1>2, <1>8
  <2>3. Operand(j, a) = Following(bytes, InstructionLength(ins.mode))
    BY <1>2, <2>1, <2>2, OperandPlain
  <2>4. ins.mode \notin {"imp", "acc"} => ins.arg \in Int
    BY <1>2, <2>2, PlainArgumentType
  <2>5. ins.mode = "mov" => ins.arg2 \in Int
    BY <1>2, <1>5
  <2>6. CanEncode(j, a)
    BY <1>2, <2>1, <2>2, <2>4, <2>5, NoValueAssumption DEF CanEncode
  <2>7. QED
    BY <2>1, <2>3, <2>6
<1>9. QED
  BY <1>6, <1>7, <1>8
LEMMA RowEncoded ==
  ASSUME Result, listing = Listed, NEW a \in DOMAIN listing, ~IsFold(a),
         disassembly[a].ins.mnemonic # "per", NEW j, j = ReadBack(a)
  PROVE  CanEncode(j, a) /\ Encode(j, a) = MemoryAt(a, InstructionSize(j))
<1> PICK ins, bytes : ins = disassembly[a].ins /\ bytes = BytesAt(a)
  OBVIOUS
<1>1. a \in DOMAIN disassembly
  BY ListedRow
<1>2. /\ j.mnemonic = ins.mnemonic /\ j.mode = ins.mode
      /\ Operand(j, a) = Following(bytes, InstructionLength(ins.mode))
      /\ CanEncode(j, a)
  BY RowReadBack
<1>3. /\ TrueMnemonic(ins.mnemonic) = ins.mnemonic /\ Prefix(ins.mnemonic) = << >>
      /\ \A k \in 1 .. 4 : bytes[k] \in 0 .. 255
  BY <1>1, StandingArgument
<1>4. EncodeOpcode(ins.mnemonic, ins.mode) = bytes[1]
  BY <1>1, OpcodeBack
<1>5. PICK n \in 1 .. 4 : n = InstructionLength(ins.mode) /\ InstructionSize(j) = n
  BY <1>1, <1>2, ResultRow DEF InstructionSize
<1>6. Encode(j, a) = << >> \o <<bytes[1]>> \o Following(bytes, n)
  BY <1>2, <1>3, <1>4, <1>5 DEF Encode
<1>7. PICK prefix, m : prefix = << >> /\ m = 0
  OBVIOUS
<1>8. prefix \in Seq(Int) /\ m \in Nat /\ m = Len(prefix) /\ \A k \in 1 .. 4 : bytes[k] \in Int
  <2>1. \A k \in 1 .. 4 : bytes[k] \in Int
    <3>1. \A k \in 1 .. 4 : bytes[k] \in 0 .. 255
      BY <1>3
    <3>2. QED
      BY <3>1
  <2>2. QED
    BY <1>7, <2>1, EmptySeq
<1>9. prefix \o <<bytes[1]>> \o Following(bytes, n) = InOrder(prefix, m, bytes, n)
  BY <1>8, BytesInOrder
<1>10. InOrder(prefix, m, bytes, n) = MemoryAt(a, n)
  <2>1. m + n = n
    BY <1>7, SMT
  <2>2. ASSUME NEW k \in 1 .. n
        PROVE  ~(k <= m) /\ k - m = k /\ k \in 1 .. 4
    BY <1>7, SMT
  <2>3. \A k \in 1 .. 4 : bytes[k] = memory[AddWrapped(a, k - 1)]
    BY DEF BytesAt
  <2>4. QED
    BY <2>1, <2>2, <2>3 DEF MemoryAt, InOrder
<1>11. QED
  BY <1>2, <1>5, <1>6, <1>7, <1>9, <1>10

\* Folding hides a clc or a sec, which has one opcode.
LEMMA TableFolds ==
  \A i \in 1 .. 256 : /\ DecodeMap[i][1] = "clc" => i = 25
                      /\ DecodeMap[i][1] = "sec" => i = 57
BY SMTT(120) DEF DecodeMap

\* The instruction a fold is read back as, and what it is made of.
LEMMA FoldReadBack ==
  ASSUME Result, listing = Listed, NEW a \in DOMAIN listing, IsFold(a), ~FoldsAcrossBanks(a),
         NEW j, j = ReadBack(a)
  PROVE  \E b \in DOMAIN disassembly :
           /\ a \in DOMAIN disassembly /\ Folds(a, b) /\ b = AddWrapped(a, 1)
           /\ j.mode = disassembly[b].ins.mode /\ j.suffix = disassembly[b].ins.suffix
           /\ j.arg = disassembly[b].ins.arg /\ j.arg2 = disassembly[b].ins.arg2
           /\ \/ /\ j.mnemonic = "add" /\ disassembly[b].ins.mnemonic = "adc"
                 /\ memory[a] = 24
              \/ /\ j.mnemonic = "sub" /\ disassembly[b].ins.mnemonic = "sbc"
                 /\ memory[a] = 56
<1> PICK row : row = listing[a]
  OBVIOUS
<1>1. PICK b \in DOMAIN disassembly : FoldOf(a, b, row)
  BY ListedRow
<1>2. /\ Folds(a, b)
      /\ row.ins.mnemonic = Folded(disassembly[a].ins.mnemonic, disassembly[b].ins.mnemonic)
      /\ row.ins.mode = disassembly[b].ins.mode /\ row.ins.suffix = disassembly[b].ins.suffix
      /\ row.ins.arg = disassembly[b].ins.arg /\ row.ins.arg2 = disassembly[b].ins.arg2
  BY <1>1 DEF FoldOf
<1>3. a % 65536 # 65535
  BY SMT DEF FoldsAcrossBanks
<1>4. /\ a \in DOMAIN disassembly /\ b = AddWrapped(a, 1)
      /\ \/ /\ disassembly[a].ins.mnemonic = "clc" /\ disassembly[b].ins.mnemonic = "adc"
            /\ Folded("clc", "adc") = "add"
         \/ /\ disassembly[a].ins.mnemonic = "sec" /\ disassembly[b].ins.mnemonic = "sbc"
            /\ Folded("sec", "sbc") = "sub"
  BY SMT, <1>2, <1>3, FoldParts
<1>5. j = row.ins
  <2>1. disassembly[a].ins.mnemonic \in {"clc", "sec"}
    BY <1>4
  <2>2. ~IsLocalBranch(disassembly[a].ins) /\ ~HasFarTarget(disassembly[a].ins)
    BY <1>4, <2>1, ResultRow DEF HasFarTarget
  <2>3. ArgumentName(a) = NoName
    BY <1>4, <2>2, ArgumentNamed
  <2>4. QED
    BY <2>3, ListedRow DEF ReadBack
<1>6. PICK i \in 1 .. 256 : BytesAt(a)[1] = i - 1 /\ disassembly[a].ins.mnemonic = DecodeMap[i][1]
  <2>1. Stands(a, disassembly[a]) /\ RomTypes
    BY <1>4, ResultRow DEF Result, Inv, KnownInv
  <2>2. DecodedFrom(a, disassembly[a])
    BY <2>1, DecodedRow
  <2>3. QED
    BY <2>2 DEF DecodedFrom
<1>7. /\ disassembly[a].ins.mnemonic = "clc" => BytesAt(a)[1] = 24
      /\ disassembly[a].ins.mnemonic = "sec" => BytesAt(a)[1] = 56
  <2>1. 25 - 1 = 24 /\ 57 - 1 = 56
    BY SMT
  <2>2. /\ disassembly[a].ins.mnemonic = "clc" => i = 25
        /\ disassembly[a].ins.mnemonic = "sec" => i = 57
    BY <1>6, TableFolds
  <2>3. QED
    BY <1>6, <2>1, <2>2
<1>8. BytesAt(a)[1] = memory[a]
  <2>1. a \in Int /\ 0 <= a /\ a <= 16777215
    BY SMT, <1>4, ResultRow
  <2>2. AddWrapped(a, 0) = a
    BY SMT, <2>1, WrappedNext
  <2>3. BytesAt(a)[1] = memory[AddWrapped(a, 0)]
    BY DEF BytesAt
  <2>4. QED
    BY <2>2, <2>3
<1>9. QED
  BY <1>2, <1>4, <1>5, <1>7, <1>8

\* The bytes of a fold: the clc or sec and those of the adc or sbc.
FoldBytes(x, bytes, n) == [k \in 1 .. 1 + n |-> IF k <= 1 THEN x ELSE bytes[k - 1]]

LEMMA FoldMemory ==
  ASSUME NEW a \in Int, 0 <= a, a <= 16777215, NEW b, b = AddWrapped(a, 1),
         NEW x, x = memory[a], NEW n \in 1 .. 4
  PROVE  MemoryAt(a, 1 + n) = FoldBytes(x, BytesAt(b), n)
<1>0. ASSUME NEW i \in Int
      PROVE  AddWrapped(b, i) = AddWrapped(a, 1 + i)
  <2>1. AddUp(a, 1, i)
    BY SMT, WrappedAgain
  <2>2. QED
    BY SMT, <2>1 DEF AddUp
<1>1. ASSUME NEW k \in 1 .. 1 + n
      PROVE  memory[AddWrapped(a, k - 1)] = IF k <= 1 THEN x ELSE BytesAt(b)[k - 1]
  <2>1. CASE k <= 1
    <3>1. k - 1 = 0
      BY <2>1, SMT
    <3>2. AddWrapped(a, 0) = a
      BY SMT, WrappedNext
    <3>3. QED
      BY SMT, <2>1, <3>1, <3>2
  <2>2. CASE ~(k <= 1)
    <3> PICK i : i = k - 2
      BY SMT
    <3>1. i \in Int /\ 1 + i = k - 1 /\ k - 1 \in 1 .. 4 /\ (k - 1) - 1 = i
      BY SMT, <2>2
    <3>2. AddWrapped(b, i) = AddWrapped(a, 1 + i)
      BY SMT, <1>0, <3>1
    <3>3. BytesAt(b)[k - 1] = memory[AddWrapped(b, i)]
      BY SMT, <3>1 DEF BytesAt
    <3>4. QED
      BY SMT, <2>2, <3>1, <3>2, <3>3
  <2>3. QED
    BY <2>1, <2>2
<1>2. QED
  BY SMT, <1>1 DEF MemoryAt, FoldBytes

LEMMA FoldEncoded ==
  ASSUME Result, listing = Listed, NEW a \in DOMAIN listing, IsFold(a), ~FoldsAcrossBanks(a),
         NEW j, j = ReadBack(a)
  PROVE  CanEncode(j, a) /\ Encode(j, a) = MemoryAt(a, InstructionSize(j))
<1>1. PICK b \in DOMAIN disassembly :
        /\ a \in DOMAIN disassembly /\ b = AddWrapped(a, 1)
        /\ j.mode = disassembly[b].ins.mode
        /\ j.arg = disassembly[b].ins.arg /\ j.arg2 = disassembly[b].ins.arg2
        /\ \/ j.mnemonic = "add" /\ disassembly[b].ins.mnemonic = "adc" /\ memory[a] = 24
           \/ j.mnemonic = "sub" /\ disassembly[b].ins.mnemonic = "sbc" /\ memory[a] = 56
  BY FoldReadBack
<1> PICK ins, bytes, x : ins = disassembly[b].ins /\ bytes = BytesAt(b) /\ x = memory[a]
  OBVIOUS
<1>2. /\ \A k \in 1 .. 4 : bytes[k] \in 0 .. 255
      /\ ins.mode \in AddressingModes \ SizedImmediate
      /\ ins.mode \in {"rel8", "rel16"} /\ ins.mnemonic # "per" => IsLocalBranch(ins)
      /\ ins.arg = Argument(ins.mode, bytes)
      /\ ins.arg2 = IF ins.mode = "mov" THEN bytes[2] ELSE NoValue
      /\ IsLegalCombination(ins.mnemonic, ins.mode)
  BY StandingArgument
<1>3. /\ ins.mnemonic \in {"adc", "sbc"} /\ TrueMnemonic(j.mnemonic) = ins.mnemonic
      /\ Prefix(j.mnemonic) = <<x>> /\ x \in Int
  BY <1>1 DEF TrueMnemonic, Prefix
<1>4. ins.mode \notin {"rel8", "rel16"}
  BY <1>2, <1>3, ResultRow
<1>5. PICK n \in 1 .. 4 : n = InstructionLength(ins.mode)
  BY ResultRow
<1>6. InstructionSize(j) = 1 + n
  BY <1>1, <1>5, SMT DEF InstructionSize
<1>7. Operand(j, a) = Following(bytes, n)
  BY <1>1, <1>2, <1>4, <1>5, OperandPlain
<1>8. EncodeOpcode(ins.mnemonic, ins.mode) = bytes[1]
  BY OpcodeBack
<1>9. CanEncode(j, a)
  <2>1. ins.mode \notin {"imp", "acc"} => ins.arg \in Int
    BY <1>2, <1>4, PlainArgumentType
  <2>2. ins.mode = "mov" => ins.arg2 \in Int
    <3>1. bytes[2] \in Int
      BY SMT, <1>2
    <3>2. QED
      BY <1>2, <3>1
  <2>3. QED
    BY <1>1, <1>2, <1>3, <1>4, <2>1, <2>2, NoValueAssumption DEF CanEncode
<1>10. PICK prefix, m : prefix = <<x>> /\ m = 1
  OBVIOUS
<1>11. /\ prefix \in Seq(Int) /\ m \in Nat /\ m = Len(prefix) /\ prefix[1] = x
       /\ \A k \in 1 .. 4 : bytes[k] \in Int
  <2>1. \A k \in 1 .. 4 : bytes[k] \in Int
    BY <1>2, SMT
  <2>2. QED
    BY <1>3, <1>10, <2>1
<1>12. Encode(j, a) = prefix \o <<bytes[1]>> \o Following(bytes, n)
  BY <1>1, <1>3, <1>7, <1>8, <1>10 DEF Encode
<1>13. prefix \o <<bytes[1]>> \o Following(bytes, n) = InOrder(prefix, m, bytes, n)
  BY <1>11, BytesInOrder
<1>14. InOrder(prefix, m, bytes, n) = MemoryAt(a, 1 + n)
  <2>1. a \in Int /\ 0 <= a /\ a <= 16777215
    BY SMT, <1>1, ResultRow
  <2>2. MemoryAt(a, 1 + n) = FoldBytes(x, bytes, n)
    BY SMT, <1>1, <2>1, FoldMemory
  <2>3. \A k \in 1 .. 1 + n : k <= 1 => k = 1
    BY SMT
  <2>4. QED
    BY <1>10, <1>11, <2>2, <2>3 DEF InOrder, FoldBytes
<1>15. QED
  BY <1>6, <1>9, <1>12, <1>13, <1>14

-----------------------------------------------------------------------------
(* A row passes the checks of the assembler *)

\* sbc has the addressing modes of adc, 128 opcodes on.
LEMMA TableSubtract ==
  /\ DOMAIN DecodeMap = 1 .. 256
  /\ DecodeMap[106] = <<"adc", "imm_fm">> /\ DecodeMap[234] = <<"sbc", "imm_fm">>
BY SMTT(120) DEF DecodeMap

LEMMA TableSbc ==
  \A i \in 1 .. 256 : DecodeMap[i][1] = "sbc" =>
    /\ i - 128 \in 1 .. 256
    /\ DecodeMap[i - 128] = <<"adc", DecodeMap[i][2]>>
BY SMTT(120) DEF DecodeMap

LEMMA SbcModes ==
  /\ \A mode : IsLegalCombination("sbc", mode) => IsLegalCombination("adc", mode)
  /\ ImmediateArgumentUsesMBit("adc") /\ ImmediateArgumentUsesMBit("sbc")
<1> DEFINE rows == {DecodeMap[i] : i \in DOMAIN DecodeMap}
<1>1. DOMAIN DecodeMap = 1 .. 256
  BY TableSubtract
<1>2. \A row \in rows : row[1] = "sbc" => <<"adc", row[2]>> \in rows
  <2>1. TAKE row \in rows
  <2>2. PICK i \in 1 .. 256 : row = DecodeMap[i]
    BY <1>1
  <2>3. row[1] = "sbc" => i - 128 \in 1 .. 256 /\ DecodeMap[i - 128] = <<"adc", row[2]>>
    BY <2>2, TableSbc
  <2>4. QED
    BY <1>1, <2>3
<1>3. EncodeKeys = rows \cup {<<row[1], mode>> : row \in {r \in rows : r[2] \in SizedImmediate},
                                               mode \in {"imm_b", "imm_w"}}
  BY DEF EncodeKeys
<1>4. DecodeMap[106] \in rows /\ DecodeMap[234] \in rows
  <2>1. 106 \in 1 .. 256 /\ 234 \in 1 .. 256
    BY SMT
  <2>2. QED
    BY <1>1, <2>1
<1> HIDE DEF rows
<1>5. <<"adc", "imm_fm">> \in EncodeKeys /\ <<"sbc", "imm_fm">> \in EncodeKeys
  BY <1>3, <1>4, TableSubtract
<1>6. ASSUME NEW mode, <<"sbc", mode>> \in EncodeKeys
      PROVE  <<"adc", mode>> \in EncodeKeys
  <2>1. CASE <<"sbc", mode>> \in rows
    <3>1. <<"adc", <<"sbc", mode>>[2]>> \in rows
      BY <1>2, <2>1
    <3>2. QED
      BY <1>3, <3>1
  <2>2. CASE \E r \in rows : r[2] \in SizedImmediate /\ mode \in {"imm_b", "imm_w"} /\ r[1] = "sbc"
    <3>1. PICK r \in rows : r[2] \in SizedImmediate /\ mode \in {"imm_b", "imm_w"} /\ r[1] = "sbc"
      BY <2>2
    <3>2. PICK s \in rows : s = <<"adc", r[2]>>
      BY <1>2, <3>1
    <3>3. s[1] = "adc" /\ s[2] \in SizedImmediate
      BY <3>1, <3>2
    <3>4. <<s[1], mode>> \in EncodeKeys
      BY <1>3, <3>1, <3>3
    <3>5. QED
      BY <3>3, <3>4
  <2>3. QED
    BY <1>3, <1>6, <2>1, <2>2
<1>7. QED
  BY <1>5, <1>6 DEF IsLegalCombination, ImmediateArgumentUsesMBit

LEMMA RowConsistent ==
  ASSUME Result, listing = Listed, NEW a \in DOMAIN listing, ~IsFold(a),
         disassembly[a].ins.mnemonic # "per", NEW j, j = ReadBack(a)
  PROVE  CheckConsistency(j, listing[a].current.flags)
<1> PICK ins : ins = disassembly[a].ins
  OBVIOUS
<1>1. a \in DOMAIN disassembly /\ listing[a].current = disassembly[a].current
  BY ListedRow
<1>2. j.mnemonic = ins.mnemonic /\ j.mode = ins.mode /\ j.suffix = ins.suffix
  BY RowReadBack
<1>3. CheckConsistency(ins, disassembly[a].current.flags)
  BY <1>1 DEF Result, SoundInv, Sound
<1>4. QED
  BY <1>1, <1>2, <1>3, CheckedAlike

\* add and sub are checked as the adc or sbc was, in the width it was reached in.
LEMMA FoldConsistent ==
  ASSUME Result, listing = Listed, NEW a \in DOMAIN listing, IsFold(a), ~FoldsAcrossBanks(a),
         ~JoinsWidths(a), NEW j, j = ReadBack(a)
  PROVE  CheckConsistency(j, listing[a].current.flags)
<1>1. PICK b \in DOMAIN disassembly :
        /\ Folds(a, b) /\ j.mode = disassembly[b].ins.mode /\ j.suffix = disassembly[b].ins.suffix
        /\ \/ j.mnemonic = "add" /\ disassembly[b].ins.mnemonic = "adc"
           \/ j.mnemonic = "sub" /\ disassembly[b].ins.mnemonic = "sbc"
  BY FoldReadBack
<1> PICK ins, f, g : /\ ins = disassembly[b].ins /\ f = disassembly[b].current.flags
                     /\ g = listing[a].current.flags
  OBVIOUS
<1>2. f.m = g.m
  BY <1>1 DEF JoinsWidths, Folds
<1>3. CheckConsistency(ins, f)
  BY <1>1 DEF Result, SoundInv, Sound
<1>4. ins.mode \notin SizedImmediate
  BY StandingArgument
<1>5. /\ EffectiveMnemonic(ins.mnemonic) = ins.mnemonic /\ EffectiveMnemonic(j.mnemonic) = "adc"
      /\ FlagControllingInstructionSize(ins.mnemonic) = "m"
      /\ FlagControllingInstructionSize("adc") = "m"
  <2>1. /\ FlagControllingInstructionSize("adc") = "m"
        /\ FlagControllingInstructionSize("sbc") = "m"
    BY DEF FlagControllingInstructionSize, UsesMFlag, UsesXFlag
  <2>2. QED
    BY <1>1, <2>1 DEF EffectiveMnemonic
<1>6. IsLegalCombination("adc", j.mode)
  BY <1>1, <1>3, <1>5, SbcModes DEF CheckConsistency
<1>7. SuffixAgrees(j, g)
  BY <1>1, <1>2, <1>3, <1>5 DEF CheckConsistency, SuffixAgrees, WidthBit
<1>8. ImmediateAgrees(j, g)
  <2>1. ImmediateArgumentUsesMBit(ins.mnemonic) /\ ImmediateArgumentUsesMBit(j.mnemonic)
    BY <1>1, SbcModes DEF ImmediateArgumentUsesMBit
  <2>2. ImmediateAgrees(ins, f)
    BY <1>3 DEF CheckConsistency
  <2>3. QED
    BY <1>1, <1>2, <1>4, <2>1, <2>2 DEF ImmediateAgrees, SizedImmediate
<1>9. QED
  BY <1>5, <1>6, <1>7, <1>8 DEF CheckConsistency

-----------------------------------------------------------------------------
(* The carry at the entry points.  A call of the disassembled code leaves    *)
(* it unknown, whichever pass it is followed in, so it is known at an entry  *)
(* point only where a first seed says so.                                    *)

Unknowing(targets) == \A t \in DOMAIN targets : ~CarryKnown(targets[t])

Weak(es) == ~CarryKnown(es.flags)

SeedsUnknowing ==
  /\ \A a \in DOMAIN seeds : CarryKnown(seeds[a]) => SeededWithCarry(a)
  /\ Unknowing(newSeeds) /\ Unknowing(farTargets)

\* A call for a has returned, and no later one has made the carry known.
SettledAt(a) ==
  /\ a \in DOMAIN disassembly /\ Weak(disassembly[a].current)
  /\ a \in DOMAIN newDisassembly => Weak(newDisassembly[a].current)

\* The running call, or the one an assertion stopped, is for a.
RunningAt(a) ==
  /\ status \in {"call", "crash"} /\ IsLowest(a, todo)
  /\ \/ a \in DOMAIN newDisassembly /\ Weak(newDisassembly[a].current)
     \/ DOMAIN decodeStack = {a} /\ Weak(decodeStack[a])

EntriesWeak ==
  \A a \in entryPoints \ failed : SeededWithCarry(a) \/ SettledAt(a) \/ RunningAt(a)

EntryInv == SeedsUnknowing /\ EntriesWeak

\* A join knows the carry only where both of its states do.
LEMMA WeakJoins ==
  /\ \A f, g : CarryKnown(MergeFlags(f, g)) => CarryKnown(f) /\ CarryKnown(g)
  /\ \A x, y : Weak(x) \/ Weak(y) => Weak(Merge(x, y))
<1>1. \A f, g : CarryKnown(MergeFlags(f, g)) => CarryKnown(f) /\ CarryKnown(g)
  BY DEF CarryKnown, MergeFlags, MakeFlags, MergeBit
<1>2. \A x, y : Merge(x, y).flags = MergeFlags(x.flags, y.flags)
  BY DEF Merge
<1>3. QED
  BY <1>1, <1>2 DEF Weak

\* A far jump or call leaves the carry unknown, also where it yields.
LEMMA FarUnknowing ==
  ASSUME NEW ins, HasFarTarget(ins), InstructionTypes(ins), NEW es \in ExecutionStates,
         Execute(ins, es).result = "ok"
  PROVE  Weak(Execute(ins, es).state)
<1>1. ins.mnemonic \in {"jmp", "jsl", "jsr"}
  BY DEF HasFarTarget
<1>2. Transfer(ins, es) = Call(es, ins)
  BY <1>1 DEF Transfer, WipesAccumulatorAndCarry
<1>3. PICK f \in FlagStates : Call(es, ins) = [es EXCEPT !.flags = SetCBit(f, "unknown")]
  <2>1. es.flags \in FlagStates
    BY StateFields
  <2>2. ins.ret.kind = "yields" => ins.ret.flags \in FlagStates
    BY DEF InstructionTypes, ReturnConventions
  <2>3. QED
    BY <2>1, <2>2 DEF Call
<1>4. Call(es, ins).flags.c = "unknown"
  BY <1>3 DEF SetCBit, FlagStates, ExecutionStates
<1>5. Execute(ins, es).state = Transfer(ins, es)
  BY <1>1 DEF Execute
<1>6. QED
  BY <1>2, <1>4, <1>5 DEF Weak, CarryKnown

\* Maps of flags stay unknowing as targets join them and as they are combined.
LEMMA UnknowingMaps ==
  /\ \A targets, a, f : Unknowing(targets) /\ ~CarryKnown(f) => Unknowing(JoinFlags(targets, a, f))
  /\ \A targets, new : Unknowing(targets) /\ Unknowing(new) => Unknowing(CombineStates(targets, new))
<1>1. ASSUME NEW targets, NEW a, NEW f, Unknowing(targets), ~CarryKnown(f)
      PROVE  Unknowing(JoinFlags(targets, a, f))
  <2>1. PICK v : JoinFlags(targets, a, f) = With(targets, a, v) /\ ~CarryKnown(v)
    BY <1>1, WeakJoins DEF JoinFlags, Unknowing
  <2>2. \A t : t \in DOMAIN With(targets, a, v) =>
          (t = a /\ With(targets, a, v)[t] = v)
            \/ (t \in DOMAIN targets /\ With(targets, a, v)[t] = targets[t])
    BY DEF With
  <2>3. QED
    BY <1>1, <2>1, <2>2 DEF Unknowing
<1>2. ASSUME NEW targets, NEW new, Unknowing(targets), Unknowing(new),
             NEW a \in DOMAIN targets \cup DOMAIN new
      PROVE  ~CarryKnown(CombineStates(targets, new)[a])
  <2>1. CASE a \in DOMAIN targets \cap DOMAIN new
    <3>1. CombineStates(targets, new)[a] = MergeFlags(targets[a], new[a])
      BY <2>1 DEF CombineStates
    <3>2. QED
      BY <1>2, <2>1, <3>1, WeakJoins DEF Unknowing
  <2>2. CASE a \in DOMAIN targets \ DOMAIN new
    BY <1>2, <2>2 DEF CombineStates, Unknowing
  <2>3. CASE a \in DOMAIN new \ DOMAIN targets
    BY <1>2, <2>3 DEF CombineStates, Unknowing
  <2>4. QED
    BY <1>2, <2>1, <2>2, <2>3
<1>3. \A targets, new : DOMAIN CombineStates(targets, new) = DOMAIN targets \cup DOMAIN new
  BY DEF CombineStates
<1>4. QED
  BY <1>1, <1>2, <1>3 DEF Unknowing

LEMMA SeededKept == ASSUME memory' = memory PROVE \A a : SeededWithCarry(a)' <=> SeededWithCarry(a)
BY DEF SeededWithCarry

LEMMA EntryInit == Init => EntryInv
<1> SUFFICES ASSUME Init PROVE EntryInv
  OBVIOUS
<1>1. PICK task \in Tasks : memory = task.memory /\ seeds = task.seeds
  BY DEF Init
<1>2. \A a \in DOMAIN seeds : CarryKnown(seeds[a]) => SeededWithCarry(a)
  BY <1>1 DEF SeededWithCarry
<1>3. Unknowing(newSeeds) /\ Unknowing(farTargets)
  BY EmptyMap DEF Init, Unknowing
<1>4. QED
  BY <1>2, <1>3 DEF Init, EntryInv, SeedsUnknowing, EntriesWeak

\* A turn at pc leaves the carry unknown there where it was.
LEMMA EntryTurn ==
  ASSUME EntriesWeak, UNCHANGED <<rom, disassembly, entryPoints, driver, status>>,
         NEW pc \in DOMAIN decodeStack, NEW d, newDisassembly' = With(newDisassembly, pc, d),
         Weak(decodeStack[pc]) \/ (Seen(pc) /\ Weak(Existing(pc).current)) => Weak(d.current)
  PROVE  EntriesWeak'
<1>1. /\ DOMAIN newDisassembly' = DOMAIN newDisassembly \cup {pc} /\ newDisassembly'[pc] = d
      /\ \A b \in DOMAIN newDisassembly \ {pc} : newDisassembly'[b] = newDisassembly[b]
  BY DEF With
<1> SUFFICES ASSUME NEW a \in entryPoints \ failed
             PROVE  (SeededWithCarry(a) \/ SettledAt(a) \/ RunningAt(a))'
  BY DEF EntriesWeak, driver
<1>2. ASSUME a \in DOMAIN newDisassembly, Weak(newDisassembly[a].current)
      PROVE  a \in DOMAIN newDisassembly' /\ Weak(newDisassembly'[a].current)
  BY <1>1, <1>2 DEF Seen, Existing
<1>3. ASSUME SettledAt(a)
      PROVE  SettledAt(a)'
  <2>1. a \in DOMAIN disassembly' /\ Weak(disassembly'[a].current)
    BY <1>3 DEF SettledAt
  <2>2. ASSUME a \in DOMAIN newDisassembly'
        PROVE  Weak(newDisassembly'[a].current)
    <3>1. CASE a \in DOMAIN newDisassembly
      BY <1>2, <1>3, <3>1 DEF SettledAt
    <3>2. CASE a = pc /\ a \notin DOMAIN newDisassembly
      BY <1>1, <1>3, <3>2 DEF SettledAt, Seen, Existing
    <3>3. QED
      BY <1>1, <2>2, <3>1, <3>2
  <2>3. QED
    BY <2>1, <2>2 DEF SettledAt, Weak
<1>4. ASSUME RunningAt(a)
      PROVE  RunningAt(a)'
  <2>1. a \in DOMAIN newDisassembly' /\ Weak(newDisassembly'[a].current)
    <3>1. CASE a \in DOMAIN newDisassembly /\ Weak(newDisassembly[a].current)
      BY <1>2, <3>1
    <3>2. CASE DOMAIN decodeStack = {a} /\ Weak(decodeStack[a])
      BY <1>1, <3>2
    <3>3. QED
      BY <1>4, <3>1, <3>2 DEF RunningAt
  <2>2. status' \in {"call", "crash"} /\ IsLowest(a, todo')
    BY <1>4 DEF RunningAt, driver, IsLowest
  <2>3. QED
    BY <2>1, <2>2 DEF RunningAt, Weak, IsLowest
<1>5. QED
  BY <1>3, <1>4, SeededKept DEF EntriesWeak, rom

LEMMA EntryDiscover ==
  ASSUME KnownInv, EntryInv, NEW pc \in DOMAIN decodeStack, Discover(pc)
  PROVE  EntryInv'
<1> DEFINE ins == Decode(pc, decodeStack[pc].flags)
           next == Executed(pc).state
           called == [ins EXCEPT !.ret = ReturnOf(pc, ins)]
           d == [ins |-> called, current |-> decodeStack[pc], next |-> ApplyReturn(called.ret, next),
                 label |-> NoLabel,
                 to |-> IF IsLocalBranch(ins) THEN Label(BranchTarget(pc, ins)) ELSE NoLabel]
<1>1. /\ ~Seen(pc) /\ Executed(pc).result = "ok"
      /\ UNCHANGED <<rom, disassembly, entryPoints, driver, status>>
      /\ farTargets' = AfterFarBranch(pc, ins, next)
      /\ newDisassembly' = With(newDisassembly, pc, d)
  BY DEF Discover
<1>2. d.current = decodeStack[pc]
  OBVIOUS
<1> HIDE DEF d, ins
<1>3. EntriesWeak'
  BY <1>1, <1>2, EntryTurn DEF EntryInv
<1>4. Executed(pc) = Execute(ins, Combined(pc))
  BY <1>1 DEF Executed, Combined, ins
<1>5. Combined(pc) \in ExecutionStates /\ InstructionTypes(ins)
  BY <1>1, ExecutedType DEF DecodedAt, ins
<1>6. HasFarTarget(ins) => ~CarryKnown(next.flags)
  BY <1>1, <1>4, <1>5, FarUnknowing DEF Weak
<1>7. Unknowing(farTargets')
  BY <1>1, <1>6, UnknowingMaps DEF AfterFarBranch, EntryInv, SeedsUnknowing
<1>8. SeedsUnknowing'
  BY <1>1, <1>7, SeededKept DEF EntryInv, SeedsUnknowing, driver, rom, Unknowing
<1>9. QED
  BY <1>3, <1>8 DEF EntryInv

LEMMA EntryConfirm ==
  ASSUME EntryInv, NEW pc \in DOMAIN decodeStack, Confirm(pc)
  PROVE  EntryInv'
<1>1. /\ Seen(pc) /\ Combined(pc) = Existing(pc).current
      /\ UNCHANGED <<rom, disassembly, entryPoints, farTargets, driver, status>>
      /\ newDisassembly' = With(newDisassembly, pc, Existing(pc))
  BY DEF Confirm, own
<1>2. Weak(decodeStack[pc]) => Weak(Existing(pc).current)
  BY <1>1, WeakJoins DEF Combined
<1>3. EntriesWeak'
  BY <1>1, <1>2, EntryTurn DEF EntryInv
<1>4. SeedsUnknowing'
  BY <1>1, SeededKept DEF EntryInv, SeedsUnknowing, driver, rom, Unknowing
<1>5. QED
  BY <1>3, <1>4 DEF EntryInv

LEMMA EntryWeaken ==
  ASSUME LabelInv, KnownInv, EntryInv, NEW pc \in DOMAIN decodeStack, Weaken(pc)
  PROVE  EntryInv'
<1> PICK old, c, next : old = Existing(pc) /\ c = Combined(pc) /\ next = Executed(pc).state
  OBVIOUS
<1> DEFINE d == [old EXCEPT !.current = c, !.next = next]
<1>1. /\ Seen(pc) /\ Executed(pc).result = "ok"
      /\ UNCHANGED <<rom, disassembly, entryPoints, driver, status>>
      /\ newDisassembly' = With(newDisassembly, pc, d)
      /\ farTargets' = AfterFarBranch(pc, old.ins, next)
  BY DEF Weaken, own
<1>2. d.current = c
  <2>1. Shaped(old)
    BY <1>1 DEF Seen, Existing, LabelInv, Shapes
  <2>2. QED
    BY <2>1 DEF Shaped
<1> HIDE DEF d
<1>3. Weak(decodeStack[pc]) \/ Weak(old.current) => Weak(c)
  BY <1>1, WeakJoins DEF Combined
<1>4. EntriesWeak'
  BY <1>1, <1>2, <1>3, EntryTurn DEF EntryInv
<1>5. Executed(pc) = Execute(old.ins, c)
  BY <1>1 DEF Executed
<1>6. c \in ExecutionStates /\ InstructionTypes(old.ins)
  BY <1>1, ExecutedType DEF KnownAt, DecodedAt
<1>7. HasFarTarget(old.ins) => ~CarryKnown(next.flags)
  BY <1>1, <1>5, <1>6, FarUnknowing DEF Weak
<1>8. Unknowing(farTargets')
  BY <1>1, <1>7, UnknowingMaps DEF AfterFarBranch, EntryInv, SeedsUnknowing
<1>9. SeedsUnknowing'
  BY <1>1, <1>8, SeededKept DEF EntryInv, SeedsUnknowing, driver, rom, Unknowing
<1>10. QED
  BY <1>4, <1>9 DEF EntryInv

\* A call is begun for an address whose carry is not known, or where the
\* first seeds say that it is.
LEMMA EntryBegin ==
  ASSUME KnownInv, EntryInv, DriverInv, NEW a \in todo, Begin(a)
  PROVE  EntryInv'
<1>1. /\ UNCHANGED <<rom, disassembly, driver>> /\ status' = "call" /\ IsLowest(a, todo)
      /\ newDisassembly' = Empty /\ farTargets' = Empty /\ entryPoints' = entryPoints \cup {a}
      /\ decodeStack' = With(Empty, a, IncomingState(seeds[a])) /\ status = "driver"
  BY DEF Begin
<1>2. SeededWithCarry(a) \/ ~CarryKnown(seeds[a])
  BY DEF EntryInv, SeedsUnknowing, DriverInv
<1>3. ASSUME ~CarryKnown(seeds[a])
      PROVE  RunningAt(a)'
  <2>1. DOMAIN decodeStack' = {a} /\ decodeStack'[a] = IncomingState(seeds[a])
    BY <1>1, EmptyMap DEF With
  <2>2. ~CarryKnown(SetIncoming(seeds[a]))
    <3>1. "c" \in DOMAIN seeds[a]
      BY DEF DriverInv, KnownInv, Carried, FlagsOf, FlagStates
    <3>2. SetIncoming(seeds[a]).c \in {seeds[a].c, "original"}
      BY <3>1 DEF SetIncoming
    <3>3. QED
      BY <1>3, <3>2 DEF CarryKnown
  <2>3. Weak(decodeStack'[a])
    BY <2>1, <2>2 DEF Weak, IncomingState
  <2>4. status' \in {"call", "crash"} /\ IsLowest(a, todo')
    BY <1>1 DEF driver
  <2>5. QED
    BY <2>1, <2>3, <2>4 DEF RunningAt, Weak, IsLowest
<1>4. ASSUME NEW b, SettledAt(b)
      PROVE  SettledAt(b)'
  BY <1>1, <1>4, EmptyMap DEF SettledAt, Weak
<1>5. \A b : ~RunningAt(b)
  BY <1>1 DEF RunningAt
<1>6. EntriesWeak'
  BY <1>1, <1>2, <1>3, <1>4, <1>5, SeededKept DEF EntriesWeak, EntryInv, rom, driver
<1>7. SeedsUnknowing'
  BY <1>1, EmptyMap, SeededKept DEF SeedsUnknowing, EntryInv, Unknowing, rom, driver
<1>8. QED
  BY <1>6, <1>7 DEF EntryInv

LEMMA EntryFail ==
  ASSUME EntryInv, todo \subseteq Addresses, NEW pc \in DOMAIN decodeStack, Fail(pc)
  PROVE  EntryInv'
<1>1. PICK a \in todo : IsLowest(a, todo) /\ failed' = failed \cup {a}
  BY DEF Fail
<1>2. /\ UNCHANGED <<rom, disassembly, entryPoints, seeds, newSeeds>>
      /\ newDisassembly' = Empty /\ farTargets' = Empty
  BY DEF Fail, own
<1>3. \A b : RunningAt(b) => b = a
  BY <1>1, LowestIsOne DEF RunningAt
<1>4. ASSUME NEW b, SettledAt(b)
      PROVE  SettledAt(b)'
  BY <1>2, <1>4, EmptyMap DEF SettledAt, Weak
<1>5. EntriesWeak'
  BY <1>1, <1>2, <1>3, <1>4, SeededKept DEF EntriesWeak, EntryInv, rom
<1>6. SeedsUnknowing'
  BY <1>2, EmptyMap, SeededKept DEF SeedsUnknowing, EntryInv, Unknowing, rom
<1>7. QED
  BY <1>5, <1>6 DEF EntryInv

LEMMA EntryReturn == ASSUME LabelInv, EntryInv, Return PROVE EntryInv'
<1>1. /\ UNCHANGED <<rom, entryPoints, seeds, failed>> /\ DOMAIN decodeStack = {}
      /\ newDisassembly' = Empty /\ farTargets' = Empty
      /\ newSeeds' = CombineStates(newSeeds, farTargets)
      /\ DOMAIN disassembly' = DOMAIN disassembly \cup DOMAIN newDisassembly
  BY DEF Return
<1>2. ASSUME NEW a, Seen(a), Weak(Existing(a).current)
      PROVE  SettledAt(a)'
  <2>1. a \in DOMAIN disassembly' /\ disassembly'[a].current = Existing(a).current
    BY <1>1, <1>2, ReturnKeeps DEF Seen
  <2>2. QED
    BY <1>1, <1>2, <2>1, EmptyMap DEF SettledAt, Weak
<1>3. \A a : SettledAt(a) \/ RunningAt(a) => Seen(a) /\ Weak(Existing(a).current)
  BY <1>1 DEF SettledAt, RunningAt, Seen, Existing
<1>4. EntriesWeak'
  BY <1>1, <1>2, <1>3, SeededKept DEF EntriesWeak, EntryInv, rom
<1>5. Unknowing(newSeeds') /\ Unknowing(farTargets')
  BY <1>1, EmptyMap, UnknowingMaps DEF EntryInv, SeedsUnknowing, Unknowing
<1>6. SeedsUnknowing'
  BY <1>1, <1>5, SeededKept DEF SeedsUnknowing, EntryInv, Unknowing, rom
<1>7. QED
  BY <1>4, <1>6 DEF EntryInv

\* Steps between the calls, and those that end the program.
LEMMA EntryOther ==
  ASSUME EntryInv, DriverInv,
         \/ \E a \in todo : SkipAssembled(a)
         \/ EndPass \/ EndDriver \/ Finished \/ UNCHANGED vars
         \/ \E pc \in DOMAIN decodeStack : Crash(pc)
  PROVE  EntryInv'
<1>1. UNCHANGED <<rom, own, call, failed>>
  BY DEF SkipAssembled, EndPass, EndDriver, Finished, Crash, IsNext, vars, driver
<1>2. \A a : SettledAt(a)' <=> SettledAt(a)
  BY <1>1 DEF own, call, SettledAt, Weak
<1>3. \A a : RunningAt(a) => RunningAt(a)'
  <2>1. (\A a : ~RunningAt(a)) \/ (todo' = todo /\ status' \in {status, "crash"})
    BY DEF RunningAt, SkipAssembled, EndPass, EndDriver, Finished, Crash, vars, driver
  <2>2. ASSUME todo' = todo, status' \in {status, "crash"}, NEW a, RunningAt(a)
        PROVE  RunningAt(a)'
    BY <1>1, <2>2 DEF RunningAt, Weak, IsLowest, call
  <2>3. QED
    BY <2>1, <2>2
<1>4. EntriesWeak'
  BY <1>1, <1>2, <1>3, SeededKept DEF EntriesWeak, EntryInv, rom, own
<1>5. UNCHANGED <<seeds, newSeeds>> \/ (seeds' = newSeeds /\ newSeeds' = Empty)
  BY DEF SkipAssembled, EndPass, EndDriver, Finished, Crash, vars, driver
<1>6. SeedsUnknowing'
  BY <1>1, <1>5, EmptyMap, SeededKept DEF SeedsUnknowing, EntryInv, Unknowing, rom, call
<1>7. QED
  BY <1>4, <1>6 DEF EntryInv

LEMMA EntryStep == ASSUME Inv, EntryInv, [Next]_vars PROVE EntryInv'
<1>0. LabelInv /\ KnownInv /\ DriverInv /\ todo \subseteq Addresses
  BY DEF Inv, DriverInv, KnownInv, Carried, FlagsOf
<1>1. CASE \E a \in todo : Begin(a)
  BY <1>0, <1>1, EntryBegin
<1>2. CASE \E pc \in DOMAIN decodeStack : Discover(pc) \/ Confirm(pc) \/ Weaken(pc) \/ Fail(pc)
  BY <1>0, <1>2, EntryDiscover, EntryConfirm, EntryWeaken, EntryFail
<1>3. CASE Return
  BY <1>0, <1>3, EntryReturn
<1>4. CASE \/ \E a \in todo : SkipAssembled(a)
           \/ EndPass \/ EndDriver \/ Finished \/ UNCHANGED vars
           \/ \E pc \in DOMAIN decodeStack : Crash(pc)
  BY <1>0, <1>4, EntryOther
<1>5. QED
  BY <1>1, <1>2, <1>3, <1>4 DEF Next

LEMMA EntryHolds == Spec => []EntryInv
<1>1. QED
  BY EntryInit, EntryStep, InvHolds, PTL DEF Spec

-----------------------------------------------------------------------------
(* The listing assembles *)

LEMMA ReassemblesWhenListed ==
  ASSUME Result, EntryInv, listing = Listed PROVE ListingReassembles
<1> SUFFICES ASSUME NEW a \in DOMAIN listing
             PROVE  LET row == listing[a]
                        ins == ReadBack(a)
                    IN  /\ row.argName # NoName =>
                             Cardinality({b \in DOMAIN listing : listing[b].name = row.argName}) = 1
                        /\ EntryLineParses(a) \/ a \in failed \/ SeededWithCarry(a)
                        /\ row.ins.mnemonic = "per" \/ FoldsAcrossBanks(a) \/
                             /\ JoinsWidths(a) \/ CheckConsistency(ins, row.current.flags)
                             /\ CanEncode(ins, a)
                             /\ Encode(ins, a) = MemoryAt(a, InstructionSize(ins))
  BY DEF ListingReassembles
<1> PICK row, ins, di : row = listing[a] /\ ins = ReadBack(a) /\ di = disassembly[a]
  OBVIOUS
<1>1. /\ a \in DOMAIN disassembly /\ row.current = di.current
      /\ row.isEntry = IsEntry(a) /\ row.argName = ArgumentName(a)
      /\ ~IsFold(a) => row.ins = di.ins
  BY ListedRow
<1>2. ASSUME row.argName # NoName
      PROVE  Cardinality({b \in DOMAIN listing : listing[b].name = row.argName}) = 1
  <2>1. PICK t \in Labelled : row.argName = NameOf(t)
    BY <1>1, <1>2, ArgumentNamed
  <2>2. QED
    BY <2>1, NamedRow
<1>3. EntryLineParses(a) \/ a \in failed \/ SeededWithCarry(a)
  <2> SUFFICES ASSUME IsEntry(a), a \notin failed, ~SeededWithCarry(a)
               PROVE  ~CarryKnown(row.current.flags)
    BY <1>1 DEF EntryLineParses
  <2>1. SettledAt(a)
    BY DEF IsEntry, EntryInv, EntriesWeak, RunningAt, Result
  <2>2. QED
    BY <1>1, <2>1 DEF SettledAt, Weak
<1>4. CASE row.ins.mnemonic # "per" /\ ~FoldsAcrossBanks(a)
  <2>1. ~IsFold(a) => di.ins.mnemonic # "per"
    BY <1>1, <1>4
  <2>2. CanEncode(ins, a) /\ Encode(ins, a) = MemoryAt(a, InstructionSize(ins))
    BY <1>4, <2>1, RowEncoded, FoldEncoded
  <2>3. JoinsWidths(a) \/ CheckConsistency(ins, row.current.flags)
    BY <1>4, <2>1, RowConsistent, FoldConsistent
  <2>4. QED
    BY <1>2, <1>3, <2>2, <2>3
<1>5. QED
  BY <1>2, <1>3, <1>4

\* The listing is a program for the ROM it was made from, whatever the ROM,
\* the seeds and the passes: the names it uses are each on one row, its .entry
\* lines parse, and every row is accepted by the assembler in the state it is
\* printed in and assembles to the bytes it came from.  A per, a fold across
\* banks, the width of a fold two paths join in, and the entry points of a
\* failed call or of a caller that knew the carry are exempt, as the property
\* says (Cleanup against CheckConsistency and Instruction::Assemble).
THEOREM ListingAlwaysReassembles == ListingSpec => []ListingReassembles
<1>1. /\ Inv /\ StandsInv /\ SoundInv /\ EveryPathCovered /\ LabelsResolve /\ EntryInv /\ ListingInv
      => ListingReassembles
  <2>1. SUFFICES ASSUME Inv, StandsInv, SoundInv, EveryPathCovered, LabelsResolve, EntryInv, ListingInv
                 PROVE  ListingReassembles
    OBVIOUS
  <2>2. CASE cleaned
    BY <2>1, <2>2, ReassemblesWhenListed DEF ListingInv, Result
  <2>3. CASE ~cleaned
    BY <2>1, <2>3, EmptyMap DEF ListingInv, ListingReassembles
  <2>4. QED
    BY <2>2, <2>3
<1>2. QED
  BY <1>1, InvHolds, StandsHolds, SoundHolds, EveryPathIsCovered, LabelsAlwaysResolve, EntryHolds,
     ListingHolds, ListingDisassembles, PTL

=============================================================================
