------------------------- MODULE InstructionsProofs -------------------------
(***************************************************************************)
(* Proofs about what static analysis computes with.  Every operation on    *)
(* flags, registers, stack values and execution states keeps its type, and *)
(* merging states gives a least upper bound; Execute and ExecuteBranch     *)
(* return execution states, accept only what is consistent with the flags, *)
(* and do the same once the width of an immediate argument is fixed.       *)
(***************************************************************************)
EXTENDS Instructions, Address, SequenceTheorems, TLAPS

-----------------------------------------------------------------------------
(* Addresses *)

LEMMA MaxAddressType == MaxAddress \in Int
BY SMT DEF MaxAddress

\* An address is an integer.
LEMMA AddressesAreIntegers ==
  /\ Addresses \subseteq RangeEnds
  /\ RangeEnds \subseteq Int
BY MaxAddressType DEF Addresses, RangeEnds

\* AddWrapped never leaves the 24-bit address space.
LEMMA AddWrappedType ==
  ASSUME NEW address \in Int, NEW offset \in Int
  PROVE  AddWrapped(address, offset) \in Addresses
<1> DEFINE bank == Bank(address) % 256
           rest == (address + offset) % 65536
           sum == bank * 65536 + rest
<1>1. bank \in Int /\ 0 <= bank /\ bank <= 255
  BY SMT DEF Bank
<1>2. rest \in Int /\ 0 <= rest /\ rest <= 65535
  BY SMT
<1> HIDE DEF bank, rest
<1>3. sum \in Int /\ 0 <= sum /\ sum <= MaxAddress
  BY SMT, <1>1, <1>2 DEF MaxAddress
<1> HIDE DEF sum
<1>4. sum \in Addresses
  BY <1>3, MaxAddressType DEF Addresses
<1>5. QED
  BY <1>4 DEF AddWrapped, sum, bank, rest

\* What it takes to be an address.
LEMMA AddressBounds == \A n \in Int : n \in Addresses <=> 0 <= n /\ n <= MaxAddress
BY MaxAddressType DEF Addresses

-----------------------------------------------------------------------------
(* Flags *)

LEMMA MergeBitType ==
  ASSUME NEW l \in BitStates, NEW r \in BitStates
  PROVE  MergeBit(l, r) \in BitStates
BY DEF MergeBit, BitStates

LEMMA ConstrainedType ==
  ASSUME NEW b \in BitStates, NEW e \in BitStates
  PROVE  ConstrainedForEBit(b, e) \in BitStates
BY DEF ConstrainedForEBit, BitStates

\* Constraining a bit twice is constraining it once.
LEMMA ConstrainedTwice ==
  ASSUME NEW b, NEW e
  PROVE  ConstrainedForEBit(ConstrainedForEBit(b, e), e) = ConstrainedForEBit(b, e)
BY DEF ConstrainedForEBit

LEMMA FlagFields ==
  ASSUME NEW f \in FlagStates
  PROVE  f.e \in BitStates /\ f.m \in BitStates /\ f.x \in BitStates /\ f.c \in BitStates
BY DEF FlagStates

\* The constructor returns flags that agree with their e bit.
LEMMA MakeFlagsType ==
  ASSUME NEW e \in BitStates, NEW m \in BitStates, NEW x \in BitStates, NEW c \in BitStates
  PROVE  MakeFlags(e, m, x, c) \in FlagStates
BY ConstrainedType, ConstrainedTwice DEF MakeFlags, FlagStates, Coherent

LEMMA MergeFlagsType ==
  ASSUME NEW l \in FlagStates, NEW r \in FlagStates
  PROVE  MergeFlags(l, r) \in FlagStates
<1>1. /\ MergeBit(l.e, r.e) \in BitStates
      /\ MergeBit(l.m, r.m) \in BitStates
      /\ MergeBit(l.x, r.x) \in BitStates
      /\ MergeBit(l.c, r.c) \in BitStates
  BY MergeBitType, FlagFields
<1>2. QED
  BY <1>1, MakeFlagsType DEF MergeFlags

LEMMA UnknownFlagsType == UnknownFlags \in FlagStates
BY MakeFlagsType DEF UnknownFlags, BitStates

LEMMA FlagSetterTypes ==
  ASSUME NEW f \in FlagStates, NEW b \in BitStates
  PROVE  /\ SetMBit(f, b) \in FlagStates
         /\ SetXBit(f, b) \in FlagStates
         /\ SetCBit(f, b) \in FlagStates
         /\ SetIncoming(f) \in FlagStates
         /\ ExchangeCE(f) \in FlagStates
<1>1. f.e \in BitStates /\ f.m \in BitStates /\ f.x \in BitStates /\ f.c \in BitStates
  BY FlagFields
<1>2. SetMBit(f, b) \in FlagStates /\ SetXBit(f, b) \in FlagStates /\ SetCBit(f, b) \in FlagStates
  BY <1>1, ConstrainedType, ConstrainedTwice DEF SetMBit, SetXBit, SetCBit, FlagStates, Coherent
<1>3. SetIncoming(f) \in FlagStates
  BY <1>1 DEF SetIncoming, FlagStates, BitStates, Coherent, ConstrainedForEBit
<1>4. ExchangeCE(f) \in FlagStates
  BY <1>1, MakeFlagsType DEF ExchangeCE
<1>5. QED
  BY <1>2, <1>3, <1>4

-----------------------------------------------------------------------------
(* Registers *)

LEMMA RegisterTypes ==
  /\ UnknownRegister \in RegisterValues
  /\ OriginalRegister \in RegisterValues
<1>1. MaxWord \in Nat
  BY DEF MaxWord
<1>2. 0 \in WordRange
  BY <1>1 DEF WordRange
<1>3. QED
  BY <1>2 DEF UnknownRegister, OriginalRegister, RegisterValues

LEMMA RegisterFields ==
  ASSUME NEW r \in RegisterValues
  PROVE  r.type \in {"unknown", "original", "value"} /\ r.value \in WordRange
BY SMT DEF RegisterValues

LEMMA WordParts ==
  ASSUME NEW v \in WordRange
  PROVE  v \in Int /\ v \div 256 \in Int
<1>1. MaxWord \in Nat
  BY DEF MaxWord
<1>2. QED
  BY <1>1 DEF WordRange

LEMMA WordModulus ==
  ASSUME NEW v \in Int, NEW modulus \in {256, 65536}
  PROVE  v % modulus \in WordRange
<1>1. modulus - 1 <= MaxWord /\ MaxWord \in Nat
  BY DEF MaxWord
<1>2. v % modulus \in 0 .. modulus - 1
  BY SMT
<1>3. QED
  BY <1>1, <1>2 DEF WordRange

LEMMA KnownRegisterType ==
  ASSUME NEW v \in Int
  PROVE  KnownRegister(v) \in RegisterValues
<1>1. v % 65536 \in WordRange
  BY WordModulus
<1>2. QED
  BY SMT, <1>1 DEF KnownRegister, RegisterValues

LEMMA AddToRegisterType ==
  ASSUME NEW r \in RegisterValues, NEW offset \in Int, NEW modulus \in {256, 65536}
  PROVE  AddToRegister(r, offset, modulus) \in RegisterValues
<1>1. r.value + offset \in Int
  BY RegisterFields, WordParts
<1>2. (r.value + offset) % modulus \in WordRange
  BY <1>1, WordModulus
<1>3. CASE r.type = "value"
  BY SMT, <1>2, <1>3 DEF AddToRegister, RegisterValues
<1>4. CASE r.type # "value"
  BY SMT, <1>4, RegisterTypes DEF AddToRegister
<1>5. QED
  BY <1>3, <1>4

LEMMA MergeRegisterType ==
  ASSUME NEW l \in RegisterValues, NEW r \in RegisterValues
  PROVE  MergeRegister(l, r) \in RegisterValues
BY RegisterTypes DEF MergeRegister

-----------------------------------------------------------------------------
(* Stack entries *)

LEMMA PlainEntryType ==
  ASSUME NEW t \in EntryTypes, NEW v \in ByteRange
  PROVE  Entry(t, v) \in StackEntries
BY UnknownFlagsType DEF Entry, StackEntries

LEMMA UnknownEntryType == UnknownEntry \in StackEntries
BY PlainEntryType DEF UnknownEntry, EntryTypes, ByteRange

LEMMA ByteEntryType ==
  ASSUME NEW v \in Int
  PROVE  ByteEntry(v) \in StackEntries
<1>1. v % 256 \in ByteRange
  BY DEF ByteRange
<1>2. "byte" \in EntryTypes
  BY DEF EntryTypes
<1>3. QED
  BY <1>1, <1>2, PlainEntryType DEF ByteEntry

LEMMA FlagsEntryType ==
  ASSUME NEW f \in FlagStates
  PROVE  FlagsEntry(f) \in StackEntries
BY DEF FlagsEntry, StackEntries, EntryTypes, ByteRange

LEMMA RegisterEntryType ==
  ASSUME NEW t \in HighByteTypes \cup LowByteTypes \cup VarsizeTypes,
         NEW reg \in RegisterValues
  PROVE  RegisterEntry(t, reg) \in StackEntries
<1>1. t \in EntryTypes
  BY DEF EntryTypes
<1>2. Entry(t, 0) \in StackEntries /\ Entry(t, 1) \in StackEntries
  BY <1>1, PlainEntryType DEF ByteRange
<1>3. reg.value \in Int /\ reg.value \div 256 \in Int
  BY RegisterFields, WordParts
<1>4. CASE t \in VarsizeTypes
  BY <1>2, <1>4 DEF RegisterEntry, VarsizeTypes, HighByteTypes, LowByteTypes
<1>5. CASE t \in HighByteTypes /\ t \notin VarsizeTypes
  BY <1>2, <1>3, <1>5, UnknownEntryType, ByteEntryType
     DEF RegisterEntry, RegisterValues, VarsizeTypes, HighByteTypes, LowByteTypes
<1>6. CASE t \in LowByteTypes /\ t \notin VarsizeTypes
  BY <1>2, <1>3, <1>6, UnknownEntryType, ByteEntryType
     DEF RegisterEntry, RegisterValues, VarsizeTypes, HighByteTypes, LowByteTypes
<1>7. QED
  BY <1>4, <1>5, <1>6

LEMMA MergeEntryType ==
  ASSUME NEW l \in StackEntries, NEW r \in StackEntries
  PROVE  MergeEntry(l, r) \in StackEntries
<1>1. MergeFlags(l.flags, r.flags) \in FlagStates
  BY MergeFlagsType DEF StackEntries
<1>2. FlagsEntry(MergeFlags(l.flags, r.flags)) \in StackEntries
  BY <1>1, FlagsEntryType
<1>3. l.type \in EntryTypes /\ 0 \in ByteRange
  BY SMT DEF StackEntries, ByteRange
<1>4. Entry(l.type, 0) \in StackEntries
  BY <1>3, PlainEntryType
<1>5. QED
  BY <1>2, <1>4, UnknownEntryType DEF MergeEntry

-----------------------------------------------------------------------------
(* The stack *)

LEMMA StackFields ==
  ASSUME NEW s \in Stacks
  PROVE  s.abandoned \in BOOLEAN /\ s.items \in Seq(StackEntries)
BY DEF Stacks

LEMMA FixedStackTypes == EmptyStack \in Stacks /\ Abandoned \in Stacks
<1>1. << >> \in Seq(StackEntries)
  BY EmptySeq
<1>2. QED
  BY <1>1 DEF EmptyStack, Abandoned, Stacks

LEMMA PushEntryType ==
  ASSUME NEW s \in Stacks, NEW entry \in StackEntries
  PROVE  PushEntry(s, entry) \in Stacks
<1>1. Append(s.items, entry) \in Seq(StackEntries)
  BY StackFields
<1>2. QED
  BY <1>1 DEF PushEntry, Stacks

LEMMA PushWordType ==
  ASSUME NEW s \in Stacks, NEW v \in Int
  PROVE  PushWord(s, v) \in Stacks /\ PushUnknownWord(s) \in Stacks
<1>1. v \div 256 \in Int
  BY SMT
<1>2. ByteEntry(v \div 256) \in StackEntries /\ ByteEntry(v) \in StackEntries
  BY <1>1, ByteEntryType
<1>3. QED
  BY <1>2, PushEntryType, UnknownEntryType DEF PushWord, PushUnknownWord

RegisterKinds == {ATypes, XTypes, YTypes}

LEMMA KindFields ==
  ASSUME NEW types \in RegisterKinds
  PROVE  /\ types.hi \in HighByteTypes
         /\ types.lo \in LowByteTypes
         /\ types.varsize \in VarsizeTypes
BY DEF RegisterKinds, ATypes, XTypes, YTypes, HighByteTypes, LowByteTypes, VarsizeTypes

LEMMA PushRegType ==
  ASSUME NEW s \in Stacks, NEW reg \in RegisterValues, NEW bit \in BitStates,
         NEW types \in RegisterKinds
  PROVE  PushReg(s, reg, bit, types) \in Stacks
<1>1. /\ RegisterEntry(types.hi, reg) \in StackEntries
      /\ RegisterEntry(types.lo, reg) \in StackEntries
      /\ RegisterEntry(types.varsize, reg) \in StackEntries
  BY KindFields, RegisterEntryType
<1>2. /\ PushEntry(s, RegisterEntry(types.varsize, reg)) \in Stacks
      /\ PushEntry(s, RegisterEntry(types.lo, reg)) \in Stacks
      /\ PushEntry(PushEntry(s, RegisterEntry(types.hi, reg)), RegisterEntry(types.lo, reg)) \in Stacks
  BY <1>1, PushEntryType
<1>3. s.abandoned \in BOOLEAN
  BY StackFields
<1>4. QED
  BY <1>2, <1>3, FixedStackTypes DEF PushReg, BitStates

LEMMA TopPopTypes ==
  ASSUME NEW s \in Stacks, s.items # << >>
  PROVE  Top(s) \in StackEntries /\ Pop(s) \in Stacks
<1>1. s.items \in Seq(StackEntries) /\ Len(s.items) \in Nat \ {0}
  BY StackFields, EmptySeq
<1>2. Len(s.items) \in 1 .. Len(s.items)
  BY <1>1
<1>3. s.items[Len(s.items)] \in StackEntries
  BY <1>1, <1>2, ElementOfSeq
<1>4. \A i \in 1 .. Len(s.items) - 1 : s.items[i] \in StackEntries
  BY <1>1, ElementOfSeq
<1>5. SubSeq(s.items, 1, Len(s.items) - 1) \in Seq(StackEntries)
  BY <1>1, <1>4, SubSeqProperties
<1>6. QED
  BY <1>3, <1>5 DEF Top, Pop, Stacks

LEMMA PullByteType ==
  ASSUME NEW s \in Stacks
  PROVE  PullByte(s).stack \in Stacks /\ PullByte(s).entry \in StackEntries
BY TopPopTypes, FixedStackTypes, UnknownEntryType DEF PullByte

LEMMA PullVarsizeType ==
  ASSUME NEW s \in Stacks
  PROVE  /\ PullVarsize(s).stack \in Stacks
         /\ PullVarsize(s).entry \in StackEntries
         /\ PullVarsize(s).crash \in BOOLEAN
<1>1. s.abandoned \in BOOLEAN
  BY StackFields
<1>2. CASE s.abandoned
  BY <1>2, UnknownEntryType DEF PullVarsize
<1>3. CASE ~s.abandoned /\ s.items = << >>
  BY <1>3, UnknownEntryType DEF PullVarsize
<1>4. CASE ~s.abandoned /\ s.items # << >>
  BY <1>4, TopPopTypes, FixedStackTypes, UnknownEntryType DEF PullVarsize
<1>5. QED
  BY <1>1, <1>2, <1>3, <1>4

LEMMA PullRegType ==
  ASSUME NEW s \in Stacks, NEW bit \in BitStates, NEW types \in RegisterKinds
  PROVE  /\ PullReg(s, bit, types).stack \in Stacks
         /\ PullReg(s, bit, types).reg \in RegisterValues
         /\ PullReg(s, bit, types).crash \in BOOLEAN
<1>1. s.abandoned \in BOOLEAN
  BY StackFields
<1>2. CASE s.abandoned \/ bit = "unknown"
  BY <1>2, FixedStackTypes, RegisterTypes DEF PullReg
<1>3. CASE ~s.abandoned /\ bit = "original"
  BY <1>3, PullVarsizeType, FixedStackTypes, RegisterTypes DEF PullReg, PullOriginal
<1>4. CASE ~s.abandoned /\ bit = "on"
  <2>1. PullByte(s).entry.value \in Int
    BY PullByteType DEF StackEntries, ByteRange
  <2>2. KnownRegister(PullByte(s).entry.value) \in RegisterValues
    BY <2>1, KnownRegisterType
  <2>3. QED
    BY <1>4, <2>2, PullByteType, RegisterTypes DEF PullReg, PullNarrow
<1>5. CASE ~s.abandoned /\ bit = "off"
  <2> DEFINE lo == PullByte(s)
             hi == PullByte(lo.stack)
  <2>1. lo.stack \in Stacks /\ hi.stack \in Stacks /\ lo.entry \in StackEntries /\ hi.entry \in StackEntries
    BY PullByteType
  <2>2. lo.entry.value \in Int /\ hi.entry.value \in Int
    BY <2>1 DEF StackEntries, ByteRange
  <2>3. lo.entry.value * 256 + hi.entry.value \in Int
    BY <2>2
  <2>4. KnownRegister(lo.entry.value * 256 + hi.entry.value) \in RegisterValues
    BY <2>3, KnownRegisterType
  <2>5. QED
    BY <1>5, <2>1, <2>4, RegisterTypes DEF PullReg, PullWide
<1>6. QED
  BY <1>1, <1>2, <1>3, <1>4, <1>5 DEF BitStates

LEMMA MergeStackType ==
  ASSUME NEW l \in Stacks, NEW r \in Stacks
  PROVE  MergeStack(l, r) \in Stacks
<1>1. CASE \/ l.abandoned \/ r.abandoned \/ Len(l.items) # Len(r.items)
           \/ \E i \in DOMAIN l.items : ~CanMergeWith(l.items[i], r.items[i])
  BY <1>1, FixedStackTypes DEF MergeStack
<1>2. CASE ~(\/ l.abandoned \/ r.abandoned \/ Len(l.items) # Len(r.items)
             \/ \E i \in DOMAIN l.items : ~CanMergeWith(l.items[i], r.items[i]))
  <2> DEFINE merged == [i \in DOMAIN l.items |-> MergeEntry(l.items[i], r.items[i])]
  <2>1. /\ l.items \in Seq(StackEntries) /\ r.items \in Seq(StackEntries)
        /\ Len(l.items) = Len(r.items) /\ Len(l.items) \in Nat
        /\ DOMAIN l.items = 1 .. Len(l.items)
    BY <1>2, StackFields, LenProperties
  <2>2. \A i \in 1 .. Len(l.items) : MergeEntry(l.items[i], r.items[i]) \in StackEntries
    BY <2>1, ElementOfSeq, MergeEntryType
  <2>3. merged \in [1 .. Len(l.items) -> StackEntries]
    BY <2>1, <2>2
  <2>4. merged \in Seq(StackEntries)
    BY <2>1, <2>3, SeqDef
  <2>5. MergeStack(l, r) = [abandoned |-> FALSE, items |-> merged]
    BY <1>2 DEF MergeStack
  <2>6. QED
    BY <2>4, <2>5 DEF Stacks
<1>3. QED
  BY <1>1, <1>2

-----------------------------------------------------------------------------
(* Execution states *)

LEMMA StateFields ==
  ASSUME NEW es \in ExecutionStates
  PROVE  /\ es.a \in RegisterValues /\ es.x \in RegisterValues /\ es.y \in RegisterValues
         /\ es.dbr \in RegisterValues /\ es.flags \in FlagStates /\ es.stack \in Stacks
BY DEF ExecutionStates

LEMMA IncomingStateType ==
  ASSUME NEW f \in FlagStates
  PROVE  IncomingState(f) \in ExecutionStates
<1>1. SetIncoming(f) \in FlagStates
  BY FlagSetterTypes DEF BitStates
<1>2. QED
  BY <1>1, RegisterTypes, FixedStackTypes DEF IncomingState, ExecutionStates

LEMMA PullFlagsType ==
  ASSUME NEW es \in ExecutionStates
  PROVE  PullFlags(es) \in ExecutionStates
<1> DEFINE pulled == PullByte(es.stack)
           f == IF pulled.entry.type = "flags" THEN pulled.entry.flags ELSE UnknownFlags
<1>1. pulled.stack \in Stacks /\ pulled.entry.flags \in FlagStates
  BY StateFields, PullByteType DEF StackEntries
<1>2. f \in FlagStates
  BY <1>1, UnknownFlagsType
<1>3. es.flags.e \in BitStates /\ f.m \in BitStates /\ f.x \in BitStates /\ f.c \in BitStates
  BY <1>2, StateFields DEF FlagStates
<1>4. MakeFlags(es.flags.e, f.m, f.x, f.c) \in FlagStates
  BY <1>3, MakeFlagsType
<1>5. QED
  BY <1>1, <1>4 DEF PullFlags, ExecutionStates

LEMMA MergeType ==
  ASSUME NEW l \in ExecutionStates, NEW r \in ExecutionStates
  PROVE  Merge(l, r) \in ExecutionStates
BY StateFields, MergeRegisterType, MergeFlagsType, MergeStackType DEF Merge, ExecutionStates

-----------------------------------------------------------------------------
(* Merging: a state that covers another still does after a further merge *)

LEMMA MergeBitCovers ==
  ASSUME NEW s, NEW c, NEW d, MergeBit(c, d) = c
  PROVE  MergeBit(MergeBit(s, c), d) = MergeBit(s, c)
BY DEF MergeBit

\* The m or x bit, whose value depends on that of the e bit.
LEMMA ConstrainedBitCovers ==
  ASSUME NEW s \in BitStates, NEW c \in BitStates, NEW d \in BitStates,
         NEW se \in BitStates, NEW ce \in BitStates, NEW de \in BitStates,
         MergeBit(ce, de) = ce, ConstrainedForEBit(MergeBit(c, d), ce) = c,
         NEW e, e = MergeBit(se, ce), NEW g, g = ConstrainedForEBit(MergeBit(s, c), e)
  PROVE  ConstrainedForEBit(MergeBit(g, d), e) = g
BY DEF MergeBit, ConstrainedForEBit, BitStates

\* operator| on flags takes its operands in any order, and merging flags
\* with themselves changes nothing.
LEMMA MergeFlagsLaws ==
  ASSUME NEW l \in FlagStates, NEW r \in FlagStates
  PROVE  MergeFlags(l, l) = l /\ MergeFlags(l, r) = MergeFlags(r, l)
<1>1. MergeFlags(l, l) = [e |-> l.e, m |-> l.m, x |-> l.x, c |-> l.c]
  BY DEF MergeFlags, MakeFlags, MergeBit, FlagStates, Coherent
<1>2. l = [e |-> l.e, m |-> l.m, x |-> l.x, c |-> l.c]
  BY DEF FlagStates
<1>3. \A a, b : MergeBit(a, b) = MergeBit(b, a)
  BY DEF MergeBit
<1>4. MergeFlags(l, r) = MergeFlags(r, l)
  BY <1>3 DEF MergeFlags
<1>5. QED
  BY <1>1, <1>2, <1>4

LEMMA MergeFlagsCovers ==
  ASSUME NEW s \in FlagStates, NEW c \in FlagStates, NEW d \in FlagStates, MergeFlags(c, d) = c
  PROVE  MergeFlags(MergeFlags(s, c), d) = MergeFlags(s, c)
<1> DEFINE g == MergeFlags(s, c)
           e == MergeBit(s.e, c.e)
<1>1. /\ MergeBit(c.e, d.e) = c.e /\ MergeBit(c.c, d.c) = c.c
      /\ ConstrainedForEBit(MergeBit(c.m, d.m), c.e) = c.m
      /\ ConstrainedForEBit(MergeBit(c.x, d.x), c.e) = c.x
  BY DEF MergeFlags, MakeFlags
<1>2. /\ g.e = e /\ g.c = MergeBit(s.c, c.c)
      /\ g.m = ConstrainedForEBit(MergeBit(s.m, c.m), e)
      /\ g.x = ConstrainedForEBit(MergeBit(s.x, c.x), e)
      /\ g = [e |-> g.e, m |-> g.m, x |-> g.x, c |-> g.c]
  BY DEF MergeFlags, MakeFlags
<1>3. MergeBit(g.e, d.e) = g.e /\ MergeBit(g.c, d.c) = g.c
  BY <1>1, <1>2, MergeBitCovers
<1>4. /\ ConstrainedForEBit(MergeBit(g.m, d.m), g.e) = g.m
      /\ ConstrainedForEBit(MergeBit(g.x, d.x), g.e) = g.x
  <2>1. \A f \in {s, c, d} : f.e \in BitStates /\ f.m \in BitStates /\ f.x \in BitStates
    BY FlagFields
  <2>2. \A sm, cm, dm \in BitStates :
          ConstrainedForEBit(MergeBit(cm, dm), c.e) = cm =>
            LET b == ConstrainedForEBit(MergeBit(sm, cm), e)
            IN  ConstrainedForEBit(MergeBit(b, dm), e) = b
    <3> HIDE DEF e
    <3>1. \A sm, cm, dm \in BitStates : \A b :
            /\ ConstrainedForEBit(MergeBit(cm, dm), c.e) = cm
            /\ b = ConstrainedForEBit(MergeBit(sm, cm), e)
            => ConstrainedForEBit(MergeBit(b, dm), e) = b
      <4>1. s.e \in BitStates /\ c.e \in BitStates /\ d.e \in BitStates
        BY <2>1
      <4>2. e = MergeBit(s.e, c.e)
        BY DEF e
      <4>3. QED
        BY <1>1, <4>1, <4>2, ConstrainedBitCovers
    <3>2. QED
      BY <3>1
  <2> HIDE DEF g
  <2>3. QED
    BY <1>1, <1>2, <2>1, <2>2
<1>5. MergeFlags(g, d) = [e |-> g.e, m |-> g.m, x |-> g.x, c |-> g.c]
  <2> HIDE DEF g
  <2>1. QED
    BY <1>3, <1>4 DEF MergeFlags, MakeFlags
<1>6. QED
  BY <1>2, <1>5

LEMMA MergeRegisterLaws ==
  ASSUME NEW l, NEW r
  PROVE  MergeRegister(l, l) = l /\ MergeRegister(l, r) = MergeRegister(r, l)
BY DEF MergeRegister

LEMMA MergeRegisterCovers ==
  ASSUME NEW s, NEW c, NEW d, MergeRegister(c, d) = c
  PROVE  MergeRegister(MergeRegister(s, c), d) = MergeRegister(s, c)
BY DEF MergeRegister

\* Entries that merge are of one varsize type, or neither is varsize.
LEMMA MergeEntryLaws ==
  ASSUME NEW l \in StackEntries, NEW r \in StackEntries
  PROVE  /\ MergeEntry(l, l) = l
         /\ CanMergeWith(l, l)
         /\ CanMergeWith(l, r) <=> CanMergeWith(r, l)
         /\ MergeEntry(l, r) = MergeEntry(r, l)
<1>1. MergeEntry(l, l) = l
  BY DEF MergeEntry
<1>2. MergeFlags(l.flags, r.flags) = MergeFlags(r.flags, l.flags)
  BY MergeFlagsLaws DEF StackEntries
<1>3. MergeEntry(l, r) = MergeEntry(r, l)
  BY <1>2 DEF MergeEntry, IsVarSize
<1>4. QED
  BY <1>1, <1>3 DEF CanMergeWith

LEMMA MergeEntryCovers ==
  ASSUME NEW s \in StackEntries, NEW c \in StackEntries, NEW d \in StackEntries,
         CanMergeWith(s, c), CanMergeWith(c, d), MergeEntry(c, d) = c
  PROVE  /\ CanMergeWith(MergeEntry(s, c), d)
         /\ MergeEntry(MergeEntry(s, c), d) = MergeEntry(s, c)
<1>1. CASE s = c
  BY <1>1, MergeEntryLaws
<1>2. CASE s # c /\ IsVarSize(c)
  <2>1. s.type = c.type /\ d.type = c.type /\ IsVarSize(s) /\ IsVarSize(d) /\ c.type # "flags"
    BY <1>2 DEF CanMergeWith, IsVarSize, VarsizeTypes
  <2>2. MergeEntry(s, c) = Entry(c.type, 0)
    BY <1>2, <2>1 DEF MergeEntry
  <2>3. Entry(c.type, 0).type = c.type
    BY DEF Entry
  <2>4. QED
    BY <2>1, <2>2, <2>3 DEF MergeEntry, CanMergeWith, IsVarSize
<1>3. CASE s # c /\ ~IsVarSize(c)
  <2>1. ~IsVarSize(s) /\ ~IsVarSize(d)
    BY <1>3 DEF CanMergeWith, IsVarSize
  <2>2. CASE s.type = "flags" /\ c.type = "flags"
    <3> DEFINE g == MergeFlags(s.flags, c.flags)
    <3>1. MergeEntry(s, c) = FlagsEntry(g)
      BY <1>3, <2>1, <2>2 DEF MergeEntry
    <3>2. FlagsEntry(g).type = "flags" /\ FlagsEntry(g).flags = g /\ ~IsVarSize(FlagsEntry(g))
      BY DEF FlagsEntry, IsVarSize, VarsizeTypes
    <3>3. CanMergeWith(FlagsEntry(g), d)
      BY <2>1, <3>2 DEF CanMergeWith, IsVarSize, VarsizeTypes
    <3>4. d.type = "flags"
      BY <2>1, <2>2 DEF MergeEntry, UnknownEntry, Entry
    <3>5. MergeFlags(c.flags, d.flags) = c.flags
      <4>1. CASE c = d
        BY <4>1, MergeFlagsLaws DEF StackEntries
      <4>2. CASE c # d
        BY <1>3, <2>2, <3>4, <4>2 DEF MergeEntry, FlagsEntry
      <4>3. QED
        BY <4>1, <4>2
    <3>6. MergeFlags(g, d.flags) = g
      BY <3>5, MergeFlagsCovers DEF StackEntries
    <3>7. MergeEntry(FlagsEntry(g), d) = FlagsEntry(g)
      <4> HIDE DEF g
      <4>1. QED
        BY <3>2, <3>4, <3>6 DEF MergeEntry
    <3>8. QED
      BY <3>1, <3>3, <3>7
  <2>3. CASE ~(s.type = "flags" /\ c.type = "flags")
    <3>1. MergeEntry(s, c) = UnknownEntry
      BY <1>3, <2>1, <2>3 DEF MergeEntry
    <3>2. UnknownEntry.type = "unknown" /\ ~IsVarSize(UnknownEntry)
      BY DEF UnknownEntry, Entry, IsVarSize, VarsizeTypes
    <3>3. MergeEntry(UnknownEntry, d) = UnknownEntry
      BY <3>2 DEF MergeEntry
    <3>4. QED
      BY <2>1, <3>1, <3>2, <3>3 DEF CanMergeWith
  <2>4. QED
    BY <2>2, <2>3
<1>4. QED
  BY <1>1, <1>2, <1>3

\* What the stacks that can be merged have in common.
Mergeable(l, r) ==
  /\ ~l.abandoned /\ ~r.abandoned /\ Len(l.items) = Len(r.items)
  /\ \A i \in DOMAIN l.items : CanMergeWith(l.items[i], r.items[i])

LEMMA MergedStack ==
  ASSUME NEW l \in Stacks, NEW r \in Stacks
  PROVE  /\ Mergeable(l, r) =>
              MergeStack(l, r) = [abandoned |-> FALSE,
                                  items |-> [i \in DOMAIN l.items |-> MergeEntry(l.items[i], r.items[i])]]
         /\ ~Mergeable(l, r) => MergeStack(l, r) = Abandoned
BY StackFields DEF MergeStack, Mergeable

\* A stack is a record of its two fields, and its items are entries.
LEMMA StackItems ==
  ASSUME NEW s \in Stacks
  PROVE  /\ s = [abandoned |-> s.abandoned, items |-> s.items]
         /\ s.abandoned => s = Abandoned
         /\ DOMAIN s.items = 1 .. Len(s.items)
         /\ s.items = [i \in DOMAIN s.items |-> s.items[i]]
         /\ \A i \in DOMAIN s.items : s.items[i] \in StackEntries
<1>1. s = [abandoned |-> s.abandoned, items |-> s.items] /\ (s.abandoned => s.items = << >>)
  BY DEF Stacks
<1>2. s.abandoned => s = Abandoned
  BY <1>1, StackFields DEF Abandoned
<1>3. /\ DOMAIN s.items = 1 .. Len(s.items)
      /\ s.items = [i \in DOMAIN s.items |-> s.items[i]]
      /\ \A i \in DOMAIN s.items : s.items[i] \in StackEntries
  BY StackFields, LenProperties, ElementOfSeq
<1>4. QED
  BY <1>1, <1>2, <1>3

LEMMA MergeStackLaws ==
  ASSUME NEW l \in Stacks, NEW r \in Stacks
  PROVE  MergeStack(l, l) = l /\ MergeStack(l, r) = MergeStack(r, l)
<1>1. MergeStack(l, l) = l
  <2>1. CASE l.abandoned
    BY <2>1, StackItems, MergedStack DEF Mergeable
  <2>2. CASE ~l.abandoned
    <3>1. Mergeable(l, l)
      BY <2>2, StackItems, MergeEntryLaws DEF Mergeable
    <3>2. [i \in DOMAIN l.items |-> MergeEntry(l.items[i], l.items[i])] = l.items
      BY ZenonT(60), StackItems, MergeEntryLaws
    <3>3. l = [abandoned |-> FALSE, items |-> l.items]
      BY <2>2, StackItems, StackFields
    <3>4. QED
      BY <3>1, <3>2, <3>3, MergedStack
  <2>3. QED
    BY <2>1, <2>2
<1>2. Mergeable(l, r) <=> Mergeable(r, l)
  BY StackItems, MergeEntryLaws DEF Mergeable
<1>3. CASE Mergeable(l, r)
  <2>1. DOMAIN l.items = DOMAIN r.items
    BY <1>3, StackItems DEF Mergeable
  <2>2. [i \in DOMAIN l.items |-> MergeEntry(l.items[i], r.items[i])]
          = [i \in DOMAIN r.items |-> MergeEntry(r.items[i], l.items[i])]
    BY <2>1, StackItems, MergeEntryLaws
  <2>3. QED
    BY ZenonT(60), <1>1, <1>2, <1>3, <2>2, MergedStack
<1>4. CASE ~Mergeable(l, r)
  BY <1>1, <1>2, <1>4, MergedStack
<1>5. QED
  BY <1>3, <1>4

LEMMA MergeStackCovers ==
  ASSUME NEW s \in Stacks, NEW c \in Stacks, NEW d \in Stacks, MergeStack(c, d) = c
  PROVE  MergeStack(MergeStack(s, c), d) = MergeStack(s, c)
<1> DEFINE g == MergeStack(s, c)
<1>1. CASE ~Mergeable(s, c)
  <2>1. g = Abandoned /\ Abandoned \in Stacks /\ Abandoned.abandoned
    BY <1>1, MergedStack, FixedStackTypes DEF Abandoned
  <2>2. QED
    BY <2>1, MergedStack DEF Mergeable
<1>2. CASE Mergeable(s, c)
  <2>1. ~c.abandoned /\ g \in Stacks
    BY <1>2, MergeStackType DEF Mergeable
  <2>2. Mergeable(c, d)
    BY <2>1, MergedStack DEF Abandoned
  <2>3. /\ DOMAIN s.items = DOMAIN c.items /\ DOMAIN d.items = DOMAIN c.items
        /\ Len(s.items) = Len(c.items) /\ Len(d.items) = Len(c.items)
    BY <1>2, <2>2, StackItems DEF Mergeable
  <2>4. \A i \in DOMAIN c.items : MergeEntry(c.items[i], d.items[i]) = c.items[i]
    <3>1. c.items = [i \in DOMAIN c.items |-> MergeEntry(c.items[i], d.items[i])]
      BY <2>2, MergedStack
    <3>2. QED
      BY <3>1
  <2>5. /\ ~g.abandoned
        /\ g.items = [i \in DOMAIN c.items |-> MergeEntry(s.items[i], c.items[i])]
    BY <1>2, <2>3, MergedStack
  <2>6. \A i \in DOMAIN c.items :
          /\ CanMergeWith(g.items[i], d.items[i])
          /\ MergeEntry(g.items[i], d.items[i]) = g.items[i]
    <3> TAKE i \in DOMAIN c.items
    <3>1. /\ s.items[i] \in StackEntries /\ c.items[i] \in StackEntries
          /\ d.items[i] \in StackEntries
      BY <2>3, StackItems
    <3>2. /\ CanMergeWith(s.items[i], c.items[i]) /\ CanMergeWith(c.items[i], d.items[i])
          /\ MergeEntry(c.items[i], d.items[i]) = c.items[i]
      BY <1>2, <2>2, <2>3, <2>4 DEF Mergeable
    <3>3. g.items[i] = MergeEntry(s.items[i], c.items[i])
      BY <2>5
    <3>4. QED
      BY <3>1, <3>2, <3>3, MergeEntryCovers
  <2> HIDE DEF g
  <2>7. DOMAIN g.items = DOMAIN c.items /\ Len(g.items) = Len(c.items)
    <3>1. DOMAIN g.items = 1 .. Len(c.items)
      BY <2>5, StackItems
    <3>2. g.items \in Seq(StackEntries) /\ c.items \in Seq(StackEntries)
      BY <2>1, StackFields
    <3>3. QED
      BY <3>1, <3>2, LenProperties, StackItems
  <2>8. Mergeable(g, d)
    BY <2>2, <2>3, <2>5, <2>6, <2>7 DEF Mergeable
  <2>9. MergeStack(g, d) = [abandoned |-> FALSE,
                            items |-> [i \in DOMAIN g.items |-> MergeEntry(g.items[i], d.items[i])]]
    BY <2>1, <2>8, MergedStack
  <2>10. [i \in DOMAIN g.items |-> MergeEntry(g.items[i], d.items[i])] = g.items
    BY <2>1, <2>6, <2>7, StackItems
  <2>11. g = [abandoned |-> FALSE, items |-> g.items]
    BY <2>1, <2>5, StackItems, StackFields
  <2>12. QED
    BY <2>9, <2>10, <2>11 DEF g
<1>3. QED
  BY <1>1, <1>2

\* ExecutionState::operator|= takes its operands in any order, and a state
\* merged with itself stays what it is.
LEMMA MergeLaws ==
  ASSUME NEW l \in ExecutionStates, NEW r \in ExecutionStates
  PROVE  Merge(l, l) = l /\ Merge(l, r) = Merge(r, l)
<1>1. l = [a |-> l.a, x |-> l.x, y |-> l.y, dbr |-> l.dbr, flags |-> l.flags, stack |-> l.stack]
  BY DEF ExecutionStates
<1>2. Merge(l, l) = [a |-> l.a, x |-> l.x, y |-> l.y, dbr |-> l.dbr, flags |-> l.flags,
                     stack |-> l.stack]
  BY StateFields, MergeRegisterLaws, MergeFlagsLaws, MergeStackLaws DEF Merge
<1>3. Merge(l, r) = Merge(r, l)
  BY StateFields, MergeRegisterLaws, MergeFlagsLaws, MergeStackLaws DEF Merge
<1>4. QED
  BY <1>1, <1>2, <1>3

\* What covers a state goes on covering it when more is merged into it.
LEMMA MergeCovers ==
  ASSUME NEW s \in ExecutionStates, NEW c \in ExecutionStates, NEW d \in ExecutionStates,
         Merge(c, d) = c
  PROVE  Merge(Merge(s, c), d) = Merge(s, c)
<1>1. /\ MergeRegister(c.a, d.a) = c.a /\ MergeRegister(c.x, d.x) = c.x
      /\ MergeRegister(c.y, d.y) = c.y /\ MergeRegister(c.dbr, d.dbr) = c.dbr
      /\ MergeFlags(c.flags, d.flags) = c.flags /\ MergeStack(c.stack, d.stack) = c.stack
  BY DEF Merge
<1>2. /\ MergeRegister(MergeRegister(s.a, c.a), d.a) = MergeRegister(s.a, c.a)
      /\ MergeRegister(MergeRegister(s.x, c.x), d.x) = MergeRegister(s.x, c.x)
      /\ MergeRegister(MergeRegister(s.y, c.y), d.y) = MergeRegister(s.y, c.y)
      /\ MergeRegister(MergeRegister(s.dbr, c.dbr), d.dbr) = MergeRegister(s.dbr, c.dbr)
  BY <1>1, MergeRegisterCovers
<1>3. /\ MergeFlags(MergeFlags(s.flags, c.flags), d.flags) = MergeFlags(s.flags, c.flags)
      /\ MergeStack(MergeStack(s.stack, c.stack), d.stack) = MergeStack(s.stack, c.stack)
  BY <1>1, StateFields, MergeFlagsCovers, MergeStackCovers
<1>4. QED
  BY <1>2, <1>3 DEF Merge

-----------------------------------------------------------------------------
(* Merging gives a least upper bound: a state that covers two states       *)
(* covers what they are merged to                                          *)

LEMMA MergeBitLub ==
  ASSUME NEW x, NEW a, NEW b, MergeBit(x, a) = x, MergeBit(x, b) = x
  PROVE  MergeBit(x, MergeBit(a, b)) = x
BY DEF MergeBit

\* The m or x bit, which agrees with the e bit in each of the three states.
LEMMA ConstrainedBitLub ==
  ASSUME NEW x \in BitStates, NEW a \in BitStates, NEW b \in BitStates,
         NEW xe \in BitStates, NEW ae \in BitStates, NEW be \in BitStates,
         MergeBit(xe, ae) = xe, MergeBit(xe, be) = xe,
         x = ConstrainedForEBit(x, xe), a = ConstrainedForEBit(a, ae), b = ConstrainedForEBit(b, be),
         ConstrainedForEBit(MergeBit(x, a), xe) = x, ConstrainedForEBit(MergeBit(x, b), xe) = x,
         NEW g, g = ConstrainedForEBit(MergeBit(a, b), MergeBit(ae, be))
  PROVE  ConstrainedForEBit(MergeBit(x, g), xe) = x
BY DEF MergeBit, ConstrainedForEBit, BitStates

LEMMA MergeFlagsLub ==
  ASSUME NEW x \in FlagStates, NEW a \in FlagStates, NEW b \in FlagStates,
         MergeFlags(x, a) = x, MergeFlags(x, b) = x
  PROVE  MergeFlags(x, MergeFlags(a, b)) = x
<1> DEFINE g == MergeFlags(a, b)
<1>1. \A f \in {a, b} :
        /\ MergeBit(x.e, f.e) = x.e /\ MergeBit(x.c, f.c) = x.c
        /\ ConstrainedForEBit(MergeBit(x.m, f.m), x.e) = x.m
        /\ ConstrainedForEBit(MergeBit(x.x, f.x), x.e) = x.x
  BY DEF MergeFlags, MakeFlags
<1>2. /\ g.e = MergeBit(a.e, b.e) /\ g.c = MergeBit(a.c, b.c)
      /\ g.m = ConstrainedForEBit(MergeBit(a.m, b.m), MergeBit(a.e, b.e))
      /\ g.x = ConstrainedForEBit(MergeBit(a.x, b.x), MergeBit(a.e, b.e))
  BY DEF MergeFlags, MakeFlags
<1>3. \A f \in {x, a, b} :
        /\ f.e \in BitStates /\ f.m \in BitStates /\ f.x \in BitStates
        /\ f.m = ConstrainedForEBit(f.m, f.e) /\ f.x = ConstrainedForEBit(f.x, f.e)
  BY DEF FlagStates, Coherent
<1>4. MergeBit(x.e, g.e) = x.e /\ MergeBit(x.c, g.c) = x.c
  BY <1>1, <1>2, MergeBitLub
<1> HIDE DEF g
<1>5. \A p, q, r \in BitStates : \A h :
        /\ p = ConstrainedForEBit(p, x.e) /\ q = ConstrainedForEBit(q, a.e)
        /\ r = ConstrainedForEBit(r, b.e)
        /\ ConstrainedForEBit(MergeBit(p, q), x.e) = p /\ ConstrainedForEBit(MergeBit(p, r), x.e) = p
        /\ h = ConstrainedForEBit(MergeBit(q, r), MergeBit(a.e, b.e))
        => ConstrainedForEBit(MergeBit(p, h), x.e) = p
  <2>1. /\ x.e \in BitStates /\ a.e \in BitStates /\ b.e \in BitStates
        /\ MergeBit(x.e, a.e) = x.e /\ MergeBit(x.e, b.e) = x.e
    BY <1>1, <1>3
  <2>2. QED
    BY SMTT(30), <2>1, ConstrainedBitLub
<1>6. /\ ConstrainedForEBit(MergeBit(x.m, g.m), x.e) = x.m
      /\ ConstrainedForEBit(MergeBit(x.x, g.x), x.e) = x.x
  BY <1>1, <1>2, <1>3, <1>5
<1>7. MergeFlags(x, g) = [e |-> x.e, m |-> x.m, x |-> x.x, c |-> x.c]
  BY <1>4, <1>6 DEF MergeFlags, MakeFlags
<1>8. x = [e |-> x.e, m |-> x.m, x |-> x.x, c |-> x.c]
  BY DEF FlagStates
<1>9. QED
  BY <1>7, <1>8 DEF g

LEMMA MergeRegisterLub ==
  ASSUME NEW x, NEW a, NEW b, MergeRegister(x, a) = x, MergeRegister(x, b) = x
  PROVE  MergeRegister(x, MergeRegister(a, b)) = x
BY DEF MergeRegister

LEMMA MergeEntryLub ==
  ASSUME NEW x \in StackEntries, NEW a \in StackEntries, NEW b \in StackEntries,
         CanMergeWith(x, a), CanMergeWith(x, b), MergeEntry(x, a) = x, MergeEntry(x, b) = x
  PROVE  /\ CanMergeWith(a, b) /\ CanMergeWith(x, MergeEntry(a, b))
         /\ MergeEntry(x, MergeEntry(a, b)) = x
<1>1. CASE x = a
  BY <1>1, MergeEntryLaws
<1>2. CASE x = b
  BY <1>2, MergeEntryLaws
<1>3. CASE x # a /\ x # b /\ IsVarSize(x)
  <2>1. a.type = x.type /\ b.type = x.type /\ IsVarSize(a) /\ IsVarSize(b) /\ x.type # "flags"
    BY <1>3 DEF CanMergeWith, IsVarSize, VarsizeTypes
  <2>2. x = Entry(x.type, 0)
    BY <1>3, <2>1 DEF MergeEntry
  <2>3. MergeEntry(a, b) = a \/ MergeEntry(a, b) = Entry(x.type, 0)
    BY <2>1 DEF MergeEntry
  <2>4. QED
    BY <2>1, <2>2, <2>3, MergeEntryLaws DEF CanMergeWith
<1>4. CASE x # a /\ x # b /\ ~IsVarSize(x)
  <2>1. ~IsVarSize(a) /\ ~IsVarSize(b)
    BY <1>4 DEF CanMergeWith, IsVarSize
  <2>2. CanMergeWith(a, b)
    BY <2>1 DEF CanMergeWith
  <2>3. UnknownEntry.type = "unknown" /\ ~IsVarSize(UnknownEntry)
    BY DEF UnknownEntry, Entry, IsVarSize, VarsizeTypes
  <2>4. CASE x.type = "flags"
    <3>1. a.type = "flags" /\ b.type = "flags"
      BY <1>4, <2>1, <2>3, <2>4 DEF MergeEntry
    <3>2. /\ x = FlagsEntry(MergeFlags(x.flags, a.flags))
          /\ x = FlagsEntry(MergeFlags(x.flags, b.flags))
      BY <1>4, <2>4, <3>1 DEF MergeEntry
    <3>3. MergeFlags(x.flags, a.flags) = x.flags /\ MergeFlags(x.flags, b.flags) = x.flags
      BY <3>2 DEF FlagsEntry
    <3>4. x.flags \in FlagStates /\ a.flags \in FlagStates /\ b.flags \in FlagStates
      BY DEF StackEntries
    <3> DEFINE g == MergeFlags(a.flags, b.flags)
    <3>5. MergeFlags(x.flags, g) = x.flags
      BY <3>3, <3>4, MergeFlagsLub
    <3>6. x = FlagsEntry(x.flags)
      BY <3>2, <3>3
    <3>7. MergeEntry(a, b) = a \/ MergeEntry(a, b) = FlagsEntry(g)
      <4>1. CASE a = b
        BY <4>1, MergeEntryLaws
      <4>2. CASE a # b
        BY <2>1, <3>1, <4>2 DEF MergeEntry
      <4>3. QED
        BY <4>1, <4>2
    <3>8. FlagsEntry(g).type = "flags" /\ FlagsEntry(g).flags = g /\ ~IsVarSize(FlagsEntry(g))
      BY DEF FlagsEntry, IsVarSize, VarsizeTypes
    <3> HIDE DEF g
    <3>9. /\ CanMergeWith(x, FlagsEntry(g))
          /\ MergeEntry(x, FlagsEntry(g)) = x
      <4>1. CanMergeWith(x, FlagsEntry(g))
        BY <2>4, <3>8 DEF CanMergeWith
      <4>2. CASE x = FlagsEntry(g)
        BY <4>1, <4>2, MergeEntryLaws
      <4>3. CASE x # FlagsEntry(g)
        <5>1. MergeEntry(x, FlagsEntry(g)) = FlagsEntry(MergeFlags(x.flags, g))
          BY <1>4, <2>4, <3>8, <4>3 DEF MergeEntry
        <5>2. QED
          BY <3>5, <3>6, <4>1, <5>1
      <4>4. QED
        BY <4>2, <4>3
    <3>10. QED
      BY <2>2, <3>7, <3>9
  <2>5. CASE x.type # "flags"
    <3>1. x = UnknownEntry
      BY <1>4, <2>1, <2>5 DEF MergeEntry
    <3>2. ~IsVarSize(MergeEntry(a, b))
      BY <2>1, <2>3 DEF MergeEntry, FlagsEntry, IsVarSize, VarsizeTypes
    <3>3. MergeEntry(UnknownEntry, MergeEntry(a, b)) = UnknownEntry
      BY <2>3 DEF MergeEntry
    <3>4. QED
      BY <2>2, <2>3, <3>1, <3>2, <3>3 DEF CanMergeWith
  <2>6. QED
    BY <2>4, <2>5
<1>5. QED
  BY <1>1, <1>2, <1>3, <1>4

\* A stack that covers another is abandoned or covers it entry by entry.
LEMMA StackCovers ==
  ASSUME NEW g \in Stacks, NEW s \in Stacks
  PROVE  MergeStack(g, s) = g <=>
           \/ g.abandoned
           \/ /\ Mergeable(g, s)
              /\ \A i \in DOMAIN g.items : MergeEntry(g.items[i], s.items[i]) = g.items[i]
<1>1. CASE ~Mergeable(g, s)
  <2>1. MergeStack(g, s) = Abandoned /\ Abandoned.abandoned
    BY <1>1, MergedStack DEF Abandoned
  <2>2. QED
    BY <1>1, <2>1, StackItems
<1>2. CASE Mergeable(g, s)
  <2>1. ~g.abandoned
    BY <1>2 DEF Mergeable
  <2> DEFINE merged == [i \in DOMAIN g.items |-> MergeEntry(g.items[i], s.items[i])]
  <2>2. g = [abandoned |-> FALSE, items |-> g.items] /\ g.items = [i \in DOMAIN g.items |-> g.items[i]]
    BY <2>1, StackItems, StackFields
  <2>3. MergeStack(g, s) = [abandoned |-> FALSE, items |-> merged]
    BY <1>2, MergedStack
  <2>4. MergeStack(g, s) = g <=> merged = g.items
    BY <2>2, <2>3
  <2>5. merged = g.items <=> \A i \in DOMAIN g.items : MergeEntry(g.items[i], s.items[i]) = g.items[i]
    BY <2>2
  <2>6. QED
    BY <1>2, <2>1, <2>4, <2>5
<1>3. QED
  BY <1>1, <1>2

LEMMA MergeStackLub ==
  ASSUME NEW x \in Stacks, NEW a \in Stacks, NEW b \in Stacks,
         MergeStack(x, a) = x, MergeStack(x, b) = x
  PROVE  MergeStack(x, MergeStack(a, b)) = x
<1> DEFINE g == MergeStack(a, b)
<1>1. g \in Stacks
  BY MergeStackType
<1>2. CASE x.abandoned
  <2> HIDE DEF g
  <2>1. QED
    BY <1>1, <1>2, StackCovers DEF g
<1>3. CASE ~x.abandoned
  <2>1. /\ Mergeable(x, a) /\ Mergeable(x, b)
        /\ \A i \in DOMAIN x.items : /\ MergeEntry(x.items[i], a.items[i]) = x.items[i]
                                     /\ MergeEntry(x.items[i], b.items[i]) = x.items[i]
    BY <1>3, StackCovers
  <2>2. /\ DOMAIN a.items = DOMAIN x.items /\ DOMAIN b.items = DOMAIN x.items
        /\ Len(a.items) = Len(x.items) /\ Len(b.items) = Len(x.items)
    BY <2>1, StackItems DEF Mergeable
  <2>3. \A i \in DOMAIN x.items :
          /\ CanMergeWith(a.items[i], b.items[i])
          /\ CanMergeWith(x.items[i], MergeEntry(a.items[i], b.items[i]))
          /\ MergeEntry(x.items[i], MergeEntry(a.items[i], b.items[i])) = x.items[i]
    <3> TAKE i \in DOMAIN x.items
    <3>1. /\ x.items[i] \in StackEntries /\ a.items[i] \in StackEntries /\ b.items[i] \in StackEntries
          /\ CanMergeWith(x.items[i], a.items[i]) /\ CanMergeWith(x.items[i], b.items[i])
          /\ MergeEntry(x.items[i], a.items[i]) = x.items[i]
          /\ MergeEntry(x.items[i], b.items[i]) = x.items[i]
      BY <2>1, <2>2, StackItems DEF Mergeable
    <3>2. QED
      BY <3>1, MergeEntryLub
  <2>4. Mergeable(a, b)
    BY <2>1, <2>2, <2>3 DEF Mergeable
  <2>5. /\ ~g.abandoned
        /\ g.items = [i \in DOMAIN x.items |-> MergeEntry(a.items[i], b.items[i])]
    BY <2>2, <2>4, MergedStack
  <2> HIDE DEF g
  <2>6. Len(g.items) = Len(x.items)
    <3>1. DOMAIN g.items = 1 .. Len(x.items)
      BY <2>5, StackItems
    <3>2. g.items \in Seq(StackEntries) /\ x.items \in Seq(StackEntries)
      BY <1>1, StackFields
    <3>3. QED
      BY <3>1, <3>2, LenProperties, StackItems
  <2>7. Mergeable(x, g)
    BY <1>3, <2>3, <2>5, <2>6 DEF Mergeable
  <2>8. \A i \in DOMAIN x.items : MergeEntry(x.items[i], g.items[i]) = x.items[i]
    BY <2>3, <2>5
  <2>9. QED
    BY <1>1, <2>7, <2>8, StackCovers DEF g
<1>4. QED
  BY <1>2, <1>3

\* A state that is right on two paths is right where they join.
LEMMA MergeLub ==
  ASSUME NEW x \in ExecutionStates, NEW a \in ExecutionStates, NEW b \in ExecutionStates,
         Merge(x, a) = x, Merge(x, b) = x
  PROVE  Merge(x, Merge(a, b)) = x
<1>1. \A s \in {a, b} :
        /\ MergeRegister(x.a, s.a) = x.a /\ MergeRegister(x.x, s.x) = x.x
        /\ MergeRegister(x.y, s.y) = x.y /\ MergeRegister(x.dbr, s.dbr) = x.dbr
        /\ MergeFlags(x.flags, s.flags) = x.flags /\ MergeStack(x.stack, s.stack) = x.stack
  BY DEF Merge
<1>2. /\ MergeRegister(x.a, MergeRegister(a.a, b.a)) = x.a
      /\ MergeRegister(x.x, MergeRegister(a.x, b.x)) = x.x
      /\ MergeRegister(x.y, MergeRegister(a.y, b.y)) = x.y
      /\ MergeRegister(x.dbr, MergeRegister(a.dbr, b.dbr)) = x.dbr
  BY <1>1, MergeRegisterLub
<1>3. /\ MergeFlags(x.flags, MergeFlags(a.flags, b.flags)) = x.flags
      /\ MergeStack(x.stack, MergeStack(a.stack, b.stack)) = x.stack
  BY <1>1, StateFields, MergeFlagsLub, MergeStackLub
<1>4. x = [a |-> x.a, x |-> x.x, y |-> x.y, dbr |-> x.dbr, flags |-> x.flags, stack |-> x.stack]
  BY DEF ExecutionStates
<1>5. QED
  BY <1>2, <1>3, <1>4 DEF Merge

\* Covering is transitive.
LEMMA MergeTransitive ==
  ASSUME NEW x \in ExecutionStates, NEW y \in ExecutionStates, NEW z \in ExecutionStates,
         Merge(x, y) = x, Merge(y, z) = y
  PROVE  Merge(x, z) = x
BY MergeCovers, MergeLaws

-----------------------------------------------------------------------------
(* Instructions *)

InstructionTypes(ins) ==
  /\ ins.arg \in Int \cup {NoValue}
  /\ ins.arg2 \in Int \cup {NoValue}
  /\ ins.ret \in ReturnConventions

LEMMA MaskType ==
  ASSUME NEW bit
  PROVE  Mask(bit) \in {256, 65536}
BY DEF Mask

LEMMA LoadedRegisterType ==
  ASSUME NEW arg \in Int \cup {NoValue}
  PROVE  LoadedRegister(arg) \in RegisterValues
BY KnownRegisterType, RegisterTypes DEF LoadedRegister

LEMMA UpdateStatusType ==
  ASSUME NEW f \in FlagStates, NEW target \in {"on", "off"}, NEW arg
  PROVE  UpdateStatus(f, target, arg) \in FlagStates
<1> DEFINE New(old, weight) ==
             CASE arg = NoValue /\ old # target -> "unknown"
               [] arg # NoValue /\ BitOf(arg, weight) -> target
               [] OTHER -> old
<1>1. f.e \in BitStates /\ f.m \in BitStates /\ f.x \in BitStates /\ f.c \in BitStates
  BY DEF FlagStates
<1>2. ASSUME NEW old \in BitStates, NEW weight
      PROVE  New(old, weight) \in BitStates
  BY DEF BitStates
<1>3. New(f.m, 32) \in BitStates /\ New(f.x, 16) \in BitStates /\ New(f.c, 1) \in BitStates
  BY <1>1, <1>2
<1>4. MakeFlags(f.e, New(f.m, 32), New(f.x, 16), New(f.c, 1)) \in FlagStates
  BY <1>1, <1>3, MakeFlagsType
<1>5. QED
  BY <1>4 DEF UpdateStatus

\* Replacing one or two components of a state by values of their types.
LEMMA UpdatedStateTypes ==
  ASSUME NEW es \in ExecutionStates, NEW r \in RegisterValues, NEW f \in FlagStates,
         NEW s \in Stacks
  PROVE  /\ [es EXCEPT !.a = r] \in ExecutionStates
         /\ [es EXCEPT !.x = r] \in ExecutionStates
         /\ [es EXCEPT !.y = r] \in ExecutionStates
         /\ [es EXCEPT !.flags = f] \in ExecutionStates
         /\ [es EXCEPT !.stack = s] \in ExecutionStates
         /\ [es EXCEPT !.a = r, !.flags = f] \in ExecutionStates
         /\ [es EXCEPT !.a = r, !.stack = s] \in ExecutionStates
         /\ [es EXCEPT !.x = r, !.stack = s] \in ExecutionStates
         /\ [es EXCEPT !.y = r, !.stack = s] \in ExecutionStates
BY DEF ExecutionStates

LEMMA SteppedType ==
  ASSUME NEW es \in ExecutionStates, NEW ins,
         ins.mnemonic \in {"inc", "dec", "inx", "dex", "iny", "dey"}
  PROVE  Stepped(es, ins) \in ExecutionStates
<1> DEFINE offset == IF ins.mnemonic \in {"dec", "dex", "dey"} THEN -1 ELSE 1
<1>1. offset \in Int
  OBVIOUS
<1>2. /\ AddToRegister(es.a, offset, Mask(es.flags.m)) \in RegisterValues
      /\ AddToRegister(es.x, offset, Mask(es.flags.x)) \in RegisterValues
      /\ AddToRegister(es.y, offset, Mask(es.flags.x)) \in RegisterValues
  BY SMTT(30), <1>1, StateFields, MaskType, AddToRegisterType
<1>3. /\ [es EXCEPT !.a = AddToRegister(es.a, offset, Mask(es.flags.m))] \in ExecutionStates
      /\ [es EXCEPT !.x = AddToRegister(es.x, offset, Mask(es.flags.x))] \in ExecutionStates
      /\ [es EXCEPT !.y = AddToRegister(es.y, offset, Mask(es.flags.x))] \in ExecutionStates
  BY <1>2, UpdatedStateTypes, StateFields
<1>4. QED
  BY <1>3 DEF Stepped

LEMMA LoadedType ==
  ASSUME NEW es \in ExecutionStates, NEW ins, InstructionTypes(ins),
         ins.mnemonic \in {"lda", "ldx", "ldy"}
  PROVE  Loaded(es, ins) \in ExecutionStates
<1>1. LoadedRegister(ins.arg) \in RegisterValues
  BY LoadedRegisterType DEF InstructionTypes
<1>2. /\ [es EXCEPT !.a = LoadedRegister(ins.arg)] \in ExecutionStates
      /\ [es EXCEPT !.x = LoadedRegister(ins.arg)] \in ExecutionStates
      /\ [es EXCEPT !.y = LoadedRegister(ins.arg)] \in ExecutionStates
  BY <1>1, UpdatedStateTypes, StateFields
<1>3. QED
  BY <1>2 DEF Loaded

LEMMA PushedType ==
  ASSUME NEW es \in ExecutionStates, NEW ins, InstructionTypes(ins),
         ins.mnemonic \in {"pea", "pei", "per", "pha", "phx", "phy", "php"}
  PROVE  Pushed(es, ins) \in ExecutionStates
<1>1. es.flags \in FlagStates /\ es.flags.m \in BitStates /\ es.flags.x \in BitStates
  BY StateFields DEF FlagStates
<1>2. /\ PushReg(es.stack, es.a, es.flags.m, ATypes) \in Stacks
      /\ PushReg(es.stack, es.x, es.flags.x, XTypes) \in Stacks
      /\ PushReg(es.stack, es.y, es.flags.x, YTypes) \in Stacks
  BY <1>1, StateFields, PushRegType DEF RegisterKinds
<1>3. PushEntry(es.stack, FlagsEntry(es.flags)) \in Stacks
  BY <1>1, StateFields, FlagsEntryType, PushEntryType
<1>4. PushUnknownWord(es.stack) \in Stacks
  BY StateFields, PushWordType
<1>5. ins.arg # NoValue => PushWord(es.stack, ins.arg) \in Stacks
  BY StateFields, PushWordType DEF InstructionTypes
<1>6. \A s \in Stacks : [es EXCEPT !.stack = s] \in ExecutionStates
  BY UpdatedStateTypes, StateFields
<1>7. QED
  BY <1>2, <1>3, <1>4, <1>5, <1>6 DEF Pushed

LEMMA CallType ==
  ASSUME NEW es \in ExecutionStates, NEW ins, InstructionTypes(ins)
  PROVE  Call(es, ins) \in ExecutionStates
<1> DEFINE f == IF ins.ret.kind = "yields" THEN ins.ret.flags ELSE es.flags
<1>1. f \in FlagStates
  BY StateFields DEF InstructionTypes, ReturnConventions
<1>2. SetCBit(f, "unknown") \in FlagStates
  BY <1>1, FlagSetterTypes DEF BitStates
<1>3. QED
  BY <1>2, UpdatedStateTypes, StateFields DEF Call

LEMMA BlockMoveType ==
  ASSUME NEW es \in ExecutionStates, NEW ins, InstructionTypes(ins)
  PROVE  BlockMove(es, ins) \in ExecutionStates
<1> DEFINE offset == IF ins.mnemonic = "mvn" THEN 1 + ins.arg ELSE -1 - ins.arg
           Moved(r) == IF ins.arg = NoValue THEN UnknownRegister
                       ELSE AddToRegister(r, offset, Mask(es.flags.x))
           a == CASE es.flags.m = "on" -> KnownRegister(255)
                  [] es.flags.m = "off" -> KnownRegister(65535)
                  [] OTHER -> UnknownRegister
<1>1. a \in RegisterValues
  BY KnownRegisterType, RegisterTypes
<1>2. ASSUME NEW r \in RegisterValues
      PROVE  Moved(r) \in RegisterValues
  <2>1. CASE ins.arg = NoValue
    BY <2>1, RegisterTypes
  <2>2. CASE ins.arg # NoValue
    <3>1. offset \in Int
      BY <2>2 DEF InstructionTypes
    <3>2. AddToRegister(r, offset, Mask(es.flags.x)) \in RegisterValues
      <4> HIDE DEF offset
      <4>1. QED
        BY <3>1, MaskType, AddToRegisterType
    <3>3. QED
      BY <2>2, <3>2
  <2>3. QED
    BY <2>1, <2>2
<1>3. LoadedRegister(ins.arg2) \in RegisterValues
  BY LoadedRegisterType DEF InstructionTypes
<1>4. BlockMove(es, ins) = [es EXCEPT !.a = a, !.x = Moved(es.x), !.y = Moved(es.y),
                                      !.dbr = LoadedRegister(ins.arg2)]
  BY DEF BlockMove, ExecutionStates
<1> HIDE DEF a, Moved
<1>5. Moved(es.x) \in RegisterValues /\ Moved(es.y) \in RegisterValues
  BY <1>2, StateFields
<1>6. QED
  BY <1>1, <1>3, <1>4, <1>5 DEF ExecutionStates

LEMMA TransferType ==
  ASSUME NEW es \in ExecutionStates, NEW ins, InstructionTypes(ins)
  PROVE  Transfer(ins, es) \in ExecutionStates
<1> DEFINE m == ins.mnemonic
<1>1. es.flags \in FlagStates
  BY StateFields
<1>2. /\ SetCBit(es.flags, "on") \in FlagStates
      /\ SetCBit(es.flags, "off") \in FlagStates
      /\ SetCBit(es.flags, "unknown") \in FlagStates
      /\ ExchangeCE(es.flags) \in FlagStates
  BY <1>1, FlagSetterTypes DEF BitStates
<1>3. /\ UpdateStatus(es.flags, "off", ins.arg) \in FlagStates
      /\ UpdateStatus(es.flags, "on", ins.arg) \in FlagStates
  BY <1>1, UpdateStatusType
<1>4. /\ \A f \in FlagStates : [es EXCEPT !.flags = f] \in ExecutionStates
      /\ [es EXCEPT !.a = UnknownRegister] \in ExecutionStates
      /\ [es EXCEPT !.a = UnknownRegister, !.flags = SetCBit(es.flags, "unknown")] \in ExecutionStates
  BY <1>2, RegisterTypes, StateFields, UpdatedStateTypes
<1>5. m \in {"inc", "dec", "inx", "dex", "iny", "dey"} => Stepped(es, ins) \in ExecutionStates
  BY SteppedType
<1>6. m \in {"lda", "ldx", "ldy"} => Loaded(es, ins) \in ExecutionStates
  BY LoadedType
<1>7. m \in {"pea", "pei", "per", "pha", "phx", "phy", "php"} => Pushed(es, ins) \in ExecutionStates
  BY PushedType
<1>8. /\ BlockMove(es, ins) \in ExecutionStates
      /\ PullFlags(es) \in ExecutionStates
      /\ Call(es, ins) \in ExecutionStates
  BY BlockMoveType, PullFlagsType, CallType
<1>9. QED
  BY <1>2, <1>3, <1>4, <1>5, <1>6, <1>7, <1>8 DEF Transfer

LEMMA PullRegisterType ==
  ASSUME NEW es \in ExecutionStates, NEW ins, ins.mnemonic \in {"pla", "plx", "ply"}
  PROVE  PullRegister(ins, es).state \in ExecutionStates
<1>1. es.flags.m \in BitStates /\ es.flags.x \in BitStates
  BY StateFields DEF FlagStates
<1> DEFINE a == PullReg(es.stack, es.flags.m, ATypes)
           x == PullReg(es.stack, es.flags.x, XTypes)
           y == PullReg(es.stack, es.flags.x, YTypes)
<1>2. /\ a.reg \in RegisterValues /\ a.stack \in Stacks
      /\ x.reg \in RegisterValues /\ x.stack \in Stacks
      /\ y.reg \in RegisterValues /\ y.stack \in Stacks
  BY <1>1, StateFields, PullRegType DEF RegisterKinds
<1>3. /\ [es EXCEPT !.a = a.reg, !.stack = a.stack] \in ExecutionStates
      /\ [es EXCEPT !.x = x.reg, !.stack = x.stack] \in ExecutionStates
      /\ [es EXCEPT !.y = y.reg, !.stack = y.stack] \in ExecutionStates
  <2> HIDE DEF a, x, y
  <2>1. QED
    BY <1>2, StateFields, UpdatedStateTypes
<1>4. QED
  BY <1>3 DEF PullRegister

\* Execute returns an execution state, whatever it says of the instruction.
LEMMA ExecuteType ==
  ASSUME NEW es \in ExecutionStates, NEW ins, InstructionTypes(ins)
  PROVE  /\ Execute(ins, es).state \in ExecutionStates
         /\ ExecuteBranch(ins, es).state \in ExecutionStates
<1>1. Execute(ins, es).state \in ExecutionStates
  <2>1. CASE ~CheckConsistency(ins, es.flags)
    BY <2>1 DEF Execute
  <2>2. CASE CheckConsistency(ins, es.flags) /\ ins.mnemonic \in {"pla", "plx", "ply"}
    BY <2>2, PullRegisterType DEF Execute
  <2>3. CASE CheckConsistency(ins, es.flags) /\ ins.mnemonic \notin {"pla", "plx", "ply"}
    BY <2>3, TransferType DEF Execute
  <2>4. QED
    BY <2>1, <2>2, <2>3
<1>2. ASSUME NEW s \in ExecutionStates
      PROVE  BranchCarry(ins, s) \in ExecutionStates
  <2>1. SetCBit(s.flags, "off") \in FlagStates /\ SetCBit(s.flags, "on") \in FlagStates
    BY StateFields, FlagSetterTypes DEF BitStates
  <2>2. /\ [s EXCEPT !.flags = SetCBit(s.flags, "off")] \in ExecutionStates
        /\ [s EXCEPT !.flags = SetCBit(s.flags, "on")] \in ExecutionStates
    BY <2>1, StateFields, UpdatedStateTypes
  <2>3. QED
    BY <2>2 DEF BranchCarry
<1>3. ExecuteBranch(ins, es).state = BranchCarry(ins, Execute(ins, es).state)
  BY DEF ExecuteBranch, Execute
<1>4. QED
  BY <1>1, <1>2, <1>3

\* An instruction that Execute accepts is consistent with the flags, and then
\* the width of its immediate argument is decided by them.
LEMMA AcceptedIsConsistent ==
  ASSUME NEW es, NEW ins, Execute(ins, es).result = "ok"
  PROVE  CheckConsistency(ins, es.flags) /\ CanFixMode(ins, es.flags)
<1>1. CheckConsistency(ins, es.flags)
  BY DEF Execute
<1>2. QED
  BY <1>1 DEF CheckConsistency, ImmediateAgrees, CanFixMode

\* FixAddressingMode leaves no sentinel mode, so the size is decided.
LEMMA FixedModeIsSized ==
  ASSUME NEW ins, NEW flags, ins.mode \in AddressingModes
  PROVE  FixedMode(ins, flags) \in AddressingModes \ SizedImmediate
BY DEF FixedMode, AddressingModes, SizedImmediate

\* Every instruction but a sentinel immediate occupies at least one byte.
LEMMA SizedIsPositive ==
  ASSUME NEW ins, ins.mode \in AddressingModes \ SizedImmediate
  PROVE  InstructionSize(ins) \in 1 .. 5
BY DEF InstructionSize, InstructionLength, AddressingModes, SizedImmediate

-----------------------------------------------------------------------------
(* An instruction whose width has been fixed in the state it was checked   *)
(* in does what it did before                                              *)

\* The index registers have the only immediates that the x bit sizes.
LEMMA TableImmediates ==
  \A i \in DOMAIN DecodeMap :
    /\ DecodeMap[i][2] = "imm_fx" => DecodeMap[i][1] \in {"ldx", "ldy", "cpx", "cpy"}
    /\ DecodeMap[i][2] = "imm_fm" => DecodeMap[i][1] \notin {"ldx", "ldy", "cpx", "cpy"}
<1>1. \A i \in 1 .. 256 :
        /\ DecodeMap[i][2] = "imm_fx" => DecodeMap[i][1] \in {"ldx", "ldy", "cpx", "cpy"}
        /\ DecodeMap[i][2] = "imm_fm" => DecodeMap[i][1] \notin {"ldx", "ldy", "cpx", "cpy"}
  BY SMTT(60) DEF DecodeMap
<1>2. DOMAIN DecodeMap = 1 .. 256
  BY SMTT(60) DEF DecodeMap
<1>3. QED
  BY <1>1, <1>2

\* A sentinel immediate mode stands for both widths, and for one bit only.
LEMMA SentinelModes ==
  ASSUME NEW m, NEW mode \in SizedImmediate, <<m, mode>> \in EncodeKeys
  PROVE  /\ <<m, "imm_b">> \in EncodeKeys /\ <<m, "imm_w">> \in EncodeKeys
         /\ mode = "imm_fx" => <<m, "imm_fm">> \notin EncodeKeys /\ m # "adc"
<1> DEFINE Rows == {DecodeMap[i] : i \in DOMAIN DecodeMap}
           Sized == {r \in Rows : r[2] \in SizedImmediate}
<1>1. EncodeKeys = Rows \cup {<<row[1], width>> : row \in Sized, width \in {"imm_b", "imm_w"}}
  BY DEF EncodeKeys
<1> HIDE DEF Rows
<1>2. \A key : key \in SizedImmediate => (<<m, key>> \in EncodeKeys => <<m, key>> \in Rows)
  BY <1>1 DEF SizedImmediate
<1>3. <<m, mode>> \in Sized
  BY <1>2
<1>4. <<m, "imm_b">> \in EncodeKeys /\ <<m, "imm_w">> \in EncodeKeys
  BY <1>1, <1>3
<1>5. ASSUME NEW key, <<m, key>> \in Rows
      PROVE  \E i \in DOMAIN DecodeMap : DecodeMap[i][1] = m /\ DecodeMap[i][2] = key
  <2>1. PICK i \in DOMAIN DecodeMap : DecodeMap[i] = <<m, key>>
    BY <1>5 DEF Rows
  <2>2. QED
    BY <2>1
<1>6. /\ <<m, "imm_fx">> \in Rows => m \in {"ldx", "ldy", "cpx", "cpy"}
      /\ <<m, "imm_fm">> \in Rows => m \notin {"ldx", "ldy", "cpx", "cpy"}
  BY <1>5, TableImmediates
<1>7. QED
  BY <1>2, <1>3, <1>4, <1>6 DEF SizedImmediate

\* The two instructions differ in their mode, which is the one FixedMode
\* gives the first of them.
FixedFrom(fixed, ins, flags) ==
  /\ fixed.mode = FixedMode(ins, flags)
  /\ fixed.mnemonic = ins.mnemonic /\ fixed.suffix = ins.suffix /\ fixed.ret = ins.ret
  /\ fixed.arg = ins.arg /\ fixed.arg2 = ins.arg2

LEMMA FixedStaysConsistent ==
  ASSUME NEW ins, NEW flags, NEW fixed, FixedFrom(fixed, ins, flags), CheckConsistency(ins, flags)
  PROVE  CheckConsistency(fixed, flags)
<1>1. CASE ins.mode \notin SizedImmediate
  <2>1. fixed.mode = ins.mode
    BY <1>1 DEF FixedFrom, FixedMode
  <2>2. SuffixAgrees(fixed, flags) /\ ImmediateAgrees(fixed, flags)
    BY <2>1 DEF CheckConsistency, FixedFrom, SuffixAgrees, ImmediateAgrees
  <2>3. QED
    BY <2>1, <2>2 DEF CheckConsistency, FixedFrom
<1>2. CASE ins.mode \in SizedImmediate
  <2> DEFINE m == EffectiveMnemonic(ins.mnemonic)
             width == WidthBit(flags, IF ins.mode = "imm_fm" THEN "m" ELSE "x")
  <2>1. <<m, ins.mode>> \in EncodeKeys
    BY DEF CheckConsistency, IsLegalCombination
  <2> HIDE DEF m
  <2>2. /\ <<m, "imm_b">> \in EncodeKeys /\ <<m, "imm_w">> \in EncodeKeys
        /\ ins.mode = "imm_fx" => <<m, "imm_fm">> \notin EncodeKeys /\ m # "adc"
    BY <1>2, <2>1, SentinelModes
  <2>3. fixed.mode = IF width = "on" THEN "imm_b" ELSE "imm_w"
    BY <1>2 DEF FixedFrom, FixedMode
  <2>4. width \in {"on", "off"}
    BY <1>2 DEF CheckConsistency, ImmediateAgrees, WidthBit, SizedImmediate
  <2>5. IsLegalCombination(EffectiveMnemonic(fixed.mnemonic), fixed.mode)
    BY <2>2, <2>3 DEF m, FixedFrom, IsLegalCombination
  <2>6. SuffixAgrees(fixed, flags)
    BY DEF CheckConsistency, FixedFrom, SuffixAgrees
  <2>7. ImmediateAgrees(fixed, flags)
    <3>1. CASE ins.mode = "imm_fm"
      <4>1. ImmediateArgumentUsesMBit(fixed.mnemonic)
        BY <2>1, <3>1 DEF m, FixedFrom, EffectiveMnemonic, ImmediateArgumentUsesMBit
      <4>2. width = flags.m
        BY <3>1 DEF WidthBit
      <4> HIDE DEF width
      <4>3. QED
        BY <2>3, <2>4, <4>1, <4>2 DEF ImmediateAgrees
    <3>2. CASE ins.mode = "imm_fx"
      <4>1. ~ImmediateArgumentUsesMBit(fixed.mnemonic)
        BY <2>2, <3>2 DEF m, FixedFrom, EffectiveMnemonic, ImmediateArgumentUsesMBit
      <4>2. width = flags.x
        BY <3>2 DEF WidthBit
      <4> HIDE DEF width
      <4>3. QED
        BY <2>3, <2>4, <4>1, <4>2 DEF ImmediateAgrees
    <3>3. QED
      BY <1>2, <3>1, <3>2 DEF SizedImmediate
  <2>8. QED
    BY <2>5, <2>6, <2>7 DEF CheckConsistency
<1>3. QED
  BY <1>1, <1>2

LEMMA FixedExecutesAlike ==
  ASSUME NEW ins, NEW es, NEW fixed, FixedFrom(fixed, ins, es.flags), CheckConsistency(ins, es.flags)
  PROVE  Execute(fixed, es) = Execute(ins, es) /\ ExecuteBranch(fixed, es) = ExecuteBranch(ins, es)
<1>1. CheckConsistency(fixed, es.flags)
  BY FixedStaysConsistent
<1>2. /\ fixed.mode \in ImmediateModes <=> ins.mode \in ImmediateModes
      /\ fixed.mode \in {"acc", "imp"} <=> ins.mode \in {"acc", "imp"}
  BY DEF FixedFrom, FixedMode, SizedImmediate, ImmediateModes
<1>3. Stepped(es, fixed) = Stepped(es, ins) /\ Loaded(es, fixed) = Loaded(es, ins)
  BY <1>2 DEF FixedFrom, Stepped, Loaded
<1>4. /\ BlockMove(es, fixed) = BlockMove(es, ins)
      /\ Pushed(es, fixed) = Pushed(es, ins)
      /\ Call(es, fixed) = Call(es, ins)
  BY DEF FixedFrom, BlockMove, Pushed, Call
<1>5. Transfer(fixed, es) = Transfer(ins, es)
  BY <1>3, <1>4 DEF FixedFrom, Transfer
<1>6. PullRegister(fixed, es) = PullRegister(ins, es)
  BY DEF FixedFrom, PullRegister
<1>7. Execute(fixed, es) = Execute(ins, es)
  BY <1>1, <1>5, <1>6 DEF FixedFrom, Execute
<1>8. QED
  BY <1>7 DEF FixedFrom, ExecuteBranch, BranchCarry

=============================================================================
