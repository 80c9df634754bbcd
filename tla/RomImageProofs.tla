--------------------------- MODULE RomImageProofs ---------------------------
(***************************************************************************)
(* Rom::Read against single reads, for ROMs of every size and content.     *)
(* The common path of Read takes the bytes between two offsets of the ROM; *)
(* it is right because an offset is the place within the bank plus what    *)
(* depends on the bank alone, so that a read whose last byte lies behind   *)
(* its first has not wrapped around, unless it is longer than LongestRead. *)
(* From it, the tools: what quick_dump prints assembles to the bytes of    *)
(* the ROM, and RomIdentityTest passes those bytes and no others.          *)
(***************************************************************************)
EXTENDS RomImage, TLAPS

-----------------------------------------------------------------------------
(* Addresses within a bank *)

LEMMA MaxAddressType == MaxAddress \in Int
BY SMT DEF MaxAddress

LEMMA AddressRange ==
  ASSUME NEW a \in Addresses
  PROVE  a \in Int /\ 0 <= a /\ a <= 16777215
<1>1. a \in Int /\ 0 <= a /\ a <= MaxAddress
  BY MaxAddressType DEF Addresses
<1>2. QED
  BY SMT, <1>1 DEF MaxAddress

LEMMA InAddresses ==
  ASSUME NEW a \in Int, 0 <= a, a <= 16777215
  PROVE  a \in Addresses
<1>1. a <= MaxAddress
  BY SMT DEF MaxAddress
<1>2. QED
  BY <1>1, MaxAddressType DEF Addresses

\* AddWrapped keeps the bank of an address of the 24-bit space.
LEMMA WrappedParts ==
  ASSUME NEW a \in Addresses, NEW i \in Nat
  PROVE  /\ Bank(a) \in 0 .. 255
         /\ AddWrapped(a, i) \in Addresses
         /\ Bank(AddWrapped(a, i)) = Bank(a)
         /\ AddWrapped(a, i) % 65536 = ((a % 65536) + i) % 65536
<1>1. a \in Int /\ 0 <= a /\ a <= 16777215
  BY AddressRange
<1> DEFINE bank == a \div 65536
           low == (a + i) % 65536
<1>2. bank \in 0 .. 255
  BY SMT, <1>1
<1>3. low \in Int /\ 0 <= low /\ low <= 65535 /\ low = ((a % 65536) + i) % 65536
  BY SMT, <1>1
<1>4. bank % 256 = bank
  BY SMT, <1>2
<1> HIDE DEF bank, low
<1> DEFINE sum == bank * 65536 + low
<1>5. sum \in Int /\ 0 <= sum /\ sum <= 16777215
  BY SMT, <1>2, <1>3
<1>6. sum \div 65536 = bank /\ sum % 65536 = low
  BY SMT, <1>2, <1>3
<1>7. AddWrapped(a, i) = sum
  BY <1>4 DEF AddWrapped, Bank, bank, low
<1> HIDE DEF sum
<1>8. sum \in Addresses
  BY <1>5, InAddresses
<1>9. QED
  BY <1>2, <1>3, <1>6, <1>7, <1>8 DEF Bank, bank

\* A step of no bytes stays where it is.
LEMMA WrappedByNothing ==
  ASSUME NEW a \in Addresses
  PROVE  AddWrapped(a, 0) = a
<1>1. a \in Int /\ 0 <= a /\ a <= 16777215
  BY AddressRange
<1>2. a = ((a \div 65536) % 256) * 65536 + ((a + 0) % 65536)
  BY SMT, <1>1
<1>3. QED
  BY <1>2 DEF AddWrapped, Bank
-----------------------------------------------------------------------------
(* Offsets in the ROM *)

Mappings == {"LoRom", "HiRom", "ExHiRom"}

\* What an offset owes to the bank.
Base(bank, mapping) ==
  CASE mapping = "LoRom" -> 32768 * (bank % 128) - 32768
    [] mapping = "HiRom" -> 65536 * (bank % 64)
    [] mapping = "ExHiRom" -> 65536 * (bank % 64) + 4194304

\* The addresses a mapping leaves out.
Unmapped(a, mapping) ==
  \/ InWorkRam(a) \/ InRegisters(a)
  \/ mapping = "LoRom" /\ a % 65536 < 32768

LEMMA BaseType ==
  ASSUME NEW bank \in 0 .. 255, NEW mapping \in Mappings
  PROVE  Base(bank, mapping) \in Int /\ Base(bank, mapping) >= -32768
<1>1. bank % 128 \in 0 .. 127 /\ bank % 64 \in 0 .. 63
  BY SMT
<1>2. CASE mapping = "LoRom"
  BY SMT, <1>1, <1>2 DEF Base
<1>3. CASE mapping = "HiRom"
  BY SMT, <1>1, <1>3 DEF Base
<1>4. CASE mapping = "ExHiRom"
  BY SMT, <1>1, <1>4 DEF Base
<1>5. QED
  BY <1>2, <1>3, <1>4 DEF Mappings

\* SnesToROMAddress is the place in the bank plus the base of the bank.
LEMMA OffsetInBank ==
  ASSUME NEW a \in Addresses, NEW mapping \in Mappings
  PROVE  SnesToROMAddress(a, mapping) =
           IF Unmapped(a, mapping) THEN NotInRom ELSE (a % 65536) + Base(Bank(a), mapping)
<1> DEFINE low == a % 65536
           bank == Bank(a)
<1>1. bank \in 0 .. 255 /\ low \in Int /\ 0 <= low /\ low <= 65535
  <2>1. a \in Int
    BY AddressRange
  <2>2. low \in Int /\ 0 <= low /\ low <= 65535
    BY SMT, <2>1
  <2>3. bank \in 0 .. 255
    BY WrappedParts
  <2>4. QED
    BY <2>2, <2>3
<1>2. CASE mapping = "LoRom"
  <2>1. bank % 128 \in 0 .. 127
    BY SMT, <1>1
  <2>2. CASE InWorkRam(a) \/ InRegisters(a)
    BY <1>2, <2>2 DEF SnesToROMAddress, Unmapped
  <2>3. CASE ~InWorkRam(a) /\ ~InRegisters(a)
    <3>1. SnesToROMAddress(a, mapping) =
            IF low < 32768 THEN NotInRom ELSE (low % 32768) + 32768 * (bank % 128)
      BY <1>2, <2>3 DEF SnesToROMAddress
    <3>2. Unmapped(a, mapping) <=> low < 32768
      BY <1>2, <2>3 DEF Unmapped
    <3>3. ~(low < 32768) =>
            (low % 32768) + 32768 * (bank % 128) = low + (32768 * (bank % 128) - 32768)
      BY SMT, <1>1, <2>1
    <3>4. Base(bank, mapping) = 32768 * (bank % 128) - 32768
      BY <1>2 DEF Base
    <3>5. QED
      BY <3>1, <3>2, <3>3, <3>4
  <2>4. QED
    BY <2>2, <2>3
<1>3. CASE mapping = "HiRom"
  BY SMT, <1>1, <1>3 DEF SnesToROMAddress, Unmapped, Base
<1>4. CASE mapping = "ExHiRom"
  <2> DEFINE wide == low + 65536 * (bank % 64)
  <2>1. bank % 64 \in 0 .. 63
    BY SMT, <1>1
  <2>2. (wide \div 8388608) % 2 = 0
    BY SMT, <1>1, <2>1
  <2>3. CASE InWorkRam(a) \/ InRegisters(a)
    BY <1>4, <2>3 DEF SnesToROMAddress, Unmapped
  <2>4. CASE ~InWorkRam(a) /\ ~InRegisters(a)
    <3>1. SnesToROMAddress(a, mapping) =
            IF (wide \div 8388608) % 2 = 0 THEN wide + 4194304 ELSE wide
      BY <1>4, <2>4 DEF SnesToROMAddress
    <3>2. ~Unmapped(a, mapping)
      BY <1>4, <2>4 DEF Unmapped
    <3>3. Base(bank, mapping) = 65536 * (bank % 64) + 4194304
      BY <1>4 DEF Base
    <3>4. wide + 4194304 = low + (65536 * (bank % 64) + 4194304)
      BY SMT, <1>1, <2>1
    <3>5. QED
      BY <2>2, <3>1, <3>2, <3>3, <3>4
  <2>5. QED
    BY <2>3, <2>4
<1>5. QED
  BY <1>2, <1>3, <1>4 DEF Mappings

\* Only unmapped addresses have no offset, and every other offset is a natural number.
LEMMA OffsetKind ==
  ASSUME NEW a \in Addresses, NEW mapping \in Mappings
  PROVE  /\ SnesToROMAddress(a, mapping) \in Int
         /\ SnesToROMAddress(a, mapping) = NotInRom <=> Unmapped(a, mapping)
         /\ SnesToROMAddress(a, mapping) # NotInRom => SnesToROMAddress(a, mapping) \in Nat
<1> DEFINE low == a % 65536
           base == Base(Bank(a), mapping)
<1>1. low \in Int /\ 0 <= low /\ low <= 65535
  <2>1. a \in Int
    BY AddressRange
  <2>2. QED
    BY SMT, <2>1
<1>2. base \in Int /\ base >= -32768 /\ (mapping # "LoRom" => base >= 0)
  <2>1. Bank(a) \in 0 .. 255
    BY WrappedParts
  <2>2. Bank(a) % 64 \in 0 .. 63
    BY SMT, <2>1
  <2>3. mapping = "HiRom" => base = 65536 * (Bank(a) % 64)
    BY DEF Base
  <2>4. mapping = "ExHiRom" => base = 65536 * (Bank(a) % 64) + 4194304
    BY DEF Base
  <2>5. base \in Int /\ base >= -32768
    BY <2>1, BaseType
  <2>6. mapping # "LoRom" => mapping = "HiRom" \/ mapping = "ExHiRom"
    BY DEF Mappings
  <2> HIDE DEF base
  <2>7. QED
    BY SMT, <2>2, <2>3, <2>4, <2>5, <2>6
<1>3. SnesToROMAddress(a, mapping) = IF Unmapped(a, mapping) THEN NotInRom ELSE low + base
  BY OffsetInBank
<1>4. ~Unmapped(a, mapping) /\ mapping = "LoRom" => low >= 32768
  BY SMT, <1>1 DEF Unmapped
<1> HIDE DEF low, base
<1>5. ~Unmapped(a, mapping) => low + base \in Int /\ low + base >= 0
  BY SMT, <1>1, <1>2, <1>4
<1>6. QED
  BY SMT, <1>3, <1>5 DEF NotInRom

\* A read that ends behind its start has taken the addresses in between, and
\* these are in the ROM, one behind the other.
LEMMA StraightRead ==
  ASSUME NEW a \in Addresses, NEW mapping \in Mappings,
         NEW length \in Nat, 1 <= length, length <= LongestRead,
         SnesToROMAddress(AddWrapped(a, 0), mapping) # NotInRom,
         SnesToROMAddress(AddWrapped(a, length - 1), mapping) # NotInRom,
         SnesToROMAddress(AddWrapped(a, length - 1), mapping)
           > SnesToROMAddress(AddWrapped(a, 0), mapping),
         NEW i \in 0 .. length - 1
  PROVE  /\ SnesToROMAddress(AddWrapped(a, i), mapping)
              = SnesToROMAddress(AddWrapped(a, 0), mapping) + i
         /\ SnesToROMAddress(AddWrapped(a, i), mapping) # NotInRom
<1> DEFINE low == a % 65536
           end == AddWrapped(a, length - 1)
           there == AddWrapped(a, i)
           base == Base(Bank(a), mapping)
<1>1. a \in Int /\ low \in Int /\ 0 <= low /\ low <= 65535
  <2>1. a \in Int
    BY AddressRange
  <2>2. QED
    BY SMT, <2>1
<1>2. length - 1 \in Nat /\ i \in Nat /\ i <= length - 1 /\ length - 1 <= 65536
  BY SMT DEF LongestRead
<1>3. end \in Addresses /\ Bank(end) = Bank(a) /\ end % 65536 = (low + (length - 1)) % 65536
  BY <1>2, WrappedParts
<1>4. there \in Addresses /\ Bank(there) = Bank(a) /\ there % 65536 = (low + i) % 65536
  BY <1>2, WrappedParts
<1>5. AddWrapped(a, 0) = a
  BY WrappedByNothing
<1>6. ~Unmapped(a, mapping) /\ ~Unmapped(end, mapping)
  BY <1>3, <1>5, OffsetKind
<1>7. SnesToROMAddress(a, mapping) = low + base
  BY <1>6, OffsetInBank
<1>8. SnesToROMAddress(end, mapping) = (end % 65536) + base
  BY <1>3, <1>6, OffsetInBank
<1>9. base \in Int
  <2>1. Bank(a) \in 0 .. 255
    BY WrappedParts
  <2>2. QED
    BY <2>1, BaseType
<1>10. (end % 65536) + base > low + base
  BY <1>5, <1>7, <1>8
<1> HIDE DEF low, base
<1>11. (low + (length - 1)) % 65536 > low
  <2> DEFINE high == (low + (length - 1)) % 65536
  <2>1. high \in Int
    BY SMT, <1>1, <1>2
  <2>2. high + base > low + base
    BY <1>3, <1>10
  <2> HIDE DEF high
  <2>3. high > low
    BY SMT, <1>1, <1>9, <2>1, <2>2
  <2>4. QED
    BY <2>3 DEF high
<1>12. low + (length - 1) <= 65535
  BY SMT, <1>1, <1>2, <1>11
<1>13. (low + i) % 65536 = low + i
  BY SMT, <1>1, <1>2, <1>12
<1>14. there % 65536 = low + i
  BY <1>4, <1>13
<1>15. ~Unmapped(there, mapping)
  <2>1. there % 65536 < 32768 => low < 32768
    BY SMT, <1>1, <1>2, <1>14
  <2>2. QED
    BY <1>4, <1>6, <2>1 DEF Unmapped, InWorkRam, InRegisters, low
<1>16. SnesToROMAddress(there, mapping) = (there % 65536) + base
  BY <1>4, <1>15, OffsetInBank DEF base
<1>17. SnesToROMAddress(there, mapping) = (low + base) + i
  <2>1. (low + i) + base = (low + base) + i
    BY SMT, <1>1, <1>2, <1>9
  <2>2. QED
    BY <1>14, <1>16, <2>1
<1>18. SnesToROMAddress(there, mapping) # NotInRom
  BY <1>4, <1>15, OffsetKind
<1>19. QED
  BY <1>5, <1>7, <1>17, <1>18

\* SnesToROMAddress tests a bit that is never set, and so adds the same bit
\* for every bank: no address of an ExHiROM reaches its first four megabytes.
THEOREM ExHiRomUpperHalf ==
  ASSUME NEW a \in Addresses, SnesToROMAddress(a, "ExHiRom") # NotInRom
  PROVE  SnesToROMAddress(a, "ExHiRom") >= 4194304
<1> DEFINE low == a % 65536
<1>1. low \in Int /\ 0 <= low
  <2>1. a \in Int
    BY AddressRange
  <2>2. QED
    BY SMT, <2>1
<1>2. Bank(a) % 64 \in Int /\ 0 <= Bank(a) % 64
  <2>1. Bank(a) \in 0 .. 255
    BY WrappedParts
  <2>2. QED
    BY SMT, <2>1
<1>3. SnesToROMAddress(a, "ExHiRom") = low + (65536 * (Bank(a) % 64) + 4194304)
  <2>1. Base(Bank(a), "ExHiRom") = 65536 * (Bank(a) % 64) + 4194304
    BY DEF Base
  <2>2. QED
    BY <2>1, OffsetInBank, OffsetKind DEF Mappings
<1> HIDE DEF low
<1>4. QED
  BY SMT, <1>1, <1>2, <1>3

-----------------------------------------------------------------------------
(* Reads *)

SingleRead(r, a, i) == Read(r, AddWrapped(a, i), 1)

LEMMA ReadOfOne ==
  ASSUME NEW r, r.mapping \in Mappings, r.size \in Int, NEW a \in Addresses, NEW i \in Nat
  PROVE  LET offset == SnesToROMAddress(AddWrapped(a, i), r.mapping)
         IN  /\ SingleRead(r, a, i).ok <=> offset # NotInRom /\ offset < r.size
             /\ SingleRead(r, a, i).ok => SingleRead(r, a, i).bytes[1] = Content(offset)
<1> DEFINE there == AddWrapped(a, i)
           offset == SnesToROMAddress(there, r.mapping)
<1>1. there \in Addresses
  BY WrappedParts
<1>2. AddWrapped(there, 0) = there
  BY <1>1, WrappedByNothing
<1>3. offset \in Int
  BY <1>1, OffsetKind
<1> HIDE DEF there
<1>4. CASE offset = NotInRom
  <2>1. Read(r, there, 1) = Unreadable
    BY <1>2, <1>4 DEF Read
  <2>2. QED
    BY <1>4, <2>1 DEF SingleRead, Unreadable, there
<1>5. CASE offset # NotInRom
  <2>1. ~(offset > offset)
    BY SMT, <1>3
  <2>2. \A k \in 0 .. 1 - 1 : k = 0
    BY SMT
  <2>3. 0 \in 0 .. 1 - 1 /\ 1 - 1 = 0
    BY SMT
  <2>4. CASE offset < r.size
    <3>1. Read(r, there, 1) =
            BytesRead([k \in 1 .. 1 |-> Content(SnesToROMAddress(AddWrapped(there, k - 1), r.mapping))])
      BY <1>2, <1>5, <2>1, <2>2, <2>3, <2>4 DEF Read
    <3>2. 1 \in 1 .. 1
      BY SMT
    <3>3. Read(r, there, 1).ok /\ Read(r, there, 1).bytes[1] = Content(offset)
      BY <1>2, <2>3, <3>1, <3>2 DEF BytesRead
    <3>4. QED
      BY <1>5, <2>4, <3>3 DEF SingleRead, there
  <2>5. CASE ~(offset < r.size)
    <3>1. Read(r, there, 1) = Unreadable
      BY <1>2, <1>5, <2>1, <2>2, <2>3, <2>5 DEF Read
    <3>2. QED
      BY <2>5, <3>1 DEF SingleRead, Unreadable, there
  <2>6. QED
    BY <2>4, <2>5
<1>6. QED
  BY <1>4, <1>5

\* ReadIsBytewise for one ROM, address and length.
LEMMA ReadOfMany ==
  ASSUME NEW r, r.mapping \in Mappings, r.size \in Int, NEW a \in Addresses,
         NEW length \in Nat, 1 <= length, length <= LongestRead
  PROVE  /\ Read(r, a, length).ok <=> \A i \in 0 .. length - 1 : SingleRead(r, a, i).ok
         /\ Read(r, a, length).ok =>
              Read(r, a, length).bytes =
                [i \in 1 .. length |-> SingleRead(r, a, i - 1).bytes[1]]
<1> DEFINE OffsetOf(i) == SnesToROMAddress(AddWrapped(a, i), r.mapping)
           first == OffsetOf(0)
           last == OffsetOf(length - 1)
<1>1. \A i \in Nat : OffsetOf(i) \in Int
  BY WrappedParts, OffsetKind
<1>2. \A i \in Nat : SingleRead(r, a, i).ok <=> OffsetOf(i) # NotInRom /\ OffsetOf(i) < r.size
  BY ReadOfOne
<1>3. \A i \in Nat : SingleRead(r, a, i).ok => SingleRead(r, a, i).bytes[1] = Content(OffsetOf(i))
  BY ReadOfOne
<1>4. /\ 0 \in 0 .. length - 1 /\ length - 1 \in 0 .. length - 1 /\ length - 1 \in Nat
      /\ \A i \in 0 .. length - 1 : i \in Nat /\ i <= length - 1
      /\ \A i \in 1 .. length : i \in Int /\ i - 1 \in 0 .. length - 1
  BY SMT
<1>5. first \in Int /\ last \in Int
  BY <1>1, <1>4
<1>6. CASE first = NotInRom \/ last = NotInRom
  <2>1. Read(r, a, length) = Unreadable
    BY <1>6 DEF Read
  <2>2. ~SingleRead(r, a, 0).ok \/ ~SingleRead(r, a, length - 1).ok
    BY <1>2, <1>4, <1>6
  <2>3. QED
    BY <1>4, <2>1, <2>2 DEF Unreadable
<1>7. CASE first # NotInRom /\ last # NotInRom /\ last > first
  <2>1. \A i \in 0 .. length - 1 : OffsetOf(i) = first + i /\ OffsetOf(i) # NotInRom
    BY <1>7, StraightRead
  <2> HIDE DEF OffsetOf, first, last
  <2>2. last = first + (length - 1)
    BY <1>4, <2>1 DEF last
  <2>3. last - first + 1 = length
    BY SMT, <1>4, <1>5, <2>2
  <2>4. \A i \in 1 .. length : first + i - 1 = OffsetOf(i - 1)
    <3>1. \A i \in 1 .. length : first + i - 1 = first + (i - 1)
      BY SMT, <1>4, <1>5
    <3>2. QED
      BY <1>4, <2>1, <3>1
  <2>5. CASE last < r.size
    <3>1. Read(r, a, length) = BytesRead([i \in 1 .. last - first + 1 |-> Content(first + i - 1)])
      BY <1>7, <2>5 DEF Read, OffsetOf, first, last
    <3>2. \A i \in 0 .. length - 1 : OffsetOf(i) < r.size
      BY SMT, <1>4, <1>5, <2>1, <2>2, <2>5
    <3>3. \A i \in 0 .. length - 1 : SingleRead(r, a, i).ok
      BY <1>2, <1>4, <2>1, <3>2
    <3>4. \A i \in 1 .. length : SingleRead(r, a, i - 1).bytes[1] = Content(first + i - 1)
      BY <1>3, <1>4, <2>4, <3>3
    <3>5. [i \in 1 .. length |-> Content(first + i - 1)]
            = [i \in 1 .. length |-> SingleRead(r, a, i - 1).bytes[1]]
      BY <3>4
    <3>6. QED
      BY <2>3, <3>1, <3>3, <3>5 DEF BytesRead
  <2>6. CASE ~(last < r.size)
    <3>1. Read(r, a, length) = Unreadable
      BY <1>7, <2>6 DEF Read, OffsetOf, first, last
    <3>2. ~SingleRead(r, a, length - 1).ok
      BY <1>2, <1>4, <2>6 DEF last
    <3>3. QED
      BY <1>4, <3>1, <3>2 DEF Unreadable
  <2>7. QED
    BY <2>5, <2>6
<1>8. CASE first # NotInRom /\ last # NotInRom /\ ~(last > first)
  <2>1. CASE \A i \in 0 .. length - 1 : OffsetOf(i) # NotInRom /\ OffsetOf(i) < r.size
    <3>1. Read(r, a, length) = BytesRead([i \in 1 .. length |-> Content(OffsetOf(i - 1))])
      BY <1>8, <2>1 DEF Read
    <3>2. \A i \in 0 .. length - 1 : SingleRead(r, a, i).ok
      BY <1>2, <1>4, <2>1
    <3>3. \A i \in 1 .. length : SingleRead(r, a, i - 1).bytes[1] = Content(OffsetOf(i - 1))
      BY <1>3, <1>4, <3>2
    <3>4. [i \in 1 .. length |-> Content(OffsetOf(i - 1))]
            = [i \in 1 .. length |-> SingleRead(r, a, i - 1).bytes[1]]
      BY <3>3
    <3>5. QED
      BY <3>1, <3>2, <3>4 DEF BytesRead
  <2>2. CASE ~(\A i \in 0 .. length - 1 : OffsetOf(i) # NotInRom /\ OffsetOf(i) < r.size)
    <3>1. Read(r, a, length) = Unreadable
      BY <1>8, <2>2 DEF Read
    <3>2. ~(\A i \in 0 .. length - 1 : SingleRead(r, a, i).ok)
      BY <1>2, <1>4, <2>2
    <3>3. QED
      BY <3>1, <3>2 DEF Unreadable
  <2>3. QED
    BY <2>1, <2>2
<1>9. QED
  BY <1>6, <1>7, <1>8

-----------------------------------------------------------------------------
(* The tools *)

\* A loaded ROM has one of the three mappings, and quick_dump stays in the
\* address space.
RomInv ==
  /\ file \in Files /\ command \in Commands
  /\ address \in Addresses
  /\ rom # NoRom => rom.mapping \in Mappings /\ rom.size \in Int

LEMMA DetectedType ==
  ASSUME NEW f \in Files
  PROVE  Detected(f).mapping \in Mappings /\ Detected(f).size \in Int
<1>1. f.size \in Nat /\ f.lorom \in BOOLEAN
  BY FilesAssumption
<1>2. PayloadSize(f) \in Int
  BY SMT, <1>1 DEF PayloadSize, HeaderSize
<1>3. CASE f.lorom
  BY <1>2, <1>3 DEF Detected, Mappings
<1>4. CASE ~f.lorom /\ PayloadSize(f) < 4194304
  BY <1>2, <1>4 DEF Detected, Mappings
<1>5. CASE ~f.lorom /\ ~(PayloadSize(f) < 4194304)
  <2>1. PayloadSize(f) >= 4194304
    BY SMT, <1>2, <1>5
  <2>2. QED
    BY <1>2, <1>5, <2>1 DEF Detected, Mappings
<1>6. QED
  BY <1>3, <1>4, <1>5

\* RomInv is inductive.
LEMMA RomInvariant == Spec => []RomInv
<1>1. Init => RomInv
  BY StartsAssumption DEF Init, RomInv
<1>2. RomInv /\ [Next]_vars => RomInv'
  <2> SUFFICES ASSUME RomInv, [Next]_vars
               PROVE  RomInv'
    OBVIOUS
  <2>1. CASE LoadRomFile
    <3>1. Detected(file).mapping \in Mappings /\ Detected(file).size \in Int
      BY DetectedType DEF RomInv
    <3>2. QED
      BY <2>1, <3>1 DEF LoadRomFile, RomInv
  <2>2. CASE DumpEntry
    <3>1. Stride \in Nat
      BY SMT DEF Stride
    <3>2. AddWrapped(address, Stride) \in Addresses
      BY <3>1, WrappedParts DEF RomInv
    <3>3. QED
      BY <2>2, <3>2 DEF DumpEntry, RomInv
  <2>3. CASE DumpPrinted
    BY <2>3 DEF DumpPrinted, RomInv
  <2>4. CASE OpenSink
    BY <2>4 DEF OpenSink, RomInv
  <2>5. CASE CompareWrite
    BY <2>5 DEF CompareWrite, RomInv
  <2>6. CASE Compared
    BY <2>6 DEF Compared, RomInv
  <2>7. CASE Finished
    BY <2>7 DEF Finished, RomInv, vars
  <2>8. CASE UNCHANGED vars
    BY <2>8 DEF RomInv, vars
  <2>9. QED
    BY <2>1, <2>2, <2>3, <2>4, <2>5, <2>6, <2>7, <2>8 DEF Next
<1>3. QED
  BY <1>1, <1>2, PTL DEF Spec

\* For ROMs of every size, content and mapping, every address and every
\* length up to LongestRead: Rom::Read gives what single reads give, and
\* fails when one of them does.
THEOREM ReadsAreBytewise == Spec => []ReadIsBytewise
<1>1. RomInv => ReadIsBytewise
  <2> SUFFICES ASSUME RomInv, rom # NoRom, NEW length \in Lengths
               PROVE  LET Single(i) == Read(rom, AddWrapped(address, i), 1)
                          read == Read(rom, address, length)
                      IN  /\ read.ok <=> \A i \in 0 .. length - 1 : Single(i).ok
                          /\ read.ok => read.bytes = [i \in 1 .. length |-> Single(i - 1).bytes[1]]
    BY DEF ReadIsBytewise
  <2>1. length \in Nat /\ 1 <= length /\ length <= LongestRead
    <3>1. LongestRead \in Int
      BY SMT DEF LongestRead
    <3>2. length \in 1 .. LongestRead
      BY LengthsAssumption
    <3>3. QED
      BY SMT, <3>1, <3>2
  <2>2. address \in Addresses /\ rom.mapping \in Mappings /\ rom.size \in Int
    BY DEF RomInv
  <2>3. QED
    BY <2>1, <2>2, ReadOfMany DEF SingleRead
<1>2. QED
  BY <1>1, RomInvariant, PTL

-----------------------------------------------------------------------------
(* Reads and writes byte by byte *)

OffsetAt(r, a, i) == SnesToROMAddress(AddWrapped(a, i), r.mapping)
Readable(r, a, i) == OffsetAt(r, a, i) # NotInRom /\ OffsetAt(r, a, i) < r.size
ByteAt(r, a, i) == Content(OffsetAt(r, a, i))

\* A read fails or gives bytes.
LEMMA ReadShape ==
  ASSUME NEW r, r.mapping \in Mappings, r.size \in Int, NEW a \in Addresses,
         NEW length \in Nat, 1 <= length
  PROVE  Read(r, a, length) = Unreadable \/ \E bytes : Read(r, a, length) = BytesRead(bytes)
<1> DEFINE OffsetOf(i) == SnesToROMAddress(AddWrapped(a, i), r.mapping)
           first == OffsetOf(0)
           last == OffsetOf(length - 1)
<1>1. CASE first = NotInRom \/ last = NotInRom
  BY <1>1 DEF Read
<1>2. CASE first # NotInRom /\ last # NotInRom /\ last > first
  <2>1. Read(r, a, length) = IF last < r.size
                               THEN BytesRead([i \in 1 .. last - first + 1 |-> Content(first + i - 1)])
                               ELSE Unreadable
    BY <1>2 DEF Read
  <2> QED
    BY <2>1
<1>3. CASE first # NotInRom /\ last # NotInRom /\ ~(last > first)
  <2>1. Read(r, a, length) = IF \A i \in 0 .. length - 1 : OffsetOf(i) # NotInRom /\ OffsetOf(i) < r.size
                               THEN BytesRead([i \in 1 .. length |-> Content(OffsetOf(i - 1))])
                               ELSE Unreadable
    BY <1>3 DEF Read
  <2> QED
    BY <2>1
<1> QED
  BY <1>1, <1>2, <1>3

LEMMA BytesReadIs ==
  /\ ~Unreadable.ok
  /\ \A bytes : BytesRead(bytes).ok /\ BytesRead(bytes).bytes = bytes
BY DEF Unreadable, BytesRead

LEMMA ReadIs ==
  ASSUME NEW r, r.mapping \in Mappings, r.size \in Int, NEW a \in Addresses,
         NEW length \in Nat, 1 <= length, length <= LongestRead
  PROVE  /\ (\A i \in 0 .. length - 1 : Readable(r, a, i)) =>
              Read(r, a, length) = BytesRead([i \in 1 .. length |-> ByteAt(r, a, i - 1)])
         /\ ~(\A i \in 0 .. length - 1 : Readable(r, a, i)) => Read(r, a, length) = Unreadable
<1>1. \A i \in 0 .. length - 1 :
        /\ SingleRead(r, a, i).ok <=> Readable(r, a, i)
        /\ SingleRead(r, a, i).ok => SingleRead(r, a, i).bytes[1] = ByteAt(r, a, i)
  BY ReadOfOne DEF Readable, ByteAt, OffsetAt
<1>2. /\ Read(r, a, length).ok <=> \A i \in 0 .. length - 1 : SingleRead(r, a, i).ok
      /\ Read(r, a, length).ok =>
           Read(r, a, length).bytes = [i \in 1 .. length |-> SingleRead(r, a, i - 1).bytes[1]]
  BY ReadOfMany
<1>3. Read(r, a, length).ok => Read(r, a, length) = BytesRead(Read(r, a, length).bytes)
  BY ReadShape, BytesReadIs
<1>4. ~Read(r, a, length).ok => Read(r, a, length) = Unreadable
  BY ReadShape, BytesReadIs
<1>5. ASSUME \A i \in 0 .. length - 1 : Readable(r, a, i)
      PROVE  Read(r, a, length) = BytesRead([i \in 1 .. length |-> ByteAt(r, a, i - 1)])
  <2>1. \A i \in 1 .. length : i - 1 \in 0 .. length - 1
    OBVIOUS
  <2>2. \A i \in 1 .. length : SingleRead(r, a, i - 1).bytes[1] = ByteAt(r, a, i - 1)
    BY <1>1, <1>5, <2>1
  <2>3. [i \in 1 .. length |-> SingleRead(r, a, i - 1).bytes[1]] = [i \in 1 .. length |-> ByteAt(r, a, i - 1)]
    BY <2>2
  <2> QED
    BY <1>1, <1>2, <1>3, <1>5, <2>3
<1> QED
  BY <1>1, <1>2, <1>4, <1>5

LEMMA SingleReadIs ==
  ASSUME NEW r, r.mapping \in Mappings, r.size \in Int, NEW a \in Addresses, NEW i \in Nat
  PROVE  /\ Readable(r, a, i) => SingleRead(r, a, i) = BytesRead(<<ByteAt(r, a, i)>>)
         /\ ~Readable(r, a, i) => SingleRead(r, a, i) = Unreadable
<1> DEFINE b == AddWrapped(a, i)
<1>1. b \in Addresses /\ AddWrapped(b, 0) = b
  BY WrappedParts, WrappedByNothing
<1>2. OffsetAt(r, b, 0) = OffsetAt(r, a, i)
  BY <1>1 DEF OffsetAt
<1>3. 1 \in Nat /\ 1 <= 1 /\ 1 <= LongestRead
  BY SMT DEF LongestRead
<1> HIDE DEF b
<1>4. /\ (\A k \in 0 .. 1 - 1 : Readable(r, b, k)) =>
           Read(r, b, 1) = BytesRead([k \in 1 .. 1 |-> ByteAt(r, b, k - 1)])
      /\ ~(\A k \in 0 .. 1 - 1 : Readable(r, b, k)) => Read(r, b, 1) = Unreadable
  BY Zenon, <1>1, <1>3, ReadIs
<1>5. (\A k \in 0 .. 1 - 1 : Readable(r, b, k)) <=> Readable(r, b, 0)
  <2>1. \A k : k \in 0 .. 1 - 1 <=> k = 0
    BY SMT
  <2> QED
    BY <2>1
<1>6. [k \in 1 .. 1 |-> ByteAt(r, b, k - 1)] = <<ByteAt(r, b, 0)>>
  <2> DEFINE f == [k \in 1 .. 1 |-> ByteAt(r, b, k - 1)]
  <2>1. f[1] = ByteAt(r, b, 0) /\ DOMAIN f = 1 .. 1
    OBVIOUS
  <2>2. f = [k \in 1 .. 1 |-> f[k]]
    OBVIOUS
  <2>3. f = [k \in 1 .. 1 |-> ByteAt(r, b, 0)]
    <3>1. \A k \in 1 .. 1 : k - 1 = 0
      BY SMT
    <3> QED
      BY <3>1
  <2> HIDE DEF f
  <2> QED
    BY <2>3
<1>7. ByteAt(r, b, 0) = ByteAt(r, a, i) /\ (Readable(r, b, 0) <=> Readable(r, a, i))
  BY <1>2 DEF ByteAt, Readable
<1> QED
  BY <1>4, <1>5, <1>6, <1>7 DEF SingleRead, b

\* RomIdentityTest::Write looks at each byte.
LEMMA AcceptsBytes ==
  ASSUME NEW r, r.mapping \in Mappings, r.size \in Int, NEW a \in Addresses,
         NEW bytes \in Seq(0 .. 255), 1 <= Len(bytes), Len(bytes) <= LongestRead
  PROVE  Accepts(r, a, bytes)
           <=> \A i \in 1 .. Len(bytes) : Readable(r, a, i - 1) /\ ByteAt(r, a, i - 1) = bytes[i]
<1> DEFINE n == Len(bytes)
           read == [i \in 1 .. n |-> ByteAt(r, a, i - 1)]
<1>1. n \in Nat /\ bytes = [i \in 1 .. n |-> bytes[i]]
  OBVIOUS
<1>2. /\ \A i \in 1 .. n : i - 1 \in 0 .. n - 1
      /\ \A i \in 0 .. n - 1 : i + 1 \in 1 .. n /\ (i + 1) - 1 = i
  BY <1>1
<1> HIDE DEF n
<1>3. (\A i \in 0 .. n - 1 : Readable(r, a, i)) <=> \A i \in 1 .. n : Readable(r, a, i - 1)
  BY <1>2
<1>4. read = bytes <=> \A i \in 1 .. n : ByteAt(r, a, i - 1) = bytes[i]
  BY <1>1
<1> HIDE DEF read
<1>5. /\ (\A i \in 0 .. n - 1 : Readable(r, a, i)) => Read(r, a, n) = BytesRead(read)
      /\ ~(\A i \in 0 .. n - 1 : Readable(r, a, i)) => Read(r, a, n) = Unreadable
  BY <1>1, ReadIs DEF n, read
<1>6. Accepts(r, a, bytes) <=> Read(r, a, n) = BytesRead(bytes)
  BY DEF Accepts, n
<1>7. BytesRead(read) = BytesRead(bytes) <=> read = bytes
  BY BytesReadIs
<1>8. Unreadable # BytesRead(bytes)
  BY BytesReadIs
<1>9. Accepts(r, a, bytes)
        <=> (\A i \in 1 .. n : Readable(r, a, i - 1)) /\ \A i \in 1 .. n : ByteAt(r, a, i - 1) = bytes[i]
  BY <1>3, <1>4, <1>5, <1>6, <1>7, <1>8
<1> QED
  BY <1>9 DEF n

-----------------------------------------------------------------------------
(* The values of quick_dump *)

\* Two addresses of the same bank and place are the same.
LEMMA SameAddress ==
  ASSUME NEW a \in Addresses, NEW b \in Addresses, Bank(a) = Bank(b), a % 65536 = b % 65536
  PROVE  a = b
<1>1. /\ a \in Int /\ 0 <= a
      /\ b \in Int /\ 0 <= b
  BY AddressRange
<1>2. a \div 65536 = b \div 65536
  BY DEF Bank
<1> QED
  BY SMT, <1>1, <1>2

\* AddWrapped of AddWrapped goes the sum.
LEMMA WrappedSum ==
  ASSUME NEW a \in Addresses, NEW m \in Nat, NEW n \in Nat
  PROVE  AddWrapped(AddWrapped(a, m), n) = AddWrapped(a, m + n)
<1> DEFINE b == AddWrapped(a, m)
           low == a % 65536
<1>1. b \in Addresses /\ Bank(b) = Bank(a) /\ b % 65536 = (low + m) % 65536
  BY WrappedParts
<1> HIDE DEF b
<1>2. /\ AddWrapped(b, n) \in Addresses
      /\ Bank(AddWrapped(b, n)) = Bank(a)
      /\ AddWrapped(b, n) % 65536 = (((low + m) % 65536) + n) % 65536
  BY <1>1, WrappedParts
<1>3. m + n \in Nat
  OBVIOUS
<1>4. /\ AddWrapped(a, m + n) \in Addresses
      /\ Bank(AddWrapped(a, m + n)) = Bank(a)
      /\ AddWrapped(a, m + n) % 65536 = (low + (m + n)) % 65536
  BY <1>3, WrappedParts
<1>5. low \in Int
  <2>1. a \in Int
    BY AddressRange
  <2> QED
    BY SMT, <2>1
<1> HIDE DEF low
<1>6. (((low + m) % 65536) + n) % 65536 = (low + (m + n)) % 65536
  BY SMT, <1>5
<1>7. AddWrapped(b, n) = AddWrapped(a, m + n)
  BY <1>2, <1>4, <1>6, SameAddress
<1> QED
  BY <1>7 DEF b

Strides == 1 .. 3

\* One more than the greatest value of a .db, .dw or .dl.
Limit(size) == IF size = 1 THEN 256 ^ 1 ELSE IF size = 2 THEN 256 ^ 2 ELSE 256 ^ 3

LEMMA StrideIs == \A size \in Strides : size = 1 \/ size = 2 \/ size = 3
BY SMT DEF Strides

LEMMA Powers == \A size \in Strides : 256 ^ size = Limit(size)
<1>1. Limit(1) = 256 ^ 1 /\ Limit(2) = 256 ^ 2 /\ Limit(3) = 256 ^ 3
  BY SMT DEF Limit
<1>2. ASSUME NEW size \in Strides
      PROVE  256 ^ size = Limit(size)
  <2>1. CASE size = 1
    BY Zenon, <1>1, <2>1
  <2>2. CASE size = 2
    BY Zenon, <1>1, <2>2
  <2>3. CASE size = 3
    BY Zenon, <1>1, <2>3
  <2> QED
    BY <2>1, <2>2, <2>3, StrideIs
<1> QED
  BY <1>2

LEMMA BytesAre ==
  ASSUME NEW v
  PROVE  /\ ByteOf(v, 0) = (v \div 1) % 256
         /\ ByteOf(v, 1) = (v \div 256) % 256
         /\ ByteOf(v, 2) = (v \div 65536) % 256
BY SMT DEF ByteOf

\* A byte of a number is a byte.
LEMMA ByteOfType ==
  ASSUME NEW v \in Int, NEW j \in 0 .. 2
  PROVE  ByteOf(v, j) \in 0 .. 255
<1>1. j = 0 \/ j = 1 \/ j = 2
  BY SMT
<1>2. ByteOf(v, 0) \in 0 .. 255
  BY SMT DEF ByteOf
<1>3. ByteOf(v, 1) \in 0 .. 255
  BY SMT DEF ByteOf
<1>4. ByteOf(v, 2) \in 0 .. 255
  BY SMT DEF ByteOf
<1> QED
  BY Zenon, <1>1, <1>2, <1>3, <1>4

LEMMA OneByte ==
  ASSUME NEW b \in 0 .. 255
  PROVE  b \in 0 .. Limit(1) - 1 /\ ByteOf(b, 0) = b
<1>1. b \in 0 .. Limit(1) - 1
  BY SMT DEF Limit
<1>2. (b \div 1) % 256 = b
  BY SMT
<1> QED
  BY SMT, <1>1, <1>2, BytesAre

Word(b, c) == b + 256 * c
Long(b, c, d) == b + 256 * c + 65536 * d

LEMMA TwoBytes ==
  ASSUME NEW b \in 0 .. 255, NEW c \in 0 .. 255
  PROVE  /\ Word(b, c) \in 0 .. Limit(2) - 1
         /\ ByteOf(Word(b, c), 0) = b /\ ByteOf(Word(b, c), 1) = c
<1> DEFINE v == Word(b, c)
<1>1. v \in 0 .. Limit(2) - 1
  BY SMT DEF Limit, Word
<1>2. (v \div 1) % 256 = b
  BY SMT DEF Word
<1>3. (v \div 256) % 256 = c
  <2>1. v \div 256 = c
    BY SMT DEF Word
  <2>2. c % 256 = c
    BY SMT
  <2> QED
    BY Zenon, <2>1, <2>2
<1> HIDE DEF v
<1>4. ByteOf(v, 0) = b /\ ByteOf(v, 1) = c
  BY SMT, <1>2, <1>3, BytesAre
<1> QED
  BY Zenon, <1>1, <1>4 DEF v

\* ReadByte, ReadWord and ReadLong put together what EncodeValue takes apart.
LEMMA BytesOfValue ==
  ASSUME NEW size \in Strides, NEW bytes \in [1 .. size -> 0 .. 255]
  PROVE  /\ FromLittleEndian(bytes) \in 0 .. Limit(size) - 1
         /\ \A j \in 0 .. size - 1 : ByteOf(FromLittleEndian(bytes), j) = bytes[j + 1]
<1> DEFINE v == FromLittleEndian(bytes)
<1>1. 0 + 1 = 1 /\ 1 + 1 = 2 /\ 2 + 1 = 3
  BY SMT
<1>2. CASE size = 1
  <2>1. Len(bytes) = 1 /\ bytes[1] \in 0 .. 255
    BY SMT, <1>2
  <2>2. v = bytes[1]
    BY SMT, <2>1 DEF FromLittleEndian
  <2>3. \A j \in 0 .. size - 1 : j = 0
    BY SMT, <1>2
  <2> HIDE DEF v
  <2>4. v \in 0 .. Limit(size) - 1 /\ ByteOf(v, 0) = bytes[1]
    BY Zenon, <1>2, <2>1, <2>2, OneByte
  <2> QED
    BY Zenon, <1>1, <2>3, <2>4 DEF v
<1>3. CASE size = 2
  <2>1. Len(bytes) = 2 /\ bytes[1] \in 0 .. 255 /\ bytes[2] \in 0 .. 255
    BY SMT, <1>3
  <2>2. v = Word(bytes[1], bytes[2])
    BY SMT, <2>1 DEF FromLittleEndian, Word
  <2>3. \A j \in 0 .. size - 1 : j = 0 \/ j = 1
    BY SMT, <1>3
  <2> HIDE DEF v
  <2>4. v \in 0 .. Limit(size) - 1 /\ ByteOf(v, 0) = bytes[1] /\ ByteOf(v, 1) = bytes[2]
    BY Zenon, <1>3, <2>1, <2>2, TwoBytes
  <2> QED
    BY Zenon, <1>1, <2>3, <2>4 DEF v
<1>4. CASE size = 3
  <2>1. Len(bytes) = 3 /\ bytes[1] \in 0 .. 255 /\ bytes[2] \in 0 .. 255 /\ bytes[3] \in 0 .. 255
    BY SMT, <1>4
  <2>2. v = Long(bytes[1], bytes[2], bytes[3])
    BY SMT, <2>1 DEF FromLittleEndian, Long
  <2>3. \A j \in 0 .. size - 1 : j = 0 \/ j = 1 \/ j = 2
    BY SMT, <1>4
  <2> HIDE DEF v
  <2>4. /\ v \in 0 .. Limit(size) - 1
        /\ ByteOf(v, 0) = bytes[1] /\ ByteOf(v, 1) = bytes[2] /\ ByteOf(v, 2) = bytes[3]
    <3> DEFINE b == bytes[1]
               c == bytes[2]
               d == bytes[3]
    <3>1. b \in 0 .. 255 /\ c \in 0 .. 255 /\ d \in 0 .. 255 /\ v = Long(b, c, d)
      BY Zenon, <2>1, <2>2
    <3> HIDE DEF b, c, d
    <3> DEFINE high == v \div 256
               top == v \div 65536
    <3>2. v \in 0 .. Limit(3) - 1
      BY SMT, <3>1 DEF Limit, Long
    <3>3. (v \div 1) % 256 = b
      BY SMT, <3>1 DEF Long
    <3>4. high = c + 256 * d
      BY SMT, <3>1 DEF Long
    <3>5. (c + 256 * d) % 256 = c
      BY SMT, <3>1
    <3>6. top = d
      BY SMT, <3>1 DEF Long
    <3>7. d % 256 = d
      BY SMT, <3>1
    <3>8. ByteOf(v, 0) = b /\ ByteOf(v, 1) = high % 256 /\ ByteOf(v, 2) = top % 256
      BY SMT, <3>3, BytesAre
    <3> HIDE DEF high, top
    <3>9. ByteOf(v, 1) = c /\ ByteOf(v, 2) = d
      BY Zenon, <3>4, <3>5, <3>6, <3>7, <3>8
    <3>10. Limit(3) = Limit(size)
      BY Zenon, <1>4
    <3>11. v \in 0 .. Limit(size) - 1
      BY Zenon, <3>2, <3>10
    <3> QED
      BY Zenon, <3>8, <3>9, <3>11 DEF b, c, d
  <2> QED
    BY Zenon, <1>1, <1>4, <2>3, <2>4 DEF v
<1> QED
  BY <1>2, <1>3, <1>4, StrideIs

\* The next value, also the one behind the greatest, differs in its first byte.
LEMMA NextValueDiffers ==
  ASSUME NEW size \in Strides, NEW v \in 0 .. Limit(size) - 1
  PROVE  /\ (v + 1) % 256 ^ size \in Int
         /\ ByteOf((v + 1) % 256 ^ size, 0) # ByteOf(v, 0)
<1> DEFINE w == (v + 1) % 256 ^ size
<1>1. w = (v + 1) % Limit(size)
  BY Zenon, Powers
<1> HIDE DEF w
<1>2. w \in Int /\ (w \div 1) % 256 # (v \div 1) % 256
  <2>1. CASE size = 1
    <3>1. w = (v + 1) % Limit(1) /\ v \in 0 .. Limit(1) - 1
      BY Zenon, <1>1, <2>1
    <3> QED
      BY SMT, <3>1 DEF Limit
  <2>2. CASE size = 2
    <3>1. w = (v + 1) % Limit(2) /\ v \in 0 .. Limit(2) - 1
      BY Zenon, <1>1, <2>2
    <3> QED
      BY SMT, <3>1 DEF Limit
  <2>3. CASE size = 3
    <3>1. w = (v + 1) % Limit(3) /\ v \in 0 .. Limit(3) - 1
      BY Zenon, <1>1, <2>3
    <3> QED
      BY SMT, <3>1 DEF Limit
  <2> QED
    BY Zenon, <2>1, <2>2, <2>3, StrideIs
<1>3. ByteOf(w, 0) = (w \div 1) % 256 /\ ByteOf(v, 0) = (v \div 1) % 256
  BY SMT, BytesAre
<1> QED
  BY Zenon, <1>2, <1>3 DEF w

-----------------------------------------------------------------------------
(* A dump and its bytes *)

\* The byte of a ROM is a byte.
ContentIsBytes == \A offset \in Nat : Content(offset) \in 0 .. 255

\* vs are the values from address a on.
DumpOf(r, a, size, vs) ==
  \A k \in 1 .. Len(vs) :
    /\ vs[k] \in 0 .. Limit(size) - 1
    /\ \A j \in 0 .. size - 1 :
         /\ Readable(r, a, size * (k - 1) + j)
         /\ ByteOf(vs[k], j) = ByteAt(r, a, size * (k - 1) + j)

LEMMA ByteAtType ==
  ASSUME ContentIsBytes, NEW r, r.mapping \in Mappings, NEW a \in Addresses, NEW i \in Nat,
         Readable(r, a, i)
  PROVE  ByteAt(r, a, i) \in 0 .. 255
<1>1. AddWrapped(a, i) \in Addresses
  BY WrappedParts
<1>2. OffsetAt(r, a, i) # NotInRom
  BY DEF Readable
<1>3. OffsetAt(r, a, i) \in Nat
  BY <1>1, <1>2, OffsetKind DEF OffsetAt
<1> QED
  BY <1>3 DEF ContentIsBytes, ByteAt

\* One value: ReadByte, ReadWord or ReadLong at b.
LEMMA DumpedValue ==
  ASSUME ContentIsBytes, NEW r, r.mapping \in Mappings, r.size \in Int, NEW b \in Addresses,
         NEW size \in Strides, Read(r, b, size).ok
  PROVE  LET v == FromLittleEndian(Read(r, b, size).bytes)
         IN  /\ v \in 0 .. Limit(size) - 1
             /\ \A j \in 0 .. size - 1 : Readable(r, b, j) /\ ByteOf(v, j) = ByteAt(r, b, j)
<1> DEFINE bytes == [i \in 1 .. size |-> ByteAt(r, b, i - 1)]
<1>1. size \in Nat /\ 1 <= size /\ size <= LongestRead
  BY SMT DEF Strides, LongestRead
<1>2. \A j \in 0 .. size - 1 : Readable(r, b, j)
  BY Zenon, <1>1, ReadIs, BytesReadIs
<1>3. Read(r, b, size) = BytesRead(bytes)
  BY Zenon, <1>1, <1>2, ReadIs
<1>4. Read(r, b, size).bytes = bytes
  BY Zenon, <1>3, BytesReadIs
<1>5. /\ \A i \in 1 .. size : i - 1 \in 0 .. size - 1 /\ i - 1 \in Nat
      /\ \A j \in 0 .. size - 1 : j + 1 \in 1 .. size /\ (j + 1) - 1 = j
  BY SMT, <1>1
<1>6. bytes \in [1 .. size -> 0 .. 255]
  <2>1. \A i \in 1 .. size : ByteAt(r, b, i - 1) \in 0 .. 255
    BY Zenon, <1>2, <1>5, ByteAtType
  <2> QED
    BY Zenon, <2>1
<1>7. \A j \in 0 .. size - 1 : bytes[j + 1] = ByteAt(r, b, j)
  BY Zenon, <1>5
<1> HIDE DEF bytes
<1>8. /\ FromLittleEndian(bytes) \in 0 .. Limit(size) - 1
      /\ \A j \in 0 .. size - 1 : ByteOf(FromLittleEndian(bytes), j) = bytes[j + 1]
  BY <1>6, BytesOfValue
<1> QED
  BY Zenon, <1>2, <1>4, <1>7, <1>8

\* The value and the byte of a place in the dump.
LEMMA PlaceInDump ==
  ASSUME NEW size \in Strides, NEW n \in Nat, NEW i \in 1 .. size * n
  PROVE  /\ (i - 1) \div size + 1 \in 1 .. n
         /\ (i - 1) % size \in 0 .. size - 1
         /\ i - 1 = size * (((i - 1) \div size + 1) - 1) + ((i - 1) % size)
         /\ i - 1 \in Nat
<1>1. CASE size = 1
  <2>1. i \in 1 .. 1 * n
    BY Zenon, <1>1
  <2>2. /\ (i - 1) \div 1 + 1 \in 1 .. n
        /\ (i - 1) % 1 \in 0 .. 1 - 1
        /\ i - 1 = 1 * (((i - 1) \div 1 + 1) - 1) + ((i - 1) % 1)
        /\ i - 1 \in Nat
    BY ONLY SMT, n \in Nat, <2>1
  <2> QED
    BY Zenon, <1>1, <2>2
<1>2. CASE size = 2
  <2>1. i \in 1 .. 2 * n
    BY Zenon, <1>2
  <2>2. /\ (i - 1) \div 2 + 1 \in 1 .. n
        /\ (i - 1) % 2 \in 0 .. 2 - 1
        /\ i - 1 = 2 * (((i - 1) \div 2 + 1) - 1) + ((i - 1) % 2)
        /\ i - 1 \in Nat
    BY ONLY SMT, n \in Nat, <2>1
  <2> QED
    BY Zenon, <1>2, <2>2
<1>3. CASE size = 3
  <2>1. i \in 1 .. 3 * n
    BY Zenon, <1>3
  <2>2. /\ (i - 1) \div 3 + 1 \in 1 .. n
        /\ (i - 1) % 3 \in 0 .. 3 - 1
        /\ i - 1 = 3 * (((i - 1) \div 3 + 1) - 1) + ((i - 1) % 3)
        /\ i - 1 \in Nat
    BY ONLY SMT, n \in Nat, <2>1
  <2> QED
    BY Zenon, <1>3, <2>2
<1> QED
  BY <1>1, <1>2, <1>3, StrideIs

\* Where the first byte of a value is.
LEMMA FirstByteOfValue ==
  ASSUME NEW size \in Strides, NEW n \in Nat, NEW k \in 1 .. n
  PROVE  LET i == size * (k - 1) + 1
         IN  /\ i \in 1 .. size * n /\ i - 1 = size * (k - 1)
             /\ (i - 1) \div size + 1 = k /\ (i - 1) % size = 0
<1>1. CASE size = 1
  BY SMT, <1>1
<1>2. CASE size = 2
  BY SMT, <1>2
<1>3. CASE size = 3
  BY SMT, <1>3
<1> QED
  BY <1>1, <1>2, <1>3, StrideIs

LEMMA ReassembledShape ==
  ASSUME NEW size \in Strides, NEW vs \in Seq(Int), 1 <= Len(vs)
  PROVE  /\ Reassembled(vs, size) \in Seq(0 .. 255)
         /\ Len(Reassembled(vs, size)) = size * Len(vs)
         /\ \A i \in 1 .. size * Len(vs) :
              Reassembled(vs, size)[i] = ByteOf(vs[(i - 1) \div size + 1], (i - 1) % size)
<1> DEFINE n == Len(vs)
           length == size * n
           byte(i) == ByteOf(vs[(i - 1) \div size + 1], (i - 1) % size)
<1>1. n \in Nat /\ \A k \in 1 .. n : vs[k] \in Int
  OBVIOUS
<1>2. \A i \in 1 .. length : byte(i) \in 0 .. 255
  <2> SUFFICES ASSUME NEW i \in 1 .. length
               PROVE  byte(i) \in 0 .. 255
    OBVIOUS
  <2>1. (i - 1) \div size + 1 \in 1 .. n /\ (i - 1) % size \in 0 .. size - 1
    BY <1>1, PlaceInDump
  <2>2. \A j \in 0 .. size - 1 : j \in 0 .. 2
    BY SMT DEF Strides
  <2> QED
    BY Zenon, <1>1, <2>1, <2>2, ByteOfType
<1>3. length \in Nat
  <2>1. size \in Nat
    BY SMT DEF Strides
  <2> HIDE DEF n
  <2> QED
    BY SMT, <1>1, <2>1
<1>4. Reassembled(vs, size) = [i \in 1 .. length |-> byte(i)]
  BY Zenon DEF Reassembled
<1> HIDE DEF n, length, byte
<1>5. [i \in 1 .. length |-> byte(i)] \in Seq(0 .. 255)
  BY SMT, <1>2, <1>3
<1>6. Len([i \in 1 .. length |-> byte(i)]) = length
  BY SMT, <1>3
<1>7. \A i \in 1 .. length : [m \in 1 .. length |-> byte(m)][i] = byte(i)
  BY Zenon
<1> QED
  BY Zenon, <1>4, <1>5, <1>6, <1>7 DEF n, length, byte

LEMMA ReassembledLength ==
  ASSUME NEW size \in Strides, NEW vs \in Seq(Int), 1 <= Len(vs), size * Len(vs) <= LongestRead
  PROVE  1 <= size * Len(vs)
<1>1. Len(vs) \in Nat
  OBVIOUS
<1> DEFINE n == Len(vs)
<1> HIDE DEF n
<1>2. n \in Nat /\ 1 <= n
  BY <1>1 DEF n
<1>3. 1 <= size * n
  <2>1. 1 <= 1 * n /\ 1 <= 2 * n /\ 1 <= 3 * n
    BY SMT, <1>2
  <2> QED
    BY Zenon, <2>1, StrideIs
<1> QED
  BY <1>3 DEF n

\* The identity test accepts a dump that is assembled where it was made.
LEMMA DumpAccepted ==
  ASSUME NEW r, r.mapping \in Mappings, r.size \in Int, NEW a \in Addresses,
         NEW size \in Strides, NEW vs \in Seq(Int), 1 <= Len(vs), size * Len(vs) <= LongestRead,
         DumpOf(r, a, size, vs)
  PROVE  Accepts(r, a, Reassembled(vs, size))
<1> DEFINE bytes == Reassembled(vs, size)
<1>1. /\ bytes \in Seq(0 .. 255) /\ Len(bytes) = size * Len(vs)
      /\ \A i \in 1 .. size * Len(vs) : bytes[i] = ByteOf(vs[(i - 1) \div size + 1], (i - 1) % size)
  BY ReassembledShape
<1>2. 1 <= Len(bytes) /\ Len(bytes) <= LongestRead
  BY Zenon, <1>1, ReassembledLength
<1>3. \A i \in 1 .. size * Len(vs) : Readable(r, a, i - 1) /\ ByteAt(r, a, i - 1) = bytes[i]
  <2> SUFFICES ASSUME NEW i \in 1 .. size * Len(vs)
               PROVE  Readable(r, a, i - 1) /\ ByteAt(r, a, i - 1) = bytes[i]
    OBVIOUS
  <2> DEFINE k == (i - 1) \div size + 1
             j == (i - 1) % size
  <2>1. Len(vs) \in Nat
    OBVIOUS
  <2>2. k \in 1 .. Len(vs) /\ j \in 0 .. size - 1 /\ i - 1 = size * (k - 1) + j
    BY <2>1, PlaceInDump
  <2>3. bytes[i] = ByteOf(vs[k], j)
    BY <1>1
  <2> HIDE DEF k, j, bytes
  <2>4. Readable(r, a, size * (k - 1) + j) /\ ByteOf(vs[k], j) = ByteAt(r, a, size * (k - 1) + j)
    BY Zenon, <2>2 DEF DumpOf
  <2> QED
    BY Zenon, <2>2, <2>3, <2>4
<1> HIDE DEF bytes
<1>4. Accepts(r, a, bytes)
  BY Zenon, <1>1, <1>2, <1>3, AcceptsBytes
<1> QED
  BY <1>4 DEF bytes

\* vs with another value at k.
Changed(vs, k, size) == [vs EXCEPT ![k] = (@ + 1) % 256 ^ size]

\* It refuses the dump when one value is another.
LEMMA ChangedDumpRefused ==
  ASSUME NEW r, r.mapping \in Mappings, r.size \in Int, NEW a \in Addresses,
         NEW size \in Strides, NEW vs \in Seq(Int), 1 <= Len(vs), size * Len(vs) <= LongestRead,
         DumpOf(r, a, size, vs), NEW k \in 1 .. Len(vs)
  PROVE  ~Accepts(r, a, Reassembled(Changed(vs, k, size), size))
<1> DEFINE v == (vs[k] + 1) % 256 ^ size
           changed == Changed(vs, k, size)
           bytes == Reassembled(changed, size)
           i == size * (k - 1) + 1
<1>1. vs[k] \in 0 .. Limit(size) - 1
  BY Zenon DEF DumpOf
<1>2. v \in Int /\ ByteOf(v, 0) # ByteOf(vs[k], 0)
  BY <1>1, NextValueDiffers
<1>3. changed = [vs EXCEPT ![k] = v]
  BY Zenon DEF Changed
<1> HIDE DEF v, changed
<1>4. changed \in Seq(Int) /\ Len(changed) = Len(vs) /\ changed[k] = v
  BY <1>2, <1>3
<1>5. /\ bytes \in Seq(0 .. 255) /\ Len(bytes) = size * Len(vs)
      /\ \A m \in 1 .. size * Len(vs) :
           bytes[m] = ByteOf(changed[(m - 1) \div size + 1], (m - 1) % size)
  <2>1. 1 <= Len(changed)
    BY Zenon, <1>4
  <2> HIDE DEF bytes
  <2>2. /\ bytes \in Seq(0 .. 255) /\ Len(bytes) = size * Len(changed)
        /\ \A m \in 1 .. size * Len(changed) :
             bytes[m] = ByteOf(changed[(m - 1) \div size + 1], (m - 1) % size)
    BY <1>4, <2>1, ReassembledShape DEF bytes
  <2> QED
    BY Zenon, <1>4, <2>2
<1>6. 1 <= Len(bytes) /\ Len(bytes) <= LongestRead
  BY Zenon, <1>5, ReassembledLength
<1>7. Len(vs) \in Nat
  OBVIOUS
<1>8. /\ i \in 1 .. size * Len(vs) /\ i - 1 = size * (k - 1)
      /\ (i - 1) \div size + 1 = k /\ (i - 1) % size = 0
  BY <1>7, FirstByteOfValue
<1> HIDE DEF i, bytes
<1>9. bytes[i] = ByteOf(v, 0)
  BY Zenon, <1>4, <1>5, <1>8
<1>10. ByteAt(r, a, i - 1) = ByteOf(vs[k], 0)
  <2>1. 0 \in 0 .. size - 1 /\ size * (k - 1) + 0 = size * (k - 1)
    <3>1. size \in Int /\ size >= 1 /\ k \in Int
      BY SMT DEF Strides
    <3> QED
      BY SMT, <3>1
  <2>2. ByteOf(vs[k], 0) = ByteAt(r, a, size * (k - 1) + 0)
    BY Zenon, <2>1 DEF DumpOf
  <2> QED
    BY Zenon, <1>8, <2>1, <2>2
<1>11. ~Accepts(r, a, bytes)
  <2>1. ByteAt(r, a, i - 1) # bytes[i]
    BY Zenon, <1>2, <1>9, <1>10
  <2>2. i \in 1 .. Len(bytes)
    BY Zenon, <1>5, <1>8
  <2> QED
    BY Zenon, <1>5, <1>6, <2>1, <2>2, AcceptsBytes
<1> QED
  BY <1>11 DEF bytes, changed, v

-----------------------------------------------------------------------------
(* What is dumped and what is compared *)

StrideOf(c) == IF c.stride \in 2 .. 3 THEN c.stride ELSE 1
CountOf(c) == IF c.count < 1 THEN 1 ELSE c.count

\* No dump and no write is longer than the reads that Rom::Read gets right.
ReadsFit ==
  \A c \in Commands :
    /\ c.tool = "dump" => StrideOf(c) * CountOf(c) <= LongestRead
    /\ c.tool = "assemble" => \A k \in 1 .. Len(c.writes) : Len(c.writes[k].bytes) <= LongestRead

\* The bytes of a write are what is in the ROM.
Holds(r, w) ==
  \A i \in DOMAIN w.bytes : Read(r, AddWrapped(w.at, i - 1), 1) = BytesRead(<<w.bytes[i]>>)

\* The values so far are the ROM's, and the address is the next one's.
DumpedSoFar ==
  /\ rom # NoRom
  /\ values \in Seq(Int)
  /\ address = AddWrapped(command.start, StrideOf(command) * Len(values))
  /\ DumpOf(rom, command.start, StrideOf(command), values)

DumpInv ==
  command.tool = "dump" =>
    /\ status = "start" => values = << >> /\ address = command.start
    /\ status \in {"loaded", "done"} => DumpedSoFar
    /\ status = "done" => Len(values) = CountOf(command)

CompareInv ==
  /\ written \in Nat
  /\ status \in {"start", "loaded"} => written = 0
  /\ status = "start" => rom = NoRom
  /\ status \in {"loaded", "comparing"} => rom # NoRom
  /\ status = "comparing" => command.tool = "assemble"
  /\ command.tool = "assemble" =>
       /\ \A k \in 1 .. written : Holds(rom, command.writes[k])
       /\ status = "error" /\ command.output = "-" /\ rom # NoRom =>
            ~Holds(rom, command.writes[written + 1])

LEMMA StrideOfCommand ==
  /\ Stride = StrideOf(command) /\ Count = CountOf(command)
  /\ \A c : StrideOf(c) \in Strides /\ StrideOf(c) \in Nat
<1>1. Stride = StrideOf(command) /\ Count = CountOf(command)
  BY DEF Stride, StrideOf, Count, CountOf
<1>2. ASSUME NEW c
      PROVE  StrideOf(c) \in Strides /\ StrideOf(c) \in Nat
  BY SMT DEF StrideOf, Strides
<1> QED
  BY <1>1, <1>2

LEMMA LoadedRom ==
  ASSUME NEW f \in Files
  PROVE  Detected(f) # NoRom
<1>1. Detected(f).mapping # "none"
  BY DetectedType DEF Mappings
<1> QED
  BY <1>1 DEF NoRom

\* RomIdentityTest::Write of one write.
LEMMA AcceptsWhatHolds ==
  ASSUME NEW r, r.mapping \in Mappings, r.size \in Int,
         NEW w \in [at : Addresses, bytes : Seq(0 .. 255) \ {<< >>}], Len(w.bytes) <= LongestRead
  PROVE  Accepts(r, w.at, w.bytes) <=> Holds(r, w)
<1> DEFINE a == w.at
           bytes == w.bytes
<1>1. a \in Addresses /\ bytes \in Seq(0 .. 255) /\ bytes # << >>
  OBVIOUS
<1>2. Len(bytes) \in Nat /\ 1 <= Len(bytes) /\ Len(bytes) <= LongestRead /\ DOMAIN bytes = 1 .. Len(bytes)
  BY <1>1
<1> HIDE DEF a, bytes
<1>3. Accepts(r, a, bytes)
        <=> \A i \in 1 .. Len(bytes) : Readable(r, a, i - 1) /\ ByteAt(r, a, i - 1) = bytes[i]
  BY Zenon, <1>1, <1>2, AcceptsBytes
<1>4. ASSUME NEW i \in 1 .. Len(bytes)
      PROVE  Readable(r, a, i - 1) /\ ByteAt(r, a, i - 1) = bytes[i]
               <=> Read(r, AddWrapped(a, i - 1), 1) = BytesRead(<<bytes[i]>>)
  <2>1. i - 1 \in Nat
    BY SMT, <1>2
  <2>2. /\ Readable(r, a, i - 1) =>
             Read(r, AddWrapped(a, i - 1), 1) = BytesRead(<<ByteAt(r, a, i - 1)>>)
        /\ ~Readable(r, a, i - 1) => Read(r, AddWrapped(a, i - 1), 1) = Unreadable
    BY ZenonT(60), <1>1, <2>1, SingleReadIs DEF SingleRead
  <2>3. Unreadable # BytesRead(<<bytes[i]>>)
    BY Zenon, BytesReadIs
  <2>4. BytesRead(<<ByteAt(r, a, i - 1)>>) = BytesRead(<<bytes[i]>>) <=> ByteAt(r, a, i - 1) = bytes[i]
    <3> DEFINE b == ByteAt(r, a, i - 1)
               c == bytes[i]
    <3> HIDE DEF b, c
    <3>1. <<b>> = <<c>> => b = c
      OBVIOUS
    <3>2. BytesRead(<<b>>).bytes = <<b>> /\ BytesRead(<<c>>).bytes = <<c>>
      BY Zenon, BytesReadIs
    <3> QED
      BY Zenon, <3>1, <3>2 DEF b, c
  <2> QED
    BY Zenon, <2>2, <2>3, <2>4
<1>5. Accepts(r, a, bytes)
        <=> \A i \in 1 .. Len(bytes) : Read(r, AddWrapped(a, i - 1), 1) = BytesRead(<<bytes[i]>>)
  BY Zenon, <1>3, <1>4
<1>6. Holds(r, w)
        <=> \A i \in 1 .. Len(bytes) : Read(r, AddWrapped(a, i - 1), 1) = BytesRead(<<bytes[i]>>)
  BY Zenon, <1>2 DEF Holds, a, bytes
<1> QED
  BY Zenon, <1>5, <1>6 DEF a, bytes

LEMMA DumpStep ==
  ASSUME ContentIsBytes, RomInv, DumpInv, DumpEntry
  PROVE  DumpInv'
<1> DEFINE size == StrideOf(command)
           start == command.start
           n == Len(values)
           read == Read(rom, address, size)
           v == FromLittleEndian(read.bytes)
<1>1. Stride = size /\ size \in Strides /\ size \in Nat
  BY StrideOfCommand
<1>2. /\ status = "loaded" /\ command.tool = "dump"
      /\ UNCHANGED <<file, command, rom, written>>
      /\ read.ok => values' = Append(values, v) /\ address' = AddWrapped(address, size) /\ status' = status
      /\ ~read.ok => status' = "crash" /\ values' = values /\ address' = address
  BY Zenon, <1>1 DEF DumpEntry, Dumping
<1>3. DumpedSoFar
  BY Zenon, <1>2 DEF DumpInv
<1>4. start \in Addresses /\ address \in Addresses /\ rom.mapping \in Mappings /\ rom.size \in Int
  BY <1>3, StartsAssumption DEF RomInv, DumpedSoFar
<1>5. n \in Nat /\ values \in Seq(Int) /\ address = AddWrapped(start, size * n)
  BY <1>3 DEF DumpedSoFar
<1> HIDE DEF size, start, n, read, v
<1>6. CASE ~read.ok
  BY <1>2, <1>6 DEF DumpInv
<1>7. CASE read.ok
  <2>1. /\ v \in 0 .. Limit(size) - 1
        /\ \A j \in 0 .. size - 1 : Readable(rom, address, j) /\ ByteOf(v, j) = ByteAt(rom, address, j)
    BY Zenon, <1>1, <1>4, <1>7, DumpedValue DEF read, v
  <2>2. size * n \in Nat /\ \A j \in 0 .. size - 1 : j \in Nat
    BY SMT, <1>1, <1>5
  <2>3. \A j \in 0 .. size - 1 : AddWrapped(address, j) = AddWrapped(start, size * n + j)
    BY Zenon, <1>4, <1>5, <2>2, WrappedSum
  <2>4. \A j \in 0 .. size - 1 :
          Readable(rom, start, size * n + j) /\ ByteOf(v, j) = ByteAt(rom, start, size * n + j)
    BY Zenon, <2>1, <2>3 DEF Readable, ByteAt, OffsetAt
  <2>5. v \in Int
    <3>1. \A x, y : x \in 0 .. y => x \in Int
      BY SMT
    <3> QED
      BY Zenon, <2>1, <3>1
  <2>6. /\ values' \in Seq(Int) /\ Len(values') = n + 1
        /\ values'[n + 1] = v
        /\ \A k \in 1 .. n : values'[k] = values[k]
    BY SMT, <1>2, <1>5, <1>7, <2>5 DEF n
  <2>7. address' = AddWrapped(start, size * (n + 1))
    <3>1. size * n + size = size * (n + 1)
      BY SMT, <1>1, <1>5
    <3>2. AddWrapped(AddWrapped(start, size * n), size) = AddWrapped(start, size * n + size)
      BY Zenon, <1>1, <1>4, <2>2, WrappedSum
    <3>3. address' = AddWrapped(address, size)
      BY Zenon, <1>2, <1>7
    <3> QED
      BY Zenon, <1>5, <3>1, <3>2, <3>3
  <2>8. DumpOf(rom, start, size, values')
    <3> SUFFICES ASSUME NEW k \in 1 .. Len(values')
                 PROVE  /\ values'[k] \in 0 .. Limit(size) - 1
                        /\ \A j \in 0 .. size - 1 :
                             /\ Readable(rom, start, size * (k - 1) + j)
                             /\ ByteOf(values'[k], j) = ByteAt(rom, start, size * (k - 1) + j)
      BY Zenon DEF DumpOf
    <3>1. (k = n + 1 /\ k - 1 = n) \/ k \in 1 .. n
      BY SMT, <1>5, <2>6
    <3>2. CASE k = n + 1 /\ k - 1 = n
      BY Zenon, <2>1, <2>4, <2>6, <3>2
    <3>3. CASE k \in 1 .. n
      BY Zenon, <1>3, <2>6, <3>3 DEF DumpedSoFar, DumpOf, size, start, n
    <3> QED
      BY Zenon, <3>1, <3>2, <3>3
  <2>9. /\ StrideOf(command)' = size /\ command.start' = start /\ rom' = rom
        /\ command' = command /\ status' = "loaded"
    BY Zenon, <1>2, <1>7 DEF size, start, StrideOf
  <2>10. DumpedSoFar'
    BY Zenon, <1>3, <2>6, <2>7, <2>8, <2>9 DEF DumpedSoFar
  <2> QED
    BY <2>9, <2>10 DEF DumpInv
<1> QED
  BY Zenon, <1>6, <1>7

LEMMA CompareStep ==
  ASSUME ReadsFit, RomInv, CompareInv, CompareWrite
  PROVE  CompareInv'
<1> DEFINE w == command.writes[written + 1]
<1>1. /\ status = "comparing" /\ written < Len(command.writes)
      /\ UNCHANGED <<file, command, rom, address, values>>
      /\ Accepts(rom, w.at, w.bytes) => written' = written + 1 /\ status' = status
      /\ ~Accepts(rom, w.at, w.bytes) => status' = "error" /\ written' = written
  BY Zenon DEF CompareWrite
<1>2. command.tool = "assemble" /\ rom # NoRom /\ written \in Nat
  BY <1>1 DEF CompareInv
<1>3. command \in Commands /\ rom.mapping \in Mappings /\ rom.size \in Int
  BY <1>2 DEF RomInv
<1>4. command.writes \in Seq([at : Addresses, bytes : Seq(0 .. 255) \ {<< >>}])
  BY Zenon, <1>2, <1>3, CommandsAssumption
<1>5. written + 1 \in 1 .. Len(command.writes)
  <2>1. Len(command.writes) \in Nat
    BY <1>4
  <2> QED
    BY SMT, <1>1, <1>2, <2>1
<1>6. w \in [at : Addresses, bytes : Seq(0 .. 255) \ {<< >>}]
  <2> DEFINE Write == [at : Addresses, bytes : Seq(0 .. 255) \ {<< >>}]
             writes == command.writes
  <2> HIDE DEF Write, writes
  <2>1. writes \in Seq(Write) /\ written + 1 \in 1 .. Len(writes)
    BY Zenon, <1>4, <1>5 DEF Write, writes
  <2>2. writes[written + 1] \in Write
    BY SMT, <2>1
  <2> QED
    BY Zenon, <2>2 DEF Write, writes
<1>7. Len(w.bytes) <= LongestRead
  BY Zenon, <1>2, <1>3, <1>5 DEF ReadsFit
<1> HIDE DEF w
<1>8. Accepts(rom, w.at, w.bytes) <=> Holds(rom, w)
  BY Zenon, <1>3, <1>6, <1>7, AcceptsWhatHolds
<1>9. CASE Accepts(rom, w.at, w.bytes)
  <2>1. written' = written + 1 /\ status' = "comparing" /\ command' = command /\ rom' = rom
    BY <1>1, <1>9
  <2>2. \A k \in 1 .. written + 1 : Holds(rom, command.writes[k])
    <3>1. \A k \in 1 .. written + 1 : k \in 1 .. written \/ k = written + 1
      BY SMT, <1>2
    <3> QED
      BY Zenon, <1>2, <1>8, <1>9, <3>1 DEF CompareInv, w
  <2>3. written' \in Nat
    BY <1>2, <2>1
  <2> QED
    BY <1>2, <2>1, <2>2, <2>3 DEF CompareInv
<1>10. CASE ~Accepts(rom, w.at, w.bytes)
  <2>1. written' = written /\ status' = "error" /\ command' = command /\ rom' = rom
    BY <1>1, <1>10
  <2>2. ~Holds(rom, command.writes[written + 1])
    BY Zenon, <1>8, <1>10 DEF w
  <2> QED
    BY <1>2, <2>1, <2>2 DEF CompareInv
<1> QED
  BY Zenon, <1>9, <1>10

\* DumpInv and CompareInv are inductive beside RomInv.
LEMMA ToolsInvariant ==
  ASSUME ContentIsBytes, ReadsFit
  PROVE  Spec => [](DumpInv /\ CompareInv)
<1>1. Init => DumpInv /\ CompareInv
  <2> SUFFICES ASSUME Init
               PROVE  DumpInv /\ CompareInv
    OBVIOUS
  <2>1. DumpInv
    BY DEF Init, DumpInv
  <2>2. CompareInv
    BY DEF Init, CompareInv
  <2> QED
    BY <2>1, <2>2
<1>2. RomInv /\ DumpInv /\ CompareInv /\ [Next]_vars => DumpInv' /\ CompareInv'
  <2> SUFFICES ASSUME RomInv, DumpInv, CompareInv, [Next]_vars
               PROVE  DumpInv' /\ CompareInv'
    OBVIOUS
  <2>1. CASE LoadRomFile
    <3>1. status = "start" /\ UNCHANGED <<file, command, address, values, written>>
      BY <2>1 DEF LoadRomFile
    <3>2. written = 0 /\ rom = NoRom
      BY <3>1 DEF CompareInv
    <3>3. CASE IsRom(file)
      <4>1. status' = "loaded" /\ rom' # NoRom
        BY <2>1, <3>3, LoadedRom DEF LoadRomFile, RomInv
      <4>2. ASSUME command.tool = "dump"
            PROVE  DumpedSoFar'
        <5>1. values = << >> /\ address = command.start
          BY <3>1, <4>2 DEF DumpInv
        <5>2. StrideOf(command) \in Nat
          BY StrideOfCommand
        <5>3. address = AddWrapped(command.start, StrideOf(command) * 0)
          <6>1. StrideOf(command) * 0 = 0
            BY SMT, <5>2
          <6> QED
            BY Zenon, <5>1, <6>1, WrappedByNothing DEF RomInv
        <5>4. Len(values) = 0 /\ values \in Seq(Int)
          BY <5>1
        <5>5. DumpOf(rom', command.start, StrideOf(command), values)
          <6>1. \A k : k \notin 1 .. 0
            BY SMT
          <6> QED
            BY Zenon, <5>4, <6>1 DEF DumpOf
        <5> QED
          BY Zenon, <3>1, <4>1, <5>3, <5>4, <5>5 DEF DumpedSoFar, StrideOf
      <4>3. DumpInv'
        BY <3>1, <4>1, <4>2 DEF DumpInv
      <4>4. CompareInv'
        BY <3>1, <3>2, <4>1 DEF CompareInv
      <4> QED
        BY <4>3, <4>4
    <3>4. CASE ~IsRom(file)
      <4>1. status' = "error" /\ rom' = NoRom
        BY <2>1, <3>2, <3>4 DEF LoadRomFile
      <4> QED
        BY <3>1, <3>2, <4>1 DEF DumpInv, CompareInv
    <3> QED
      BY <3>3, <3>4
  <2>2. CASE DumpEntry
    <3>1. DumpInv'
      BY <2>2, DumpStep
    <3>2. CompareInv'
      <4>1. status = "loaded" /\ command.tool = "dump" /\ status' \in {"loaded", "crash"}
            /\ UNCHANGED <<command, rom, written>>
        BY <2>2 DEF DumpEntry, Dumping
      <4> QED
        BY <4>1 DEF CompareInv
    <3> QED
      BY <3>1, <3>2
  <2>3. CASE DumpPrinted
    <3>1. status = "loaded" /\ command.tool = "dump" /\ Len(values) = Count /\ status' = "done"
          /\ UNCHANGED <<file, command, rom, address, values, written>>
      BY <2>3 DEF DumpPrinted, Dumping
    <3>2. DumpedSoFar
      BY <3>1 DEF DumpInv
    <3>3. DumpedSoFar'
      BY Zenon, <3>1, <3>2 DEF DumpedSoFar, StrideOf
    <3>4. Len(values') = CountOf(command')
      BY Zenon, <3>1, StrideOfCommand
    <3>5. DumpInv'
      BY <3>1, <3>3, <3>4 DEF DumpInv
    <3>6. CompareInv'
      BY <3>1 DEF CompareInv
    <3> QED
      BY <3>5, <3>6
  <2>4. CASE OpenSink
    <3>1. status = "loaded" /\ command.tool = "assemble"
          /\ UNCHANGED <<file, command, rom, address, values, written>>
          /\ (command.output = "-" => status' = "comparing")
          /\ (command.output # "-" => status' \in {"error", "crash"})
      BY <2>4 DEF OpenSink
    <3>2. DumpInv'
      BY <3>1 DEF DumpInv
    <3>3. CompareInv'
      BY <3>1 DEF CompareInv
    <3> QED
      BY <3>2, <3>3
  <2>5. CASE CompareWrite
    <3>1. CompareInv'
      BY <2>5, CompareStep
    <3>2. DumpInv'
      <4>1. command.tool = "assemble" /\ command' = command
        BY <2>5 DEF CompareWrite, CompareInv
      <4> QED
        BY <4>1 DEF DumpInv
    <3> QED
      BY <3>1, <3>2
  <2>6. CASE Compared
    <3>1. command.tool = "assemble" /\ status' = "done"
          /\ UNCHANGED <<file, command, rom, address, values, written>>
      BY <2>6 DEF Compared, CompareInv
    <3> QED
      BY <3>1 DEF DumpInv, CompareInv
  <2>7. CASE UNCHANGED vars
    <3>1. /\ file' = file /\ command' = command /\ status' = status /\ rom' = rom
          /\ address' = address /\ values' = values /\ written' = written
      BY <2>7 DEF vars
    <3>2. DumpedSoFar' <=> DumpedSoFar
      BY Zenon, <3>1 DEF DumpedSoFar, StrideOf
    <3>3. DumpInv'
      BY Zenon, <3>1, <3>2 DEF DumpInv, CountOf
    <3>4. CompareInv'
      BY Zenon, <3>1 DEF CompareInv
    <3> QED
      BY <3>3, <3>4
  <2>8. CASE Finished
    BY <2>7, <2>8 DEF Finished
  <2> QED
    BY <2>1, <2>2, <2>3, <2>4, <2>5, <2>6, <2>7, <2>8 DEF Next
<1> QED
  BY <1>1, <1>2, RomInvariant, PTL DEF Spec

\* For ROMs of every size, content and mapping, and every dump and write of
\* up to LongestRead bytes: what quick_dump prints assembles to the bytes of
\* the ROM, and RomIdentityTest passes these and no others.
THEOREM DumpsReassemble ==
  ASSUME ContentIsBytes, ReadsFit
  PROVE  Spec => []WrittenIsRead
<1>1. RomInv /\ DumpInv /\ CompareInv => WrittenIsRead
  <2> SUFFICES ASSUME RomInv, DumpInv, CompareInv
               PROVE  WrittenIsRead
    OBVIOUS
  <2>1. ASSUME status = "done", command.tool = "dump"
        PROVE  /\ Accepts(rom, command.start, Reassembled(values, Stride))
               /\ \A i \in DOMAIN values :
                    ~Accepts(rom, command.start,
                             Reassembled([values EXCEPT ![i] = (@ + 1) % 256 ^ Stride], Stride))
    <3>1. DumpedSoFar /\ Len(values) = CountOf(command)
      BY <2>1 DEF DumpInv
    <3>2. /\ rom.mapping \in Mappings /\ rom.size \in Int /\ command \in Commands
          /\ command.start \in Addresses
      BY <3>1, StartsAssumption DEF RomInv, DumpedSoFar
    <3>3. Stride = StrideOf(command) /\ Stride \in Strides
      BY StrideOfCommand
    <3>4. values \in Seq(Int) /\ DumpOf(rom, command.start, Stride, values)
      BY Zenon, <3>1, <3>3 DEF DumpedSoFar
    <3>5. Stride * Len(values) <= LongestRead
      BY Zenon, <2>1, <3>1, <3>2, <3>3 DEF ReadsFit
    <3>6. 1 <= Len(values)
      <4>1. command.count \in Int
        BY <2>1, <3>2, CommandsAssumption
      <4> QED
        BY SMT, <3>1, <4>1 DEF CountOf
    <3>7. DOMAIN values = 1 .. Len(values)
      BY <3>4
    <3>8. Accepts(rom, command.start, Reassembled(values, Stride))
      BY Zenon, <3>2, <3>3, <3>4, <3>5, <3>6, DumpAccepted
    <3>9. ASSUME NEW i \in DOMAIN values
          PROVE  ~Accepts(rom, command.start,
                          Reassembled([values EXCEPT ![i] = (@ + 1) % 256 ^ Stride], Stride))
      <4>1. i \in 1 .. Len(values)
        BY Zenon, <3>7
      <4>2. ~Accepts(rom, command.start, Reassembled(Changed(values, i, Stride), Stride))
        BY Zenon, <3>2, <3>3, <3>4, <3>5, <3>6, <4>1, ChangedDumpRefused
      <4> QED
        BY Zenon, <4>2 DEF Changed
    <3> QED
      BY <3>8, <3>9
  <2>2. ASSUME command.tool = "assemble", command.output = "-", rom # NoRom
        PROVE  /\ \A k \in 1 .. written : Holds(rom, command.writes[k])
               /\ status = "error" => ~Holds(rom, command.writes[written + 1])
    BY <2>2 DEF CompareInv
  <2> QED
    BY Zenon, <2>1, <2>2 DEF WrittenIsRead, Holds
<1> QED
  BY <1>1, RomInvariant, ToolsInvariant, PTL

=============================================================================
