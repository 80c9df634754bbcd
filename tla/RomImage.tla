------------------------------ MODULE RomImage ------------------------------
(***************************************************************************)
(* ROM files: LoadRomFile, Rom::Read and RomIdentityTest::Write of rom.cc, *)
(* the little-endian reads of memory.cc, and the two tools that use them   *)
(* without the disassembler: util/quick_dump.cc, which prints a part of a  *)
(* ROM as data directives, and util/quick_assemble.cc, which writes what   *)
(* the assembler emits over a ROM or compares it with one.                 *)
(***************************************************************************)
EXTENDS MachineCode

CONSTANTS
  Files,       \* [size, lorom, hirom]: the file size and where a header's checksum holds
  Commands,    \* the command lines of the tools
  Content(_),  \* the byte of the ROM at an offset
  Lengths      \* lengths of the reads that are looked at

ASSUME FilesAssumption == Files \subseteq [size : Nat, lorom : BOOLEAN, hirom : BOOLEAN]

\* A longer read is cut short: see Read.
LongestRead == 65537

ASSUME LengthsAssumption == Lengths \subseteq 1 .. LongestRead

\* The end of the address space, which Address lets through, is no start.
ASSUME StartsAssumption == \A c \in Commands : c.start \in Addresses

\* What an assembler writes is never empty.
ASSUME CommandsAssumption ==
  \A c \in Commands :
    /\ c.tool = "dump" => c.count \in Int /\ c.stride \in Int
    /\ c.tool = "assemble" => c.writes \in Seq([at : Addresses, bytes : Seq(0 .. 255) \ {<< >>}])

VARIABLES
  file, command,
  status,      \* "start", "loaded", "comparing", "done", "error" or "crash"
  rom,         \* the mapping and the size of the ROM that is loaded
  address,     \* address of quick_dump
  values,      \* values of quick_dump
  written      \* how many of the assembler's writes were accepted

vars == <<file, command, status, rom, address, values, written>>

-----------------------------------------------------------------------------
(* SnesToROMAddress *)

NotInRom == -1

InWorkRam(a) == Bank(a) \in {126, 127}
InRegisters(a) == a % 65536 < 32768 /\ Bank(a) % 128 < 64

SnesToROMAddress(a, mapping) ==
  LET low == a % 65536
      wide == low + 65536 * (Bank(a) % 64)
  IN  CASE InWorkRam(a) \/ InRegisters(a) -> NotInRom
        [] mapping = "LoRom" /\ ~InWorkRam(a) /\ ~InRegisters(a) ->
             IF low < 32768 THEN NotInRom ELSE (low % 32768) + 32768 * (Bank(a) % 128)
        [] mapping = "HiRom" /\ ~InWorkRam(a) /\ ~InRegisters(a) -> wide
        [] mapping = "ExHiRom" /\ ~InWorkRam(a) /\ ~InRegisters(a) ->
             IF (wide \div 8388608) % 2 = 0 THEN wide + 4194304 ELSE wide

-----------------------------------------------------------------------------
(* Rom::Read and the reads of InputSource *)

Unreadable == [ok |-> FALSE]
BytesRead(bytes) == [ok |-> TRUE, bytes |-> bytes]

Read_Unwrapped(r, a, length) ==   \* mutant: the last byte may be in the next bank
  LET OffsetOf(i) == SnesToROMAddress(AddWrapped(a, i), r.mapping)
      first == OffsetOf(0)
      last == SnesToROMAddress((a + length - 1) % (MaxAddress + 1), r.mapping)
  IN  CASE first = NotInRom \/ last = NotInRom -> Unreadable
        [] first # NotInRom /\ last # NotInRom /\ last > first ->
             IF last < r.size
               THEN BytesRead([i \in 1 .. last - first + 1 |-> Content(first + i - 1)])
               ELSE Unreadable
        [] OTHER ->
             IF \A i \in 0 .. length - 1 : OffsetOf(i) # NotInRom /\ OffsetOf(i) < r.size
               THEN BytesRead([i \in 1 .. length |-> Content(OffsetOf(i - 1))])
               ELSE Unreadable

\* A read of length > 0.  When the last byte lies behind the first in the ROM,
\* all bytes from the one to the other are taken; otherwise the read wraps
\* around its bank and goes byte by byte.
Read(r, a, length) ==
  LET OffsetOf(i) == SnesToROMAddress(AddWrapped(a, i), r.mapping)
      first == OffsetOf(0)
      last == OffsetOf(length - 1)
  IN  CASE first = NotInRom \/ last = NotInRom -> Unreadable
        [] first # NotInRom /\ last # NotInRom /\ last > first ->
             IF last < r.size
               THEN BytesRead([i \in 1 .. last - first + 1 |-> Content(first + i - 1)])
               ELSE Unreadable
        [] OTHER ->
             IF \A i \in 0 .. length - 1 : OffsetOf(i) # NotInRom /\ OffsetOf(i) < r.size
               THEN BytesRead([i \in 1 .. length |-> Content(OffsetOf(i - 1))])
               ELSE Unreadable

\* ReadByte, ReadWord and ReadLong.
FromLittleEndian(bytes) ==
  CASE Len(bytes) = 1 -> bytes[1]
    [] Len(bytes) = 2 -> bytes[1] + 256 * bytes[2]
    [] Len(bytes) = 3 -> bytes[1] + 256 * bytes[2] + 65536 * bytes[3]

\* RomIdentityTest::Write.
Accepts(r, a, bytes) == Read(r, a, Len(bytes)) = BytesRead(bytes)

-----------------------------------------------------------------------------
(* LoadRomFile *)

Page == 4096
HeaderSize == 512
BankSize == 65536

PayloadSize(f) == IF f.size % Page = HeaderSize THEN f.size - HeaderSize ELSE f.size

\* Anything else is an error; two headers are as bad as none.
IsRom(f) ==
  /\ f.size > 0 /\ f.size % Page \in {0, HeaderSize}
  /\ PayloadSize(f) >= BankSize
  /\ f.lorom # f.hirom

Detected(f) ==
  [mapping |-> CASE f.lorom -> "LoRom"
                 [] ~f.lorom /\ PayloadSize(f) < 4194304 -> "HiRom"
                 [] ~f.lorom /\ PayloadSize(f) >= 4194304 -> "ExHiRom",
   size |-> PayloadSize(f)]

NoRom == [mapping |-> "none", size |-> 0]

Init ==
  /\ file \in Files /\ command \in Commands
  /\ status = "start" /\ rom = NoRom
  /\ address = command.start
  /\ values = << >> /\ written = 0

LoadRomFile ==
  /\ status = "start"
  /\ IF IsRom(file) THEN status' = "loaded" /\ rom' = Detected(file)
                    ELSE status' = "error" /\ UNCHANGED rom
  /\ UNCHANGED <<file, command, address, values, written>>

-----------------------------------------------------------------------------
(* quick_dump *)

Stride == IF command.stride \in 2 .. 3 THEN command.stride ELSE 1
Count == IF command.count < 1 THEN 1 ELSE command.count

Dumping == status = "loaded" /\ command.tool = "dump"

DumpEntry_Unwrapped ==   \* mutant: the next address may be in the next bank
  LET read == Read(rom, address, Stride)
  IN  /\ Dumping /\ Len(values) < Count
      /\ IF read.ok THEN /\ values' = Append(values, FromLittleEndian(read.bytes))
                         /\ address' = address + Stride
                         /\ UNCHANGED status
                    ELSE status' = "crash" /\ UNCHANGED <<values, address>>
      /\ UNCHANGED <<file, command, rom, written>>

\* When a value cannot be read the tool asks the ROM, which is no error, for
\* its error, and ends in bad_variant_access.
DumpEntry ==
  LET read == Read(rom, address, Stride)
  IN  /\ Dumping /\ Len(values) < Count
      /\ IF read.ok THEN /\ values' = Append(values, FromLittleEndian(read.bytes))
                         /\ address' = AddWrapped(address, Stride)
                         /\ UNCHANGED status
                    ELSE status' = "crash" /\ UNCHANGED <<values, address>>
      /\ UNCHANGED <<file, command, rom, written>>

\* All values are printed after one .org line.
DumpPrinted ==
  /\ Dumping /\ Len(values) = Count
  /\ status' = "done"
  /\ UNCHANGED <<file, command, rom, address, values, written>>

-----------------------------------------------------------------------------
(* quick_assemble; command.writes is what nsasm::Assemble gives its sink *)

\* The output is compared when it is "-"; the name of an .asm file is refused.
\* Otherwise a RomOverwriter is made, whose constructor copies the data of
\* the rom it has just moved from.
OpenSink ==
  /\ status = "loaded" /\ command.tool = "assemble"
  /\ status' = CASE command.output = "-" -> "comparing"
                 [] command.output = "asm" -> "error"
                 [] OTHER -> "crash"
  /\ UNCHANGED <<file, command, rom, address, values, written>>

CompareWrite ==
  LET write == command.writes[written + 1]
  IN  /\ status = "comparing" /\ written < Len(command.writes)
      /\ IF Accepts(rom, write.at, write.bytes)
           THEN written' = written + 1 /\ UNCHANGED status
           ELSE status' = "error" /\ UNCHANGED written
      /\ UNCHANGED <<file, command, rom, address, values>>

Compared ==
  /\ status = "comparing" /\ written = Len(command.writes)
  /\ status' = "done"
  /\ UNCHANGED <<file, command, rom, address, values, written>>

Finished == status \in {"done", "error", "crash"} /\ UNCHANGED vars

Next ==
  \/ LoadRomFile \/ DumpEntry \/ DumpPrinted \/ OpenSink \/ CompareWrite \/ Compared \/ Finished

Spec == Init /\ [][Next]_vars

-----------------------------------------------------------------------------
(* Properties *)

\* A read gives the bytes that single reads of its addresses give, and fails
\* when one of them does, wherever it starts and wherever it crosses the end
\* of its bank or of the ROM (Rom::Read has a path of its own for the common
\* case).
ReadIsBytewise ==
  rom # NoRom =>
    \A length \in Lengths :
      LET Single(i) == Read(rom, AddWrapped(address, i), 1)
          read == Read(rom, address, length)
      IN  /\ read.ok <=> \A i \in 0 .. length - 1 : Single(i).ok
          /\ read.ok => read.bytes = [i \in 1 .. length |-> Single(i - 1).bytes[1]]

\* Directive::Assemble of one directive with all values of a dump.
Reassembled(vs, size) ==
  [i \in 1 .. size * Len(vs) |-> ByteOf(vs[(i - 1) \div size + 1], (i - 1) % size)]

\* What quick_dump prints is accepted by RomIdentityTest when it is assembled
\* at the .org it is printed with, also across the end of a bank, and is not
\* when a value is changed.  What the identity test lets pass is what the
\* ROM holds, byte for byte, and it refuses nothing else.
WrittenIsRead ==
  LET Holds(w) == \A i \in DOMAIN w.bytes :
                    Read(rom, AddWrapped(w.at, i - 1), 1) = BytesRead(<<w.bytes[i]>>)
  IN  /\ status = "done" /\ command.tool = "dump" =>
           /\ Accepts(rom, command.start, Reassembled(values, Stride))
           /\ \A i \in DOMAIN values :
                ~Accepts(rom, command.start,
                         Reassembled([values EXCEPT ![i] = (@ + 1) % 256 ^ Stride], Stride))
      /\ command.tool = "assemble" /\ command.output = "-" /\ rom # NoRom =>
           /\ \A k \in 1 .. written : Holds(command.writes[k])
           /\ status = "error" => ~Holds(command.writes[written + 1])

=============================================================================
