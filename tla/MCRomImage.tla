----------------------------- MODULE MCRomImage -----------------------------
(***************************************************************************)
(* ROM files of every size and kind of header, read, dumped and compared   *)
(* at the ends of their banks.                                             *)
(***************************************************************************)
EXTENDS RomImage, FiniteSets

\* A different byte at offsets of the same page, bank or half.
Mixed(offset) == (offset + offset \div 256 + 7 * (offset \div 32768)) % 256

Sizes == {0, 32768, 65536, 66048, 65792, 69632, 4190208, 4194304, 4194816, 8388608}

RomFiles == [size : Sizes, lorom : BOOLEAN, hirom : BOOLEAN]

-----------------------------------------------------------------------------

\* Banks at the ends of each region, and the addresses where a bank, its
\* half or the smallest ROMs end.
Banks == {0, 1, 2, 63, 64, 65, 125, 126, 127, 128, 191, 192, 255}
Ends == {0, 1, 32766, 32767, 32768, 36862, 36864, 65533, 65534, 65535}

DumpCommands ==
  {[tool |-> "dump", start |-> a, count |-> n, stride |-> s] :
     a \in {65536 * bank + low : bank \in Banks, low \in Ends}, n \in {0, 3}, s \in 1 .. 4}

Write(at, bytes) == [at |-> at, bytes |-> bytes]

\* The byte of a ROM with the given mapping, and bytes that may differ.
Writes ==
  {<<Write(a, <<b, c>>)>> : a \in {32768, 65535, 65536 * 192 + 65535, 65536 * 64 + 36863},
                            b \in {0, 6, 255}, c \in {0, 1, 7}}

AssembleCommands ==
  {[tool |-> "assemble", start |-> 0, output |-> output, writes |-> << >>] :
     output \in {"-", "asm", "rom"}}
  \cup {[tool |-> "assemble", start |-> 0, output |-> "-", writes |-> first \o second] :
          first \in Writes, second \in {<<Write(32769, <<1, 2>>)>>, <<Write(32768, <<1>>)>>}}

RomCommands == DumpCommands \cup AssembleCommands

=============================================================================
