------------------------------ MODULE Address ------------------------------
(***************************************************************************)
(* Address of address.h: a byte of the 24-bit address space of the 65816,  *)
(* bank byte first.  One past the last address is allowed as the end of a  *)
(* range of memory.                                                        *)
(***************************************************************************)
EXTENDS Integers

MaxAddress == 16777215
Addresses == 0 .. MaxAddress
RangeEnds == 0 .. MaxAddress + 1

Bank(address) == address \div 65536

\* AddWrapped: the bank byte stays.
AddWrapped(address, offset) ==
  (Bank(address) % 256) * 65536 + ((address + offset) % 65536)

=============================================================================
