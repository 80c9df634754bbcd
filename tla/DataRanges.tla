----------------------------- MODULE DataRanges -----------------------------
(***************************************************************************)
(* The classes DataRange and RangeMap of ranges.h and ranges.cc as         *)
(* operators on their private data.  A DataRange is a sorted sequence of   *)
(* half-open chunks, merged as bytes are claimed; a RangeMap is a          *)
(* DataRange and a map from chunk to value.                                *)
(*                                                                         *)
(* A chunk <<first, second>> runs from first up to, not including, second. *)
(***************************************************************************)
EXTENDS Integers, Sequences

CONSTANTS
  BankSize,       \* bytes in a bank; 65536 in the code
  Banks           \* number of banks; 256 in the code

ASSUME MemoryAssumption == BankSize \in Nat \ {0} /\ Banks \in Nat \ {0}

Locations == 0 .. BankSize * Banks - 1
Larger(a, b) == IF a >= b THEN a ELSE b

-----------------------------------------------------------------------------
(* DataRange *)

\* std::upper_bound with LeftSideSearch: the first chunk that starts after
\* location, or one past the last.
UpperBound(chunks, location) ==
  CHOOSE i \in 1 .. Len(chunks) + 1 :
    /\ \A j \in 1 .. i - 1 : chunks[j][1] <= location
    /\ i <= Len(chunks) => chunks[i][1] > location

InChunks(chunks, location) ==
  LET i == UpperBound(chunks, location)
  IN  i > 1 /\ chunks[i - 1][1] <= location /\ location < chunks[i - 1][2]

\* The last of the chunks that the chunk at position at meets once it has
\* grown up to end: those that follow it without a gap, or at itself.
LastMet_Next(chunks, at, end) ==   \* mutant: at most one chunk is swallowed
  IF at < Len(chunks) /\ chunks[at + 1][1] <= end THEN at + 1 ELSE at

LastMet(chunks, at, end) ==
  CHOOSE last \in at .. Len(chunks) :
    /\ \A i \in at + 1 .. last : chunks[i][1] <= end
    /\ last < Len(chunks) => chunks[last + 1][1] > end

\* The chunk at position at becomes merged; what it now meets on the right is
\* merged into it.
MergeAt(chunks, at, merged, overlaps) ==
  LET last == LastMet(chunks, at, merged[2])
      end == Larger(merged[2], chunks[last][2])
  IN  [chunks |-> SubSeq(chunks, 1, at - 1) \o <<<<merged[1], end>>>>
                    \o SubSeq(chunks, last + 1, Len(chunks)),
       free |-> ~overlaps /\ (last = at \/ merged[2] <= chunks[at + 1][1])]

\* ClaimBytes(Chunk): the new chunk goes into its left neighbour, else into
\* its right one, else between them.
ClaimChunk(chunks, new) ==
  LET point == UpperBound(chunks, new[1])
      meetsLeft == point > 1 /\ new[1] <= chunks[point - 1][2]
      meetsRight == point <= Len(chunks) /\ chunks[point][1] <= new[2]
  IN  CASE meetsLeft ->
             LET left == chunks[point - 1]
             IN  MergeAt(chunks, point - 1, <<left[1], Larger(left[2], new[2])>>, new[1] < left[2])
        [] ~meetsLeft /\ meetsRight ->
             LET right == chunks[point]
             IN  MergeAt(chunks, point, <<new[1], Larger(right[2], new[2])>>, right[1] < new[2])
        [] OTHER ->
             [chunks |-> SubSeq(chunks, 1, point - 1) \o <<new>> \o SubSeq(chunks, point, Len(chunks)),
              free |-> TRUE]

\* Every chunk is claimed, whether or not an earlier one conflicted.
ClaimChunks(chunks, list) ==
  LET claimed[n \in 0 .. Len(list)] ==
        IF n = 0 THEN [chunks |-> chunks, free |-> TRUE]
        ELSE LET done == ClaimChunk(claimed[n - 1].chunks, list[n])
             IN  [chunks |-> done.chunks, free |-> done.free /\ claimed[n - 1].free]
  IN  claimed[Len(list)]

\* The chunks ClaimBytes(Address, int) claims one by one: to the end of the
\* bank, and on from the start of the same bank.
ChunksOf(location, length) ==
  LET base == (location \div BankSize) * BankSize
      offset == location % BankSize
      count == IF length <= 0 THEN 0 ELSE (offset + length + BankSize - 1) \div BankSize
      End(i) == offset + length - (i - 1) * BankSize
  IN  [i \in 1 .. count |-> <<IF i = 1 THEN location ELSE base,
                              base + (IF End(i) <= BankSize THEN End(i) ELSE BankSize)>>]

-----------------------------------------------------------------------------
(* RangeMap *)

\* Lookup: the last entry that starts at or before the address, if it reaches
\* the address.
Nobody == "nobody"

Lookup(map, location) ==
  LET before == {c \in DOMAIN map : c[1] <= location}
      last == CHOOSE c \in before : \A d \in before : d[1] <= c[1]
  IN  IF before # {} /\ location < last[2] THEN map[last] ELSE Nobody

=============================================================================
