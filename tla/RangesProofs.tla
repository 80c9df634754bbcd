---------------------------- MODULE RangesProofs ----------------------------
(***************************************************************************)
(* Ranges implements ByteOwnership: sorted chunks, merged as they are      *)
(* claimed, behave as sets of bytes, for every size of memory, every set   *)
(* of clients and every sequence of claims.                                *)
(***************************************************************************)
EXTENDS Ranges, DataRangesProofs

Owned(b) == \E c \in DOMAIN mapping : In(c, b)

\* The clients' claims and the map's are sorted chunks, the clients' in memory;
\* the entries of the map share no byte, and hold the bytes used_ holds.
IInv ==
  /\ ranges = [c \in Clients |-> ranges[c]]
  /\ \A c \in Clients : Sorted(ranges[c])
  /\ \A c \in Clients : \A b \in Int : Has(ranges[c], b) => b \in Locations
  /\ Sorted(used)
  /\ DisjointEntries(mapping)
  /\ \A c \in DOMAIN mapping : mapping[c] \in Clients
  /\ \A b \in Int : Has(used, b) <=> Owned(b)

-----------------------------------------------------------------------------
(* Sets of bytes *)

LEMMA BytesOfHas ==
  ASSUME NEW chunks, Sorted(chunks)
  PROVE  /\ \A b \in Int : b \in BytesOf(chunks) <=> Has(chunks, b)
         /\ BytesOf(chunks) \subseteq Int
<1>1. /\ DOMAIN chunks = 1 .. Len(chunks)
      /\ \A i \in 1 .. Len(chunks) : chunks[i][1] \in Int /\ chunks[i][2] \in Int
  BY DEF Sorted
<1>2. ASSUME NEW b \in Int, NEW i \in 1 .. Len(chunks)
      PROVE  b \in chunks[i][1] .. chunks[i][2] - 1 <=> In(chunks[i], b)
  BY <1>1 DEF In
<1>3. ASSUME NEW b \in Int
      PROVE  b \in BytesOf(chunks) <=> Has(chunks, b)
  BY <1>1, <1>2, <1>3 DEF BytesOf, Has
<1>4. BytesOf(chunks) \subseteq Int
  BY <1>1 DEF BytesOf
<1> QED
  BY <1>3, <1>4

LEMMA SpanIsBytesFrom ==
  ASSUME NEW location, NEW length
  PROVE  Abstract!Span(location, length) = BytesFrom(location, length)
  BY DEF Abstract!Span, BytesFrom, Base

-----------------------------------------------------------------------------
(* The map *)

\* What Lookup answers: the client of the entry that holds the byte.
LEMMA LookupIsOwner ==
  ASSUME IInv, NEW b \in Locations
  PROVE  /\ \A c \in DOMAIN mapping : In(c, b) => Lookup(mapping, b) = mapping[c]
         /\ Lookup(mapping, b) # Nobody <=> Owned(b)
<1>1. b \in Nat
  BY DEF Locations
<1>2. /\ \A c \in DOMAIN mapping : In(c, b) => Lookup(mapping, b) = mapping[c]
      /\ (\A c \in DOMAIN mapping : ~In(c, b)) => Lookup(mapping, b) = Nobody
  BY <1>1, LookupFinds DEF IInv
<1>3. \A c \in DOMAIN mapping : mapping[c] # Nobody
  BY ClientsAssumption DEF IInv
<1> QED
  BY <1>2, <1>3 DEF Owned

\* LookupAgrees follows from the invariant.
LEMMA IInvLookupAgrees == IInv => LookupAgrees
<1> SUFFICES ASSUME IInv, NEW b \in Locations
             PROVE  InChunks(used, b) <=> Lookup(mapping, b) # Nobody
  BY DEF LookupAgrees
<1>1. b \in Int
  BY DEF Locations
<1>2. InChunks(used, b) <=> Has(used, b)
  BY <1>1, InChunksIsHas DEF IInv
<1> QED
  BY <1>1, <1>2, LookupIsOwner DEF IInv

-----------------------------------------------------------------------------
(* The initial state *)

LEMMA NothingHeld ==
  Sorted(<< >>) /\ (\A b : ~Has(<< >>, b)) /\ BytesOf(<< >>) = {}
<1>1. DOMAIN << >> = {}
  OBVIOUS
<1> QED
  BY <1>1, EmptySorted DEF BytesOf

LEMMA InitIInv == Init => IInv
  BY NothingHeld DEF Init, IInv, DisjointEntries, Owned

LEMMA InitRefines == Init => Abstract!Init
<1> SUFFICES ASSUME Init
             PROVE  Abstract!Init
  OBVIOUS
<1>1. \A c \in Clients : BytesOf(ranges[c]) = {}
  BY NothingHeld DEF Init
<1>2. ASSUME NEW b \in Locations
      PROVE  Lookup(mapping, b) = Nobody
  <2>1. DOMAIN mapping = {}
    BY DEF Init
  <2> QED
    BY <2>1 DEF Lookup
<1> QED
  BY <1>1, <1>2 DEF Init, Abstract!Init, Abstract!Bytes, Locations, Abstract!Nobody, Nobody

-----------------------------------------------------------------------------
(* ClaimBytes *)

\* A claim keeps the invariant and does to the chunks what it does to the sets.
LEMMA ClaimBytesStep ==
  ASSUME IInv, NEW client \in Clients, NEW location \in Locations, NEW length \in 0 .. MaxLength,
         ClaimBytes(client, location, length)
  PROVE  IInv' /\ Abstract!ClaimBytes(client, location, length)
<1> DEFINE list == ChunksOf(location, length)
           chunks == ranges[client]
           done == ClaimChunks(chunks, list)
           span == Abstract!Span(location, length)
<1>1. length \in 0 .. BankSize + 1
  BY LengthAssumption, MemoryAssumption
<1>2. location \in Nat
  BY BankInMemory
<1>3. /\ Len(list) \in Nat
      /\ \A k \in 1 .. Len(list) : IsChunk(list[k])
      /\ \A b \in Int : Has(list, b) <=> b \in span
      /\ \A b \in Int : Has(list, b) => b \in Locations
      /\ (\A k \in 1 .. Len(list) : \A i \in 1 .. k - 1 :
             \A b \in Int : ~(In(list[k], b) /\ In(list[i], b)))
           <=> length <= BankSize
  BY <1>1, <1>2, ChunksOfHold, SpanIsBytesFrom, BankInMemory
<1>4. Sorted(chunks)
  BY DEF IInv
<1> HIDE DEF list, span
<1>5. /\ Sorted(done.chunks)
      /\ \A b \in Int : Has(done.chunks, b) <=> Has(chunks, b) \/ Has(list, b)
      /\ done.free \in BOOLEAN
      /\ done.free <=> \A k \in 1 .. Len(list) : Fresh(chunks, list, k)
  BY <1>3, <1>4, ClaimChunksHolds
<1>6. done.free <=> /\ \A b \in Int : ~(Has(chunks, b) /\ Has(list, b))
                    /\ length <= BankSize
  BY <1>3, <1>5, FreshApart
<1>7. /\ client \notin inserted
      /\ ranges' = [ranges EXCEPT ![client] = done.chunks]
      /\ free' = done.free
      /\ UNCHANGED <<used, mapping, inserted>>
  BY DEF ClaimBytes, list
<1> HIDE DEF done
<1>8. /\ ranges' = [c \in Clients |-> ranges'[c]]
      /\ ranges'[client] = done.chunks
      /\ \A c \in Clients : c # client => ranges'[c] = ranges[c]
  BY <1>7 DEF IInv
<1>9. IInv'
  <2>1. ASSUME NEW c \in Clients
        PROVE  Sorted(ranges'[c]) /\ \A b \in Int : Has(ranges'[c], b) => b \in Locations
    <3>1. CASE c = client
      BY <3>1, <1>3, <1>5, <1>8 DEF IInv
    <3>2. CASE c # client
      BY <3>2, <1>8 DEF IInv
    <3> QED
      BY <3>1, <3>2
  <2>2. \A b \in Int : Has(used', b) <=> Owned(b)'
    BY <1>7 DEF IInv, Owned
  <2> QED
    BY <2>1, <2>2, <1>7, <1>8 DEF IInv
<1>10. span \subseteq Int
  <2>1. Base(location) \in Nat /\ BankSize \in Nat \ {0} /\ length \in Nat
    BY <1>1, <1>2, BaseAndOffset, MemoryAssumption
  <2>2. \A i \in 0 .. length - 1 : (location + i) % BankSize \in Int
    BY <2>1, <1>2
  <2> QED
    BY <2>1, <2>2, SpanIsBytesFrom DEF span, BytesFrom
<1>11. /\ \A b \in Int : b \in BytesOf(chunks) <=> Has(chunks, b)
       /\ BytesOf(chunks) \subseteq Int
       /\ \A b \in Int : b \in BytesOf(done.chunks) <=> Has(done.chunks, b)
       /\ BytesOf(done.chunks) \subseteq Int
  BY <1>4, <1>5, BytesOfHas
<1> DEFINE claimed == [c \in Clients |-> BytesOf(ranges[c])]
<1>12. free' = (span \cap BytesOf(chunks) = {} /\ length <= BankSize)
  <2>1. (\A b \in Int : ~(Has(chunks, b) /\ Has(list, b))) <=> span \cap BytesOf(chunks) = {}
    BY <1>3, <1>10, <1>11
  <2> QED
    BY <2>1, <1>5, <1>6, <1>7
<1>13. BytesOf(done.chunks) = BytesOf(chunks) \cup span
  BY <1>3, <1>5, <1>10, <1>11
<1>14. [c \in Clients |-> BytesOf(ranges'[c])] = [claimed EXCEPT ![client] = @ \cup span]
  BY <1>8, <1>13
<1>15. UNCHANGED <<[b \in Locations |-> Lookup(mapping, b)], inserted>>
  BY <1>7
<1> QED
  BY <1>7, <1>9, <1>12, <1>14, <1>15 DEF Abstract!ClaimBytes, span, Abstract!Bytes, Locations

-----------------------------------------------------------------------------
(* Insert *)

\* An insertion keeps the invariant, and is all of the client's bytes or none.
LEMMA InsertStep ==
  ASSUME IInv, NEW client \in Clients, Insert(client)
  PROVE  IInv' /\ Abstract!Insert(client)
<1> DEFINE list == ranges[client]
           done == ClaimChunks(used, list)
           new == {list[i] : i \in DOMAIN list}
<1>1. Sorted(list) /\ Sorted(used) /\ DOMAIN list = 1 .. Len(list)
  BY DEF IInv, Sorted
<1>2. /\ Len(list) \in Nat
      /\ \A k \in 1 .. Len(list) : IsChunk(list[k])
      /\ \A k \in 1 .. Len(list) : \A i \in 1 .. k - 1 :
            \A b \in Int : ~(In(list[k], b) /\ In(list[i], b))
      /\ \A k, i \in 1 .. Len(list) : \A b \in Int : In(list[k], b) /\ In(list[i], b) => k = i
  BY <1>1, SortedApart
<1>3. \A b \in Int : Has(list, b) => b \in Locations
  BY DEF IInv
<1>4. /\ client \notin inserted
      /\ inserted' = inserted \cup {client}
      /\ free' = done.free
      /\ done.free => /\ used' = done.chunks
                      /\ mapping' = [c \in DOMAIN mapping \cup new |->
                                       IF c \in DOMAIN mapping THEN mapping[c] ELSE client]
      /\ ~done.free => UNCHANGED <<used, mapping>>
      /\ UNCHANGED ranges
  BY DEF Insert
<1> HIDE DEF list
<1>5. /\ Sorted(done.chunks)
      /\ \A b \in Int : Has(done.chunks, b) <=> Has(used, b) \/ Has(list, b)
      /\ done.free \in BOOLEAN
      /\ done.free <=> \A k \in 1 .. Len(list) : Fresh(used, list, k)
  BY <1>1, <1>2, ClaimChunksHolds
<1> HIDE DEF done
<1>6. done.free <=> \A b \in Int : ~(Has(used, b) /\ Has(list, b))
  BY <1>2, <1>5, FreshApart
<1>7. \A b \in Int : Has(list, b) <=> \E c \in new : In(c, b)
  BY <1>1 DEF Has
<1>8. \A c \in new : IsChunk(c) /\ In(c, c[1]) /\ c[1] \in Nat
  <2> SUFFICES ASSUME NEW k \in 1 .. Len(list)
               PROVE  IsChunk(list[k]) /\ In(list[k], list[k][1]) /\ list[k][1] \in Nat
    BY <1>1
  <2>1. list[k][1] \in Int /\ list[k][2] \in Int /\ list[k][1] < list[k][2]
    BY <1>2 DEF IsChunk
  <2>2. In(list[k], list[k][1])
    BY <2>1 DEF In
  <2>3. list[k][1] \in Locations
    BY <2>1, <2>2, <1>3 DEF Has
  <2> QED
    BY <2>2, <2>3, <1>2 DEF Locations
<1>9. \A c, d \in new : \A b \in Int : In(c, b) /\ In(d, b) => c = d
  BY <1>1, <1>2
<1> HIDE DEF new
<1> DEFINE owner == [b \in Locations |-> Lookup(mapping, b)]
           claimed == [c \in Clients |-> BytesOf(ranges[c])]
<1>12. claimed[client] = BytesOf(list)
  BY DEF list
<1>13. /\ [c \in Clients |-> BytesOf(ranges[c])] = claimed
       /\ [b \in Abstract!Bytes |-> Lookup(mapping, b)] = owner
       /\ [b \in Locations |-> Lookup(mapping, b)] = owner
  BY DEF Abstract!Bytes, Locations
<1>10. CASE ~done.free
  <2>1. UNCHANGED <<ranges, used, mapping>>
    BY <1>4, <1>10
  <2>2. IInv'
    BY <2>1 DEF IInv, Owned
  <2>3. PICK b \in Int : Has(used, b) /\ Has(list, b)
    BY <1>6, <1>10
  <2>4. b \in Locations /\ Lookup(mapping, b) # Nobody
    BY <2>3, <1>3, LookupIsOwner DEF IInv
  <2>5. b \in BytesOf(list)
    BY <2>3, <1>1, BytesOfHas
  <2>6. free' = FALSE
    BY <1>4, <1>5, <1>10
  <2>7. (\A a \in BytesOf(list) : owner[a] = Nobody) = FALSE
    BY <2>4, <2>5
  <2>8. owner = [a \in Locations |-> Lookup(mapping', a)] /\ claimed = [c \in Clients |-> BytesOf(ranges'[c])]
    BY <2>1
  <2> HIDE DEF owner, claimed
  <2> QED
    BY <2>2, <2>6, <2>7, <2>8, <1>4, <1>12, <1>13
       DEF Abstract!Insert, Abstract!Nobody, Nobody
<1>11. CASE done.free
  <2>1. /\ used' = done.chunks /\ ranges' = ranges /\ free' = TRUE
        /\ mapping' = [c \in DOMAIN mapping \cup new |->
                         IF c \in DOMAIN mapping THEN mapping[c] ELSE client]
    BY <1>4, <1>5, <1>11
  <2>2. \A b \in Int : ~(Owned(b) /\ \E c \in new : In(c, b))
    BY <1>6, <1>7, <1>11 DEF IInv
  <2>3. \A c \in new : c \notin DOMAIN mapping
    BY <2>2, <1>8 DEF Owned
  <2>4. /\ DOMAIN mapping' = DOMAIN mapping \cup new
        /\ \A c \in DOMAIN mapping : mapping'[c] = mapping[c]
        /\ \A c \in new : mapping'[c] = client
    BY <2>1, <2>3
  <2>5. DisjointEntries(mapping')
    <3>1. \A c \in DOMAIN mapping' : IsChunk(c) /\ c[1] >= 0
      BY <2>4, <1>8 DEF IInv, DisjointEntries
    <3>2. ASSUME NEW c \in DOMAIN mapping', NEW d \in DOMAIN mapping', NEW b \in Int,
                 In(c, b), In(d, b)
          PROVE  c = d
      <4>1. CASE c \in DOMAIN mapping /\ d \in DOMAIN mapping
        BY <3>2, <4>1 DEF IInv, DisjointEntries
      <4>2. CASE c \in new /\ d \in new
        BY <3>2, <4>2, <1>9
      <4>3. CASE c \in DOMAIN mapping /\ d \in new
        BY <3>2, <4>3, <2>2 DEF Owned
      <4>4. CASE c \in new /\ d \in DOMAIN mapping
        BY <3>2, <4>4, <2>2 DEF Owned
      <4> QED
        BY <4>1, <4>2, <4>3, <4>4, <2>4
    <3> QED
      BY <3>1, <3>2 DEF DisjointEntries
  <2>6. ASSUME NEW b \in Int
        PROVE  /\ Has(used', b) <=> Owned(b)'
               /\ Owned(b)' <=> Owned(b) \/ Has(list, b)
    <3>1. Owned(b)' <=> Owned(b) \/ \E c \in new : In(c, b)
      BY <2>4 DEF Owned
    <3> QED
      BY <3>1, <2>1, <1>5, <1>7 DEF IInv
  <2>7. IInv'
    BY <2>1, <2>4, <2>5, <2>6, <1>5 DEF IInv
  <2>8. ASSUME NEW b \in Locations
        PROVE  /\ b \in BytesOf(list) => Lookup(mapping', b) = client /\ Lookup(mapping, b) = Nobody
               /\ b \notin BytesOf(list) => Lookup(mapping', b) = Lookup(mapping, b)
    <3>1. b \in Nat
      BY DEF Locations
    <3>2. /\ \A c \in DOMAIN mapping' : In(c, b) => Lookup(mapping', b) = mapping'[c]
          /\ (\A c \in DOMAIN mapping' : ~In(c, b)) => Lookup(mapping', b) = Nobody
      BY <3>1, <2>5, LookupFinds
    <3>3. /\ \A c \in DOMAIN mapping : In(c, b) => Lookup(mapping, b) = mapping[c]
          /\ (\A c \in DOMAIN mapping : ~In(c, b)) => Lookup(mapping, b) = Nobody
      BY <3>1, LookupFinds DEF IInv
    <3>4. b \in BytesOf(list) <=> \E c \in new : In(c, b)
      BY <3>1, <1>1, <1>7, BytesOfHas
    <3>5. ASSUME NEW c \in new, In(c, b)
          PROVE  Lookup(mapping', b) = client /\ Lookup(mapping, b) = Nobody
      <4>1. Lookup(mapping', b) = client
        BY <3>2, <3>5, <2>4
      <4>2. \A d \in DOMAIN mapping : ~In(d, b)
        BY <3>1, <3>5, <2>2 DEF Owned
      <4> QED
        BY <4>1, <4>2, <3>3
    <3>6. ASSUME \A c \in new : ~In(c, b)
          PROVE  Lookup(mapping', b) = Lookup(mapping, b)
      <4>1. CASE \E c \in DOMAIN mapping : In(c, b)
        BY <4>1, <3>2, <3>3, <2>4
      <4>2. CASE \A c \in DOMAIN mapping : ~In(c, b)
        BY <4>2, <3>2, <3>3, <3>6, <2>4
      <4> QED
        BY <4>1, <4>2
    <3> QED
      BY <3>4, <3>5, <3>6
  <2>9. BytesOf(list) \subseteq Locations
    BY <1>1, <1>3, BytesOfHas
  <2>10. (\A a \in BytesOf(list) : owner[a] = Nobody) = TRUE
    BY <2>8, <2>9
  <2>11. [b \in Locations |-> Lookup(mapping', b)]
           = [b \in Locations |-> IF b \in BytesOf(list) THEN client ELSE owner[b]]
    BY <2>8
  <2>12. claimed = [c \in Clients |-> BytesOf(ranges'[c])]
    BY <2>1
  <2>13. free' = (\A b \in claimed[client] : owner[b] = Abstract!Nobody)
    BY <2>1, <2>10, <1>12 DEF Abstract!Nobody, Nobody
  <2>14. [b \in Locations |-> Lookup(mapping', b)]
           = IF free' THEN [b \in Abstract!Bytes |-> IF b \in claimed[client] THEN client ELSE owner[b]]
             ELSE owner
    BY <2>1, <2>11, <1>12 DEF Abstract!Bytes, Locations
  <2>15. [c \in Clients |-> BytesOf(ranges'[c])] = claimed
    BY <2>12
  <2>16. Abstract!Insert(client)
    BY <2>13, <2>14, <2>15, <1>4 DEF Abstract!Insert
  <2> QED
    BY <2>7, <2>16
<1> QED
  BY <1>5, <1>10, <1>11

-----------------------------------------------------------------------------
(* The theorems *)

LEMMA NextStep ==
  ASSUME IInv, Next
  PROVE  IInv' /\ Abstract!Next
<1>1. PICK client \in Clients : \/ \E location \in Locations, length \in 0 .. MaxLength :
                                     ClaimBytes(client, location, length)
                                \/ Insert(client)
  BY DEF Next
<1>2. CASE Insert(client)
  BY <1>2, InsertStep DEF Abstract!Next
<1>3. ASSUME NEW location \in Locations, NEW length \in 0 .. MaxLength,
             ClaimBytes(client, location, length)
      PROVE  IInv' /\ Abstract!Next
  <2>1. IInv' /\ Abstract!ClaimBytes(client, location, length)
    BY <1>3, ClaimBytesStep
  <2>2. location \in Abstract!Bytes /\ length \in 0 .. BankSize + 1
    BY LengthAssumption, MemoryAssumption DEF Locations, Abstract!Bytes
  <2> QED
    BY <2>1, <2>2 DEF Abstract!Next
<1> QED
  BY <1>1, <1>2, <1>3

LEMMA StutterStep ==
  ASSUME IInv, UNCHANGED vars
  PROVE  IInv' /\ UNCHANGED Abstract!vars
  BY DEF IInv, Owned, vars, Abstract!vars

\* The invariant holds of every state of DataRange and RangeMap.
THEOREM RangesAreSorted == Spec => []IInv
<1>1. IInv /\ [Next]_vars => IInv'
  BY NextStep, StutterStep
<1> QED
  BY InitIInv, <1>1, PTL DEF Spec

\* RangeMap::Contains, which searches the merged chunks, and RangeMap::Lookup,
\* which searches the chunks as they were inserted, agree on every byte.
THEOREM LookupAlwaysAgrees == Spec => []LookupAgrees
  BY RangesAreSorted, IInvLookupAgrees, PTL

\* DataRange::ClaimBytes and RangeMap::Insert do to their chunks what they
\* promise of sets of bytes.
THEOREM RangesRefineByteOwnership == Spec => Refines
<1>1. IInv /\ [Next]_vars => [Abstract!Next]_(Abstract!vars)
  BY NextStep, StutterStep
<1> QED
  BY InitRefines, RangesAreSorted, <1>1, PTL DEF Spec, Refines, Abstract!Spec

=============================================================================
