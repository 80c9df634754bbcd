------------------------------- MODULE Ranges -------------------------------
(***************************************************************************)
(* DataRange and RangeMap at work: every client (a module being assembled) *)
(* claims memory in a DataRange of its own, and when it has made all its   *)
(* claims inserts it into one shared RangeMap, as Assembler::Assemble does *)
(* with Module::OwnedBytes.                                                *)
(***************************************************************************)
EXTENDS DataRanges

CONSTANTS
  Clients,
  MaxLength       \* bound on the length of one claim

ASSUME LengthAssumption == MaxLength \in 0 .. BankSize + 1
ASSUME ClientsAssumption == Nobody \notin Clients

VARIABLES
  ranges,    \* client -> ranges_ of its DataRange
  used,      \* used_: the ranges_ of the map's DataRange
  mapping,   \* mapping_: chunk -> client
  inserted,  \* the clients that have inserted their DataRange
  free       \* what the last operation returned

vars == <<ranges, used, mapping, inserted, free>>

-----------------------------------------------------------------------------

Init ==
  /\ ranges = [c \in Clients |-> << >>]
  /\ used = << >>
  /\ mapping = [c \in {} |-> Nobody]
  /\ inserted = {}
  /\ free = TRUE

ClaimBytes(client, location, length) ==
  LET done == ClaimChunks(ranges[client], ChunksOf(location, length))
  IN  /\ client \notin inserted
      /\ ranges' = [ranges EXCEPT ![client] = done.chunks]
      /\ free' = done.free
      /\ UNCHANGED <<used, mapping, inserted>>

Insert_KeepsClaims(client) ==   \* mutant: a refused insertion stays in used_
  LET done == ClaimChunks(used, ranges[client])
      new == {ranges[client][i] : i \in DOMAIN ranges[client]}
  IN  /\ client \notin inserted
      /\ inserted' = inserted \cup {client}
      /\ free' = done.free
      /\ used' = done.chunks
      /\ mapping' = IF ~done.free THEN mapping
                    ELSE [c \in DOMAIN mapping \cup new |->
                            IF c \in DOMAIN mapping THEN mapping[c] ELSE client]
      /\ UNCHANGED ranges

\* Insert: all chunks of the client's DataRange, or none.  emplace does not
\* replace an entry.
Insert(client) ==
  LET done == ClaimChunks(used, ranges[client])
      new == {ranges[client][i] : i \in DOMAIN ranges[client]}
  IN  /\ client \notin inserted
      /\ inserted' = inserted \cup {client}
      /\ free' = done.free
      /\ IF done.free
           THEN /\ used' = done.chunks
                /\ mapping' = [c \in DOMAIN mapping \cup new |->
                                 IF c \in DOMAIN mapping THEN mapping[c] ELSE client]
           ELSE UNCHANGED <<used, mapping>>
      /\ UNCHANGED ranges

Next ==
  \E client \in Clients :
    \/ \E location \in Locations, length \in 0 .. MaxLength : ClaimBytes(client, location, length)
    \/ Insert(client)

Spec == Init /\ [][Next]_vars

-----------------------------------------------------------------------------
(* Properties *)

BytesOf(chunks) == UNION {chunks[i][1] .. chunks[i][2] - 1 : i \in DOMAIN chunks}

\* RangeMap::Contains and RangeMap::Lookup agree, though the one searches
\* merged chunks and the other the chunks as they were inserted.
LookupAgrees == \A b \in Locations : InChunks(used, b) <=> Lookup(mapping, b) # Nobody

\* DataRange and RangeMap do what they promise of sets of bytes.
Abstract ==
  INSTANCE ByteOwnership WITH claimed <- [c \in Clients |-> BytesOf(ranges[c])],
                              owner <- [b \in Locations |-> Lookup(mapping, b)]

Refines == Abstract!Spec

=============================================================================
