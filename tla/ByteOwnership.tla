--------------------------- MODULE ByteOwnership ---------------------------
(***************************************************************************)
(* What DataRange and RangeMap (ranges.h) promise, with sets of bytes in   *)
(* place of sorted chunks: every client claims bytes of its own, and hands *)
(* the bytes it has over to a map that gives each byte at most one owner.  *)
(***************************************************************************)
EXTENDS Integers

CONSTANTS
  Clients,        \* the modules that claim memory
  BankSize,       \* bytes in a bank; 65536 in the code
  Banks           \* number of banks; 256 in the code

Bytes == 0 .. BankSize * Banks - 1
Nobody == "nobody"

VARIABLES
  claimed,   \* the bytes each client has claimed
  owner,     \* the client each byte is handed to, or Nobody
  inserted,  \* the clients that have handed over their bytes
  free       \* what the last operation returned

vars == <<claimed, owner, inserted, free>>

\* The bytes from location on, wrapping around at the end of its bank.
Span(location, length) ==
  {(location \div BankSize) * BankSize + ((location + i) % BankSize) : i \in 0 .. length - 1}

Init ==
  /\ claimed = [c \in Clients |-> {}]
  /\ owner = [b \in Bytes |-> Nobody]
  /\ inserted = {}
  /\ free = TRUE

\* The claim is recorded even when it is refused; a span longer than a bank
\* meets itself.
ClaimBytes(client, location, length) ==
  /\ client \notin inserted
  /\ free' = (Span(location, length) \cap claimed[client] = {} /\ length <= BankSize)
  /\ claimed' = [claimed EXCEPT ![client] = @ \cup Span(location, length)]
  /\ UNCHANGED <<owner, inserted>>

\* All of the client's bytes, or none.
Insert(client) ==
  /\ client \notin inserted
  /\ inserted' = inserted \cup {client}
  /\ free' = (\A b \in claimed[client] : owner[b] = Nobody)
  /\ owner' = IF free' THEN [b \in Bytes |-> IF b \in claimed[client] THEN client ELSE owner[b]]
                       ELSE owner
  /\ UNCHANGED claimed

Next ==
  \E client \in Clients :
    \/ \E location \in Bytes, length \in 0 .. BankSize + 1 : ClaimBytes(client, location, length)
    \/ Insert(client)

Spec == Init /\ [][Next]_vars

=============================================================================
