-------------------------- MODULE DataRangesProofs --------------------------
(***************************************************************************)
(* Lemmas about DataRanges: a DataRange stays a sorted sequence of chunks  *)
(* with gaps between them, it holds exactly the bytes claimed, a claim is  *)
(* free exactly when its bytes are, and RangeMap finds the chunk that      *)
(* holds an address.                                                       *)
(***************************************************************************)
EXTENDS DataRanges, SequenceTheorems, WellFoundedInduction, TLAPS

In(chunk, b) == chunk[1] <= b /\ b < chunk[2]
Has(chunks, b) == \E i \in 1 .. Len(chunks) : In(chunks[i], b)

IsChunk(chunk) == chunk \in Int \X Int /\ chunk[1] < chunk[2]

\* The chunks are in order, and no two of them touch.
Sorted(chunks) ==
  /\ chunks \in Seq(Int \X Int)
  /\ \A i \in 1 .. Len(chunks) : chunks[i][1] < chunks[i][2]
  /\ \A i, j \in 1 .. Len(chunks) : i < j => chunks[i][2] < chunks[j][1]

-----------------------------------------------------------------------------
(* A set of natural numbers has a smallest element: this stands in for     *)
(* induction, which the library states for an operator.                    *)

Lt == {p \in Nat \X Nat : p[1] < p[2]}

LEMMA LtIsTheOrder == OpToRel(<, Nat) = Lt
  BY DEF OpToRel, Lt

LEMMA LtIsWellFounded == IsWellFoundedOn(Lt, Nat)
  BY LtIsTheOrder, NatLessThanWellFounded

\* A non-empty set of natural numbers has a smallest element.
LEMMA LeastElement ==
  ASSUME NEW T \in SUBSET Nat, T # {}
  PROVE  \E n \in T : \A m \in T : n <= m
<1>1. PICK n \in T : \A m \in T : ~(<<m, n>> \in Lt)
  BY LtIsWellFounded, WFMin
<1>2. ASSUME NEW m \in T
      PROVE  n <= m
  <2>1. ~(<<m, n>> \in Lt)
    BY <1>1
  <2>2. m \in Nat /\ n \in Nat
    OBVIOUS
  <2>3. ~(m < n)
    BY <2>1, <2>2 DEF Lt
  <2> QED
    BY <2>2, <2>3
<1> QED
  BY <1>2

-----------------------------------------------------------------------------
(* Searching *)

\* UpperBound splits a sorted sequence at the location: the chunks before it
\* start no later, those from it on start later.
LEMMA UpperBoundSplits ==
  ASSUME NEW chunks, Sorted(chunks), NEW location \in Int
  PROVE  LET p == UpperBound(chunks, location)
         IN  /\ p \in 1 .. Len(chunks) + 1
             /\ \A i \in 1 .. p - 1 : chunks[i][1] <= location
             /\ \A i \in p .. Len(chunks) : location < chunks[i][1]
<1> DEFINE n == Len(chunks)
           Later == {i \in 1 .. n : chunks[i][1] > location} \cup {n + 1}
           Split(i) == /\ \A j \in 1 .. i - 1 : chunks[j][1] <= location
                       /\ i <= n => chunks[i][1] > location
           p == UpperBound(chunks, location)
<1>1. n \in Nat /\ \A i \in 1 .. n : chunks[i] \in Int \X Int
  BY DEF Sorted
<1>2. \A i \in 1 .. n : chunks[i][1] \in Int /\ chunks[i][2] \in Int
  BY <1>1
<1>3. Later \in SUBSET Nat /\ Later # {}
  BY <1>1
<1>4. PICK s \in Later : \A m \in Later : s <= m
  <2> HIDE DEF Later
  <2> QED
    BY <1>3, LeastElement
<1>5. s \in 1 .. n + 1 /\ Split(s)
  <2>1. s \in 1 .. n + 1
    BY <1>1
  <2>2. ASSUME NEW j \in 1 .. s - 1
        PROVE  chunks[j][1] <= location
    BY <1>1, <1>2, <1>4, <2>1
  <2>3. s <= n => chunks[s][1] > location
    BY <1>1
  <2> QED
    BY <2>1, <2>2, <2>3
<1>6. p = CHOOSE i \in 1 .. n + 1 : Split(i)
  BY DEF UpperBound
<1>7. p \in 1 .. n + 1 /\ Split(p)
  <2> HIDE DEF Split, p
  <2> QED
    BY <1>5, <1>6
<1> HIDE DEF p
<1>8. ASSUME NEW i \in p .. n
      PROVE  location < chunks[i][1]
  <2>1. i \in 1 .. n /\ p \in 1 .. n /\ chunks[p][1] > location
    BY <1>1, <1>7
  <2>2. CASE i = p
    BY <2>1, <2>2
  <2>3. CASE i # p
    <3>1. p < i
      BY <2>1, <2>3, <1>1, <1>7
    <3>2. chunks[p][1] < chunks[p][2] /\ chunks[p][2] < chunks[i][1]
      BY <2>1, <3>1 DEF Sorted
    <3> QED
      BY <3>2, <2>1, <1>2
  <2> QED
    BY <2>2, <2>3
<1> QED
  BY <1>7, <1>8 DEF p

LEMMA EmptySorted == Sorted(<< >>) /\ \A b : ~Has(<< >>, b)
<1>1. Len(<< >>) = 0 /\ << >> \in Seq(Int \X Int) /\ 1 .. 0 = {}
  OBVIOUS
<1> QED
  BY <1>1 DEF Sorted, Has

\* Contains finds a byte exactly when some chunk holds it.
LEMMA InChunksIsHas ==
  ASSUME NEW chunks, Sorted(chunks), NEW location \in Int
  PROVE  InChunks(chunks, location) <=> Has(chunks, location)
<1> DEFINE p == UpperBound(chunks, location)
<1>1. /\ p \in 1 .. Len(chunks) + 1
      /\ \A i \in 1 .. p - 1 : chunks[i][1] <= location
      /\ \A i \in p .. Len(chunks) : location < chunks[i][1]
  BY UpperBoundSplits
<1>2. Len(chunks) \in Nat /\ \A i \in 1 .. Len(chunks) : chunks[i][1] \in Int /\ chunks[i][2] \in Int
  BY DEF Sorted
<1>3. InChunks(chunks, location)
        <=> p > 1 /\ chunks[p - 1][1] <= location /\ location < chunks[p - 1][2]
  BY DEF InChunks
<1> HIDE DEF p
<1>4. ASSUME p > 1, location < chunks[p - 1][2]
      PROVE  Has(chunks, location)
  <2>1. p - 1 \in 1 .. Len(chunks) /\ chunks[p - 1][1] <= location
    BY <1>1, <1>2, <1>4
  <2> QED
    BY <2>1, <1>4 DEF Has, In
<1>5. ASSUME NEW i \in 1 .. Len(chunks), In(chunks[i], location)
      PROVE  p > 1 /\ chunks[p - 1][1] <= location /\ location < chunks[p - 1][2]
  <2>1. ~(i \in p .. Len(chunks))
    BY <1>1, <1>2, <1>5 DEF In
  <2>2. i <= p - 1 /\ p - 1 \in 1 .. Len(chunks)
    BY <2>1, <1>1, <1>2
  <2>3. i = p - 1
    <3>1. SUFFICES ASSUME i < p - 1
                   PROVE  FALSE
      BY <2>2, <1>1, <1>2
    <3>2. chunks[i][2] < chunks[p - 1][1] /\ chunks[p - 1][1] <= location
      BY <3>1, <2>2, <1>1, <1>2 DEF Sorted
    <3> QED
      BY <3>2, <1>2, <1>5, <2>2 DEF In
  <2> QED
    BY <2>2, <2>3, <1>5, <1>1, <1>2 DEF In
<1> QED
  BY <1>3, <1>4, <1>5 DEF Has

-----------------------------------------------------------------------------
(* Claiming *)

\* Chunks up to left and from right on, with chunk in the gap between them,
\* are sorted, and hold what they held before.
LEMMA SpliceHolds ==
  ASSUME NEW chunks, Sorted(chunks), NEW chunk, IsChunk(chunk),
         NEW left \in 0 .. Len(chunks), NEW right \in left + 1 .. Len(chunks) + 1,
         left > 0 => chunks[left][2] < chunk[1],
         right <= Len(chunks) => chunk[2] < chunks[right][1]
  PROVE  LET splice == SubSeq(chunks, 1, left) \o <<chunk>> \o SubSeq(chunks, right, Len(chunks))
         IN  /\ Sorted(splice)
             /\ \A b : Has(splice, b) <=> \/ In(chunk, b)
                                          \/ \E i \in 1 .. left : In(chunks[i], b)
                                          \/ \E i \in right .. Len(chunks) : In(chunks[i], b)
<1> DEFINE n == Len(chunks)
           a == SubSeq(chunks, 1, left)
           c == SubSeq(chunks, right, n)
           s == a \o <<chunk>> \o c
<1>0. /\ chunks \in Seq(Int \X Int)
      /\ \A i \in 1 .. n : chunks[i] \in Int \X Int /\ chunks[i][1] \in Int /\ chunks[i][2] \in Int
      /\ chunk[1] \in Int /\ chunk[2] \in Int /\ chunk[1] < chunk[2]
  BY SMTT(30) DEF Sorted, IsChunk
<1>1. n \in Nat /\ left \in 0 .. n /\ right \in left + 1 .. n + 1
  BY <1>0
<1> HIDE DEF n
<1>2. /\ a \in Seq(Int \X Int) /\ Len(a) = left
      /\ \A i \in 1 .. left : a[i] = chunks[i]
  BY SMTT(30), <1>0, <1>1, SubSeqProperties DEF n
<1>3. /\ c \in Seq(Int \X Int) /\ Len(c) = n - right + 1
      /\ \A i \in 1 .. n - right + 1 : c[i] = chunks[right + i - 1]
  BY SMTT(30), <1>0, <1>1, SubSeqProperties DEF n
<1>4. <<chunk>> \in Seq(Int \X Int) /\ Len(<<chunk>>) = 1 /\ <<chunk>>[1] = chunk
  BY DEF IsChunk
<1> HIDE DEF a, c
<1>5. /\ s \in Seq(Int \X Int) /\ Len(s) = left + 1 + (n - right + 1)
      /\ \A i \in 1 .. left : s[i] = chunks[i]
      /\ s[left + 1] = chunk
      /\ \A i \in left + 2 .. Len(s) : s[i] = chunks[i - (left + 1) + right - 1]
  <2>1. /\ a \o <<chunk>> \in Seq(Int \X Int) /\ Len(a \o <<chunk>>) = left + 1
        /\ \A i \in 1 .. left : (a \o <<chunk>>)[i] = chunks[i]
        /\ (a \o <<chunk>>)[left + 1] = chunk
    <3> DEFINE e == <<chunk>>
               t == a \o e
    <3>1. e \in Seq(Int \X Int) /\ Len(e) = 1 /\ e[1] = chunk
      BY <1>4
    <3> HIDE DEF e
    <3>2. /\ t \in Seq(Int \X Int) /\ Len(t) = Len(a) + Len(e)
          /\ \A i \in 1 .. Len(a) + Len(e) :
               t[i] = IF i <= Len(a) THEN a[i] ELSE e[i - Len(a)]
      BY <1>2, <3>1, ConcatProperties, Zenon
    <3> HIDE DEF t
    <3>3. ASSUME NEW i \in 1 .. left
          PROVE  t[i] = chunks[i]
      <4>1. i \in 1 .. Len(a) + Len(e) /\ i <= Len(a)
        BY <1>1, <1>2, <3>1
      <4>2. t[i] = a[i]
        BY <3>2, <4>1
      <4> QED
        BY <1>2, <4>2
    <3>4. t[left + 1] = chunk
      <4>1. /\ left + 1 \in 1 .. Len(a) + Len(e) /\ ~(left + 1 <= Len(a))
            /\ (left + 1) - Len(a) = 1
        BY <1>1, <1>2, <3>1
      <4>2. t[left + 1] = e[(left + 1) - Len(a)]
        BY <3>2, <4>1
      <4> QED
        BY <3>1, <4>1, <4>2
    <3>5. Len(t) = left + 1
      BY <1>2, <3>1, <3>2
    <3> QED
      BY <3>2, <3>3, <3>4, <3>5 DEF t, e
  <2>2. /\ s \in Seq(Int \X Int) /\ Len(s) = left + 1 + (n - right + 1)
        /\ \A i \in 1 .. left + 1 : s[i] = (a \o <<chunk>>)[i]
        /\ \A i \in left + 2 .. Len(s) : s[i] = c[i - (left + 1)]
    <3> DEFINE as == a \o <<chunk>>
               t == as \o c
    <3> HIDE DEF as
    <3>1. /\ as \in Seq(Int \X Int) /\ Len(as) = left + 1
      BY <2>1 DEF as
    <3>2. /\ t \in Seq(Int \X Int) /\ Len(t) = Len(as) + Len(c)
          /\ \A i \in 1 .. Len(as) + Len(c) :
               t[i] = IF i <= Len(as) THEN as[i] ELSE c[i - Len(as)]
      BY <1>3, <3>1, ConcatProperties, Zenon
    <3> HIDE DEF t
    <3>3. Len(as) = left + 1 /\ Len(c) = n - right + 1 /\ n - right + 1 \in Nat
      BY <1>1, <1>3, <3>1
    <3>4. ASSUME NEW i \in 1 .. left + 1
          PROVE  t[i] = as[i]
      <4>1. i \in 1 .. Len(as) + Len(c) /\ i <= Len(as)
        BY <1>1, <3>3
      <4> QED
        BY <4>1, <3>2
    <3>5. ASSUME NEW i \in left + 2 .. Len(t)
          PROVE  t[i] = c[i - (left + 1)]
      <4>1. i \in 1 .. Len(as) + Len(c) /\ ~(i <= Len(as))
        BY <1>1, <3>2, <3>3
      <4>2. t[i] = c[i - Len(as)]
        BY <4>1, <3>2, Zenon
      <4> QED
        BY <4>2, <3>3
    <3> QED
      BY <3>2, <3>3, <3>4, <3>5 DEF t, as
  <2>3. ASSUME NEW i \in left + 2 .. Len(s)
        PROVE  s[i] = chunks[i - (left + 1) + right - 1]
    <3>1. i - (left + 1) \in 1 .. n - right + 1
      BY <1>1, <2>2
    <3>2. s[i] = c[i - (left + 1)]
      BY <2>2
    <3>3. c[i - (left + 1)] = chunks[right + (i - (left + 1)) - 1]
      BY <3>1, <1>3
    <3>4. right + (i - (left + 1)) - 1 = i - (left + 1) + right - 1
      BY <3>1, <1>1
    <3> QED
      BY <3>2, <3>3, <3>4
  <2>4. ASSUME NEW i \in 1 .. left
        PROVE  s[i] = chunks[i]
    <3>1. i \in 1 .. left + 1
      BY <1>1
    <3> QED
      BY <3>1, <2>1, <2>2
  <2>5. s[left + 1] = chunk
    <3>1. left + 1 \in 1 .. left + 1
      BY <1>1
    <3> QED
      BY <3>1, <2>1, <2>2
  <2> QED
    BY <2>2, <2>3, <2>4, <2>5
<1> HIDE DEF s
<1> DEFINE Was(i) == i - (left + 1) + right - 1
<1>6. \A i \in left + 2 .. Len(s) : Was(i) \in right .. n /\ s[i] = chunks[Was(i)]
  BY <1>1, <1>5
<1>7. ASSUME NEW i \in 1 .. left
      PROVE  chunks[i][2] < chunk[1]
  <2>1. i \in 1 .. n /\ left \in 1 .. n /\ (i = left \/ i < left)
    BY <1>1
  <2>2. chunks[left][1] < chunks[left][2] /\ (i = left \/ chunks[i][2] < chunks[left][1])
    BY <2>1 DEF Sorted, n
  <2>3. chunks[left][2] < chunk[1]
    BY <2>1
  <2>4. chunks[i][2] \in Int /\ chunks[left][1] \in Int /\ chunks[left][2] \in Int /\ chunk[1] \in Int
    BY <2>1, <1>0 DEF n
  <2> QED
    BY <2>2, <2>3, <2>4
<1>8. ASSUME NEW i \in right .. n
      PROVE  chunk[2] < chunks[i][1]
  <2>1. i \in 1 .. n /\ right \in 1 .. n /\ (i = right \/ right < i)
    BY <1>1
  <2>2. chunks[right][1] < chunks[right][2] /\ (i = right \/ chunks[right][2] < chunks[i][1])
    BY <2>1 DEF Sorted, n
  <2>3. chunk[2] < chunks[right][1]
    <3>1. right <= Len(chunks)
      BY <2>1, <1>1 DEF n
    <3> QED
      BY <3>1
  <2>4. chunks[i][1] \in Int /\ chunks[right][1] \in Int /\ chunks[right][2] \in Int /\ chunk[2] \in Int
    BY <2>1, <1>0 DEF n
  <2> QED
    BY <2>2, <2>3, <2>4
<1>9. \A i \in 1 .. Len(s) : i \in 1 .. left \/ i = left + 1 \/ i \in left + 2 .. Len(s)
  BY <1>1, <1>5
<1>10. Sorted(s)
  <2>1. ASSUME NEW i \in 1 .. Len(s)
        PROVE  s[i][1] < s[i][2]
    <3>1. CASE i \in 1 .. left
      <4>1. s[i] = chunks[i]
        BY <3>1, <1>5
      <4>2. i \in 1 .. n
        BY <3>1, <1>1
      <4> QED
        BY <4>1, <4>2 DEF Sorted, n
    <3>2. CASE i = left + 1
      BY <3>2, <1>0, <1>5
    <3>3. CASE i \in left + 2 .. Len(s)
      <4>1. Was(i) \in 1 .. n /\ s[i] = chunks[Was(i)]
        BY <3>3, <1>6, <1>1
      <4> QED
        BY <4>1 DEF Sorted, n
    <3> QED
      BY <3>1, <3>2, <3>3, <1>9
  <2>2. ASSUME NEW i \in 1 .. Len(s), NEW j \in 1 .. Len(s), i < j
        PROVE  s[i][2] < s[j][1]
    <3>1. CASE i \in 1 .. left /\ j \in 1 .. left
      <4>1. s[i] = chunks[i] /\ s[j] = chunks[j]
        BY <3>1, <1>5
      <4>2. i \in 1 .. n /\ j \in 1 .. n
        BY <3>1, <1>1
      <4> QED
        BY <4>1, <4>2, <2>2 DEF Sorted, n
    <3>2. CASE i \in 1 .. left /\ j = left + 1
      BY <3>2, <1>5, <1>7
    <3>3. CASE i \in 1 .. left /\ j \in left + 2 .. Len(s)
      <4>1. Was(j) \in right .. n /\ s[j] = chunks[Was(j)] /\ s[i] = chunks[i]
        BY <3>3, <1>5, <1>6
      <4>2. i \in 1 .. n /\ Was(j) \in 1 .. n /\ i < Was(j)
        <5> HIDE DEF Was
        <5> QED
          BY <4>1, <3>3, <1>1
      <4> QED
        BY <4>1, <4>2 DEF Sorted, n
    <3>4. CASE i = left + 1 /\ j \in left + 2 .. Len(s)
      BY <3>4, <1>5, <1>6, <1>8
    <3>5. CASE i \in left + 2 .. Len(s) /\ j \in left + 2 .. Len(s)
      <4>1. /\ Was(i) \in 1 .. n /\ s[i] = chunks[Was(i)]
            /\ Was(j) \in 1 .. n /\ s[j] = chunks[Was(j)]
        BY <3>5, <1>6, <1>1
      <4>2. Was(i) < Was(j)
        BY <2>2, <1>1
      <4> HIDE DEF Was
      <4> QED
        BY <4>1, <4>2 DEF Sorted, n
    <3> QED
      <4>1. i <= left \/ i = left + 1 \/ left + 2 <= i
        BY <1>1
      <4>2. j <= left \/ j = left + 1 \/ left + 2 <= j
        BY <1>1
      <4> QED
        BY <3>1, <3>2, <3>3, <3>4, <3>5, <4>1, <4>2, <2>2, <1>1
  <2> QED
    BY <2>1, <2>2, <1>5 DEF Sorted
<1>11. ASSUME NEW b
       PROVE  Has(s, b) <=> \/ In(chunk, b)
                            \/ \E i \in 1 .. left : In(chunks[i], b)
                            \/ \E i \in right .. n : In(chunks[i], b)
  <2>1. ASSUME NEW i \in 1 .. Len(s), In(s[i], b)
        PROVE  \/ In(chunk, b)
               \/ \E j \in 1 .. left : In(chunks[j], b)
               \/ \E j \in right .. n : In(chunks[j], b)
    <3>1. CASE i \in 1 .. left
      BY <3>1, <2>1, <1>5
    <3>2. CASE i = left + 1
      BY <3>2, <2>1, <1>5
    <3>3. CASE i \in left + 2 .. Len(s)
      BY <3>3, <2>1, <1>6
    <3> QED
      BY <3>1, <3>2, <3>3, <1>9
  <2>2. ASSUME In(chunk, b)
        PROVE  Has(s, b)
    <3>1. left + 1 \in 1 .. Len(s) /\ In(s[left + 1], b)
      BY <2>2, <1>1, <1>5
    <3> QED
      BY <3>1 DEF Has
  <2>3. ASSUME NEW i \in 1 .. left, In(chunks[i], b)
        PROVE  Has(s, b)
    <3>1. i \in 1 .. Len(s) /\ In(s[i], b)
      BY <2>3, <1>1, <1>5
    <3> QED
      BY <3>1 DEF Has
  <2>4. ASSUME NEW i \in right .. n, In(chunks[i], b)
        PROVE  Has(s, b)
    <3> DEFINE j == i + left + 2 - right
    <3>1. j \in left + 2 .. Len(s) /\ j \in 1 .. Len(s) /\ Was(j) = i
      BY <1>1, <1>5
    <3>2. In(s[j], b)
      <4> HIDE DEF j, Was
      <4> QED
        BY <3>1, <2>4, <1>6
    <3> QED
      BY <3>1, <3>2 DEF Has
  <2> QED
    BY <2>1, <2>2, <2>3, <2>4 DEF Has
<1> QED
  BY <1>10, <1>11 DEF s, a, c, n

\* LastMet is the end of the run of chunks that start no later than end.
LEMMA LastMetIsTheLast ==
  ASSUME NEW chunks, Sorted(chunks), NEW at \in 1 .. Len(chunks), NEW end \in Int
  PROVE  LET last == LastMet(chunks, at, end)
         IN  /\ last \in at .. Len(chunks)
             /\ \A i \in at + 1 .. last : chunks[i][1] <= end
             /\ last < Len(chunks) => chunks[last + 1][1] > end
<1> DEFINE n == Len(chunks)
           Stops(i) == /\ \A j \in at + 1 .. i : chunks[j][1] <= end
                       /\ i < n => chunks[i + 1][1] > end
           Stop == {i \in at .. n : i < n => chunks[i + 1][1] > end}
           last == LastMet(chunks, at, end)
<1>1. n \in Nat /\ at \in 1 .. n
  BY DEF Sorted
<1>2. \A i \in 1 .. n : chunks[i][1] \in Int
  BY DEF Sorted
<1> HIDE DEF n
<1>3. Stop \in SUBSET Nat /\ n \in Stop
  BY <1>1
<1>4. PICK s \in Stop : \A m \in Stop : s <= m
  <2> HIDE DEF Stop
  <2> QED
    BY <1>3, LeastElement
<1>5. s \in at .. n /\ (s < n => chunks[s + 1][1] > end)
  BY <1>4
<1>6. ASSUME NEW j \in at + 1 .. s
      PROVE  chunks[j][1] <= end
  <2>1. j - 1 \in at .. n /\ j - 1 < n /\ ~(s <= j - 1) /\ j \in 1 .. n /\ j - 1 + 1 = j
    BY <1>1, <1>5
  <2>2. j - 1 \notin Stop
    BY <2>1, <1>4
  <2>3. ~(chunks[j][1] > end)
    BY <2>1, <2>2
  <2>4. chunks[j][1] \in Int
    BY <2>1, <1>2
  <2> QED
    BY <2>3, <2>4
<1>7. s \in at .. n /\ Stops(s)
  BY <1>5, <1>6
<1>8. last = CHOOSE i \in at .. n : Stops(i)
  BY DEF LastMet, n
<1> HIDE DEF last, Stops
<1>9. last \in at .. n /\ Stops(last)
  BY <1>7, <1>8
<1> QED
  BY <1>9 DEF last, Stops, n

\* A chunk that has grown to merged, not reaching the chunk before it, is
\* merged with all it meets after it; the result is free when it was before and
\* nothing was met but edges.
LEMMA MergeAtHolds ==
  ASSUME NEW chunks, Sorted(chunks), NEW at \in 1 .. Len(chunks),
         NEW merged, IsChunk(merged), NEW overlaps \in BOOLEAN,
         merged[1] <= chunks[at][1], chunks[at][2] <= merged[2],
         at > 1 => chunks[at - 1][2] < merged[1]
  PROVE  LET done == MergeAt(chunks, at, merged, overlaps)
         IN  /\ Sorted(done.chunks)
             /\ \A b \in Int : Has(done.chunks, b) <=> Has(chunks, b) \/ In(merged, b)
             /\ done.free \in BOOLEAN
             /\ done.free <=> ~overlaps /\ \A i \in at + 1 .. Len(chunks) : merged[2] <= chunks[i][1]
<1> DEFINE n == Len(chunks)
           last == LastMet(chunks, at, merged[2])
           end == Larger(merged[2], chunks[last][2])
           chunk == <<merged[1], end>>
           done == MergeAt(chunks, at, merged, overlaps)
<1>1. /\ merged[1] \in Int /\ merged[2] \in Int /\ merged[1] < merged[2]
      /\ \A i \in 1 .. n : chunks[i][1] \in Int /\ chunks[i][2] \in Int
  BY DEF IsChunk, Sorted
<1>2. n \in Nat /\ at \in 1 .. n
  BY DEF Sorted
<1>3. /\ \A i \in 1 .. n : chunks[i][1] < chunks[i][2]
      /\ \A i, j \in 1 .. n : i < j => chunks[i][2] < chunks[j][1]
  BY DEF Sorted
<1>4. /\ last \in at .. n
      /\ \A i \in at + 1 .. last : chunks[i][1] <= merged[2]
      /\ last < n => chunks[last + 1][1] > merged[2]
  BY <1>1, LastMetIsTheLast
<1>5. /\ done.chunks = SubSeq(chunks, 1, at - 1) \o <<chunk>> \o SubSeq(chunks, last + 1, n)
      /\ done.free = (~overlaps /\ (last = at \/ merged[2] <= chunks[at + 1][1]))
  BY DEF MergeAt
<1> HIDE DEF last, done, n
<1>6. /\ end \in Int /\ merged[2] <= end /\ chunks[last][2] <= end
      /\ end = merged[2] \/ end = chunks[last][2]
  <2>1. last \in 1 .. n
    BY <1>2, <1>4
  <2>2. chunks[last][2] \in Int
    BY <2>1, <1>1
  <2> QED
    BY <2>2, <1>1 DEF Larger
<1>7. IsChunk(chunk) /\ chunk[1] = merged[1] /\ chunk[2] = end
  <2> HIDE DEF end
  <2> QED
    BY <1>1, <1>6 DEF IsChunk
<1> HIDE DEF chunk, end
<1>8. at - 1 \in 0 .. n /\ last + 1 \in (at - 1) + 1 .. n + 1
  BY <1>2, <1>4
<1>9. at - 1 > 0 => chunks[at - 1][2] < chunk[1]
  BY <1>7, <1>8, <1>2
<1>10. last + 1 <= n => chunk[2] < chunks[last + 1][1]
  <2>1. SUFFICES ASSUME last < n
                 PROVE  end < chunks[last + 1][1]
    BY <1>2, <1>4, <1>7
  <2>2. last \in 1 .. n /\ last + 1 \in 1 .. n /\ last < last + 1
    BY <2>1, <1>2, <1>4
  <2>3. chunks[last][2] < chunks[last + 1][1] /\ merged[2] < chunks[last + 1][1]
    <3>1. chunks[last + 1][1] \in Int
      BY <2>2, <1>1
    <3> QED
      BY <3>1, <2>1, <2>2, <1>1, <1>3, <1>4
  <2> QED
    BY <2>3, <1>6
<1>11. /\ Sorted(done.chunks)
       /\ \A b : Has(done.chunks, b) <=> \/ In(chunk, b)
                                         \/ \E i \in 1 .. at - 1 : In(chunks[i], b)
                                         \/ \E i \in last + 1 .. n : In(chunks[i], b)
  <2>1. n = Len(chunks)
    BY DEF n
  <2> QED
    BY ZenonT(60), <2>1, <1>5, <1>7, <1>8, <1>9, <1>10, SpliceHolds
<1>12. ASSUME NEW b \in Int
       PROVE  Has(done.chunks, b) <=> Has(chunks, b) \/ In(merged, b)
  <2>1. ASSUME Has(done.chunks, b)
        PROVE  Has(chunks, b) \/ In(merged, b)
    <3>1. CASE In(chunk, b)
      <4>1. CASE b < merged[2]
        BY <3>1, <4>1, <1>7 DEF In
      <4>2. CASE ~(b < merged[2])
        <5>1. last \in 1 .. n /\ end = chunks[last][2]
          BY <3>1, <4>2, <1>1, <1>2, <1>4, <1>6, <1>7 DEF In
        <5>2. b < chunks[last][2]
          BY <3>1, <5>1, <1>7 DEF In
        <5>3. chunks[last][1] <= merged[2]
          <6>1. CASE last = at
            <7>1. chunks[at][1] \in Int /\ chunks[at][2] \in Int /\ chunks[at][1] < chunks[at][2]
              BY <1>1, <1>2, <1>3
            <7> QED
              BY <7>1, <6>1, <1>1
          <6>2. CASE last # at
            <7>1. last \in at + 1 .. last
              BY <6>2, <1>2, <1>4
            <7> QED
              BY <7>1, <1>4
          <6> QED
            BY <6>1, <6>2
        <5>4. In(chunks[last], b)
          <6>1. chunks[last][1] \in Int
            BY <5>1, <1>1
          <6> QED
            BY <6>1, <5>2, <5>3, <4>2, <1>1 DEF In
        <5> QED
          BY <5>1, <5>4 DEF Has, n
      <4> QED
        BY <4>1, <4>2
    <3>2. ASSUME NEW i \in 1 .. at - 1, In(chunks[i], b)
          PROVE  Has(chunks, b)
      <4>1. i \in 1 .. n
        BY <1>2
      <4> QED
        BY <4>1, <3>2 DEF Has, n
    <3>3. ASSUME NEW i \in last + 1 .. n, In(chunks[i], b)
          PROVE  Has(chunks, b)
      <4>1. i \in 1 .. n
        BY <1>2, <1>4
      <4> QED
        BY <4>1, <3>3 DEF Has, n
    <3> QED
      BY <2>1, <3>1, <3>2, <3>3, <1>11
  <2>2. ASSUME In(merged, b)
        PROVE  Has(done.chunks, b)
    <3>1. In(chunk, b)
      BY <2>2, <1>1, <1>6, <1>7 DEF In
    <3> QED
      BY <3>1, <1>11
  <2>3. ASSUME NEW i \in 1 .. n, In(chunks[i], b)
        PROVE  Has(done.chunks, b)
    <3>1. i \in 1 .. at - 1 \/ i \in at .. last \/ i \in last + 1 .. n
      BY <1>2, <1>4
    <3>2. CASE i \in at .. last
      <4>1. merged[1] <= chunks[i][1]
        <5>1. i = at \/ chunks[at][2] < chunks[i][1]
          BY <3>2, <1>2, <1>3
        <5>2. /\ chunks[i][1] \in Int /\ chunks[at][1] \in Int /\ chunks[at][2] \in Int
              /\ chunks[at][1] < chunks[at][2]
          BY <1>1, <1>2, <1>3
        <5> QED
          BY <5>1, <5>2, <1>1
      <4>2. chunks[i][2] <= end
        <5>1. last \in 1 .. n /\ (i = last \/ i < last)
          BY <3>2, <1>2, <1>4
        <5>2. i = last \/ chunks[i][2] < chunks[last][1]
          BY <5>1, <1>3
        <5>3. /\ chunks[i][2] \in Int /\ chunks[last][1] \in Int /\ chunks[last][2] \in Int
              /\ chunks[last][1] < chunks[last][2]
          BY <5>1, <1>1, <1>3
        <5> QED
          BY <5>2, <5>3, <1>6
      <4>3. chunks[i][1] \in Int /\ chunks[i][2] \in Int
        BY <1>1
      <4>4. In(chunk, b)
        BY SMTT(30), <2>3, <4>1, <4>2, <4>3, <1>1, <1>6, <1>7 DEF In
      <4> QED
        BY <4>4, <1>11
    <3> QED
      BY <2>3, <3>1, <3>2, <1>11
  <2> QED
    BY <2>1, <2>2, <2>3 DEF Has, n
<1>13. done.free <=> ~overlaps /\ \A i \in at + 1 .. n : merged[2] <= chunks[i][1]
  <2>1. ASSUME last = at
        PROVE  \A i \in at + 1 .. n : merged[2] <= chunks[i][1]
    <3> SUFFICES ASSUME NEW i \in at + 1 .. n
                 PROVE  merged[2] <= chunks[i][1]
      OBVIOUS
    <3>1. at + 1 \in 1 .. n /\ i \in 1 .. n /\ last < n /\ (i = at + 1 \/ at + 1 < i)
      BY <2>1, <1>2
    <3>2. chunks[at + 1][1] > merged[2]
      BY <2>1, <3>1, <1>4
    <3>3. i = at + 1 \/ chunks[at + 1][2] < chunks[i][1]
      BY <3>1, <1>3
    <3>4. /\ chunks[i][1] \in Int /\ chunks[at + 1][1] \in Int /\ chunks[at + 1][2] \in Int
          /\ chunks[at + 1][1] < chunks[at + 1][2]
      BY <3>1, <1>1, <1>3
    <3> QED
      BY SMTT(30), <3>2, <3>3, <3>4, <1>1
  <2>2. ASSUME last # at
        PROVE  merged[2] <= chunks[at + 1][1]
                 <=> \A i \in at + 1 .. n : merged[2] <= chunks[i][1]
    <3>1. at + 1 \in at + 1 .. n /\ at + 1 \in 1 .. n
      BY <2>2, <1>2, <1>4
    <3>2. ASSUME merged[2] <= chunks[at + 1][1], NEW i \in at + 1 .. n
          PROVE  merged[2] <= chunks[i][1]
      <4>1. i \in 1 .. n /\ (i = at + 1 \/ at + 1 < i)
        BY <1>2
      <4>2. i = at + 1 \/ chunks[at + 1][2] < chunks[i][1]
        BY <3>1, <4>1, <1>3
      <4>3. /\ chunks[i][1] \in Int /\ chunks[at + 1][1] \in Int /\ chunks[at + 1][2] \in Int
            /\ chunks[at + 1][1] < chunks[at + 1][2]
        BY <3>1, <4>1, <1>1, <1>3
      <4> QED
        BY <3>2, <4>2, <4>3, <1>1
    <3> QED
      BY <3>1, <3>2
  <2> QED
    BY <2>1, <2>2, <1>5
<1>14. done.free \in BOOLEAN
  BY <1>5
<1> QED
  BY <1>11, <1>12, <1>13, <1>14 DEF done, n

\* A claim adds the bytes of the chunk, and is free when none was held.
LEMMA ClaimChunkHolds ==
  ASSUME NEW chunks, Sorted(chunks), NEW new, IsChunk(new)
  PROVE  LET done == ClaimChunk(chunks, new)
         IN  /\ Sorted(done.chunks)
             /\ \A b \in Int : Has(done.chunks, b) <=> Has(chunks, b) \/ In(new, b)
             /\ done.free \in BOOLEAN
             /\ done.free <=> \A b \in Int : ~(Has(chunks, b) /\ In(new, b))
<1> DEFINE n == Len(chunks)
           point == UpperBound(chunks, new[1])
           done == ClaimChunk(chunks, new)
           meetsLeft == point > 1 /\ new[1] <= chunks[point - 1][2]
           meetsRight == point <= n /\ chunks[point][1] <= new[2]
           Free == \A b \in Int : ~(Has(chunks, b) /\ In(new, b))
           Good(d) == /\ Sorted(d.chunks)
                      /\ \A b \in Int : Has(d.chunks, b) <=> Has(chunks, b) \/ In(new, b)
                      /\ d.free \in BOOLEAN
                      /\ d.free <=> Free
<1>1. /\ new[1] \in Int /\ new[2] \in Int /\ new[1] < new[2]
      /\ \A i \in 1 .. n : chunks[i][1] \in Int /\ chunks[i][2] \in Int
  BY DEF IsChunk, Sorted
<1>2. n \in Nat /\ chunks \in Seq(Int \X Int)
  BY DEF Sorted
<1>3. /\ \A i \in 1 .. n : chunks[i][1] < chunks[i][2]
      /\ \A i, j \in 1 .. n : i < j => chunks[i][2] < chunks[j][1]
  BY DEF Sorted
<1>4. /\ point \in 1 .. n + 1
      /\ \A i \in 1 .. point - 1 : chunks[i][1] <= new[1]
      /\ \A i \in point .. n : new[1] < chunks[i][1]
  BY <1>1, UpperBoundSplits
<1>5. meetsLeft => done = MergeAt(chunks, point - 1,
                                  <<chunks[point - 1][1], Larger(chunks[point - 1][2], new[2])>>,
                                  new[1] < chunks[point - 1][2])
  BY DEF ClaimChunk
<1>6. ~meetsLeft /\ meetsRight
        => done = MergeAt(chunks, point, <<new[1], Larger(chunks[point][2], new[2])>>,
                          chunks[point][1] < new[2])
  BY DEF ClaimChunk
<1>7. ~meetsLeft /\ ~meetsRight
        => done = [chunks |-> SubSeq(chunks, 1, point - 1) \o <<new>> \o SubSeq(chunks, point, n),
                   free |-> TRUE]
  BY DEF ClaimChunk
<1> HIDE DEF point, done, n
\* Two chunks that overlap share the start of the later one.
<1>8. ASSUME Free, NEW i \in 1 .. n
      PROVE  chunks[i][2] <= new[1] \/ new[2] <= chunks[i][1]
  <2>1. chunks[i][1] \in Int /\ chunks[i][2] \in Int /\ chunks[i][1] < chunks[i][2]
    BY <1>1, <1>3
  <2>2. \A b \in Int : ~(In(chunks[i], b) /\ In(new, b))
    BY <1>8 DEF Has, n
  <2>3. ~(In(chunks[i], new[1]) /\ In(new, new[1]))
    BY <2>2, <1>1
  <2>4. ~(In(chunks[i], chunks[i][1]) /\ In(new, chunks[i][1]))
    BY <2>1, <2>2
  <2> QED
    BY <2>1, <2>3, <2>4, <1>1 DEF In
<1>9. ASSUME \A i \in 1 .. n : chunks[i][2] <= new[1] \/ new[2] <= chunks[i][1]
      PROVE  Free
  <2> SUFFICES ASSUME NEW b \in Int, NEW i \in 1 .. n, In(chunks[i], b), In(new, b)
               PROVE  FALSE
    BY DEF Has, n
  <2>1. chunks[i][1] \in Int /\ chunks[i][2] \in Int
    BY <1>1
  <2> QED
    BY <2>1, <1>1, <1>9 DEF In
<1> HIDE DEF Free
<1>10. CASE meetsLeft
  <2> DEFINE at == point - 1
             left == chunks[at]
             merged == <<left[1], Larger(left[2], new[2])>>
             overlaps == new[1] < left[2]
  <2>1. at \in 1 .. n /\ point = at + 1
    BY <1>2, <1>4, <1>10
  <2> HIDE DEF at
  <2>2. /\ left[1] \in Int /\ left[2] \in Int /\ left[1] < left[2]
        /\ left[1] <= new[1] /\ new[1] <= left[2]
    <3>1. at \in 1 .. point - 1
      BY <2>1, <1>2
    <3> QED
      BY <2>1, <3>1, <1>1, <1>3, <1>4, <1>10 DEF at
  <2>3. done = MergeAt(chunks, at, merged, overlaps)
    BY <1>5, <1>10 DEF at
  <2> HIDE DEF left
  <2>4. /\ IsChunk(merged) /\ overlaps \in BOOLEAN
        /\ merged[1] = left[1] /\ left[2] <= merged[2] /\ new[2] <= merged[2]
        /\ merged[2] = left[2] \/ merged[2] = new[2]
    BY <2>2, <1>1 DEF IsChunk, Larger
  <2> HIDE DEF merged
  <2>5. at > 1 => chunks[at - 1][2] < merged[1]
    BY SMTT(30), <2>1, <2>4, <1>2, <1>3 DEF left
  <2>6. /\ Sorted(done.chunks)
        /\ \A b \in Int : Has(done.chunks, b) <=> Has(chunks, b) \/ In(merged, b)
        /\ done.free \in BOOLEAN
        /\ done.free <=> ~overlaps /\ \A i \in at + 1 .. n : merged[2] <= chunks[i][1]
    <3>1. merged[1] <= chunks[at][1] /\ chunks[at][2] <= merged[2] /\ at \in 1 .. Len(chunks)
      BY <2>1, <2>2, <2>4 DEF left, n
    <3> HIDE DEF overlaps
    <3> QED
      BY <2>3, <2>4, <2>5, <3>1, MergeAtHolds DEF n
  <2>7. ASSUME NEW b \in Int
        PROVE  Has(chunks, b) \/ In(merged, b) <=> Has(chunks, b) \/ In(new, b)
    <3>1. In(left, b) => Has(chunks, b)
      BY <2>1 DEF Has, left, n
    <3>2. In(merged, b) <=> In(left, b) \/ In(new, b)
      BY <2>2, <2>4, <1>1 DEF In, IsChunk
    <3> QED
      BY <3>1, <3>2
  <2>8. ASSUME Free
        PROVE  ~overlaps /\ \A i \in at + 1 .. n : merged[2] <= chunks[i][1]
    <3>1. ~overlaps
      BY <2>1, <2>2, <2>8, <1>1, <1>8 DEF left
    <3>2. ASSUME NEW i \in at + 1 .. n
          PROVE  merged[2] <= chunks[i][1]
      <4>1. i \in 1 .. n /\ i \in point .. n /\ at < i
        BY <2>1, <1>2
      <4>2. /\ chunks[i][1] \in Int /\ chunks[i][2] \in Int /\ chunks[i][1] < chunks[i][2]
            /\ new[1] < chunks[i][1] /\ left[2] < chunks[i][1]
        BY <2>1, <4>1, <1>1, <1>3, <1>4 DEF left
      <4>3. chunks[i][2] <= new[1] \/ new[2] <= chunks[i][1]
        BY <4>1, <2>8, <1>8
      <4> QED
        BY <2>2, <2>4, <4>2, <4>3, <1>1
    <3> QED
      BY <3>1, <3>2
  <2>9. ASSUME ~overlaps, \A i \in at + 1 .. n : merged[2] <= chunks[i][1]
        PROVE  Free
    <3>1. ASSUME NEW i \in 1 .. n
          PROVE  chunks[i][2] <= new[1] \/ new[2] <= chunks[i][1]
      <4>1. chunks[i][1] \in Int /\ chunks[i][2] \in Int
        BY <1>1
      <4>2. CASE i \in at + 1 .. n
        BY <4>1, <4>2, <2>4, <2>9, <1>1 DEF IsChunk
      <4>3. CASE i = at
        BY <4>3, <2>2, <2>9, <1>1 DEF left
      <4>4. CASE i < at
        <5>1. chunks[i][2] < left[1]
          BY <2>1, <4>4, <1>2, <1>3 DEF left
        <5> QED
          BY <5>1, <4>1, <2>2, <1>1
      <4>5. i < at \/ i = at \/ i \in at + 1 .. n
        BY <2>1, <1>2
      <4> QED
        BY <4>2, <4>3, <4>4, <4>5
    <3> QED
      BY <3>1, <1>9
  <2> QED
    BY <2>6, <2>7, <2>8, <2>9 DEF done, Free
<1>11. CASE ~meetsLeft /\ meetsRight
  <2> DEFINE right == chunks[point]
             merged == <<new[1], Larger(right[2], new[2])>>
             overlaps == right[1] < new[2]
  <2>1. point \in 1 .. n
    BY <1>2, <1>4, <1>11
  <2>2. /\ right[1] \in Int /\ right[2] \in Int /\ right[1] < right[2]
        /\ new[1] < right[1] /\ right[1] <= new[2]
    <3>1. point \in point .. n
      BY <2>1, <1>2
    <3> QED
      BY <2>1, <3>1, <1>1, <1>3, <1>4, <1>11
  <2>3. done = MergeAt(chunks, point, merged, overlaps)
    BY <1>6, <1>11
  <2> HIDE DEF right
  <2>4. /\ IsChunk(merged) /\ overlaps \in BOOLEAN
        /\ merged[1] = new[1] /\ right[2] <= merged[2] /\ new[2] <= merged[2]
        /\ merged[2] = right[2] \/ merged[2] = new[2]
    BY <2>2, <1>1 DEF IsChunk, Larger
  <2> HIDE DEF merged
  <2>5. point > 1 => chunks[point - 1][2] < merged[1]
    <3>1. point > 1 => chunks[point - 1][2] \in Int
      BY <2>1, <1>1, <1>2
    <3> QED
      BY <3>1, <2>4, <1>1, <1>11
  <2>6. /\ Sorted(done.chunks)
        /\ \A b \in Int : Has(done.chunks, b) <=> Has(chunks, b) \/ In(merged, b)
        /\ done.free \in BOOLEAN
        /\ done.free <=> ~overlaps /\ \A i \in point + 1 .. n : merged[2] <= chunks[i][1]
    <3>1. merged[1] <= chunks[point][1] /\ chunks[point][2] <= merged[2] /\ point \in 1 .. Len(chunks)
      BY <2>1, <2>2, <2>4, <1>1 DEF right, n
    <3> HIDE DEF overlaps
    <3> QED
      BY <2>3, <2>4, <2>5, <3>1, MergeAtHolds DEF n
  <2>7. ASSUME NEW b \in Int
        PROVE  Has(chunks, b) \/ In(merged, b) <=> Has(chunks, b) \/ In(new, b)
    <3>1. In(right, b) => Has(chunks, b)
      BY <2>1 DEF Has, right, n
    <3>2. In(merged, b) <=> In(right, b) \/ In(new, b)
      BY <2>2, <2>4, <1>1 DEF In, IsChunk
    <3> QED
      BY <3>1, <3>2
  <2>8. ASSUME Free
        PROVE  ~overlaps /\ \A i \in point + 1 .. n : merged[2] <= chunks[i][1]
    <3>1. ~overlaps
      BY <2>1, <2>2, <2>8, <1>1, <1>8 DEF right
    <3>2. ASSUME NEW i \in point + 1 .. n
          PROVE  merged[2] <= chunks[i][1]
      <4>1. i \in 1 .. n /\ point < i
        BY <2>1, <1>2
      <4>2. chunks[i][1] \in Int /\ right[2] < chunks[i][1]
        BY <2>1, <4>1, <1>1, <1>3 DEF right
      <4> QED
        BY <2>2, <2>4, <3>1, <4>2, <1>1
    <3> QED
      BY <3>1, <3>2
  <2>9. ASSUME ~overlaps
        PROVE  Free
    <3>1. ASSUME NEW i \in 1 .. n
          PROVE  chunks[i][2] <= new[1] \/ new[2] <= chunks[i][1]
      <4>1. chunks[i][1] \in Int /\ chunks[i][2] \in Int
        BY <1>1
      <4>2. CASE i = point
        BY <4>2, <2>2, <2>9, <1>1 DEF right
      <4>3. CASE point < i
        <5>1. right[2] < chunks[i][1]
          BY <2>1, <4>3, <1>2, <1>3 DEF right
        <5> QED
          BY <5>1, <4>1, <2>2, <2>9, <1>1
      <4>4. CASE i < point
        <5>1. /\ point > 1 /\ point - 1 \in 1 .. n /\ chunks[point - 1][2] < new[1]
              /\ i = point - 1 \/ i < point - 1
          <6>1. point > 1 /\ point - 1 \in 1 .. n /\ (i = point - 1 \/ i < point - 1)
            BY <2>1, <4>4, <1>2
          <6> QED
            BY <6>1, <2>4, <2>5
        <5>2. /\ chunks[point - 1][1] \in Int /\ chunks[point - 1][2] \in Int
              /\ chunks[point - 1][1] < chunks[point - 1][2]
              /\ i = point - 1 \/ chunks[i][2] < chunks[point - 1][1]
          BY <5>1, <1>1, <1>3
        <5> QED
          BY <5>1, <5>2, <4>1, <1>1
      <4>5. i < point \/ i = point \/ point < i
        BY <2>1, <1>2
      <4> QED
        BY <4>2, <4>3, <4>4, <4>5
    <3> QED
      BY <3>1, <1>9
  <2> QED
    BY <2>6, <2>7, <2>8, <2>9 DEF done, Free
<1>12. CASE ~meetsLeft /\ ~meetsRight
  <2>1. /\ done.chunks = SubSeq(chunks, 1, point - 1) \o <<new>> \o SubSeq(chunks, point, n)
        /\ done.free = TRUE
    <3> DEFINE spliced == SubSeq(chunks, 1, point - 1) \o <<new>> \o SubSeq(chunks, point, n)
    <3>1. done = [chunks |-> spliced, free |-> TRUE]
      BY <1>7, <1>12, Zenon
    <3> HIDE DEF spliced
    <3>2. done.chunks = spliced /\ done.free = TRUE
      BY <3>1
    <3> QED
      BY <3>2 DEF spliced
  <2>2. point - 1 \in 0 .. n /\ point \in (point - 1) + 1 .. n + 1
    BY <1>2, <1>4
  <2>3. point - 1 > 0 => chunks[point - 1][2] < new[1]
    <3>1. point - 1 > 0 => point > 1 /\ chunks[point - 1][2] \in Int
      BY <2>2, <1>1, <1>2
    <3> QED
      BY <3>1, <1>1, <1>12
  <2>4. point <= n => new[2] < chunks[point][1]
    <3>1. point <= n => chunks[point][1] \in Int
      BY <2>2, <1>1, <1>2, <1>4
    <3> QED
      BY <3>1, <1>1, <1>12
  <2>5. /\ Sorted(done.chunks)
        /\ \A b : Has(done.chunks, b) <=> \/ In(new, b)
                                          \/ \E i \in 1 .. point - 1 : In(chunks[i], b)
                                          \/ \E i \in point .. n : In(chunks[i], b)
    <3>1. n = Len(chunks)
      BY DEF n
    <3> QED
      BY ZenonT(60), <3>1, <2>1, <2>2, <2>3, <2>4, SpliceHolds
  <2>6. \A i : i \in 1 .. n <=> i \in 1 .. point - 1 \/ i \in point .. n
    BY <1>2, <1>4
  <2>7. ASSUME NEW b \in Int
        PROVE  Has(done.chunks, b) <=> Has(chunks, b) \/ In(new, b)
    BY <2>5, <2>6 DEF Has, n
  <2>8. Free
    <3>1. ASSUME NEW i \in 1 .. n
          PROVE  chunks[i][2] <= new[1] \/ new[2] <= chunks[i][1]
      <4>1. chunks[i][1] \in Int /\ chunks[i][2] \in Int
        BY <1>1
      <4>2. CASE i \in 1 .. point - 1
        <5>1. /\ point - 1 > 0 /\ point - 1 \in 1 .. n
              /\ i = point - 1 \/ i < point - 1
          <6>1. point \in 1 .. n + 1
            BY <1>4
          <6> QED
            BY <6>1, <4>2, <1>2
        <5>2. /\ chunks[point - 1][1] \in Int /\ chunks[point - 1][2] \in Int
              /\ chunks[point - 1][1] < chunks[point - 1][2]
              /\ i = point - 1 \/ chunks[i][2] < chunks[point - 1][1]
          BY <5>1, <1>1, <1>3
        <5> QED
          BY <5>1, <5>2, <2>3, <4>1, <1>1
      <4>3. CASE i \in point .. n
        <5>1. /\ point <= n /\ point \in 1 .. n
              /\ i = point \/ point < i
          BY <4>3, <1>2, <1>4
        <5>2. /\ chunks[point][1] \in Int /\ chunks[point][2] \in Int
              /\ chunks[point][1] < chunks[point][2]
              /\ i = point \/ chunks[point][2] < chunks[i][1]
          BY <5>1, <1>1, <1>3
        <5> QED
          BY <5>1, <5>2, <2>4, <4>1, <1>1
      <4> QED
        BY <4>2, <4>3, <2>6
    <3> QED
      BY <3>1, <1>9
  <2> QED
    BY <2>1, <2>5, <2>7, <2>8 DEF done, Free
<1> QED
  BY <1>10, <1>11, <1>12

-----------------------------------------------------------------------------
(* Claiming a list of chunks *)

\* The recursion of ClaimChunks, up to n chunks.
Claiming(f, chunks, list, n) ==
  f = [k \in 0 .. n |->
         IF k = 0 THEN [chunks |-> chunks, free |-> TRUE]
         ELSE LET done == ClaimChunk(f[k - 1].chunks, list[k])
              IN  [chunks |-> done.chunks, free |-> done.free /\ f[k - 1].free]]

LEMMA ClaimingExists ==
  ASSUME NEW chunks, NEW list
  PROVE  \A n \in Nat : \E f : Claiming(f, chunks, list, n)
<1> DEFINE Bad == {n \in Nat : ~\E f : Claiming(f, chunks, list, n)}
           First == [chunks |-> chunks, free |-> TRUE]
           After(before, k) ==
             LET done == ClaimChunk(before.chunks, list[k])
             IN  [chunks |-> done.chunks, free |-> done.free /\ before.free]
<1>1. \A f, n : Claiming(f, chunks, list, n)
                  <=> f = [k \in 0 .. n |-> IF k = 0 THEN First ELSE After(f[k - 1], k)]
  BY DEF Claiming
<1> SUFFICES ASSUME Bad # {}
             PROVE  FALSE
  OBVIOUS
<1>2. PICK n \in Bad : \A m \in Bad : n <= m
  <2>1. Bad \in SUBSET Nat
    OBVIOUS
  <2> HIDE DEF Bad
  <2> QED
    BY <2>1, LeastElement
<1>3. n \in Nat /\ ~\E f : Claiming(f, chunks, list, n)
  OBVIOUS
<1>4. CASE n = 0
  <2> DEFINE f == [k \in 0 .. 0 |-> First]
  <2> HIDE DEF First, After
  <2>1. \A k \in 0 .. 0 : (IF k = 0 THEN First ELSE After(f[k - 1], k)) = First
    OBVIOUS
  <2>2. f = [k \in 0 .. 0 |-> IF k = 0 THEN First ELSE After(f[k - 1], k)]
    BY <2>1
  <2> HIDE DEF f
  <2>3. Claiming(f, chunks, list, 0)
    BY <1>1, <2>2
  <2> QED
    BY <1>3, <1>4, <2>3
<1>5. CASE n # 0
  <2>1. n - 1 \in Nat /\ ~(n <= n - 1)
    BY <1>3, <1>5
  <2>2. PICK g : Claiming(g, chunks, list, n - 1)
    BY <1>2, <2>1
  <2> HIDE DEF First, After
  <2>3. g = [k \in 0 .. n - 1 |-> IF k = 0 THEN First ELSE After(g[k - 1], k)]
    BY <1>1, <2>2
  <2> DEFINE f == [k \in 0 .. n |-> IF k < n THEN g[k] ELSE After(g[n - 1], n)]
  <2>4. ASSUME NEW k \in 0 .. n
        PROVE  f[k] = IF k = 0 THEN First ELSE After(f[k - 1], k)
    <3>1. CASE k = 0
      <4>1. 0 \in 0 .. n - 1 /\ 0 \in 0 .. n /\ 0 < n
        BY <1>3, <1>5
      <4>2. f[0] = g[0] /\ g[0] = First
        BY <4>1, <2>3
      <4> QED
        BY <3>1, <4>2
    <3>2. CASE k # 0 /\ k < n
      <4>1. k \in 0 .. n - 1 /\ k - 1 \in 0 .. n /\ k - 1 < n
        BY <1>3, <3>2
      <4>2. f[k] = g[k] /\ f[k - 1] = g[k - 1]
        BY <4>1, <3>2
      <4>3. g[k] = After(g[k - 1], k)
        <5> HIDE DEF f
        <5> QED
          BY <4>1, <3>2, <2>3
      <4> QED
        BY <3>2, <4>2, <4>3
    <3>3. CASE k = n
      <4>1. n - 1 \in 0 .. n /\ n - 1 < n /\ n \in 0 .. n /\ ~(n < n)
        BY <1>3, <1>5
      <4>2. f[n] = After(g[n - 1], n) /\ f[n - 1] = g[n - 1]
        BY <4>1
      <4> QED
        BY <3>3, <1>5, <4>2
    <3> QED
      BY <3>1, <3>2, <3>3, <1>3
  <2>5. f = [k \in 0 .. n |-> f[k]]
    OBVIOUS
  <2> HIDE DEF f
  <2>6. f = [k \in 0 .. n |-> IF k = 0 THEN First ELSE After(f[k - 1], k)]
    BY <2>4, <2>5
  <2>7. Claiming(f, chunks, list, n)
    BY <1>1, <2>6
  <2> QED
    BY <1>3, <2>7
<1> QED
  BY <1>4, <1>5

\* The k-th chunk of the list holds no byte that chunks or an earlier one holds.
Fresh(chunks, list, k) ==
  \A b \in Int : In(list[k], b) => ~Has(chunks, b) /\ \A i \in 1 .. k - 1 : ~In(list[i], b)

\* Claiming a list of chunks adds the bytes of all, and is free when each was.
LEMMA ClaimChunksHolds ==
  ASSUME NEW chunks, Sorted(chunks), NEW list, Len(list) \in Nat,
         \A k \in 1 .. Len(list) : IsChunk(list[k])
  PROVE  LET done == ClaimChunks(chunks, list)
         IN  /\ Sorted(done.chunks)
             /\ \A b \in Int : Has(done.chunks, b) <=> Has(chunks, b) \/ Has(list, b)
             /\ done.free \in BOOLEAN
             /\ done.free <=> \A k \in 1 .. Len(list) : Fresh(chunks, list, k)
<1> DEFINE N == Len(list)
           f == CHOOSE g : Claiming(g, chunks, list, N)
           Good(n) == /\ Sorted(f[n].chunks)
                      /\ \A b \in Int : Has(f[n].chunks, b)
                                        <=> Has(chunks, b) \/ \E k \in 1 .. n : In(list[k], b)
                      /\ f[n].free \in BOOLEAN
                      /\ f[n].free <=> \A k \in 1 .. n : Fresh(chunks, list, k)
           Bad == {n \in 0 .. N : ~Good(n)}
<1>1. ClaimChunks(chunks, list) = f[N]
  BY DEF ClaimChunks, Claiming
<1>2. N \in Nat
  OBVIOUS
<1>3. Claiming(f, chunks, list, N)
  BY <1>2, ClaimingExists
<1> HIDE DEF f, N
<1>4. f[0] = [chunks |-> chunks, free |-> TRUE]
  <2>1. 0 \in 0 .. N
    BY <1>2
  <2> QED
    BY <1>3, <2>1 DEF Claiming
<1>5. ASSUME NEW n \in 1 .. N
      PROVE  LET done == ClaimChunk(f[n - 1].chunks, list[n])
             IN  f[n] = [chunks |-> done.chunks, free |-> done.free /\ f[n - 1].free]
  <2>1. n \in 0 .. N /\ n # 0
    BY <1>2
  <2> QED
    BY <1>3, <2>1 DEF Claiming
<1>6. Good(0)
  <2>1. 1 .. 0 = {}
    OBVIOUS
  <2>2. f[0].chunks = chunks /\ f[0].free = TRUE
    BY <1>4
  <2> QED
    BY <2>1, <2>2
<1>7. ASSUME NEW n \in 1 .. N, Good(n - 1)
      PROVE  Good(n)
  <2> DEFINE done == ClaimChunk(f[n - 1].chunks, list[n])
  <2>1. IsChunk(list[n])
    BY DEF N
  <2>2. /\ Sorted(done.chunks)
        /\ \A b \in Int : Has(done.chunks, b) <=> Has(f[n - 1].chunks, b) \/ In(list[n], b)
        /\ done.free \in BOOLEAN
        /\ done.free <=> \A b \in Int : ~(Has(f[n - 1].chunks, b) /\ In(list[n], b))
    BY <2>1, <1>7, ClaimChunkHolds
  <2>3. f[n] = [chunks |-> done.chunks, free |-> done.free /\ f[n - 1].free]
    BY <1>5
  <2> HIDE DEF done
  <2>4. f[n].chunks = done.chunks /\ f[n].free = (done.free /\ f[n - 1].free)
    BY <2>3
  <2>5. \A k : k \in 1 .. n <=> k \in 1 .. n - 1 \/ k = n
    BY <1>2
  <2>6. ASSUME NEW b \in Int
        PROVE  Has(f[n].chunks, b) <=> Has(chunks, b) \/ \E k \in 1 .. n : In(list[k], b)
    <3>1. Has(f[n].chunks, b) <=> Has(f[n - 1].chunks, b) \/ In(list[n], b)
      BY <2>2, <2>4
    <3>2. Has(f[n - 1].chunks, b) <=> Has(chunks, b) \/ \E k \in 1 .. n - 1 : In(list[k], b)
      BY <1>7
    <3> QED
      BY <3>1, <3>2, <2>5
  <2>7. done.free <=> Fresh(chunks, list, n)
    BY <2>2, <1>7 DEF Fresh
  <2>8. f[n].free <=> \A k \in 1 .. n : Fresh(chunks, list, k)
    <3>1. f[n - 1].free <=> \A k \in 1 .. n - 1 : Fresh(chunks, list, k)
      BY <1>7
    <3>2. f[n].free <=> done.free /\ f[n - 1].free
      BY <2>4
    <3> HIDE DEF Fresh
    <3> QED
      BY <3>1, <3>2, <2>5, <2>7
  <2>9. Sorted(f[n].chunks) /\ f[n].free \in BOOLEAN
    BY <2>2, <2>4, <1>7
  <2> QED
    BY <2>6, <2>8, <2>9
<1> HIDE DEF Good
<1>8. Bad = {}
  <2> SUFFICES ASSUME Bad # {}
               PROVE  FALSE
    OBVIOUS
  <2>1. PICK n \in Bad : \A m \in Bad : n <= m
    <3>1. Bad \in SUBSET Nat
      BY <1>2
    <3> HIDE DEF Bad
    <3> QED
      BY <3>1, LeastElement
  <2>2. n \in 0 .. N /\ ~Good(n)
    OBVIOUS
  <2>3. n # 0
    BY <1>6, <2>2
  <2>4. n \in 1 .. N /\ n - 1 \in 0 .. N /\ ~(n <= n - 1)
    BY <2>2, <2>3, <1>2
  <2>5. Good(n - 1)
    BY <2>1, <2>4
  <2> QED
    BY <2>2, <2>4, <2>5, <1>7
<1>9. Good(N)
  <2>1. N \in 0 .. N
    BY <1>2
  <2> QED
    BY <1>8, <2>1
<1> QED
  BY <1>1, <1>9 DEF Good, N, Has

\* The chunks of a list are fresh when they share no byte with each other and
\* with what is held.
LEMMA FreshApart ==
  ASSUME NEW chunks, NEW list, Len(list) \in Nat
  PROVE  (\A k \in 1 .. Len(list) : Fresh(chunks, list, k))
           <=> /\ \A b \in Int : ~(Has(chunks, b) /\ Has(list, b))
               /\ \A k \in 1 .. Len(list) : \A i \in 1 .. k - 1 :
                     \A b \in Int : ~(In(list[k], b) /\ In(list[i], b))
  BY DEF Fresh, Has

\* The chunks of a DataRange share no byte.
LEMMA SortedApart ==
  ASSUME NEW chunks, Sorted(chunks)
  PROVE  /\ Len(chunks) \in Nat
         /\ \A k \in 1 .. Len(chunks) : IsChunk(chunks[k])
         /\ \A k \in 1 .. Len(chunks) : \A i \in 1 .. k - 1 :
               \A b \in Int : ~(In(chunks[k], b) /\ In(chunks[i], b))
         /\ \A k, i \in 1 .. Len(chunks) : \A b \in Int : In(chunks[k], b) /\ In(chunks[i], b) => k = i
<1>1. /\ Len(chunks) \in Nat
      /\ \A i \in 1 .. Len(chunks) : chunks[i] \in Int \X Int /\ chunks[i][1] \in Int /\ chunks[i][2] \in Int
      /\ \A i \in 1 .. Len(chunks) : chunks[i][1] < chunks[i][2]
      /\ \A i, j \in 1 .. Len(chunks) : i < j => chunks[i][2] < chunks[j][1]
  BY DEF Sorted
<1>2. ASSUME NEW i \in 1 .. Len(chunks), NEW k \in 1 .. Len(chunks), i < k,
             NEW b \in Int, In(chunks[k], b), In(chunks[i], b)
      PROVE  FALSE
  <2>1. chunks[i][2] < chunks[k][1]
    BY <1>1, <1>2
  <2>2. chunks[i][2] \in Int /\ chunks[k][1] \in Int
    BY <1>1
  <2> QED
    BY <2>1, <2>2, <1>2 DEF In
<1>3. ASSUME NEW k \in 1 .. Len(chunks), NEW i \in 1 .. k - 1, NEW b \in Int
      PROVE  ~(In(chunks[k], b) /\ In(chunks[i], b))
  <2>1. i \in 1 .. Len(chunks) /\ i < k
    BY <1>1
  <2> QED
    BY <2>1, <1>2
<1>4. ASSUME NEW k \in 1 .. Len(chunks), NEW i \in 1 .. Len(chunks),
             NEW b \in Int, In(chunks[k], b), In(chunks[i], b)
      PROVE  k = i
  <2>1. i < k \/ i = k \/ k < i
    BY <1>1
  <2> QED
    BY <2>1, <1>2, <1>4
<1>5. \A k \in 1 .. Len(chunks) : IsChunk(chunks[k])
  BY <1>1 DEF IsChunk
<1> QED
  BY <1>1, <1>3, <1>4, <1>5

-----------------------------------------------------------------------------
(* The chunks of a span *)

LEMMA Division ==
  ASSUME NEW x \in Nat, NEW y \in Nat \ {0}
  PROVE  x = y * (x \div y) + (x % y) /\ x % y \in 0 .. y - 1 /\ x \div y \in Nat
  OBVIOUS

LEMMA Remainder ==
  ASSUME NEW q \in Int, NEW y \in Nat \ {0}, NEW r \in 0 .. y - 1
  PROVE  (y * q + r) % y = r
  OBVIOUS

\* The bank of a location, and the location in it.
Base(location) == (location \div BankSize) * BankSize
Offset(location) == location % BankSize

LEMMA BaseAndOffset ==
  ASSUME NEW location \in Nat
  PROVE  /\ Base(location) \in Nat /\ Offset(location) \in 0 .. BankSize - 1
         /\ location = Base(location) + Offset(location)
         /\ \A i \in 0 .. BankSize : (location + i) % BankSize
                                      = IF Offset(location) + i < BankSize
                                          THEN Offset(location) + i
                                          ELSE Offset(location) + i - BankSize
<1> DEFINE q == location \div BankSize
           r == location % BankSize
<1>1. BankSize \in Nat \ {0}
  BY MemoryAssumption
<1>2. location = BankSize * q + r /\ r \in 0 .. BankSize - 1 /\ q \in Nat
  BY <1>1, Division
<1> HIDE DEF q, r
<1>3. ASSUME NEW i \in 0 .. BankSize
      PROVE  (location + i) % BankSize = IF r + i < BankSize THEN r + i ELSE r + i - BankSize
  <2>1. CASE r + i < BankSize
    <3>1. location + i = BankSize * q + (r + i) /\ r + i \in 0 .. BankSize - 1
      BY <2>1, <1>1, <1>2
    <3>2. (BankSize * q + (r + i)) % BankSize = r + i
      BY <3>1, <1>1, <1>2, Remainder
    <3> QED
      BY <2>1, <3>1, <3>2
  <2>2. CASE ~(r + i < BankSize)
    <3>1. /\ location + i = BankSize * (q + 1) + (r + i - BankSize)
          /\ r + i - BankSize \in 0 .. BankSize - 1 /\ q + 1 \in Int
      BY <2>2, <1>1, <1>2
    <3>2. (BankSize * (q + 1) + (r + i - BankSize)) % BankSize = r + i - BankSize
      BY <3>1, <1>1, Remainder
    <3> QED
      BY <2>2, <3>1, <3>2
  <2> QED
    BY <2>1, <2>2
<1>4. BankSize * q = q * BankSize /\ q * BankSize \in Nat
  BY <1>1, <1>2
<1> QED
  BY <1>2, <1>3, <1>4 DEF Base, Offset, q, r

\* The bank of a location in memory lies in memory.
LEMMA BankInMemory ==
  ASSUME NEW location \in Locations
  PROVE  /\ location \in Nat /\ location \div BankSize \in 0 .. Banks - 1
         /\ \A b \in Int : Base(location) <= b /\ b < Base(location) + BankSize => b \in Locations
<1> DEFINE q == location \div BankSize
<1> HIDE DEF q
<1>1. BankSize \in Nat \ {0} /\ Banks \in Nat \ {0}
  BY MemoryAssumption
<1>2. location \in Nat /\ location < BankSize * Banks
  BY <1>1 DEF Locations
<1>3. q \in Nat /\ BankSize * q <= location
  <2>1. location = BankSize * q + (location % BankSize) /\ location % BankSize \in Nat /\ q \in Nat
    <3>1. /\ location = BankSize * (location \div BankSize) + (location % BankSize)
          /\ location % BankSize \in 0 .. BankSize - 1 /\ location \div BankSize \in Nat
      BY <1>1, <1>2, Division, Zenon
    <3> QED
      BY <3>1, <1>1 DEF q
  <2>2. BankSize * q \in Nat
    BY <2>1, <1>1
  <2> QED
    BY <2>1, <2>2
<1>4. q < Banks
  <2>1. SUFFICES ASSUME Banks <= q
                 PROVE  FALSE
    BY <1>1, <1>3
  <2>2. BankSize * Banks <= BankSize * q
    BY <2>1, <1>1, <1>3
  <2>3. BankSize * Banks \in Nat /\ BankSize * q \in Nat
    BY <1>1, <1>3
  <2> QED
    BY <2>2, <2>3, <1>2, <1>3
<1>5. BankSize * (q + 1) <= BankSize * Banks /\ BankSize * (q + 1) = q * BankSize + BankSize
  BY <1>1, <1>3, <1>4
<1>6. q * BankSize \in Nat /\ BankSize * Banks \in Nat
  BY <1>1, <1>3
<1>7. Base(location) = q * BankSize
  BY DEF Base, q
<1>8. ASSUME NEW b \in Int, Base(location) <= b, b < Base(location) + BankSize
      PROVE  b \in Locations
  BY <1>1, <1>5, <1>6, <1>7, <1>8 DEF Locations
<1>9. location \div BankSize \in 0 .. Banks - 1
  BY <1>1, <1>3, <1>4 DEF q
<1> QED
  BY <1>2, <1>8, <1>9

\* A span that does not run past its bank is one chunk; a longer one, of at
\* most a bank and a byte, is two.
LEMMA ChunksOfCases ==
  ASSUME NEW location \in Nat, NEW length \in 0 .. BankSize + 1
  PROVE  LET base == Base(location)
             offset == Offset(location)
             chunks == ChunksOf(location, length)
         IN  /\ length = 0 => Len(chunks) = 0
             /\ length > 0 /\ offset + length <= BankSize
                  => Len(chunks) = 1 /\ chunks[1] = <<location, base + offset + length>>
             /\ offset + length > BankSize
                  => /\ Len(chunks) = 2
                     /\ chunks[1] = <<location, base + BankSize>>
                     /\ chunks[2] = <<base, base + (offset + length - BankSize)>>
<1> DEFINE base == Base(location)
           offset == Offset(location)
           chunks == ChunksOf(location, length)
           count == IF length <= 0 THEN 0 ELSE (offset + length + BankSize - 1) \div BankSize
           End(i) == offset + length - (i - 1) * BankSize
           Chunk(i) == <<IF i = 1 THEN location ELSE base,
                         base + (IF End(i) <= BankSize THEN End(i) ELSE BankSize)>>
<1>1. BankSize \in Nat \ {0} /\ length \in Nat
  BY MemoryAssumption
<1>2. base \in Nat /\ offset \in 0 .. BankSize - 1 /\ location = base + offset
  BY BaseAndOffset
<1>3. chunks = [i \in 1 .. count |-> Chunk(i)]
  BY DEF ChunksOf, Base, Offset
<1> HIDE DEF base, offset, chunks, count
<1>4. count \in Nat => Len(chunks) = count /\ \A i \in 1 .. count : chunks[i] = Chunk(i)
  <2> HIDE DEF Chunk
  <2> QED
    BY <1>3
<1>5. ASSUME length = 0
      PROVE  Len(chunks) = 0
  BY <1>4, <1>5 DEF count
<1>6. ASSUME length > 0, offset + length <= BankSize
      PROVE  Len(chunks) = 1 /\ chunks[1] = <<location, base + offset + length>>
  <2>1. count = 1
    <3>1. /\ offset + length + BankSize - 1 = BankSize * 1 + (offset + length - 1)
          /\ offset + length - 1 \in 0 .. BankSize - 1
      BY <1>1, <1>2, <1>6
    <3>2. (BankSize * 1 + (offset + length - 1)) \div BankSize = 1
      BY <3>1, <1>1
    <3> QED
      BY <3>1, <3>2, <1>1, <1>6 DEF count
  <2>2. Chunk(1) = <<location, base + offset + length>>
    <3>1. End(1) = offset + length
      BY <1>1, <1>2
    <3>2. base + (offset + length) = base + offset + length
      BY <1>1, <1>2
    <3> HIDE DEF End
    <3> QED
      BY <3>1, <3>2, <1>6
  <2> QED
    BY <2>1, <2>2, <1>4
<1>7. ASSUME offset + length > BankSize
      PROVE  /\ Len(chunks) = 2
             /\ chunks[1] = <<location, base + BankSize>>
             /\ chunks[2] = <<base, base + (offset + length - BankSize)>>
  <2>1. length > 0 /\ ~(length <= 0) /\ offset + length - BankSize <= BankSize
    BY <1>1, <1>2, <1>7
  <2>2. count = 2
    <3>1. /\ offset + length + BankSize - 1 = BankSize * 2 + (offset + length - BankSize - 1)
          /\ offset + length - BankSize - 1 \in 0 .. BankSize - 1
      BY <1>1, <1>2, <1>7
    <3>2. (BankSize * 2 + (offset + length - BankSize - 1)) \div BankSize = 2
      BY <3>1, <1>1
    <3> QED
      BY <3>1, <3>2, <2>1 DEF count
  <2>3. End(1) = offset + length /\ End(2) = offset + length - BankSize
    BY <1>1, <1>2
  <2>4. ~(offset + length <= BankSize)
    BY <1>1, <1>2, <1>7
  <2> HIDE DEF End
  <2>5. Chunk(1) = <<location, base + BankSize>>
    BY <2>3, <2>4
  <2>6. Chunk(2) = <<base, base + (offset + length - BankSize)>>
    BY <2>1, <2>3
  <2> QED
    BY <2>2, <2>5, <2>6, <1>4
<1> QED
  BY <1>5, <1>6, <1>7 DEF base, offset, chunks

\* The bytes of a span.
BytesFrom(location, length) == {Base(location) + ((location + i) % BankSize) : i \in 0 .. length - 1}

\* The chunks of a span hold its bytes, lie in its bank, and meet each other
\* when the span is longer than the bank.
LEMMA ChunksOfHold ==
  ASSUME NEW location \in Nat, NEW length \in 0 .. BankSize + 1
  PROVE  LET chunks == ChunksOf(location, length)
             base == Base(location)
         IN  /\ Len(chunks) \in Nat
             /\ \A k \in 1 .. Len(chunks) : IsChunk(chunks[k])
             /\ \A b \in Int : Has(chunks, b) <=> b \in BytesFrom(location, length)
             /\ \A b \in Int : Has(chunks, b) => base <= b /\ b < base + BankSize
             /\ (\A k \in 1 .. Len(chunks) : \A i \in 1 .. k - 1 :
                     \A b \in Int : ~(In(chunks[k], b) /\ In(chunks[i], b)))
                  <=> length <= BankSize
<1> DEFINE base == Base(location)
           offset == Offset(location)
           chunks == ChunksOf(location, length)
           Bytes == BytesFrom(location, length)
           Apart == \A k \in 1 .. Len(chunks) : \A i \in 1 .. k - 1 :
                      \A b \in Int : ~(In(chunks[k], b) /\ In(chunks[i], b))
           Goal == /\ Len(chunks) \in Nat
                   /\ \A k \in 1 .. Len(chunks) : IsChunk(chunks[k])
                   /\ \A b \in Int : Has(chunks, b) <=> b \in Bytes
                   /\ \A b \in Int : Has(chunks, b) => base <= b /\ b < base + BankSize
                   /\ Apart <=> length <= BankSize
<1>1. BankSize \in Nat \ {0} /\ length \in Nat /\ length <= BankSize + 1
  BY MemoryAssumption
<1>2. /\ base \in Nat /\ offset \in 0 .. BankSize - 1 /\ location = base + offset
      /\ \A i \in 0 .. BankSize : (location + i) % BankSize
                                   = IF offset + i < BankSize THEN offset + i ELSE offset + i - BankSize
  BY BaseAndOffset
<1>3. /\ length = 0 => Len(chunks) = 0
      /\ length > 0 /\ offset + length <= BankSize
           => Len(chunks) = 1 /\ chunks[1] = <<location, base + offset + length>>
      /\ offset + length > BankSize
           => /\ Len(chunks) = 2
              /\ chunks[1] = <<location, base + BankSize>>
              /\ chunks[2] = <<base, base + (offset + length - BankSize)>>
  BY ChunksOfCases
<1>4. Bytes = {base + ((location + i) % BankSize) : i \in 0 .. length - 1}
  BY DEF BytesFrom
<1> HIDE DEF base, offset, chunks, Bytes
\* Which bytes a span has.
<1>5. ASSUME NEW b \in Int
      PROVE  b \in Bytes <=> \/ location <= b /\ b < location + length /\ b < base + BankSize
                             \/ base <= b /\ b < base + (offset + length - BankSize)
  <2>1. ASSUME NEW i \in 0 .. length - 1, b = base + ((location + i) % BankSize)
        PROVE  \/ location <= b /\ b < location + length /\ b < base + BankSize
               \/ base <= b /\ b < base + (offset + length - BankSize)
    <3>1. i \in 0 .. BankSize
      BY <1>1
    <3>2. (location + i) % BankSize
            = IF offset + i < BankSize THEN offset + i ELSE offset + i - BankSize
      BY <3>1, <1>2
    <3>3. CASE offset + i < BankSize
      <4>1. b = base + (offset + i)
        BY <2>1, <3>2, <3>3
      <4> QED
        BY <4>1, <3>3, <1>1, <1>2
    <3>4. CASE ~(offset + i < BankSize)
      <4>1. b = base + (offset + i - BankSize)
        BY <2>1, <3>2, <3>4
      <4> QED
        BY <4>1, <3>4, <1>1, <1>2
    <3> QED
      BY <3>3, <3>4
  <2>2. ASSUME location <= b, b < location + length, b < base + BankSize
        PROVE  b \in Bytes
    <3> DEFINE i == b - location
    <3>1. i \in 0 .. length - 1 /\ i \in 0 .. BankSize /\ offset + i < BankSize /\ base + (offset + i) = b
      BY <2>2, <1>1, <1>2
    <3> HIDE DEF i
    <3>2. (location + i) % BankSize = offset + i
      BY <3>1, <1>2
    <3> QED
      BY <3>1, <3>2, <1>4
  <2>3. ASSUME base <= b, b < base + (offset + length - BankSize)
        PROVE  b \in Bytes
    <3> DEFINE i == b - base + BankSize - offset
    <3>1. /\ i \in 0 .. length - 1 /\ i \in 0 .. BankSize /\ ~(offset + i < BankSize)
          /\ base + (offset + i - BankSize) = b
      BY <2>3, <1>1, <1>2
    <3> HIDE DEF i
    <3>2. (location + i) % BankSize = offset + i - BankSize
      BY <3>1, <1>2
    <3> QED
      BY <3>1, <3>2, <1>4
  <2> QED
    BY <2>1, <2>2, <2>3, <1>4
<1>6. ASSUME length = 0
      PROVE  Goal
  <2>1. Len(chunks) = 0 /\ 1 .. 0 = {}
    BY <1>3, <1>6
  <2>2. ASSUME NEW b \in Int
        PROVE  ~Has(chunks, b) /\ b \notin Bytes
    BY <2>1, <1>1, <1>2, <1>5, <1>6 DEF Has
  <2>3. Apart /\ length <= BankSize
    BY <2>1, <1>1, <1>6
  <2> HIDE DEF Apart
  <2> QED
    BY <2>1, <2>2, <2>3
<1>7. ASSUME length > 0, offset + length <= BankSize
      PROVE  Goal
  <2>1. Len(chunks) = 1 /\ chunks[1] = <<location, base + offset + length>> /\ 1 .. 1 = {1}
    BY <1>3, <1>7
  <2>2. /\ chunks[1][1] = location /\ chunks[1][2] = base + offset + length
        /\ IsChunk(chunks[1])
    BY <2>1, <1>1, <1>2, <1>7 DEF IsChunk
  <2>3. ASSUME NEW b \in Int
        PROVE  /\ Has(chunks, b) <=> b \in Bytes
               /\ Has(chunks, b) => base <= b /\ b < base + BankSize
    <3>1. Has(chunks, b) <=> location <= b /\ b < base + offset + length
      BY <2>1, <2>2 DEF Has, In
    <3> QED
      BY <3>1, <1>1, <1>2, <1>5, <1>7
  <2>4. Apart /\ length <= BankSize
    <3>1. \A k \in 1 .. Len(chunks) : 1 .. k - 1 = {}
      BY <2>1
    <3> QED
      BY <3>1, <1>1, <1>2, <1>7
  <2> HIDE DEF Apart
  <2> QED
    BY <2>1, <2>2, <2>3, <2>4
<1>8. ASSUME offset + length > BankSize
      PROVE  Goal
  <2>1. /\ Len(chunks) = 2 /\ 1 .. 2 = {1, 2}
        /\ chunks[1] = <<location, base + BankSize>>
        /\ chunks[2] = <<base, base + (offset + length - BankSize)>>
    BY <1>3, <1>8
  <2>2. /\ chunks[1][1] = location /\ chunks[1][2] = base + BankSize
        /\ chunks[2][1] = base /\ chunks[2][2] = base + (offset + length - BankSize)
        /\ IsChunk(chunks[1]) /\ IsChunk(chunks[2])
    BY <2>1, <1>1, <1>2, <1>8 DEF IsChunk
  <2>3. ASSUME NEW b \in Int
        PROVE  /\ Has(chunks, b) <=> b \in Bytes
               /\ Has(chunks, b) => base <= b /\ b < base + BankSize
    <3>1. Has(chunks, b) <=> \/ location <= b /\ b < base + BankSize
                             \/ base <= b /\ b < base + (offset + length - BankSize)
      BY <2>1, <2>2 DEF Has, In
    <3> QED
      BY <3>1, <1>1, <1>2, <1>5, <1>8
  <2>4. Apart <=> \A b \in Int : ~(In(chunks[2], b) /\ In(chunks[1], b))
    <3>1. 1 .. 1 - 1 = {} /\ 1 .. 2 - 1 = {1}
      OBVIOUS
    <3> QED
      BY <2>1, <3>1
  <2>5. ASSUME length <= BankSize, NEW b \in Int
        PROVE  ~(In(chunks[2], b) /\ In(chunks[1], b))
    BY <2>2, <2>5, <1>1, <1>2 DEF In
  <2>6. ASSUME ~(length <= BankSize)
        PROVE  In(chunks[2], location) /\ In(chunks[1], location)
    BY <2>2, <2>6, <1>1, <1>2, <1>8 DEF In
  <2>7. Apart <=> length <= BankSize
    BY <2>4, <2>5, <2>6, <1>2
  <2> HIDE DEF Apart
  <2>8. \A k \in 1 .. Len(chunks) : IsChunk(chunks[k])
    BY <2>1, <2>2
  <2>9. Len(chunks) \in Nat
    BY <2>1
  <2> QED
    BY <2>3, <2>7, <2>8, <2>9
<1>9. length = 0 \/ (length > 0 /\ offset + length <= BankSize) \/ offset + length > BankSize
  BY <1>1, <1>2
<1>10. Goal
  BY <1>6, <1>7, <1>8, <1>9
<1> QED
  BY <1>10 DEF base, chunks, Bytes

\* A span longer than a bank is made of chunks of which the first two meet.
LEMMA ChunksOfLong ==
  ASSUME NEW location \in Nat, NEW length \in Nat, length > BankSize
  PROVE  LET chunks == ChunksOf(location, length)
         IN  /\ Len(chunks) \in Nat
             /\ \A k \in 1 .. Len(chunks) : IsChunk(chunks[k])
             /\ 2 \in 1 .. Len(chunks) /\ In(chunks[1], location) /\ In(chunks[2], location)
<1> DEFINE base == Base(location)
           offset == Offset(location)
           chunks == ChunksOf(location, length)
           sum == offset + length + BankSize - 1
           count == sum \div BankSize
           End(i) == offset + length - (i - 1) * BankSize
           Chunk(i) == <<IF i = 1 THEN location ELSE base,
                         base + (IF End(i) <= BankSize THEN End(i) ELSE BankSize)>>
<1>1. BankSize \in Nat \ {0} /\ length \in Nat
  BY MemoryAssumption
<1>2. base \in Nat /\ offset \in 0 .. BankSize - 1 /\ location = base + offset
  BY BaseAndOffset
<1>3. chunks = [i \in 1 .. count |-> Chunk(i)]
  <2>1. ~(length <= 0)
    BY <1>1
  <2> QED
    BY <2>1 DEF ChunksOf, Base, Offset
<1> HIDE DEF base, offset, chunks
<1>4. sum \in Nat /\ sum >= BankSize * 2
  BY <1>1, <1>2
<1> HIDE DEF sum
<1>5. count \in Nat /\ BankSize * count <= sum /\ sum - BankSize * count < BankSize
  <2>1. /\ sum = BankSize * count + (sum % BankSize) /\ sum % BankSize \in 0 .. BankSize - 1
        /\ count \in Nat
    BY <1>1, <1>4, Division
  <2> HIDE DEF count
  <2>2. BankSize * count \in Nat
    BY <2>1, <1>1
  <2> QED
    BY <2>1, <2>2, <1>1
<1> HIDE DEF count
<1>6. count >= 2
  <2> SUFFICES ASSUME count <= 1
               PROVE  FALSE
    BY <1>5
  <2>1. BankSize * count <= BankSize
    BY <1>1, <1>5
  <2>2. BankSize * count \in Nat
    BY <1>1, <1>5
  <2> QED
    BY <2>1, <2>2, <1>1, <1>4, <1>5
<1>7. Len(chunks) = count /\ \A i \in 1 .. count : chunks[i] = Chunk(i)
  <2> HIDE DEF Chunk
  <2> QED
    BY <1>3, <1>5
<1>8. ASSUME NEW k \in 1 .. count
      PROVE  IsChunk(Chunk(k))
  <2>1. (k - 1) * BankSize <= (count - 1) * BankSize
    BY <1>1, <1>5
  <2>2. (count - 1) * BankSize = BankSize * count - BankSize
    BY <1>1, <1>5
  <2>3. (k - 1) * BankSize \in Int /\ BankSize * count \in Int
    BY <1>1, <1>5
  <2>4. End(k) \in Int /\ End(k) >= 1
    BY <2>1, <2>2, <2>3, <1>1, <1>2, <1>5 DEF sum
  <2>5. k = 1 => End(k) > BankSize
    <3>1. k = 1 => End(k) = offset + length
      BY <1>1, <1>2
    <3> HIDE DEF End
    <3> QED
      BY <3>1, <1>1, <1>2
  <2> HIDE DEF End
  <2>6. (IF k = 1 THEN location ELSE base) \in Int /\ (IF k = 1 THEN location ELSE base) <= location
    BY <1>2
  <2>7. CASE k = 1
    <3>1. ~(End(k) <= BankSize)
      BY <2>4, <2>5, <2>7, <1>1
    <3>2. Chunk(k) = <<location, base + BankSize>>
      BY <2>7, <3>1
    <3> QED
      BY <3>2, <1>1, <1>2 DEF IsChunk
  <2>8. CASE k # 1
    <3> DEFINE upto == IF End(k) <= BankSize THEN End(k) ELSE BankSize
    <3>1. upto \in Int /\ upto >= 1
      BY <2>4, <1>1
    <3>2. Chunk(k) = <<base, base + upto>>
      BY <2>8
    <3> HIDE DEF upto
    <3> QED
      BY <3>1, <3>2, <1>2 DEF IsChunk
  <2> QED
    BY <2>7, <2>8
<1>9. End(1) = offset + length /\ End(2) = offset + length - BankSize
  BY <1>1, <1>2
<1>10. 1 \in 1 .. count /\ 2 \in 1 .. count
  BY <1>5, <1>6
<1>11. In(Chunk(1), location)
  <2>1. ~(End(1) <= BankSize)
    BY <1>1, <1>2, <1>9
  <2> HIDE DEF End
  <2>2. Chunk(1) = <<location, base + BankSize>>
    BY <2>1
  <2> QED
    BY <2>2, <1>1, <1>2 DEF In
<1>12. In(Chunk(2), location)
  <2> DEFINE upto == IF End(2) <= BankSize THEN End(2) ELSE BankSize
  <2>1. upto \in Int /\ offset < upto
    BY <1>1, <1>2, <1>9
  <2>2. Chunk(2) = <<base, base + upto>>
    OBVIOUS
  <2> HIDE DEF upto
  <2> QED
    BY <2>1, <2>2, <1>2 DEF In
<1> HIDE DEF Chunk
<1>13. /\ Len(chunks) \in Nat
       /\ \A k \in 1 .. Len(chunks) : IsChunk(chunks[k])
       /\ 2 \in 1 .. Len(chunks) /\ In(chunks[1], location) /\ In(chunks[2], location)
  BY <1>5, <1>7, <1>8, <1>10, <1>11, <1>12
<1> QED
  BY <1>13 DEF chunks

-----------------------------------------------------------------------------
(* RangeMap *)

\* The entries of a RangeMap are chunks from zero up that share no byte.
DisjointEntries(map) ==
  /\ \A c \in DOMAIN map : IsChunk(c) /\ c[1] >= 0
  /\ \A c, d \in DOMAIN map : \A b \in Int : In(c, b) /\ In(d, b) => c = d

\* Lookup finds the entry that holds the location, if there is one.
LEMMA LookupFinds ==
  ASSUME NEW map, DisjointEntries(map), NEW location \in Nat
  PROVE  /\ \A c \in DOMAIN map : In(c, location) => Lookup(map, location) = map[c]
         /\ (\A c \in DOMAIN map : ~In(c, location)) => Lookup(map, location) = Nobody
<1> DEFINE before == {c \in DOMAIN map : c[1] <= location}
           Latest(c) == \A d \in before : d[1] <= c[1]
           last == CHOOSE c \in before : Latest(c)
           Distances == {n \in Nat : \E c \in before : n = location - c[1]}
<1>1. \A c \in DOMAIN map : c[1] \in Int /\ c[2] \in Int /\ c[1] < c[2] /\ c[1] >= 0
  BY DEF DisjointEntries, IsChunk
<1>2. Lookup(map, location) = IF before # {} /\ location < last[2] THEN map[last] ELSE Nobody
  BY DEF Lookup
<1>3. ASSUME before # {}
      PROVE  last \in before /\ Latest(last)
  <2>1. PICK c \in before : TRUE
    BY <1>3
  <2>2. c[1] \in Int /\ c[1] <= location
    BY <1>1
  <2>3. location - c[1] \in Distances
    BY <2>2
  <2>4. PICK n \in Distances : \A m \in Distances : n <= m
    <3>1. Distances \in SUBSET Nat /\ Distances # {}
      BY <2>3
    <3> HIDE DEF Distances
    <3> QED
      BY <3>1, LeastElement
  <2>5. PICK d \in before : n = location - d[1]
    BY <2>4
  <2>6. ASSUME NEW e \in before
        PROVE  e[1] <= d[1]
    <3>1. e[1] \in Int /\ e[1] <= location /\ d[1] \in Int
      BY <1>1
    <3>2. location - e[1] \in Distances
      BY <3>1
    <3>3. n <= location - e[1]
      BY <2>4, <3>2
    <3> QED
      BY <3>1, <3>3, <2>5
  <2>7. Latest(d)
    BY <2>6
  <2> HIDE DEF Latest
  <2> QED
    BY <2>7
<1> HIDE DEF last
<1>4. ASSUME NEW c \in DOMAIN map, In(c, location)
      PROVE  Lookup(map, location) = map[c]
  <2>1. c \in before
    BY <1>4 DEF In
  <2>2. last \in before /\ c[1] <= last[1]
    BY <2>1, <1>3
  <2>3. /\ last \in DOMAIN map /\ last[1] <= location
        /\ last[1] \in Int /\ last[2] \in Int /\ last[1] < last[2]
        /\ c[1] \in Int /\ c[2] \in Int
    BY <2>2, <1>1
  <2>4. In(c, last[1]) /\ In(last, last[1])
    BY <2>2, <2>3, <1>4 DEF In
  <2>5. c = last
    BY <2>3, <2>4 DEF DisjointEntries
  <2> QED
    BY <2>1, <2>5, <1>2, <1>4 DEF In
<1>5. ASSUME \A c \in DOMAIN map : ~In(c, location)
      PROVE  Lookup(map, location) = Nobody
  <2>1. CASE before = {}
    BY <2>1, <1>2
  <2>2. CASE before # {}
    <3>1. last \in DOMAIN map /\ last[1] <= location
      BY <2>2, <1>3
    <3>2. ~(location < last[2])
      BY <3>1, <1>5 DEF In
    <3> QED
      BY <3>2, <1>2
  <2> QED
    BY <2>1, <2>2
<1> QED
  BY <1>4, <1>5

\* used holds the bytes of the entries of map.
SameBytes(used, map) == \A b \in Int : Has(used, b) <=> \E c \in DOMAIN map : In(c, b)

\* The chunks of a DataRange, as entries.
EntriesOf(list) == {list[i] : i \in DOMAIN list}

LEMMA EntriesHold ==
  ASSUME NEW list, Sorted(list), \A b \in Int : Has(list, b) => b \in Nat
  PROVE  /\ \A b \in Int : Has(list, b) <=> \E c \in EntriesOf(list) : In(c, b)
         /\ \A c \in EntriesOf(list) : IsChunk(c) /\ In(c, c[1]) /\ c[1] \in Nat
         /\ \A c, d \in EntriesOf(list) : \A b \in Int : In(c, b) /\ In(d, b) => c = d
<1>1. DOMAIN list = 1 .. Len(list)
  BY DEF Sorted
<1>2. /\ \A k \in 1 .. Len(list) : IsChunk(list[k])
      /\ \A k, i \in 1 .. Len(list) : \A b \in Int : In(list[k], b) /\ In(list[i], b) => k = i
  BY SortedApart
<1>3. ASSUME NEW k \in 1 .. Len(list)
      PROVE  IsChunk(list[k]) /\ In(list[k], list[k][1]) /\ list[k][1] \in Nat
  <2>1. list[k][1] \in Int /\ list[k][2] \in Int /\ list[k][1] < list[k][2]
    BY <1>2 DEF IsChunk
  <2>2. In(list[k], list[k][1])
    BY <2>1 DEF In
  <2>3. list[k][1] \in Nat
    BY <2>1, <2>2 DEF Has
  <2> QED
    BY <2>2, <2>3, <1>2
<1>4. \A b \in Int : Has(list, b) <=> \E c \in EntriesOf(list) : In(c, b)
  BY <1>1 DEF Has, EntriesOf
<1>5. \A c, d \in EntriesOf(list) : \A b \in Int : In(c, b) /\ In(d, b) => c = d
  BY <1>1, <1>2 DEF EntriesOf
<1>6. \A c \in EntriesOf(list) : IsChunk(c) /\ In(c, c[1]) /\ c[1] \in Nat
  BY <1>1, <1>3 DEF EntriesOf
<1> QED
  BY <1>4, <1>5, <1>6

\* Insert is free when no byte is taken, and then adds the entries.
LEMMA InsertHolds ==
  ASSUME NEW used, NEW map, NEW list, NEW who,
         Sorted(used), DisjointEntries(map), SameBytes(used, map),
         Sorted(list), \A b \in Int : Has(list, b) => b \in Nat
  PROVE  LET done == ClaimChunks(used, list)
             into == [c \in DOMAIN map \cup EntriesOf(list) |->
                        IF c \in DOMAIN map THEN map[c] ELSE who]
         IN  /\ done.free \in BOOLEAN
             /\ done.free <=> \A b \in Int : ~(Has(used, b) /\ Has(list, b))
             /\ done.free => /\ Sorted(done.chunks)
                             /\ DisjointEntries(into)
                             /\ SameBytes(done.chunks, into)
                             /\ \A b \in Int : Has(done.chunks, b) <=> Has(used, b) \/ Has(list, b)
                             /\ DOMAIN into = DOMAIN map \cup EntriesOf(list)
                             /\ \A c \in DOMAIN map : into[c] = map[c]
                             /\ \A c \in EntriesOf(list) : into[c] = who
<1> DEFINE done == ClaimChunks(used, list)
           new == EntriesOf(list)
           into == [c \in DOMAIN map \cup new |-> IF c \in DOMAIN map THEN map[c] ELSE who]
<1>1. /\ Len(list) \in Nat
      /\ \A k \in 1 .. Len(list) : IsChunk(list[k])
      /\ \A k \in 1 .. Len(list) : \A i \in 1 .. k - 1 :
            \A b \in Int : ~(In(list[k], b) /\ In(list[i], b))
  BY SortedApart
<1>2. /\ Sorted(done.chunks)
      /\ \A b \in Int : Has(done.chunks, b) <=> Has(used, b) \/ Has(list, b)
      /\ done.free \in BOOLEAN
      /\ done.free <=> \A k \in 1 .. Len(list) : Fresh(used, list, k)
  BY <1>1, ClaimChunksHolds
<1> HIDE DEF done
<1>3. done.free <=> \A b \in Int : ~(Has(used, b) /\ Has(list, b))
  BY <1>1, <1>2, FreshApart
<1>4. /\ \A b \in Int : Has(list, b) <=> \E c \in new : In(c, b)
      /\ \A c \in new : IsChunk(c) /\ In(c, c[1]) /\ c[1] \in Nat
      /\ \A c, d \in new : \A b \in Int : In(c, b) /\ In(d, b) => c = d
  BY EntriesHold
<1> HIDE DEF new
<1>5. ASSUME done.free
      PROVE  /\ DisjointEntries(into)
             /\ SameBytes(done.chunks, into)
             /\ DOMAIN into = DOMAIN map \cup new
             /\ \A c \in DOMAIN map : into[c] = map[c]
             /\ \A c \in new : into[c] = who
  <2>1. \A c \in DOMAIN map, d \in new : \A b \in Int : ~(In(c, b) /\ In(d, b))
    BY <1>3, <1>4, <1>5 DEF SameBytes
  <2>2. \A c \in new : c \notin DOMAIN map
    BY <2>1, <1>4
  <2>3. /\ DOMAIN into = DOMAIN map \cup new
        /\ \A c \in DOMAIN map : into[c] = map[c]
        /\ \A c \in new : into[c] = who
    BY <2>2
  <2> HIDE DEF into
  <2>4. \A c \in DOMAIN into : IsChunk(c) /\ c[1] >= 0
    BY <2>3, <1>4 DEF DisjointEntries
  <2>5. ASSUME NEW c \in DOMAIN into, NEW d \in DOMAIN into, NEW b \in Int, In(c, b), In(d, b)
        PROVE  c = d
    <3>1. CASE c \in DOMAIN map /\ d \in DOMAIN map
      BY <2>5, <3>1 DEF DisjointEntries
    <3>2. CASE c \in new /\ d \in new
      BY <2>5, <3>2, <1>4
    <3>3. CASE c \in DOMAIN map /\ d \in new
      BY <2>5, <3>3, <2>1
    <3>4. CASE c \in new /\ d \in DOMAIN map
      BY <2>5, <3>4, <2>1
    <3> QED
      BY <3>1, <3>2, <3>3, <3>4, <2>3
  <2>6. SameBytes(done.chunks, into)
    BY <2>3, <1>2, <1>4 DEF SameBytes
  <2> QED
    BY <2>3, <2>4, <2>5, <2>6 DEF DisjointEntries
<1> QED
  BY <1>2, <1>3, <1>5 DEF done, new

=============================================================================
