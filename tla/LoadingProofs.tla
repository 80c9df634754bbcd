---------------------------- MODULE LoadingProofs ----------------------------
(***************************************************************************)
(* Loading resolves names as blocks of matching braces say, whatever a     *)
(* line means: the scopes a line carries are the blocks around it, and     *)
(* every scope knows exactly the labels of its block.                      *)
(***************************************************************************)
EXTENDS Loading, FiniteSetTheorems, SequenceTheorems, WellFoundedInduction, TLAPS

IsSeq(s) == s \in Seq(Range(s))

LineFields == {"statement", "labels", "activeScopes", "scopedLocals"}

\* Lines are records of the four fields, and all sequences are sequences.
ShapeInv ==
  /\ IsSeq(lines) /\ IsSeq(pendingLabels)
  /\ \A i \in DOMAIN lines : DOMAIN lines[i] = LineFields /\ IsSeq(lines[i].labels)

\* A path of begin lines, outermost first, that are all before line i.
IsPath(scopes, i) ==
  /\ scopes \in Seq(Nat)
  /\ \A k \in 1 .. Len(scopes) :
       scopes[k] \in DOMAIN lines /\ scopes[k] < i /\ IsLine(scopes[k], "begin")
  /\ \A j, k \in 1 .. Len(scopes) : j < k => scopes[j] < scopes[k]

PathInv ==
  /\ IsPath(activeScopes, Len(lines) + 1)
  /\ \A i \in DOMAIN lines : IsPath(lines[i].activeScopes, i)

IsIn(b, scopes) == \E k \in 1 .. Len(scopes) : scopes[k] = b

\* As many of the blocks opened since are still open as stand after one in
\* the active scopes, and every line since has it among its scopes.
OpenInv ==
  \A k \in 1 .. Len(activeScopes) :
    LET b == activeScopes[k]
    IN  /\ Count(b, Len(lines), "begin") = Count(b, Len(lines), "end") + Len(activeScopes) - k + 1
        /\ \A f \in b .. Len(lines) : Count(b, f, "begin") > Count(b, f, "end")
        /\ \A i \in b + 1 .. Len(lines) : IsIn(b, lines[i].activeScopes)

\* A begin that is not open any more has its end, and is a scope of exactly
\* the lines up to it.
ClosedAt(b, e) ==
  /\ Closes(b, e)
  /\ \A i \in DOMAIN lines : IsIn(b, lines[i].activeScopes) <=> b < i /\ i <= e

ClosedInv ==
  \A b \in DOMAIN lines : IsLine(b, "begin") /\ ~IsIn(b, activeScopes) =>
    \E e \in DOMAIN lines : ClosedAt(b, e)

\* The scope a label of line i is in.
BlockOf(label, i) ==
  IF label.exported \/ lines[i].activeScopes = << >> THEN 0
  ELSE lines[i].activeScopes[Len(lines[i].activeScopes)]

\* Every scope knows the labels of its block, and nothing else.
NamesInv ==
  /\ \A i \in DOMAIN lines : \A j \in DOMAIN lines[i].labels :
       LET label == lines[i].labels[j]
       IN  label.name \in DOMAIN Names(BlockOf(label, i)) /\ Names(BlockOf(label, i))[label.name] = i
  /\ \A s \in {0} \cup DOMAIN lines : \A name \in DOMAIN Names(s) :
       \E i \in DOMAIN lines : \E j \in DOMAIN lines[i].labels :
         lines[i].labels[j].name = name /\ BlockOf(lines[i].labels[j], i) = s
  /\ \A i \in DOMAIN lines : \A j, k \in DOMAIN lines[i].labels :
       /\ lines[i].labels[j].name = lines[i].labels[k].name
       /\ BlockOf(lines[i].labels[j], i) = BlockOf(lines[i].labels[k], i)
       => j = k

LoadedInv ==
  status = "loaded" =>
    /\ activeScopes = << >>
    /\ dependencies = UNION {Borrowed(lines[i]) :
                               i \in {j \in DOMAIN lines : lines[j].statement.name = "equ"}}

IInv == ShapeInv /\ PathInv /\ OpenInv /\ ClosedInv /\ NamesInv /\ LoadedInv

-----------------------------------------------------------------------------
(* Sequences *)

LEMMA SeqIs ==
  ASSUME NEW s, IsSeq(s)
  PROVE  Len(s) \in Nat /\ DOMAIN s = 1 .. Len(s)
<1> s \in Seq(Range(s))
  BY DEF IsSeq
<1> QED
  OBVIOUS

LEMMA FunctionIsSeq ==
  ASSUME NEW n \in Nat, NEW R, NEW t \in [1 .. n -> R]
  PROVE  IsSeq(t) /\ Len(t) = n
<1>1. t \in Seq(R) /\ Len(t) = n /\ DOMAIN t = 1 .. n
  OBVIOUS
<1>2. \A i \in 1 .. n : t[i] \in Range(t)
  BY <1>1 DEF Range
<1> DEFINE Q == Range(t)
<1> HIDE DEF Q
<1>3. t \in [1 .. n -> Q]
  BY <1>2 DEF Q
<1>4. t \in Seq(Q)
  BY <1>3
<1>5. QED
  BY <1>1, <1>4 DEF IsSeq, Q

LEMMA AppendSeq ==
  ASSUME NEW s, IsSeq(s), NEW e
  PROVE  /\ IsSeq(Append(s, e)) /\ Len(Append(s, e)) = Len(s) + 1
         /\ DOMAIN Append(s, e) = 1 .. Len(s) + 1
         /\ \A i \in 1 .. Len(s) : Append(s, e)[i] = s[i]
         /\ Append(s, e)[Len(s) + 1] = e
<1> DEFINE S == Range(s) \cup {e}
<1>1. s \in Seq(S) /\ Len(s) \in Nat /\ DOMAIN s = 1 .. Len(s)
  <2>1. s \in Seq(Range(s))
    BY DEF IsSeq
  <2>2. QED
    BY <2>1, SeqMonotonic
<1>2. /\ Append(s, e) \in Seq(S) /\ Len(Append(s, e)) = Len(s) + 1
      /\ DOMAIN Append(s, e) = 1 .. Len(s) + 1
      /\ (\A i \in 1 .. Len(s) : Append(s, e)[i] = s[i]) /\ Append(s, e)[Len(s) + 1] = e
  <2> e \in S
    OBVIOUS
  <2> HIDE DEF S
  <2>1. QED
    BY <1>1
<1>3. IsSeq(Append(s, e))
  <2> DEFINE t == Append(s, e)
             n == Len(s) + 1
  <2>1. n \in Nat /\ t \in [1 .. n -> S]
    <3>1. Append(s, e) \in Seq(S) /\ Len(s) \in Nat /\ Len(Append(s, e)) = Len(s) + 1
      BY <1>1, <1>2
    <3> HIDE DEF S, t
    <3>2. t \in Seq(S) /\ Len(t) = n /\ n \in Nat
      BY <3>1 DEF t
    <3>3. QED
      BY <3>2
  <2> HIDE DEF t, n, S
  <2>2. IsSeq(t)
    BY <2>1, FunctionIsSeq
  <2>3. QED
    BY <2>2 DEF t
<1>4. QED
  BY <1>2, <1>3

\* A changed element leaves the length.
LEMMA ChangedSeq ==
  ASSUME NEW s, IsSeq(s), NEW i, NEW e, NEW t, t = [s EXCEPT ![i] = e]
  PROVE  IsSeq(t) /\ Len(t) = Len(s)
<1>1. Len(s) \in Nat /\ DOMAIN s = 1 .. Len(s)
  BY SeqIs
<1>2. t \in [1 .. Len(s) -> Range(s) \cup {e}]
  <2>1. \A j \in 1 .. Len(s) : t[j] \in Range(s) \cup {e}
    BY <1>1 DEF Range
  <2>2. QED
    BY <1>1, <2>1
<1>3. QED
  BY <1>1, <1>2, FunctionIsSeq

-----------------------------------------------------------------------------
(* A set of numbers below a bound has a greatest element: this stands in   *)
(* for induction, which the library states for an operator.                *)

Lt == {p \in Nat \X Nat : p[1] < p[2]}

LEMMA LtIsWellFounded == IsWellFoundedOn(Lt, Nat)
<1>1. OpToRel(<, Nat) = Lt
  BY DEF OpToRel, Lt
<1>2. QED
  BY <1>1, NatLessThanWellFounded

LEMMA GreatestElement ==
  ASSUME NEW n \in Nat, NEW T \in SUBSET (1 .. n), T # {}
  PROVE  Max(T) \in T /\ \A t \in T : t <= Max(T)
<1> DEFINE U == {n - t : t \in T}
<1>1. U \subseteq Nat /\ U # {}
  <2>1. \A t \in T : t \in Nat /\ n - t \in Nat
    OBVIOUS
  <2>2. QED
    BY <2>1
<1>2. PICK u \in U : \A v \in U : ~(<<v, u>> \in Lt)
  <2> HIDE DEF U
  <2>1. QED
    BY <1>1, LtIsWellFounded, WFMin
<1>3. PICK m \in T : u = n - m
  BY <1>2
<1>4. ASSUME NEW t \in T
      PROVE  m >= t
  <2>1. n - t \in U
    OBVIOUS
  <2>2. ~(<<n - t, u>> \in Lt)
    BY <1>2, <2>1
  <2>3. n - t \in Nat /\ u \in Nat /\ t \in 1 .. n /\ m \in 1 .. n
    BY <1>1, <2>1
  <2>4. ~(n - t < u)
    BY <2>2, <2>3 DEF Lt
  <2>5. QED
    BY <1>3, <2>3, <2>4
<1>5. \E x \in T : \A y \in T : x >= y
  BY <1>4
<1>6. Max(T) \in T /\ \A y \in T : Max(T) >= y
  BY <1>5 DEF Max
<1>7. QED
  BY <1>6

-----------------------------------------------------------------------------
(* A statement becomes a line *)

\* The new line, and what stays of the others.
NewLine ==
  LET n == Len(lines) + 1
  IN  /\ Len(lines) \in Nat /\ DOMAIN lines = 1 .. Len(lines)
      /\ Len(lines') = n /\ DOMAIN lines' = 1 .. n
      /\ lines'[n].statement = Head(entities) /\ lines'[n].labels = pendingLabels
      /\ lines'[n].activeScopes = activeScopes /\ lines'[n].scopedLocals = NoLabels
      /\ \A i \in 1 .. Len(lines) :
           /\ lines'[i].statement = lines[i].statement /\ lines'[i].labels = lines[i].labels
           /\ lines'[i].activeScopes = lines[i].activeScopes
           /\ lines'[i].scopedLocals =
                IF activeScopes # << >> /\ i = activeScopes[Len(activeScopes)]
                  THEN WithLabels(lines[i].scopedLocals, IntoScope) ELSE lines[i].scopedLocals

LEMMA LastIn ==
  ASSUME NEW n, IsPath(activeScopes, n), activeScopes # << >>
  PROVE  /\ Len(activeScopes) \in Nat \ {0}
         /\ Last(activeScopes) = activeScopes[Len(activeScopes)]
         /\ Last(activeScopes) \in DOMAIN lines
<1>1. activeScopes \in Seq(Nat)
  BY DEF IsPath
<1>2. Len(activeScopes) \in Nat \ {0}
  BY <1>1
<1>3. QED
  BY <1>2 DEF IsPath, Last

LEMMA LineAdded ==
  ASSUME ShapeInv, PathInv, TakeStatement
  PROVE  NewLine /\ ShapeInv'
<1> DEFINE n == Len(lines) + 1
           b == activeScopes[Len(activeScopes)]
           row == [statement |-> Head(entities), labels |-> pendingLabels,
                   activeScopes |-> activeScopes, scopedLocals |-> NoLabels]
           scoped == IF activeScopes = << >> THEN lines
                     ELSE [lines EXCEPT ![b].scopedLocals = WithLabels(@, IntoScope)]
<1>1. IsSeq(lines) /\ IsSeq(pendingLabels) /\ Len(lines) \in Nat /\ DOMAIN lines = 1 .. Len(lines)
  BY SeqIs DEF ShapeInv
<1>2. lines' = Append(scoped, row) /\ pendingLabels' = << >>
  <2>1. lines' = WithLine(Head(entities)) /\ pendingLabels' = << >>
    BY DEF TakeStatement
  <2>2. activeScopes # << >> => Last(activeScopes) = b
    BY LastIn DEF PathInv
  <2>3. QED
    BY <2>1, <2>2 DEF WithLine
<1>3. IsSeq(scoped) /\ Len(scoped) = Len(lines) /\ DOMAIN scoped = DOMAIN lines
  <2>1. CASE activeScopes = << >>
    BY <1>1, <2>1
  <2>2. CASE activeScopes # << >>
    <3> DEFINE changed == [lines[b] EXCEPT !.scopedLocals = WithLabels(@, IntoScope)]
    <3>1. scoped = [lines EXCEPT ![b] = changed]
      BY <2>2
    <3> HIDE DEF scoped, changed
    <3>2. IsSeq(scoped) /\ Len(scoped) = Len(lines)
      BY <1>1, <3>1, ChangedSeq
    <3>3. QED
      BY <1>1, <3>2, SeqIs
  <2>3. QED
    BY <2>1, <2>2
<1>4. ASSUME NEW i \in 1 .. Len(lines)
      PROVE  /\ DOMAIN scoped[i] = LineFields /\ IsSeq(scoped[i].labels)
             /\ scoped[i].statement = lines[i].statement /\ scoped[i].labels = lines[i].labels
             /\ scoped[i].activeScopes = lines[i].activeScopes
             /\ scoped[i].scopedLocals =
                  IF activeScopes # << >> /\ i = b
                    THEN WithLabels(lines[i].scopedLocals, IntoScope) ELSE lines[i].scopedLocals
  <2>1. DOMAIN lines[i] = LineFields /\ IsSeq(lines[i].labels)
    BY <1>1 DEF ShapeInv
  <2>2. CASE activeScopes = << >> \/ i # b
    <3>1. scoped[i] = lines[i]
      BY <1>1, <2>2
    <3> HIDE DEF scoped
    <3>2. QED
      BY <2>1, <2>2, <3>1
  <2>3. CASE activeScopes # << >> /\ i = b
    <3>1. scoped[i] = [lines[i] EXCEPT !.scopedLocals = WithLabels(@, IntoScope)]
      BY <1>1, <2>3
    <3> HIDE DEF scoped
    <3> DEFINE names == WithLabels(lines[i].scopedLocals, IntoScope)
    <3>2. scoped[i] = [lines[i] EXCEPT !.scopedLocals = names]
      BY <3>1
    <3>3. names = WithLabels(lines[i].scopedLocals, IntoScope)
      OBVIOUS
    <3> HIDE DEF names
    <3>4. /\ DOMAIN scoped[i] = LineFields
          /\ scoped[i].statement = lines[i].statement /\ scoped[i].labels = lines[i].labels
          /\ scoped[i].activeScopes = lines[i].activeScopes /\ scoped[i].scopedLocals = names
      BY <2>1, <3>2 DEF LineFields
    <3>5. QED
      BY <2>1, <2>3, <3>3, <3>4
  <2>4. QED
    BY <2>2, <2>3
<1>5. DOMAIN row = LineFields
  BY DEF LineFields
<1>6. /\ row.statement = Head(entities) /\ row.labels = pendingLabels
      /\ row.activeScopes = activeScopes /\ row.scopedLocals = NoLabels
  OBVIOUS
<1> HIDE DEF scoped, row
<1>7. /\ IsSeq(lines') /\ Len(lines') = n /\ DOMAIN lines' = 1 .. n
      /\ \A i \in 1 .. Len(lines) : lines'[i] = scoped[i]
      /\ lines'[n] = row
  BY <1>2, <1>3, AppendSeq
<1>8. NewLine
  <2>1. ASSUME NEW i \in 1 .. Len(lines)
        PROVE  /\ lines'[i].statement = lines[i].statement /\ lines'[i].labels = lines[i].labels
               /\ lines'[i].activeScopes = lines[i].activeScopes
               /\ lines'[i].scopedLocals =
                    IF activeScopes # << >> /\ i = b
                      THEN WithLabels(lines[i].scopedLocals, IntoScope) ELSE lines[i].scopedLocals
    <3>1. lines'[i] = scoped[i]
      BY <1>7
    <3>2. QED
      BY <1>4, <3>1
  <2>2. /\ lines'[n].statement = Head(entities) /\ lines'[n].labels = pendingLabels
        /\ lines'[n].activeScopes = activeScopes /\ lines'[n].scopedLocals = NoLabels
    BY <1>6, <1>7
  <2>3. QED
    BY <1>1, <1>7, <2>1, <2>2 DEF NewLine
<1>9. ShapeInv'
  <2>1. IsSeq(pendingLabels')
    BY <1>2 DEF IsSeq
  <2>2. ASSUME NEW i \in DOMAIN lines'
        PROVE  DOMAIN lines'[i] = LineFields /\ IsSeq(lines'[i].labels)
    <3>1. CASE i = n
      BY <1>1, <1>5, <1>6, <1>7, <3>1
    <3>2. CASE i # n
      BY <1>1, <1>4, <1>7, <3>2
    <3>3. QED
      BY <3>1, <3>2
  <2>3. IsSeq(lines)'
    BY <1>7 DEF IsSeq
  <2>4. IsSeq(pendingLabels)'
    BY <2>1 DEF IsSeq
  <2>5. QED
    BY <2>2, <2>3, <2>4 DEF ShapeInv, IsSeq
<1>10. QED
  BY <1>8, <1>9

-----------------------------------------------------------------------------
(* Counting begins and ends *)

LEMMA CountIsNat ==
  ASSUME NEW b \in Nat, NEW e \in Nat, NEW name
  PROVE  Count(b, e, name) \in Nat
<1>1. IsFiniteSet(b .. e)
  BY FS_Interval
<1>2. IsFiniteSet({i \in b .. e : IsLine(i, name)})
  BY <1>1, FS_Subset
<1>3. QED
  BY <1>2, FS_CardinalityType DEF Count

\* The new line counts for itself alone.
LEMMA CountAdded ==
  ASSUME NewLine, NEW b \in 1 .. Len(lines) + 1, NEW name
  PROVE  /\ \A f \in Nat : f <= Len(lines) => Count(b, f, name)' = Count(b, f, name)
         /\ \A f \in Nat : f = Len(lines) + 1 =>
              Count(b, f, name)' =
                Count(b, Len(lines), name) + (IF Head(entities).name = name THEN 1 ELSE 0)
<1> DEFINE n == Len(lines) + 1
           Marked(f) == {i \in b .. f : IsLine(i, name)}
           After(f) == {i \in b .. f : lines'[i].statement.name = name}
<1>1. /\ Len(lines) \in Nat /\ lines'[n].statement = Head(entities)
      /\ \A i \in 1 .. Len(lines) : lines'[i].statement = lines[i].statement
  BY DEF NewLine
<1>2. \A f \in Nat : Count(b, f, name) = Cardinality(Marked(f))
                     /\ Count(b, f, name)' = Cardinality(After(f))
  BY DEF Count, IsLine
<1>3. \A f \in Nat : f <= Len(lines) => After(f) = Marked(f)
  BY <1>1 DEF IsLine
<1>4. IsFiniteSet(Marked(Len(lines)))
  <2>1. IsFiniteSet(b .. Len(lines))
    BY <1>1, FS_Interval
  <2>2. QED
    BY <2>1, FS_Subset
<1>5. n \notin Marked(Len(lines))
  BY <1>1
<1>6. ASSUME NEW f \in Nat, f <= Len(lines)
      PROVE  Count(b, f, name)' = Count(b, f, name)
  <2>1. After(f) = Marked(f)
    BY <1>3, <1>6
  <2> HIDE DEF After, Marked
  <2>2. QED
    BY <1>2, <2>1
<1>7. ASSUME NEW f \in Nat, f = n
      PROVE  Count(b, f, name)' =
               Count(b, Len(lines), name) + (IF Head(entities).name = name THEN 1 ELSE 0)
  <2>1. Cardinality(Marked(Len(lines))) \in Nat
    BY <1>4, FS_CardinalityType
  <2>2. CASE Head(entities).name = name
    <3>1. After(n) = Marked(Len(lines)) \cup {n}
      BY <1>1, <2>2 DEF IsLine
    <3>2. Cardinality(After(n)) = Cardinality(Marked(Len(lines))) + 1
      BY <1>4, <1>5, <3>1, FS_AddElement
    <3> HIDE DEF After, Marked
    <3>3. QED
      BY <1>1, <1>2, <1>7, <2>2, <3>2
  <2>3. CASE Head(entities).name # name
    <3>1. After(n) = Marked(Len(lines))
      BY <1>1, <2>3 DEF IsLine
    <3> HIDE DEF After, Marked
    <3>2. QED
      BY <1>1, <1>2, <1>7, <2>1, <2>3, <3>1
  <2>4. QED
    BY <2>2, <2>3
<1>8. QED
  BY <1>6, <1>7

LEMMA CountKept ==
  ASSUME NewLine, NEW b \in 1 .. Len(lines), NEW f \in Nat, f <= Len(lines), NEW name
  PROVE  Count(b, f, name)' = Count(b, f, name)
<1>1. b \in 1 .. Len(lines) + 1
  BY DEF NewLine
<1>2. \A g \in Nat : g <= Len(lines) => Count(b, g, name)' = Count(b, g, name)
  BY <1>1, CountAdded
<1>3. QED
  BY <1>2

LEMMA CountOfNone ==
  ASSUME NEW b \in Nat, NEW e \in Nat, e < b, NEW name
  PROVE  Count(b, e, name) = 0
<1>1. {i \in b .. e : IsLine(i, name)} = {}
  OBVIOUS
<1>2. QED
  BY <1>1, FS_EmptySet DEF Count

-----------------------------------------------------------------------------
(* The active scopes after a statement *)

Opens == Head(entities).name = "begin"
Closing == Head(entities).name = "end"

NewScopes ==
  /\ activeScopes \in Seq(Nat) /\ activeScopes' \in Seq(Nat)
  /\ Len(activeScopes) \in Nat /\ Len(activeScopes') \in Nat
  /\ Opens => /\ ~Closing /\ Len(activeScopes') = Len(activeScopes) + 1
              /\ activeScopes'[Len(activeScopes) + 1] = Len(lines) + 1
  /\ Closing => Len(activeScopes) > 0 /\ Len(activeScopes') = Len(activeScopes) - 1
  /\ ~Opens /\ ~Closing => activeScopes' = activeScopes
  /\ \A k \in 1 .. Len(activeScopes') :
       k <= Len(activeScopes) => activeScopes'[k] = activeScopes[k]

LEMMA ScopesAfter ==
  ASSUME ShapeInv, PathInv, TakeStatement
  PROVE  NewScopes
<1> DEFINE s == activeScopes
           n == Len(lines) + 1
<1>1. s \in Seq(Nat) /\ Len(s) \in Nat /\ n \in Nat
  BY SeqIs DEF PathInv, IsPath, ShapeInv
<1>2. /\ Opens => activeScopes' = Append(s, n)
      /\ Closing => activeScopes' = SubSeq(s, 1, Len(s) - 1) /\ s # << >>
      /\ ~Opens /\ ~Closing => activeScopes' = s
      /\ Opens => ~Closing
  BY DEF TakeStatement, StatementAllowed, Front, Opens, Closing
<1>3. CASE Opens
  <2>1. activeScopes' = Append(s, n)
    BY <1>2, <1>3
  <2> HIDE DEF s, n
  <2>2. activeScopes' \in Seq(Nat) /\ Len(activeScopes') = Len(s) + 1
        /\ activeScopes'[Len(s) + 1] = n /\ \A k \in 1 .. Len(s) : activeScopes'[k] = s[k]
    BY <1>1, <2>1
  <2>3. QED
    BY <1>1, <1>2, <1>3, <2>2 DEF s, n, NewScopes
<1>4. CASE Closing
  <2>1. Len(s) > 0
    BY <1>1, <1>2, <1>4
  <2>2. activeScopes' = SubSeq(s, 1, Len(s) - 1) /\ ~Opens
    BY <1>2, <1>4
  <2> HIDE DEF s, n
  <2>3. activeScopes' \in Seq(Nat) /\ Len(activeScopes') = Len(s) - 1
        /\ \A k \in 1 .. Len(s) - 1 : activeScopes'[k] = s[k]
    <3>1. Len(s) - 1 \in 0 .. Len(s)
      BY <1>1, <2>1
    <3> DEFINE m == Len(s) - 1
    <3> HIDE DEF m
    <3>2. /\ SubSeq(s, 1, m) \in Seq(Nat) /\ Len(SubSeq(s, 1, m)) = m
          /\ \A k \in 1 .. m : SubSeq(s, 1, m)[k] = s[k]
      <4>1. m \in Nat /\ m <= Len(s)
        BY <1>1, <3>1 DEF m
      <4>2. \A i \in 1 .. m : s[i] \in Nat
        BY <1>1, <4>1
      <4>3. /\ SubSeq(s, 1, m) \in Seq(Nat)
            /\ Len(SubSeq(s, 1, m)) = IF 1 <= m THEN m - 1 + 1 ELSE 0
            /\ \A k \in 1 .. m - 1 + 1 : SubSeq(s, 1, m)[k] = s[1 + k - 1]
        BY <4>1, <4>2, SubSeqProperties
      <4>4. QED
        BY <4>1, <4>3
    <3>3. QED
      BY <2>2, <3>2 DEF m
  <2>4. QED
    BY <1>1, <1>4, <2>1, <2>2, <2>3 DEF s, NewScopes
<1>5. CASE ~Opens /\ ~Closing
  BY <1>1, <1>2, <1>5 DEF NewScopes
<1>6. QED
  BY <1>3, <1>4, <1>5

LEMMA TakePath ==
  ASSUME ShapeInv, PathInv, TakeStatement
  PROVE  PathInv'
<1> DEFINE n == Len(lines) + 1
<1>1. NewLine /\ NewScopes
  BY LineAdded, ScopesAfter
<1>2. /\ Len(lines) \in Nat /\ DOMAIN lines = 1 .. Len(lines)
      /\ Len(lines') = n /\ DOMAIN lines' = 1 .. n
      /\ lines'[n].statement = Head(entities) /\ lines'[n].activeScopes = activeScopes
      /\ \A i \in 1 .. Len(lines) : /\ lines'[i].statement = lines[i].statement
                                    /\ lines'[i].activeScopes = lines[i].activeScopes
  BY <1>1 DEF NewLine
<1>3. ASSUME NEW b \in DOMAIN lines, IsLine(b, "begin")
      PROVE  b \in DOMAIN lines' /\ lines'[b].statement.name = "begin"
  <2>1. b \in 1 .. Len(lines) /\ lines[b].statement.name = "begin"
    BY <1>2, <1>3 DEF IsLine
  <2>2. QED
    BY <1>2, <2>1
<1>4. \A i \in DOMAIN lines : IsPath(lines[i].activeScopes, i)
  BY DEF PathInv
<1>5. IsPath(activeScopes, n)
  BY DEF PathInv
<1>6. ASSUME NEW i \in DOMAIN lines'
      PROVE  IsPath(lines[i].activeScopes, i)'
  <2> DEFINE scopes == IF i = n THEN activeScopes ELSE lines[i].activeScopes
  <2>1. scopes = lines'[i].activeScopes
    BY <1>2
  <2>2. IsPath(scopes, i)
    BY <1>2, <1>4, <1>5
  <2> HIDE DEF scopes
  <2>3. /\ scopes \in Seq(Nat)
        /\ \A k \in 1 .. Len(scopes) :
             scopes[k] \in DOMAIN lines /\ scopes[k] < i /\ IsLine(scopes[k], "begin")
        /\ \A j, k \in 1 .. Len(scopes) : j < k => scopes[j] < scopes[k]
    BY <2>2 DEF IsPath
  <2>4. \A k \in 1 .. Len(scopes) :
             scopes[k] \in DOMAIN lines' /\ lines'[scopes[k]].statement.name = "begin"
    BY <1>3, <2>3
  <2>5. QED
    BY <2>1, <2>3, <2>4 DEF IsPath, IsLine
<1>7. IsPath(activeScopes, Len(lines) + 1)'
  <2>1. /\ \A k \in 1 .. Len(activeScopes) :
             activeScopes[k] \in DOMAIN lines /\ activeScopes[k] < n /\ IsLine(activeScopes[k], "begin")
        /\ \A j, k \in 1 .. Len(activeScopes) : j < k => activeScopes[j] < activeScopes[k]
    BY <1>5 DEF IsPath
  <2>2. ASSUME NEW k \in 1 .. Len(activeScopes'), k > Len(activeScopes)
        PROVE  Opens /\ k = Len(activeScopes) + 1 /\ activeScopes'[k] = n
    BY <1>1, <2>2 DEF NewScopes
  <2>3. ASSUME NEW k \in 1 .. Len(activeScopes'), k <= Len(activeScopes)
        PROVE  k \in 1 .. Len(activeScopes) /\ activeScopes'[k] = activeScopes[k]
    BY <1>1, <2>3 DEF NewScopes
  <2>4. ASSUME NEW k \in 1 .. Len(activeScopes')
        PROVE  /\ activeScopes'[k] \in DOMAIN lines' /\ activeScopes'[k] < n + 1
               /\ lines'[activeScopes'[k]].statement.name = "begin"
    <3>1. CASE k <= Len(activeScopes)
      <4>1. /\ activeScopes'[k] \in DOMAIN lines /\ activeScopes'[k] < n
            /\ IsLine(activeScopes'[k], "begin")
        BY <2>1, <2>3, <3>1
      <4>2. QED
        BY <1>2, <1>3, <4>1
    <3>2. CASE k > Len(activeScopes)
      BY <1>2, <2>2, <3>2 DEF Opens
    <3>3. QED
      BY <1>1, <3>1, <3>2 DEF NewScopes
  <2>5. ASSUME NEW j \in 1 .. Len(activeScopes'), NEW k \in 1 .. Len(activeScopes'), j < k
        PROVE  activeScopes'[j] < activeScopes'[k]
    <3>1. CASE k <= Len(activeScopes)
      <4>1. j <= Len(activeScopes)
        BY <1>1, <2>5, <3>1 DEF NewScopes
      <4>2. QED
        BY <2>1, <2>3, <2>5, <3>1, <4>1
    <3>2. CASE k > Len(activeScopes)
      <4>1. activeScopes'[k] = n /\ j <= Len(activeScopes)
        BY <1>1, <2>2, <2>5, <3>2 DEF NewScopes
      <4>2. QED
        BY <2>1, <2>3, <4>1
    <3>3. QED
      BY <1>1, <3>1, <3>2 DEF NewScopes
  <2>6. activeScopes' \in Seq(Nat) /\ Len(lines)' + 1 = n + 1
    BY <1>1, <1>2 DEF NewScopes
  <2>7. QED
    BY <2>4, <2>5, <2>6 DEF IsPath, IsLine
<1>8. QED
  BY <1>6, <1>7 DEF PathInv

LEMMA TakeOpen ==
  ASSUME ShapeInv, PathInv, OpenInv, TakeStatement
  PROVE  OpenInv'
<1>1. NewLine /\ NewScopes /\ IsPath(activeScopes, Len(lines) + 1)
  BY LineAdded, ScopesAfter DEF PathInv
<1> DEFINE m == Len(activeScopes)
<1>2. PICK n \in Nat : n = Len(lines) + 1
  BY <1>1 DEF NewLine
<1>3. /\ Len(lines) \in Nat /\ Len(lines') = n /\ m \in Nat
      /\ lines'[n].activeScopes = activeScopes
      /\ \A i \in 1 .. Len(lines) : lines'[i].activeScopes = lines[i].activeScopes
  BY <1>1, <1>2 DEF NewLine, NewScopes
<1>4. ASSUME NEW k \in 1 .. Len(activeScopes'), NEW b, b = activeScopes'[k]
      PROVE  /\ Count(b, n, "begin")' = Count(b, n, "end")' + Len(activeScopes') - k + 1
             /\ \A f \in b .. n : Count(b, f, "begin")' > Count(b, f, "end")'
             /\ \A i \in b + 1 .. n : \E j \in 1 .. Len(lines'[i].activeScopes) :
                  lines'[i].activeScopes[j] = b
  <2>1. CASE k > m
    <3>1. Opens /\ ~Closing /\ k = m + 1 /\ Len(activeScopes') = m + 1 /\ b = n
      BY <1>1, <1>2, <1>4, <2>1 DEF NewScopes
    <3>2. Count(b, Len(lines), "begin") = 0 /\ Count(b, Len(lines), "end") = 0
      BY <1>2, <1>3, <3>1, CountOfNone
    <3>3. Count(b, n, "begin")' = 1 /\ Count(b, n, "end")' = 0
      BY <1>1, <1>2, <1>3, <3>1, <3>2, CountAdded DEF Opens
    <3>4. \A f \in b .. n : f = n
      BY <3>1, <1>2
    <3>5. \A i \in b + 1 .. n : FALSE
      BY <3>1, <1>2
    <3>6. QED
      BY <1>3, <3>1, <3>3, <3>4, <3>5
  <2>2. CASE k <= m
    <3>1. k \in 1 .. m /\ b = activeScopes[k]
      BY <1>1, <1>4, <2>2 DEF NewScopes
    <3>2. b \in 1 .. Len(lines)
      BY <1>1, <3>1 DEF IsPath, NewLine
    <3>3. /\ Count(b, Len(lines), "begin") = Count(b, Len(lines), "end") + m - k + 1
          /\ \A f \in b .. Len(lines) : Count(b, f, "begin") > Count(b, f, "end")
          /\ \A i \in b + 1 .. Len(lines) : IsIn(b, lines[i].activeScopes)
      BY <3>1 DEF OpenInv
    <3>4. Count(b, Len(lines), "begin") \in Nat /\ Count(b, Len(lines), "end") \in Nat
      BY <1>3, <3>2, CountIsNat
    <3>5. /\ Count(b, n, "begin")' = Count(b, Len(lines), "begin") + (IF Opens THEN 1 ELSE 0)
          /\ Count(b, n, "end")' = Count(b, Len(lines), "end") + (IF Closing THEN 1 ELSE 0)
      BY <1>1, <1>2, <1>3, <3>2, CountAdded DEF Opens, Closing
    <3>6. /\ Opens => ~Closing /\ Len(activeScopes') = m + 1
          /\ Closing => Len(activeScopes') = m - 1
          /\ ~Opens /\ ~Closing => Len(activeScopes') = m
      BY <1>1 DEF NewScopes
    <3>7. Count(b, n, "begin")' = Count(b, n, "end")' + Len(activeScopes') - k + 1
      <4>1. PICK x \in Nat, y \in Nat :
              x = Count(b, Len(lines), "begin") /\ y = Count(b, Len(lines), "end")
        BY <3>4
      <4>2. x = y + m - k + 1
        BY <3>3, <4>1
      <4> DEFINE x1 == Count(b, n, "begin")'
                 y1 == Count(b, n, "end")'
                 m1 == Len(activeScopes')
      <4>3. \/ x1 = x + 1 /\ y1 = y /\ m1 = m + 1
            \/ x1 = x /\ y1 = y + 1 /\ m1 = m - 1
            \/ x1 = x /\ y1 = y /\ m1 = m
        <5>1. CASE Opens
          BY <3>5, <3>6, <4>1, <5>1
        <5>2. CASE Closing /\ ~Opens
          BY <3>5, <3>6, <4>1, <5>2
        <5>3. CASE ~Opens /\ ~Closing
          BY <3>5, <3>6, <4>1, <5>3
        <5>4. QED
          BY <5>1, <5>2, <5>3
      <4>4. m \in Nat /\ k \in Nat
        BY <1>3, <3>1
      <4> HIDE DEF x1, y1, m1, m
      <4>5. x1 = y1 + m1 - k + 1
        BY <4>2, <4>3, <4>4
      <4>6. QED
        BY <4>5 DEF x1, y1, m1
    <3>8. ASSUME NEW f \in b .. n
          PROVE  Count(b, f, "begin")' > Count(b, f, "end")'
      <4>1. CASE f = n
        <5>1. Len(activeScopes') - k + 1 > 0 /\ Len(activeScopes') \in Nat
          BY <1>1, <1>4 DEF NewScopes
        <5>2. Count(b, n, "end")' \in Nat
          BY <3>4, <3>5
        <5>3. QED
          BY <3>1, <3>7, <4>1, <5>1, <5>2
      <4>2. CASE f # n
        <5>1. f \in Nat /\ f \in b .. Len(lines)
          BY <1>2, <1>3, <3>2, <4>2
        <5>2. /\ Count(b, f, "begin")' = Count(b, f, "begin")
              /\ Count(b, f, "end")' = Count(b, f, "end")
          BY <1>1, <1>3, <3>2, <5>1, CountKept
        <5>3. QED
          BY <3>3, <5>1, <5>2
      <4>3. QED
        BY <4>1, <4>2
    <3>9. ASSUME NEW i \in b + 1 .. n
          PROVE  \E j \in 1 .. Len(lines'[i].activeScopes) : lines'[i].activeScopes[j] = b
      <4>1. CASE i = n
        BY <1>3, <3>1, <4>1
      <4>2. CASE i # n
        <5>1. i \in b + 1 .. Len(lines) /\ i \in 1 .. Len(lines)
          BY <1>2, <1>3, <3>2, <4>2
        <5>2. IsIn(b, lines[i].activeScopes)
          BY <3>3, <5>1
        <5>3. lines'[i].activeScopes = lines[i].activeScopes
          BY <1>3, <5>1
        <5>4. QED
          BY <5>2, <5>3 DEF IsIn
      <4>3. QED
        BY <4>1, <4>2
    <3>10. QED
      BY <3>7, <3>8, <3>9
  <2>3. QED
    BY <1>1, <1>3, <2>1, <2>2 DEF NewScopes
<1>5. QED
  BY <1>3, <1>4 DEF OpenInv, IsIn

LEMMA TakeClosed ==
  ASSUME ShapeInv, PathInv, OpenInv, ClosedInv, TakeStatement
  PROVE  ClosedInv'
<1>1. NewLine /\ NewScopes /\ IsPath(activeScopes, Len(lines) + 1)
  BY LineAdded, ScopesAfter DEF PathInv
<1> DEFINE m == Len(activeScopes)
<1>2. PICK n \in Nat : n = Len(lines) + 1
  BY <1>1 DEF NewLine
<1>3. /\ Len(lines) \in Nat /\ DOMAIN lines = 1 .. Len(lines) /\ DOMAIN lines' = 1 .. n /\ m \in Nat
      /\ lines'[n].activeScopes = activeScopes /\ lines'[n].statement = Head(entities)
      /\ \A i \in 1 .. Len(lines) : /\ lines'[i].activeScopes = lines[i].activeScopes
                                    /\ lines'[i].statement = lines[i].statement
  BY <1>1, <1>2 DEF NewLine, NewScopes
<1>4. ASSUME NEW b \in 1 .. n, lines'[b].statement.name = "begin",
             ~ \E k \in 1 .. Len(activeScopes') : activeScopes'[k] = b
      PROVE  \E e \in 1 .. n : ClosedAt(b, e)'
  <2>1. b # n
    <3>1. CASE b = n
      <4>1. Opens
        BY <1>3, <1>4, <3>1 DEF Opens
      <4>2. activeScopes'[m + 1] = n /\ m + 1 \in 1 .. Len(activeScopes')
        BY <1>1, <1>2, <4>1 DEF NewScopes
      <4>3. QED
        BY <1>4, <3>1, <4>2
    <3>2. QED
      BY <3>1
  <2>2. b \in 1 .. Len(lines) /\ IsLine(b, "begin")
    <3>1. b \in 1 .. Len(lines)
      BY <1>2, <1>3, <2>1
    <3>2. QED
      BY <1>3, <1>4, <3>1 DEF IsLine
  <2>3. CASE IsIn(b, activeScopes)
    <3>1. PICK k \in 1 .. m : activeScopes[k] = b
      BY <2>3 DEF IsIn
    <3>2. Closing /\ ~Opens /\ k = m
      <4>1. ~(k \in 1 .. Len(activeScopes'))
        <5>1. k <= Len(activeScopes) /\ activeScopes[k] = b
          BY <1>3, <3>1
        <5>2. \A j \in 1 .. Len(activeScopes') :
                j <= Len(activeScopes) => activeScopes'[j] = activeScopes[j]
          BY <1>1 DEF NewScopes
        <5>3. QED
          BY <1>4, <5>1, <5>2
      <4>2. Len(activeScopes') < k
        BY <1>1, <3>1, <4>1 DEF NewScopes
      <4>3. Closing /\ ~Opens
        BY <1>1, <1>3, <3>1, <4>2 DEF NewScopes
      <4>4. QED
        BY <1>1, <1>3, <3>1, <4>2, <4>3 DEF NewScopes
    <3>3. /\ Count(b, Len(lines), "begin") = Count(b, Len(lines), "end") + m - k + 1
          /\ \A f \in b .. Len(lines) : Count(b, f, "begin") > Count(b, f, "end")
          /\ \A i \in b + 1 .. Len(lines) : IsIn(b, lines[i].activeScopes)
      BY <3>1 DEF OpenInv
    <3>4. /\ Count(b, n, "begin")' = Count(b, Len(lines), "begin") + 0
          /\ Count(b, n, "end")' = Count(b, Len(lines), "end") + 1
      BY <1>1, <1>2, <1>3, <2>2, <3>2, CountAdded DEF Opens, Closing
    <3>5. Count(b, n, "begin")' = Count(b, n, "end")'
      <4>1. Count(b, Len(lines), "begin") \in Nat /\ Count(b, Len(lines), "end") \in Nat
        BY <1>3, <2>2, CountIsNat
      <4>2. QED
        BY <1>3, <3>2, <3>3, <3>4, <4>1
    <3>6. ASSUME NEW f \in b + 1 .. n - 1
          PROVE  Count(b, f, "begin")' > Count(b, f, "end")'
      <4>1. f \in Nat /\ f <= Len(lines) /\ f \in b .. Len(lines)
        BY <1>2, <1>3, <2>2
      <4>2. /\ Count(b, f, "begin")' = Count(b, f, "begin")
            /\ Count(b, f, "end")' = Count(b, f, "end")
        BY <1>1, <1>3, <2>2, <4>1, CountKept
      <4>3. QED
        BY <3>3, <4>1, <4>2
    <3>7. Closes(b, n)'
      <4>1. n > b /\ lines'[n].statement.name = "end"
        BY <1>2, <1>3, <2>2, <3>2 DEF Closing
      <4>2. QED
        BY <3>5, <3>6, <4>1 DEF Closes, IsLine
    <3>8. ASSUME NEW i \in 1 .. n
          PROVE  IsIn(b, lines[i].activeScopes)' <=> b < i /\ i <= n
      <4>1. CASE i = n
        <5>1. IsIn(b, lines[i].activeScopes)'
          BY <1>3, <3>1, <4>1 DEF IsIn
        <5>2. QED
          BY <1>2, <1>3, <2>2, <4>1, <5>1
      <4>2. CASE i # n
        <5>1. i \in 1 .. Len(lines) /\ lines'[i].activeScopes = lines[i].activeScopes
          BY <1>2, <1>3, <4>2
        <5>2. IsIn(b, lines[i].activeScopes)' <=> IsIn(b, lines[i].activeScopes)
          BY <5>1 DEF IsIn
        <5>3. b < i => IsIn(b, lines[i].activeScopes)
          BY <1>3, <2>2, <3>3, <5>1
        <5>4. IsIn(b, lines[i].activeScopes) => b < i
          BY <1>3, <5>1 DEF PathInv, IsPath, IsIn
        <5>5. QED
          BY <5>2, <5>3, <5>4
      <4>3. QED
        BY <4>1, <4>2
    <3>9. ClosedAt(b, n)'
      BY <1>3, <3>7, <3>8 DEF ClosedAt
    <3>10. QED
      BY <1>2, <1>3, <3>9
  <2>4. CASE ~IsIn(b, activeScopes)
    <3>1. PICK e \in 1 .. Len(lines) : ClosedAt(b, e)
      BY <1>3, <2>2, <2>4 DEF ClosedInv
    <3>2. /\ e > b /\ IsLine(e, "end") /\ Count(b, e, "begin") = Count(b, e, "end")
          /\ \A f \in b + 1 .. e - 1 : Count(b, f, "begin") > Count(b, f, "end")
      BY <3>1 DEF ClosedAt, Closes
    <3>3. ASSUME NEW f \in b + 1 .. e
          PROVE  /\ Count(b, f, "begin")' = Count(b, f, "begin")
                 /\ Count(b, f, "end")' = Count(b, f, "end")
      <4>1. f \in Nat /\ f <= Len(lines)
        BY <1>3, <2>2, <3>1
      <4>2. QED
        BY <1>1, <1>3, <2>2, <4>1, CountKept
    <3>4. Closes(b, e)'
      <4>1. lines'[e].statement.name = "end"
        BY <1>3, <3>1, <3>2 DEF IsLine
      <4>2. Count(b, e, "begin")' = Count(b, e, "end")'
        BY <2>2, <3>1, <3>2, <3>3
      <4>3. \A f \in b + 1 .. e - 1 : Count(b, f, "begin")' > Count(b, f, "end")'
        BY <2>2, <3>1, <3>2, <3>3
      <4>4. QED
        BY <3>2, <4>1, <4>2, <4>3 DEF Closes, IsLine
    <3>5. ASSUME NEW i \in 1 .. n
          PROVE  IsIn(b, lines[i].activeScopes)' <=> b < i /\ i <= e
      <4>1. CASE i = n
        <5>1. ~IsIn(b, lines[i].activeScopes)'
          BY <1>3, <2>4, <4>1 DEF IsIn
        <5>2. QED
          BY <1>2, <1>3, <3>1, <4>1, <5>1
      <4>2. CASE i # n
        <5>1. i \in 1 .. Len(lines) /\ lines'[i].activeScopes = lines[i].activeScopes
          BY <1>2, <1>3, <4>2
        <5>2. IsIn(b, lines[i].activeScopes)' <=> IsIn(b, lines[i].activeScopes)
          BY <5>1 DEF IsIn
        <5>3. QED
          BY <1>3, <3>1, <5>1, <5>2 DEF ClosedAt
      <4>3. QED
        BY <4>1, <4>2
    <3>6. ClosedAt(b, e)'
      BY <1>3, <3>4, <3>5 DEF ClosedAt
    <3>7. QED
      BY <1>2, <1>3, <3>1, <3>6
  <2>5. QED
    BY <2>3, <2>4
<1>5. QED
  BY <1>3, <1>4 DEF ClosedInv, IsLine, IsIn

-----------------------------------------------------------------------------
(* The names of the scopes after a statement *)

\* What a scope knows after the labels in indices are entered.
Grown(before, after, indices) ==
  /\ DOMAIN after = DOMAIN before \cup {pendingLabels[j].name : j \in indices}
  /\ \A name \in DOMAIN before : after[name] = before[name]
  /\ \A j \in indices : /\ pendingLabels[j].name \notin DOMAIN before
                        /\ after[pendingLabels[j].name] = Len(lines) + 1
  /\ \A j, k \in indices : pendingLabels[j].name = pendingLabels[k].name => j = k

LEMMA LabelsAdded ==
  ASSUME NEW scope, NEW indices \in SUBSET DOMAIN pendingLabels, Fresh(scope, indices),
         NEW after, after = WithLabels(scope, indices)
  PROVE  Grown(scope, after, indices)
<1> DEFINE known == DOMAIN scope \cup {pendingLabels[j].name : j \in indices}
<1>1. after = [name \in known |-> IF name \in DOMAIN scope THEN scope[name] ELSE Len(lines) + 1]
  BY DEF WithLabels
<1>2. /\ \A j \in indices : pendingLabels[j].name \notin DOMAIN scope
      /\ \A j, k \in indices : pendingLabels[j].name = pendingLabels[k].name => j = k
  BY DEF Fresh
<1>3. /\ \A name \in DOMAIN scope : name \in known
      /\ \A j \in indices : pendingLabels[j].name \in known
  OBVIOUS
<1> HIDE DEF known
<1>4. /\ DOMAIN after = known
      /\ \A name \in DOMAIN scope : after[name] = scope[name]
      /\ \A j \in indices : after[pendingLabels[j].name] = Len(lines) + 1
  BY <1>1, <1>2, <1>3
<1>5. QED
  BY <1>2, <1>4 DEF known, Grown

\* The scope the j-th waiting label goes to.
Target(j) == IF GoesToGlobal(pendingLabels[j]) THEN 0 ELSE activeScopes[Len(activeScopes)]

GoingTo(s) == {j \in DOMAIN pendingLabels : Target(j) = s}

LEMMA NamesAdded ==
  ASSUME ShapeInv, PathInv, TakeStatement
  PROVE  /\ \A s \in {0} \cup DOMAIN lines : Grown(Names(s), Names(s)', GoingTo(s))
         /\ \A j \in DOMAIN pendingLabels : Target(j) \in {0} \cup DOMAIN lines
<1> DEFINE last == activeScopes[Len(activeScopes)]
<1>1. NewLine /\ LabelsFresh /\ globalToLine' = WithLabels(globalToLine, IntoGlobal)
  BY LineAdded DEF TakeStatement
<1>2. Len(lines) \in Nat /\ DOMAIN lines = 1 .. Len(lines)
  BY <1>1 DEF NewLine
<1>3. activeScopes # << >> => Last(activeScopes) = last /\ last \in DOMAIN lines
  BY LastIn DEF PathInv
<1>4. /\ IntoGlobal = {j \in DOMAIN pendingLabels : GoesToGlobal(pendingLabels[j])}
      /\ IntoScope = {j \in DOMAIN pendingLabels : ~GoesToGlobal(pendingLabels[j])}
      /\ activeScopes = << >> => \A j \in DOMAIN pendingLabels : GoesToGlobal(pendingLabels[j])
  BY DEF IntoGlobal, IntoScope, GoesToGlobal
<1>5. Fresh(globalToLine, IntoGlobal) /\ Fresh(OpenNames, IntoScope)
  BY <1>1 DEF LabelsFresh
<1>6. Grown(Names(0), Names(0)', GoingTo(0))
  <2>1. GoingTo(0) = IntoGlobal
    BY <1>2, <1>3, <1>4 DEF GoingTo, Target
  <2>2. IntoGlobal \in SUBSET DOMAIN pendingLabels
    BY <1>4
  <2>3. Grown(globalToLine, globalToLine', IntoGlobal)
    BY <1>1, <1>5, <2>2, LabelsAdded
  <2>4. QED
    BY <2>1, <2>3 DEF Names
<1>7. ASSUME NEW s \in DOMAIN lines
      PROVE  Grown(Names(s), Names(s)', GoingTo(s))
  <2>1. s # 0 /\ s \in 1 .. Len(lines)
    BY <1>2
  <2>2. Names(s) = lines[s].scopedLocals /\ Names(s)' = lines'[s].scopedLocals
    BY <2>1 DEF Names
  <2>3. CASE activeScopes # << >> /\ s = last
    <3>1. GoingTo(s) = IntoScope
      BY <1>3, <1>4, <2>1, <2>3 DEF GoingTo, Target
    <3>2. OpenNames = lines[s].scopedLocals
      BY <1>3, <2>3 DEF OpenNames
    <3>3. lines'[s].scopedLocals = WithLabels(lines[s].scopedLocals, IntoScope)
      BY <1>1, <2>1, <2>3 DEF NewLine
    <3>4. IntoScope \in SUBSET DOMAIN pendingLabels
      BY <1>4
    <3>5. Grown(lines[s].scopedLocals, lines'[s].scopedLocals, IntoScope)
      <4> DEFINE before == lines[s].scopedLocals
                 after == lines'[s].scopedLocals
      <4>1. Fresh(before, IntoScope) /\ after = WithLabels(before, IntoScope)
        BY <1>5, <3>2, <3>3
      <4> HIDE DEF before, after
      <4>3. Grown(before, after, IntoScope)
        BY <3>4, <4>1, LabelsAdded
      <4>4. QED
        BY <4>3 DEF before, after
    <3>6. QED
      BY <2>2, <3>1, <3>5
  <2>4. CASE ~(activeScopes # << >> /\ s = last)
    <3>1. GoingTo(s) = {}
      BY <1>4, <2>1, <2>4 DEF GoingTo, Target
    <3>2. lines'[s].scopedLocals = lines[s].scopedLocals
      BY <1>1, <2>1, <2>4 DEF NewLine
    <3>3. Grown(lines[s].scopedLocals, lines'[s].scopedLocals, {})
      BY <3>2 DEF Grown
    <3>4. QED
      BY <2>2, <3>1, <3>3
  <2>5. QED
    BY <2>3, <2>4
<1>8. \A j \in DOMAIN pendingLabels : Target(j) \in {0} \cup DOMAIN lines
  BY <1>3, <1>4 DEF Target
<1>9. QED
  BY <1>6, <1>7, <1>8

LEMMA TakeNames ==
  ASSUME ShapeInv, PathInv, NamesInv, TakeStatement
  PROVE  NamesInv'
<1> DEFINE After(label, i) ==
             IF label.exported \/ lines'[i].activeScopes = << >> THEN 0
             ELSE lines'[i].activeScopes[Len(lines'[i].activeScopes)]
           Known(s) == IF s = 0 THEN globalToLine' ELSE lines'[s].scopedLocals
<1>1. NewLine
  BY LineAdded
<1>n. PICK n \in Nat : n = Len(lines) + 1
  BY <1>1 DEF NewLine
<1>2. /\ Len(lines) \in Nat /\ DOMAIN lines = 1 .. Len(lines) /\ DOMAIN lines' = 1 .. n
      /\ lines'[n].labels = pendingLabels /\ lines'[n].activeScopes = activeScopes
      /\ lines'[n].scopedLocals = NoLabels
      /\ \A i \in 1 .. Len(lines) : /\ lines'[i].labels = lines[i].labels
                                    /\ lines'[i].activeScopes = lines[i].activeScopes
  BY <1>1, <1>n DEF NewLine
<1>3. /\ \A s \in {0} \cup DOMAIN lines : Grown(Names(s), Known(s), GoingTo(s))
      /\ \A j \in DOMAIN pendingLabels : Target(j) \in {0} \cup DOMAIN lines
  <2>1. \A s : Names(s)' = Known(s)
    BY DEF Names
  <2> HIDE DEF Known
  <2>2. \A s \in {0} \cup DOMAIN lines : Grown(Names(s), Names(s)', GoingTo(s))
    BY NamesAdded
  <2>3. ASSUME NEW s \in {0} \cup DOMAIN lines
        PROVE  Grown(Names(s), Known(s), GoingTo(s))
    <3>1. Names(s)' = Known(s)
      BY <2>1
    <3>2. Grown(Names(s), Names(s)', GoingTo(s))
      BY <2>2
    <3>3. QED
      BY <3>1, <3>2 DEF Grown
  <2>4. QED
    BY <2>3, NamesAdded
<1>4. ASSUME NEW i \in DOMAIN lines, NEW j \in DOMAIN lines[i].labels
      PROVE  /\ lines'[i].labels[j] = lines[i].labels[j] /\ j \in DOMAIN lines'[i].labels
             /\ After(lines[i].labels[j], i) = BlockOf(lines[i].labels[j], i)
  BY <1>2 DEF BlockOf
<1>5. ASSUME NEW j \in DOMAIN pendingLabels
      PROVE  /\ lines'[n].labels[j] = pendingLabels[j] /\ j \in DOMAIN lines'[n].labels
             /\ After(pendingLabels[j], n) = Target(j)
  BY <1>2 DEF Target, GoesToGlobal
<1>6. ASSUME NEW i \in DOMAIN lines, NEW j \in DOMAIN lines[i].labels
      PROVE  BlockOf(lines[i].labels[j], i) \in {0} \cup DOMAIN lines
  <2>1. IsPath(lines[i].activeScopes, i)
    BY DEF PathInv
  <2>2. lines[i].activeScopes # << >> =>
          lines[i].activeScopes[Len(lines[i].activeScopes)] \in DOMAIN lines
    <3>1. lines[i].activeScopes \in Seq(Nat)
      BY <2>1 DEF IsPath
    <3>2. QED
      BY <2>1, <3>1 DEF IsPath
  <2>3. QED
    BY <2>2 DEF BlockOf
<1>0. ASSUME NEW i \in DOMAIN lines', NEW j \in DOMAIN lines'[i].labels
      PROVE  (i = n /\ j \in DOMAIN pendingLabels) \/ (i \in DOMAIN lines /\ j \in DOMAIN lines[i].labels)
  BY <1>2, <1>n
<1> HIDE DEF After, Known
<1>7. ASSUME NEW i \in DOMAIN lines', NEW j \in DOMAIN lines'[i].labels, NEW label,
             label = lines'[i].labels[j], NEW s, s = After(label, i)
      PROVE  label.name \in DOMAIN Known(s) /\ Known(s)[label.name] = i
  <2>1. CASE i = n /\ j \in DOMAIN pendingLabels
    <3>1. label = pendingLabels[j] /\ s = Target(j)
      BY <1>5, <1>7, <2>1
    <3>2. j \in GoingTo(s) /\ Grown(Names(s), Known(s), GoingTo(s))
      BY <1>3, <2>1, <3>1 DEF GoingTo
    <3>3. QED
      BY <1>n, <2>1, <3>1, <3>2 DEF Grown
  <2>2. CASE i \in DOMAIN lines /\ j \in DOMAIN lines[i].labels
    <3>1. label = lines[i].labels[j] /\ s = BlockOf(label, i) /\ s \in {0} \cup DOMAIN lines
      BY <1>4, <1>6, <1>7, <2>2
    <3>2. label.name \in DOMAIN Names(s) /\ Names(s)[label.name] = i
      BY <2>2, <3>1 DEF NamesInv
    <3>3. Grown(Names(s), Known(s), GoingTo(s))
      BY <1>3, <3>1
    <3>4. QED
      BY <3>2, <3>3 DEF Grown
  <2>3. QED
    BY <1>0, <2>1, <2>2
<1>8. ASSUME NEW s \in {0} \cup DOMAIN lines', NEW name \in DOMAIN Known(s)
      PROVE  \E i \in DOMAIN lines' : \E j \in DOMAIN lines'[i].labels :
               lines'[i].labels[j].name = name /\ After(lines'[i].labels[j], i) = s
  <2>1. CASE s = n
    <3>1. Known(s) = NoLabels
      BY <1>2, <1>n, <2>1 DEF Known
    <3>2. DOMAIN NoLabels = {}
      BY DEF NoLabels
    <3>3. QED
      BY <3>1, <3>2
  <2>2. CASE s # n
    <3>1. s \in {0} \cup DOMAIN lines
      BY <1>2, <1>n, <2>2
    <3>2. Grown(Names(s), Known(s), GoingTo(s))
      BY <1>3, <3>1
    <3>3. CASE name \in DOMAIN Names(s)
      <4>0. PICK i \in DOMAIN lines : \E j \in DOMAIN lines[i].labels :
              lines[i].labels[j].name = name /\ BlockOf(lines[i].labels[j], i) = s
        BY <3>1, <3>3 DEF NamesInv
      <4>1. PICK j \in DOMAIN lines[i].labels :
              lines[i].labels[j].name = name /\ BlockOf(lines[i].labels[j], i) = s
        BY <4>0
      <4>2. i \in DOMAIN lines'
        BY <1>2, <1>n
      <4>3. QED
        BY <1>4, <4>1, <4>2
    <3>4. CASE name \notin DOMAIN Names(s)
      <4>1. PICK j \in GoingTo(s) : pendingLabels[j].name = name
        BY <3>2, <3>4 DEF Grown
      <4>2. j \in DOMAIN pendingLabels /\ Target(j) = s
        BY DEF GoingTo
      <4>3. n \in DOMAIN lines'
        BY <1>2, <1>n
      <4>4. QED
        BY <1>5, <4>1, <4>2, <4>3
    <3>5. QED
      BY <3>3, <3>4
  <2>3. QED
    BY <2>1, <2>2
<1>9. ASSUME NEW i \in DOMAIN lines', NEW j \in DOMAIN lines'[i].labels,
             NEW k \in DOMAIN lines'[i].labels,
             lines'[i].labels[j].name = lines'[i].labels[k].name,
             After(lines'[i].labels[j], i) = After(lines'[i].labels[k], i)
      PROVE  j = k
  <2>1. CASE i = n /\ j \in DOMAIN pendingLabels
    <3>1. k \in DOMAIN pendingLabels
      BY <1>2, <2>1
    <3>2. /\ pendingLabels[j].name = pendingLabels[k].name
          /\ Target(j) = Target(k) /\ Target(j) \in {0} \cup DOMAIN lines
      BY <1>3, <1>5, <1>9, <2>1, <3>1
    <3>3. j \in GoingTo(Target(j)) /\ k \in GoingTo(Target(j))
      BY <2>1, <3>1, <3>2 DEF GoingTo
    <3>4. Grown(Names(Target(j)), Known(Target(j)), GoingTo(Target(j)))
      BY <1>3, <3>2
    <3>5. QED
      BY <3>2, <3>3, <3>4 DEF Grown
  <2>2. CASE i \in DOMAIN lines /\ j \in DOMAIN lines[i].labels
    <3>1. k \in DOMAIN lines[i].labels
      BY <1>2, <2>2
    <3>2. /\ lines[i].labels[j].name = lines[i].labels[k].name
          /\ BlockOf(lines[i].labels[j], i) = BlockOf(lines[i].labels[k], i)
      BY <1>4, <1>9, <2>2, <3>1
    <3>3. QED
      BY <2>2, <3>1, <3>2 DEF NamesInv
  <2>3. QED
    BY <1>0, <2>1, <2>2
<1>10. ASSUME NEW i \in DOMAIN lines', NEW j \in DOMAIN lines'[i].labels
       PROVE  /\ lines'[i].labels[j].name \in DOMAIN Known(After(lines'[i].labels[j], i))
              /\ Known(After(lines'[i].labels[j], i))[lines'[i].labels[j].name] = i
  BY <1>7
<1>11. QED
  BY <1>8, <1>9, <1>10 DEF NamesInv, BlockOf, Names, After, Known

-----------------------------------------------------------------------------
(* The invariant *)

LEMMA InitInv == Init => IInv
<1> SUFFICES ASSUME Init
             PROVE  IInv
  OBVIOUS
<1>1. /\ lines = << >> /\ pendingLabels = << >> /\ activeScopes = << >>
      /\ globalToLine = NoLabels /\ status = "reading"
  BY DEF Init
<1>2. Len(lines) = 0 /\ DOMAIN lines = {} /\ Len(activeScopes) = 0 /\ activeScopes \in Seq(Nat)
  BY <1>1
<1>3. IsSeq(lines) /\ IsSeq(pendingLabels)
  BY <1>1 DEF IsSeq
<1>4. ShapeInv
  BY <1>2, <1>3 DEF ShapeInv
<1>5. PathInv
  BY <1>2 DEF PathInv, IsPath
<1>6. OpenInv
  BY <1>2 DEF OpenInv
<1>7. ClosedInv
  BY <1>2 DEF ClosedInv
<1>8. NamesInv
  <2>1. DOMAIN Names(0) = {}
    BY <1>1 DEF Names, NoLabels
  <2>2. QED
    BY <1>2, <2>1 DEF NamesInv
<1>9. LoadedInv
  BY <1>1 DEF LoadedInv
<1>10. QED
  BY <1>4, <1>5, <1>6, <1>7, <1>8, <1>9 DEF IInv

\* What the lines, the open scopes and the global names say stays.
LEMMA LinesKept ==
  ASSUME ShapeInv, PathInv, OpenInv, ClosedInv, NamesInv,
         UNCHANGED <<lines, activeScopes, globalToLine>>
  PROVE  PathInv' /\ OpenInv' /\ ClosedInv' /\ NamesInv'
<1>1. lines' = lines /\ activeScopes' = activeScopes /\ globalToLine' = globalToLine
  OBVIOUS
<1>0. ASSUME NEW b, NEW e, NEW name
      PROVE  Count(b, e, name)' = Count(b, e, name)
  BY <1>1 DEF Count, IsLine
<1>2. PathInv'
  BY <1>1 DEF PathInv, IsPath, IsLine
<1>3. OpenInv'
  <2>1. PICK n \in Nat : n = Len(lines)
    BY SeqIs DEF ShapeInv
  <2>2. ASSUME NEW k \in 1 .. Len(activeScopes'), NEW b, b = activeScopes'[k]
        PROVE  /\ Count(b, n, "begin")' = Count(b, n, "end")' + Len(activeScopes') - k + 1
               /\ \A f \in b .. n : Count(b, f, "begin")' > Count(b, f, "end")'
               /\ \A i \in b + 1 .. n : \E j \in 1 .. Len(lines'[i].activeScopes) :
                    lines'[i].activeScopes[j] = b
    <3>1. /\ Count(b, n, "begin") = Count(b, n, "end") + Len(activeScopes) - k + 1
          /\ \A f \in b .. n : Count(b, f, "begin") > Count(b, f, "end")
          /\ \A i \in b + 1 .. n : IsIn(b, lines[i].activeScopes)
      BY <1>1, <2>1, <2>2 DEF OpenInv
    <3>2. QED
      BY <1>0, <1>1, <3>1 DEF IsIn
  <2>3. Len(lines') = n
    BY <1>1, <2>1
  <2>4. QED
    BY <2>2, <2>3 DEF OpenInv, IsIn
<1>4. ClosedInv'
  <2>1. ASSUME NEW b, NEW e
        PROVE  ClosedAt(b, e) => ClosedAt(b, e)'
    <3>1. Closes(b, e) => Closes(b, e)'
      BY <1>0, <1>1 DEF Closes, IsLine
    <3>2. QED
      BY <1>1, <3>1 DEF ClosedAt, IsIn
  <2>2. ASSUME NEW b \in DOMAIN lines', IsLine(b, "begin")', ~IsIn(b, activeScopes)'
        PROVE  \E e \in DOMAIN lines' : ClosedAt(b, e)'
    <3>1. PICK e \in DOMAIN lines : ClosedAt(b, e)
      BY <1>1, <2>2 DEF ClosedInv, IsLine, IsIn
    <3>2. QED
      BY <1>1, <2>1, <3>1
  <2>3. QED
    BY <2>2 DEF ClosedInv, IsLine, IsIn
<1>5. NamesInv'
  BY <1>1 DEF NamesInv, Names, BlockOf
<1>6. QED
  BY <1>2, <1>3, <1>4, <1>5

LEMMA NextInv ==
  ASSUME IInv, [Next]_vars
  PROVE  IInv'
<1> USE DEF IInv
<1>1. CASE ReadLine
  <2>1. /\ UNCHANGED <<lines, pendingLabels, activeScopes, globalToLine>>
        /\ status' # "loaded"
    BY <1>1 DEF ReadLine, module
  <2>2. ShapeInv'
    BY <2>1 DEF ShapeInv, IsSeq
  <2>3. LoadedInv'
    BY <2>1 DEF LoadedInv
  <2>4. QED
    BY <2>1, <2>2, <2>3, LinesKept
<1>2. CASE TakeLabel
  <2>1. /\ UNCHANGED <<lines, activeScopes, globalToLine>>
        /\ pendingLabels' = Append(pendingLabels, Head(entities))
        /\ status' # "loaded"
    BY <1>2 DEF TakeLabel, NextIs
  <2>2. ShapeInv'
    <3> DEFINE t == Append(pendingLabels, Head(entities))
    <3>1. IsSeq(t)
      <4>1. IsSeq(pendingLabels)
        BY DEF ShapeInv
      <4>2. QED
        BY <4>1, AppendSeq
    <3> HIDE DEF t
    <3>2. pendingLabels' = t
      BY <2>1 DEF t
    <3>3. QED
      BY <2>1, <3>1, <3>2 DEF ShapeInv, IsSeq
  <2>3. LoadedInv'
    BY <2>1 DEF LoadedInv
  <2>4. QED
    BY <2>1, <2>2, <2>3, LinesKept
<1>3. CASE TakeStatement
  <2>1. status' # "loaded"
    BY <1>3 DEF TakeStatement, IsStatement, NextIs
  <2>2. LoadedInv'
    BY <2>1 DEF LoadedInv
  <2>3. QED
    BY <1>3, <2>2, LineAdded, TakePath, TakeOpen, TakeClosed, TakeNames
<1>4. CASE RefuseStatement
  <2>1. UNCHANGED <<lines, pendingLabels, activeScopes, globalToLine>> /\ status' # "loaded"
    BY <1>4 DEF RefuseStatement, module
  <2>2. ShapeInv'
    BY <2>1 DEF ShapeInv, IsSeq
  <2>3. LoadedInv'
    BY <2>1 DEF LoadedInv
  <2>4. QED
    BY <2>1, <2>2, <2>3, LinesKept
<1>5. CASE EndFile
  <2>1. UNCHANGED <<lines, pendingLabels, activeScopes, globalToLine, moduleName>>
    BY <1>5 DEF EndFile
  <2>2. ShapeInv'
    BY <2>1 DEF ShapeInv, IsSeq
  <2>3. LoadedInv'
    <3> DEFINE borrowed == UNION {Borrowed(lines[i]) :
                                    i \in {j \in DOMAIN lines : lines[j].statement.name = "equ"}}
    <3>1. status' = "loaded" => activeScopes = << >> /\ dependencies' = borrowed
      BY <1>5 DEF EndFile
    <3>2. borrowed' = borrowed
      BY <2>1 DEF Borrowed, ExternalNamesReferenced, IsLocal, LocalIndex, KnownAt, ScopePath, Names
    <3> HIDE DEF borrowed
    <3>3. status' = "loaded" => activeScopes' = << >> /\ dependencies' = borrowed'
      BY <2>1, <3>1, <3>2
    <3>4. QED
      BY <3>3 DEF LoadedInv, borrowed
  <2>4. QED
    BY <2>1, <2>2, <2>3, LinesKept
<1>6. CASE UNCHANGED vars
  <2>1. UNCHANGED <<lines, pendingLabels, activeScopes, globalToLine, moduleName, dependencies, status>>
    BY <1>6 DEF vars, module
  <2>2. ShapeInv'
    BY <2>1 DEF ShapeInv, IsSeq
  <2>3. LoadedInv'
    <3> DEFINE borrowed == UNION {Borrowed(lines[i]) :
                                    i \in {j \in DOMAIN lines : lines[j].statement.name = "equ"}}
    <3>1. borrowed' = borrowed
      BY <2>1 DEF Borrowed, ExternalNamesReferenced, IsLocal, LocalIndex, KnownAt, ScopePath, Names
    <3>2. status = "loaded" => activeScopes = << >> /\ dependencies = borrowed
      BY DEF LoadedInv
    <3> HIDE DEF borrowed
    <3>3. status' = "loaded" => activeScopes' = << >> /\ dependencies' = borrowed'
      BY <2>1, <3>1, <3>2
    <3>4. QED
      BY <3>3 DEF LoadedInv, borrowed
  <2>4. QED
    BY <2>1, <2>2, <2>3, LinesKept
<1>7. QED
  BY <1>1, <1>2, <1>3, <1>4, <1>5, <1>6 DEF Next, Finished

-----------------------------------------------------------------------------
(* The scopes of a line are the blocks around it *)

\* Once no block is open, matching braces end a block where its scope ends.
LEMMA EndsWithScope ==
  ASSUME ShapeInv, ClosedInv, activeScopes = << >>, NEW b \in DOMAIN lines, IsLine(b, "begin")
  PROVE  ClosedAt(b, Ends(b))
<1>1. DOMAIN lines = 1 .. Len(lines) /\ Len(lines) \in Nat
  BY SeqIs DEF ShapeInv
<1>2. ~IsIn(b, activeScopes)
  <2>1. Len(activeScopes) = 0
    OBVIOUS
  <2>2. QED
    BY <2>1 DEF IsIn
<1>3. PICK e \in DOMAIN lines : ClosedAt(b, e)
  BY <1>2 DEF ClosedInv
<1>4. Ends(b) \in DOMAIN lines /\ Closes(b, Ends(b))
  BY <1>3 DEF Ends, ClosedAt
<1>5. ASSUME NEW f \in DOMAIN lines, NEW g \in DOMAIN lines, Closes(b, f), Closes(b, g), f < g
      PROVE  FALSE
  <2>1. f \in b + 1 .. g - 1
    BY <1>1, <1>5 DEF Closes
  <2>2. Count(b, f, "begin") > Count(b, f, "end") /\ Count(b, f, "begin") = Count(b, f, "end")
    BY <1>5, <2>1 DEF Closes
  <2>3. Count(b, f, "begin") \in Nat /\ Count(b, f, "end") \in Nat
    BY <1>1, CountIsNat
  <2>4. QED
    BY <2>2, <2>3
<1>6. Ends(b) = e
  BY <1>1, <1>3, <1>4, <1>5 DEF ClosedAt
<1>7. QED
  BY <1>3, <1>6

LEMMA BlocksAreScopes ==
  ASSUME ShapeInv, PathInv, ClosedInv, activeScopes = << >>, NEW i \in DOMAIN lines, NEW b
  PROVE  b \in BlocksAround(i) <=> IsIn(b, lines[i].activeScopes)
<1>1. DOMAIN lines = 1 .. Len(lines) /\ Len(lines) \in Nat
  BY SeqIs DEF ShapeInv
<1>2. ASSUME b \in BlocksAround(i)
      PROVE  IsIn(b, lines[i].activeScopes)
  <2>1. b \in DOMAIN lines /\ b < i /\ IsLine(b, "begin") /\ i <= Ends(b)
    BY <1>1, <1>2 DEF BlocksAround
  <2>2. ClosedAt(b, Ends(b))
    BY <2>1, EndsWithScope
  <2>3. QED
    BY <2>1, <2>2 DEF ClosedAt
<1>3. ASSUME IsIn(b, lines[i].activeScopes)
      PROVE  b \in BlocksAround(i)
  <2>1. b \in DOMAIN lines /\ b < i /\ IsLine(b, "begin")
    BY <1>3 DEF PathInv, IsPath, IsIn
  <2>2. ClosedAt(b, Ends(b))
    BY <2>1, EndsWithScope
  <2>3. i <= Ends(b)
    BY <1>3, <2>2 DEF ClosedAt
  <2>4. QED
    BY <1>1, <2>1, <2>3 DEF BlocksAround
<1>4. QED
  BY <1>2, <1>3

LEMMA InnermostIsLast ==
  ASSUME ShapeInv, PathInv, ClosedInv, activeScopes = << >>, NEW i \in DOMAIN lines
  PROVE  InnermostBlock(i) = IF lines[i].activeScopes = << >> THEN 0
                             ELSE lines[i].activeScopes[Len(lines[i].activeScopes)]
<1> DEFINE scopes == lines[i].activeScopes
           blocks == BlocksAround(i)
<1>1. /\ scopes \in Seq(Nat) /\ Len(scopes) \in Nat
      /\ \A j, k \in 1 .. Len(scopes) : j < k => scopes[j] < scopes[k]
      /\ \A k \in 1 .. Len(scopes) : scopes[k] \in Nat
  BY DEF PathInv, IsPath
<1>2. i \in Nat /\ i >= 1 /\ blocks \in SUBSET (1 .. i - 1)
  BY SeqIs DEF ShapeInv, BlocksAround
<1>3. \A b : b \in blocks <=> IsIn(b, scopes)
  BY BlocksAreScopes
<1>4. InnermostBlock(i) = IF blocks = {} THEN 0 ELSE Max(blocks)
  BY DEF InnermostBlock
<1> HIDE DEF scopes, blocks
<1>5. CASE scopes = << >>
  <2>1. blocks = {}
    BY <1>3, <1>5 DEF IsIn
  <2>2. QED
    BY <1>4, <1>5, <2>1 DEF scopes
<1>6. CASE scopes # << >>
  <2>1. Len(scopes) > 0 /\ Len(scopes) \in 1 .. Len(scopes)
    BY <1>1, <1>6
  <2>2. scopes[Len(scopes)] \in blocks
    BY <1>3, <2>1 DEF IsIn
  <2>3. Max(blocks) \in blocks /\ \A b \in blocks : b <= Max(blocks)
    <3>1. i - 1 \in Nat /\ blocks # {}
      BY <1>2, <2>2
    <3>2. QED
      BY <1>2, <3>1, GreatestElement
  <2>4. PICK k \in 1 .. Len(scopes) : scopes[k] = Max(blocks)
    BY <1>3, <2>3 DEF IsIn
  <2>5. k = Len(scopes)
    <3>1. scopes[Len(scopes)] <= scopes[k]
      BY <2>2, <2>3, <2>4
    <3>2. k < Len(scopes) => scopes[k] < scopes[Len(scopes)]
      BY <1>1, <2>1
    <3>3. scopes[k] \in Nat /\ scopes[Len(scopes)] \in Nat
      BY <1>1, <2>1
    <3>4. QED
      BY <1>1, <3>1, <3>2, <3>3
  <2>6. QED
    BY <1>4, <1>6, <2>2, <2>4, <2>5 DEF scopes
<1>7. QED
  BY <1>5, <1>6

\* The definitions are what the scopes know, each once.
LEMMA DefinitionsKnown ==
  ASSUME IInv, activeScopes = << >>
  PROVE  /\ \A d \in Definitions :
              /\ d.line \in DOMAIN lines /\ d.block \in {0} \cup DOMAIN lines
              /\ d.name \in DOMAIN Names(d.block) /\ Names(d.block)[d.name] = d.line
         /\ \A s \in {0} \cup DOMAIN lines : \A name \in DOMAIN Names(s) :
              \E d \in Definitions : d.name = name /\ d.block = s
         /\ \A d, e \in Definitions : d.name = e.name /\ d.block = e.block => d = e
<1>1. ASSUME NEW i \in DOMAIN lines, NEW j \in DOMAIN lines[i].labels
      PROVE  /\ Definition(i, j) \in Definitions
             /\ Definition(i, j) = [name |-> lines[i].labels[j].name, line |-> i, place |-> j,
                                    block |-> BlockOf(lines[i].labels[j], i)]
  <2>1. Definition(i, j) \in Definitions
    BY DEF Definitions
  <2>2. InnermostBlock(i) = IF lines[i].activeScopes = << >> THEN 0
                            ELSE lines[i].activeScopes[Len(lines[i].activeScopes)]
    BY InnermostIsLast DEF IInv
  <2>3. (IF lines[i].labels[j].exported THEN 0 ELSE InnermostBlock(i))
          = BlockOf(lines[i].labels[j], i)
    BY <2>2 DEF BlockOf
  <2>4. QED
    BY <2>1, <2>3 DEF Definition
<1>2. ASSUME NEW d \in Definitions
      PROVE  \E i \in DOMAIN lines : \E j \in DOMAIN lines[i].labels :
               d = [name |-> lines[i].labels[j].name, line |-> i, place |-> j,
                    block |-> BlockOf(lines[i].labels[j], i)]
  <2>1. PICK i \in DOMAIN lines : \E j \in DOMAIN lines[i].labels : d = Definition(i, j)
    BY DEF Definitions
  <2>2. PICK j \in DOMAIN lines[i].labels : d = Definition(i, j)
    BY <2>1
  <2>3. QED
    BY <1>1, <2>2
<1>3. ASSUME NEW i \in DOMAIN lines, NEW j \in DOMAIN lines[i].labels
      PROVE  BlockOf(lines[i].labels[j], i) \in {0} \cup DOMAIN lines
  <2>1. IsPath(lines[i].activeScopes, i)
    BY DEF IInv, PathInv
  <2>2. lines[i].activeScopes \in Seq(Nat)
    BY <2>1 DEF IsPath
  <2>3. QED
    BY <2>1, <2>2 DEF BlockOf, IsPath
<1>4. ASSUME NEW d \in Definitions
      PROVE  /\ d.line \in DOMAIN lines /\ d.block \in {0} \cup DOMAIN lines
             /\ d.name \in DOMAIN Names(d.block) /\ Names(d.block)[d.name] = d.line
  <2>1. PICK i \in DOMAIN lines : \E j \in DOMAIN lines[i].labels :
               d = [name |-> lines[i].labels[j].name, line |-> i, place |-> j,
                    block |-> BlockOf(lines[i].labels[j], i)]
    BY <1>2
  <2>2. PICK j \in DOMAIN lines[i].labels :
               d = [name |-> lines[i].labels[j].name, line |-> i, place |-> j,
                    block |-> BlockOf(lines[i].labels[j], i)]
    BY <2>1
  <2>3. d.name = lines[i].labels[j].name /\ d.line = i /\ d.block = BlockOf(lines[i].labels[j], i)
    BY <2>2
  <2>4. /\ lines[i].labels[j].name \in DOMAIN Names(BlockOf(lines[i].labels[j], i))
        /\ Names(BlockOf(lines[i].labels[j], i))[lines[i].labels[j].name] = i
    BY DEF IInv, NamesInv
  <2>5. QED
    BY <1>3, <2>3, <2>4
<1>5. ASSUME NEW s \in {0} \cup DOMAIN lines, NEW name \in DOMAIN Names(s)
      PROVE  \E d \in Definitions : d.name = name /\ d.block = s
  <2>1. PICK i \in DOMAIN lines : \E j \in DOMAIN lines[i].labels :
          lines[i].labels[j].name = name /\ BlockOf(lines[i].labels[j], i) = s
    BY DEF IInv, NamesInv
  <2>2. PICK j \in DOMAIN lines[i].labels :
          lines[i].labels[j].name = name /\ BlockOf(lines[i].labels[j], i) = s
    BY <2>1
  <2>3. QED
    BY <1>1, <2>2
<1>6. ASSUME NEW d \in Definitions, NEW e \in Definitions, d.name = e.name, d.block = e.block
      PROVE  d = e
  <2>1. d.line = e.line
    BY <1>4, <1>6
  <2>2. PICK i \in DOMAIN lines : \E j \in DOMAIN lines[i].labels :
               d = [name |-> lines[i].labels[j].name, line |-> i, place |-> j,
                    block |-> BlockOf(lines[i].labels[j], i)]
    BY <1>2
  <2>3. PICK j \in DOMAIN lines[i].labels :
               d = [name |-> lines[i].labels[j].name, line |-> i, place |-> j,
                    block |-> BlockOf(lines[i].labels[j], i)]
    BY <2>2
  <2>4. PICK h \in DOMAIN lines : \E k \in DOMAIN lines[h].labels :
               e = [name |-> lines[h].labels[k].name, line |-> h, place |-> k,
                    block |-> BlockOf(lines[h].labels[k], h)]
    BY <1>2
  <2>5. PICK k \in DOMAIN lines[h].labels :
               e = [name |-> lines[h].labels[k].name, line |-> h, place |-> k,
                    block |-> BlockOf(lines[h].labels[k], h)]
    BY <2>4
  <2>6. h = i
    BY <2>1, <2>3, <2>5
  <2>7. j = k
    BY <1>6, <2>3, <2>5, <2>6 DEF IInv, NamesInv
  <2>8. QED
    BY <2>3, <2>5, <2>6, <2>7
<1>7. QED
  BY <1>4, <1>5, <1>6

-----------------------------------------------------------------------------
(* LocalIndex finds the innermost definition *)

LEMMA PathOfScopes ==
  ASSUME NEW i, NEW scopes, IsPath(scopes, i)
  PROVE  /\ Len(scopes) \in Nat /\ Len(ScopePath(scopes)) = Len(scopes) + 1
         /\ DOMAIN ScopePath(scopes) = 1 .. Len(scopes) + 1 /\ ScopePath(scopes)[1] = 0
         /\ \A k \in 1 .. Len(scopes) : ScopePath(scopes)[k + 1] = scopes[k]
         /\ \A s : (\E k \in DOMAIN ScopePath(scopes) : ScopePath(scopes)[k] = s)
                   <=> s = 0 \/ IsIn(s, scopes)
<1>1. scopes \in Seq(Nat) /\ Len(scopes) \in Nat
  BY DEF IsPath
<1>2. <<0>> \in Seq(Nat) /\ Len(<<0>>) = 1 /\ <<0>>[1] = 0
  OBVIOUS
<1> DEFINE zero == <<0>>
           path == zero \o scopes
<1>3. zero \in Seq(Nat) /\ Len(zero) = 1 /\ zero[1] = 0
  BY <1>2
<1> HIDE DEF zero
<1>4. /\ Len(path) = Len(scopes) + 1 /\ DOMAIN path = 1 .. Len(scopes) + 1 /\ path[1] = 0
      /\ \A k \in 1 .. Len(scopes) : path[k + 1] = scopes[k]
  <2>1. path \in Seq(Nat) /\ Len(path) = Len(zero) + Len(scopes)
    BY <1>1, <1>3, ConcatProperties
  <2>2. \A k \in 1 .. Len(path) : path[k] = IF k <= Len(zero) THEN zero[k] ELSE scopes[k - Len(zero)]
    BY <1>1, <1>3, ConcatProperties
  <2>3. Len(path) = Len(scopes) + 1 /\ DOMAIN path = 1 .. Len(scopes) + 1
    BY <1>1, <1>3, <2>1
  <2> HIDE DEF path
  <2>4. path[1] = 0
    BY <1>1, <1>3, <2>2, <2>3
  <2>5. \A k \in 1 .. Len(scopes) : path[k + 1] = scopes[k]
    <3>1. ASSUME NEW k \in 1 .. Len(scopes)
          PROVE  path[k + 1] = scopes[k]
      <4>1. k + 1 \in 1 .. Len(path) /\ ~(k + 1 <= Len(zero)) /\ (k + 1) - Len(zero) = k
        BY <1>1, <1>3, <2>3
      <4>2. QED
        BY <2>2, <4>1
    <3>2. QED
      BY <3>1
  <2>6. QED
    BY <2>3, <2>4, <2>5
<1>5. ScopePath(scopes) = path
  BY DEF ScopePath, zero
<1> HIDE DEF path
<1>6. ASSUME NEW s
      PROVE  (\E k \in DOMAIN path : path[k] = s) <=> s = 0 \/ IsIn(s, scopes)
  <2>1. ASSUME NEW k \in DOMAIN path, path[k] = s
        PROVE  s = 0 \/ IsIn(s, scopes)
    <3>1. CASE k = 1
      BY <1>4, <2>1, <3>1
    <3>2. CASE k # 1
      <4>1. k - 1 \in 1 .. Len(scopes)
        BY <1>1, <1>4, <3>2
      <4>2. path[(k - 1) + 1] = scopes[k - 1] /\ (k - 1) + 1 = k
        BY <1>4, <4>1
      <4>3. QED
        BY <2>1, <4>1, <4>2 DEF IsIn
    <3>3. QED
      BY <3>1, <3>2
  <2>2. ASSUME s = 0 \/ IsIn(s, scopes)
        PROVE  \E k \in DOMAIN path : path[k] = s
    <3>1. CASE s = 0
      BY <1>1, <1>4, <3>1
    <3>2. CASE IsIn(s, scopes)
      <4>1. PICK k \in 1 .. Len(scopes) : scopes[k] = s
        BY <3>2 DEF IsIn
      <4>2. path[k + 1] = s /\ k + 1 \in DOMAIN path
        BY <1>1, <1>4, <4>1
      <4>3. QED
        BY <4>2
    <3>3. QED
      BY <2>2, <3>1, <3>2
  <2>3. QED
    BY <2>1, <2>2
<1>7. QED
  BY <1>1, <1>4, <1>5, <1>6

\* The search stops at the largest scope that knows the name.
LEMMA LookedUp ==
  ASSUME NEW i, NEW scopes, IsPath(scopes, i), NEW name
  PROVE  /\ (\A s : s = 0 \/ IsIn(s, scopes) => name \notin DOMAIN Names(s))
              => LocalIndex(name, scopes) = 0
         /\ (\E s : (s = 0 \/ IsIn(s, scopes)) /\ name \in DOMAIN Names(s))
              => \E s : /\ s = 0 \/ IsIn(s, scopes)
                        /\ name \in DOMAIN Names(s) /\ LocalIndex(name, scopes) = Names(s)[name]
                        /\ \A t : (t = 0 \/ IsIn(t, scopes)) /\ name \in DOMAIN Names(t) => t <= s
<1> DEFINE path == ScopePath(scopes)
           known == KnownAt(name, scopes)
<1>1. /\ Len(scopes) \in Nat /\ Len(path) = Len(scopes) + 1
      /\ DOMAIN path = 1 .. Len(scopes) + 1 /\ path[1] = 0
      /\ \A k \in 1 .. Len(scopes) : path[k + 1] = scopes[k]
      /\ \A s : (\E k \in DOMAIN path : path[k] = s) <=> s = 0 \/ IsIn(s, scopes)
  BY PathOfScopes
<1>2. \A j, k \in DOMAIN path : j <= k => path[j] <= path[k]
  <2>1. scopes \in Seq(Nat) /\ Len(scopes) \in Nat
    BY DEF IsPath
  <2>2. \A j, k \in 1 .. Len(scopes) : j < k => scopes[j] < scopes[k]
    BY DEF IsPath
  <2>3. \A k \in 1 .. Len(scopes) : scopes[k] \in Nat
    BY <2>1
  <2>5. ASSUME NEW k \in DOMAIN path, k # 1
        PROVE  k - 1 \in 1 .. Len(scopes) /\ path[k] = scopes[k - 1]
    <3>1. k - 1 \in 1 .. Len(scopes) /\ (k - 1) + 1 = k
      BY <1>1, <2>5
    <3>2. path[(k - 1) + 1] = scopes[k - 1]
      BY <1>1, <3>1
    <3>3. QED
      BY <3>1, <3>2
  <2> HIDE DEF path
  <2>6. ASSUME NEW j \in DOMAIN path, NEW k \in DOMAIN path, j <= k
        PROVE  path[j] <= path[k]
    <3>1. CASE k = 1
      BY <1>1, <2>1, <2>6, <3>1
    <3>2. CASE k # 1 /\ j = 1
      <4>1. k - 1 \in 1 .. Len(scopes) /\ path[k] = scopes[k - 1]
        BY <2>5, <3>2
      <4>2. QED
        BY <1>1, <2>3, <3>2, <4>1
    <3>3. CASE k # 1 /\ j # 1
      <4>1. /\ k - 1 \in 1 .. Len(scopes) /\ path[k] = scopes[k - 1]
            /\ j - 1 \in 1 .. Len(scopes) /\ path[j] = scopes[j - 1]
        BY <2>5, <3>3
      <4>2. j = k \/ j - 1 < k - 1
        BY <1>1, <2>6
      <4>3. j - 1 < k - 1 => scopes[j - 1] < scopes[k - 1]
        BY <2>2, <4>1
      <4>4. scopes[j - 1] \in Nat /\ scopes[k - 1] \in Nat
        BY <2>3, <4>1
      <4>5. QED
        BY <4>1, <4>2, <4>3, <4>4
    <3>4. QED
      BY <3>1, <3>2, <3>3
  <2>7. QED
    BY <2>6
<1>3. known = {k \in DOMAIN path : name \in DOMAIN Names(path[k])}
  BY DEF KnownAt
<1>4. LocalIndex(name, scopes) = IF known = {} THEN 0 ELSE Names(path[Max(known)])[name]
  BY DEF LocalIndex
<1> HIDE DEF path, known
<1>5. ASSUME \A s : s = 0 \/ IsIn(s, scopes) => name \notin DOMAIN Names(s)
      PROVE  LocalIndex(name, scopes) = 0
  <2>1. \A k \in DOMAIN path : name \notin DOMAIN Names(path[k])
    BY <1>1, <1>5
  <2>2. known = {}
    BY <1>3, <2>1
  <2>3. QED
    BY <1>4, <2>2
<1>6. ASSUME NEW r, r = 0 \/ IsIn(r, scopes), name \in DOMAIN Names(r)
      PROVE  \E s : /\ s = 0 \/ IsIn(s, scopes)
                    /\ name \in DOMAIN Names(s) /\ LocalIndex(name, scopes) = Names(s)[name]
                    /\ \A t : (t = 0 \/ IsIn(t, scopes)) /\ name \in DOMAIN Names(t) => t <= s
  <2>1. PICK k \in DOMAIN path : path[k] = r
    BY <1>1, <1>6
  <2>2. k \in known
    BY <1>3, <1>6, <2>1
  <2>3. known \in SUBSET (1 .. Len(path)) /\ Len(path) \in Nat /\ known # {}
    BY <1>1, <1>3, <2>2
  <2>4. Max(known) \in known /\ \A m \in known : m <= Max(known)
    BY <1>1, <2>3, GreatestElement
  <2>5. PICK m : m = Max(known)
    OBVIOUS
  <2>6. m \in DOMAIN path /\ name \in DOMAIN Names(path[m])
    BY <1>3, <2>4, <2>5
  <2>7. LocalIndex(name, scopes) = Names(path[m])[name]
    BY <1>4, <2>3, <2>5
  <2>8. path[m] = 0 \/ IsIn(path[m], scopes)
    BY <1>1, <2>6
  <2>9. ASSUME NEW t, t = 0 \/ IsIn(t, scopes), name \in DOMAIN Names(t)
        PROVE  t <= path[m]
    <3>1. PICK l \in DOMAIN path : path[l] = t
      BY <1>1, <2>9
    <3>2. l \in known
      BY <1>3, <2>9, <3>1
    <3>3. l <= m
      BY <2>4, <2>5, <3>2
    <3>4. QED
      BY <1>2, <2>6, <3>1, <3>3
  <2>10. QED
    BY <2>6, <2>7, <2>8, <2>9
<1>7. QED
  BY <1>5, <1>6

\* What is visible at a line is what its scopes know.
LEMMA VisibleIsKnown ==
  ASSUME IInv, activeScopes = << >>, NEW i \in DOMAIN lines, NEW name, NEW s
  PROVE  /\ (s = 0 \/ IsIn(s, lines[i].activeScopes)) /\ name \in DOMAIN Names(s)
              => \E d \in Visible(Definitions, name, i) : d.block = s
         /\ \A d \in Visible(Definitions, name, i) :
              /\ d.name = name /\ d \in Definitions
              /\ d.block = 0 \/ IsIn(d.block, lines[i].activeScopes)
              /\ name \in DOMAIN Names(d.block) /\ Names(d.block)[name] = d.line
<1>1. \A b : b \in BlocksAround(i) <=> IsIn(b, lines[i].activeScopes)
  BY BlocksAreScopes DEF IInv
<1>2. \A b : IsIn(b, lines[i].activeScopes) => b \in DOMAIN lines
  BY DEF IInv, PathInv, IsPath, IsIn
<1>3. ASSUME s = 0 \/ IsIn(s, lines[i].activeScopes), name \in DOMAIN Names(s)
      PROVE  \E d \in Visible(Definitions, name, i) : d.block = s
  <2>1. PICK d \in Definitions : d.name = name /\ d.block = s
    BY <1>2, <1>3, DefinitionsKnown
  <2>2. QED
    BY <1>1, <1>3, <2>1 DEF Visible
<1>4. ASSUME NEW d \in Visible(Definitions, name, i)
      PROVE  /\ d.name = name /\ d \in Definitions
             /\ d.block = 0 \/ IsIn(d.block, lines[i].activeScopes)
             /\ name \in DOMAIN Names(d.block) /\ Names(d.block)[name] = d.line
  <2>1. d \in Definitions /\ d.name = name /\ (d.block = 0 \/ d.block \in BlocksAround(i))
    BY DEF Visible
  <2>2. QED
    BY <1>1, <2>1, DefinitionsKnown
<1>5. QED
  BY <1>3, <1>4

LEMMA InnermostFound ==
  ASSUME IInv, activeScopes = << >>, NEW i \in DOMAIN lines, NEW name
  PROVE  LET found == Innermost(Definitions, name, i)
         IN  /\ Cardinality(found) <= 1
             /\ LocalIndex(name, lines[i].activeScopes) =
                  IF found = {} THEN 0 ELSE (CHOOSE d \in found : TRUE).line
<1> DEFINE found == Innermost(Definitions, name, i)
           visible == Visible(Definitions, name, i)
           scopes == lines[i].activeScopes
<1>1. DOMAIN lines \in SUBSET Nat
  BY SeqIs DEF IInv, ShapeInv
<1>2. IsPath(scopes, i)
  BY DEF IInv, PathInv
<1>3. ASSUME NEW d \in visible
      PROVE  /\ d.name = name /\ d \in Definitions
             /\ d.block = 0 \/ IsIn(d.block, scopes)
             /\ name \in DOMAIN Names(d.block) /\ Names(d.block)[name] = d.line
             /\ d.block \in Nat
  <2>1. /\ d.name = name /\ d \in Definitions
        /\ d.block = 0 \/ IsIn(d.block, scopes)
        /\ name \in DOMAIN Names(d.block) /\ Names(d.block)[name] = d.line
    BY VisibleIsKnown
  <2>2. d.block \in {0} \cup DOMAIN lines
    BY <2>1, DefinitionsKnown
  <2>3. QED
    BY <1>1, <2>1, <2>2
<1>4. \A d : d \in found <=> d \in visible /\ \A e \in visible : e.block <= d.block
  BY DEF Innermost
<1> HIDE DEF found, visible
<1>5. ASSUME NEW d \in found, NEW e \in found
      PROVE  d = e
  <2>1. d \in visible /\ e \in visible /\ e.block <= d.block /\ d.block <= e.block
    BY <1>4
  <2>2. d.block = e.block
    BY <1>3, <2>1
  <2>3. d \in Definitions /\ e \in Definitions /\ d.name = e.name
    BY <1>3, <2>1
  <2>4. QED
    BY <2>2, <2>3, DefinitionsKnown
<1>6. Cardinality(found) <= 1
  <2>1. CASE found = {}
    BY <2>1, FS_EmptySet
  <2>2. CASE found # {}
    <3>1. PICK d \in found : TRUE
      BY <2>2
    <3>2. found = {d}
      BY <1>5, <3>1
    <3>3. Cardinality({d}) = 1
      BY FS_Singleton
    <3>4. QED
      BY <3>2, <3>3
  <2>3. QED
    BY <2>1, <2>2
<1>7. LocalIndex(name, scopes) = IF found = {} THEN 0 ELSE (CHOOSE d \in found : TRUE).line
  <2>1. CASE \A s : s = 0 \/ IsIn(s, scopes) => name \notin DOMAIN Names(s)
    <3>1. LocalIndex(name, scopes) = 0
      BY <1>2, <2>1, LookedUp
    <3>2. visible = {}
      BY <1>3, <2>1
    <3>3. QED
      BY <1>4, <3>1, <3>2
  <2>2. CASE \E s : (s = 0 \/ IsIn(s, scopes)) /\ name \in DOMAIN Names(s)
    <3>1. PICK s : /\ s = 0 \/ IsIn(s, scopes)
                   /\ name \in DOMAIN Names(s) /\ LocalIndex(name, scopes) = Names(s)[name]
                   /\ \A t : (t = 0 \/ IsIn(t, scopes)) /\ name \in DOMAIN Names(t) => t <= s
      BY <1>2, <2>2, LookedUp
    <3>2. PICK d \in visible : d.block = s
      BY <3>1, VisibleIsKnown DEF visible
    <3>3. d \in found
      <4>1. \A e \in visible : e.block <= d.block
        BY <1>3, <3>1, <3>2
      <4>2. QED
        BY <1>4, <4>1
    <3>4. (CHOOSE e \in found : TRUE) = d
      BY <1>5, <3>3
    <3>5. d.line = Names(s)[name]
      BY <1>3, <3>2
    <3>6. QED
      BY <3>1, <3>3, <3>4, <3>5
  <2>3. QED
    BY <2>1, <2>2
<1>8. QED
  BY <1>6, <1>7 DEF found

\* A name is local to an .equ line exactly when a definition of it is visible
\* there, or, when it is qualified with this module, when a definition is global.
LEMMA LocalIsDefined ==
  ASSUME IInv, activeScopes = << >>, NEW i \in DOMAIN lines, NEW id
  PROVE  IsLocal(id, lines[i].activeScopes) <=>
           IF id.module = NoModule THEN Visible(Definitions, id.name, i) # {}
           ELSE id.module = moduleName /\ \E d \in Definitions : d.name = id.name /\ d.block = 0
<1> DEFINE scopes == lines[i].activeScopes
<1>1. DOMAIN lines \in SUBSET (Nat \ {0})
  BY SeqIs DEF IInv, ShapeInv
<1>2. IsPath(scopes, i) /\ IsPath(<< >>, i)
  BY DEF IInv, PathInv, IsPath
<1>3. \A s : IsIn(s, scopes) => s \in DOMAIN lines
  BY DEF IInv, PathInv, IsPath, IsIn
<1>4. ASSUME NEW s \in {0} \cup DOMAIN lines, NEW name \in DOMAIN Names(s)
      PROVE  Names(s)[name] # 0
  <2>1. PICK d \in Definitions : d.name = name /\ d.block = s
    BY DefinitionsKnown
  <2>2. Names(d.block)[d.name] = d.line /\ d.line \in DOMAIN lines
    BY DefinitionsKnown
  <2>3. QED
    BY <1>1, <2>1, <2>2
<1>5. LocalIndex(id.name, scopes) # 0 <=> Visible(Definitions, id.name, i) # {}
  <2>1. ASSUME LocalIndex(id.name, scopes) # 0
        PROVE  Visible(Definitions, id.name, i) # {}
    <3>1. PICK s : (s = 0 \/ IsIn(s, scopes)) /\ id.name \in DOMAIN Names(s)
      BY <1>2, <2>1, LookedUp
    <3>2. QED
      BY <3>1, VisibleIsKnown
  <2>2. ASSUME NEW d \in Visible(Definitions, id.name, i)
        PROVE  LocalIndex(id.name, scopes) # 0
    <3>1. (d.block = 0 \/ IsIn(d.block, scopes)) /\ id.name \in DOMAIN Names(d.block)
      BY VisibleIsKnown
    <3>2. PICK s : /\ s = 0 \/ IsIn(s, scopes)
                   /\ id.name \in DOMAIN Names(s) /\ LocalIndex(id.name, scopes) = Names(s)[id.name]
      BY <1>2, <3>1, LookedUp
    <3>3. QED
      BY <1>3, <1>4, <3>2
  <2>3. QED
    BY <2>1, <2>2
<1>6. LocalIndex(id.name, << >>) # 0 <=> \E d \in Definitions : d.name = id.name /\ d.block = 0
  <2> DEFINE none == << >>
  <2>1. \A s : ~IsIn(s, none)
    <3>1. Len(none) = 0
      OBVIOUS
    <3>2. QED
      BY <3>1 DEF IsIn
  <2>2. IsPath(none, i)
    BY <1>2
  <2> HIDE DEF none
  <2>3. ASSUME LocalIndex(id.name, none) # 0
        PROVE  \E d \in Definitions : d.name = id.name /\ d.block = 0
    <3>1. id.name \in DOMAIN Names(0)
      BY <2>1, <2>2, <2>3, LookedUp
    <3>2. QED
      BY <3>1, DefinitionsKnown
  <2>4. ASSUME NEW d \in Definitions, d.name = id.name, d.block = 0
        PROVE  LocalIndex(id.name, none) # 0
    <3>1. id.name \in DOMAIN Names(0)
      BY <2>4, DefinitionsKnown
    <3>2. LocalIndex(id.name, none) = Names(0)[id.name]
      BY <2>1, <2>2, <3>1, LookedUp
    <3>3. QED
      BY <1>4, <3>1, <3>2
  <2>5. QED
    BY <2>3, <2>4 DEF none
<1>7. QED
  BY <1>5, <1>6 DEF IsLocal

-----------------------------------------------------------------------------
(* The theorems *)

LEMMA SpecInv == Spec => []IInv
<1>1. Init => IInv
  BY InitInv
<1>2. IInv /\ [Next]_vars => IInv'
  BY NextInv
<1>3. QED
  BY <1>1, <1>2, PTL DEF Spec

\* In a loaded file every name means its definition in the innermost block
\* around the line that uses it, for every file and every meaning of its lines
\* (add_label, the active_scopes of LoadAsmFile and LocalIndex).
THEOREM ScopesAreBlocks == Spec => []NamesResolveInnermost
<1>1. ASSUME IInv
      PROVE  NamesResolveInnermost
  <2>1. ASSUME status = "loaded", NEW i \in DOMAIN lines, NEW name
        PROVE  LET found == Innermost(Definitions, name, i)
               IN  /\ Cardinality(found) <= 1
                   /\ LocalIndex(name, lines[i].activeScopes) =
                        IF found = {} THEN 0 ELSE (CHOOSE d \in found : TRUE).line
    <3>1. activeScopes = << >>
      BY <1>1, <2>1 DEF IInv, LoadedInv
    <3>2. QED
      BY <1>1, <3>1, InnermostFound
  <2>2. QED
    BY <2>1 DEF NamesResolveInnermost
<1>2. QED
  BY <1>1, SpecInv, PTL

\* A loaded module waits for exactly the names its .equ lines use and it does
\* not define for them (ModuleIsLocalContext and ExternalNamesReferenced).
THEOREM ModuleWaitsForTheUndefined == Spec => []DependenciesAreUndefined
<1>1. ASSUME IInv
      PROVE  DependenciesAreUndefined
  <2> DEFINE Equations == {i \in DOMAIN lines : IsLine(i, "equ")}
             DefinedFor(id, i) ==
               IF id.module = NoModule THEN Visible(Definitions, id.name, i) # {}
               ELSE id.module = moduleName
                    /\ \E d \in Definitions : d.name = id.name /\ d.block = 0
             Missing(i) == {id \in NamesOf(lines[i].statement.list[1]) : ~DefinedFor(id, i)}
             missing == UNION {Missing(i) : i \in Equations}
  <2>1. ASSUME status = "loaded"
        PROVE  dependencies = {Global(id) : id \in missing}
    <3>1. /\ activeScopes = << >>
          /\ dependencies = UNION {Borrowed(lines[i]) :
                                     i \in {j \in DOMAIN lines : lines[j].statement.name = "equ"}}
      BY <1>1, <2>1 DEF IInv, LoadedInv
    <3>2. ASSUME NEW i \in Equations
          PROVE  Borrowed(lines[i]) = {Global(id) : id \in Missing(i)}
      <4> DEFINE local == {id \in NamesOf(lines[i].statement.list[1]) :
                             IsLocal(id, lines[i].activeScopes)}
      <4>1. \A id : IsLocal(id, lines[i].activeScopes) <=> DefinedFor(id, i)
        BY <1>1, <3>1, LocalIsDefined
      <4> HIDE DEF DefinedFor
      <4>2. NamesOf(lines[i].statement.list[1]) \ local = Missing(i)
        BY <4>1
      <4> HIDE DEF local, Missing
      <4>3. Borrowed(lines[i]) = ExternalNamesReferenced(lines[i].statement.list[1], local)
        BY DEF Borrowed, local
      <4>4. QED
        BY <4>2, <4>3 DEF ExternalNamesReferenced
    <3>3. {j \in DOMAIN lines : lines[j].statement.name = "equ"} = Equations
      BY DEF IsLine
    <3> HIDE DEF Equations, Missing, DefinedFor
    <3>4. ASSUME NEW name
          PROVE  name \in dependencies <=> name \in {Global(id) : id \in missing}
      <4>1. name \in dependencies <=> \E i \in Equations : name \in Borrowed(lines[i])
        BY <3>1, <3>3
      <4>2. \A i \in Equations :
              name \in Borrowed(lines[i]) <=> \E id \in Missing(i) : name = Global(id)
        BY <3>2
      <4>3. name \in {Global(id) : id \in missing}
              <=> \E i \in Equations : \E id \in Missing(i) : name = Global(id)
        OBVIOUS
      <4>4. QED
        BY <4>1, <4>2, <4>3
    <3>5. QED
      <4> HIDE DEF missing
      <4> DEFINE all == {Global(id) : id \in missing}
      <4>1. \A name : name \in dependencies <=> name \in all
        BY <3>4
      <4>2. dependencies = UNION {Borrowed(lines[i]) : i \in Equations}
        BY <3>1, <3>3
      <4> HIDE DEF all
      <4>3. dependencies = all
        BY <4>1, <4>2
      <4>4. QED
        BY <4>3 DEF all
  <2>2. QED
    BY <2>1 DEF DependenciesAreUndefined
<1>2. QED
  BY <1>1, SpecInv, PTL

=============================================================================
