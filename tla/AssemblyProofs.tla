--------------------------- MODULE AssemblyProofs ---------------------------
(***************************************************************************)
(* Proofs about Assembler::Assemble for every project.  FindAssemblyOrder: *)
(* the order respects the dependencies, the sweeps find an order whenever  *)
(* there is one, and every exported name has one definition.  The passes:  *)
(* what an .equ expression needs was evaluated before it, and after the    *)
(* second pass every .equ line equals its expression; the first pass puts  *)
(* bytes nowhere but in memory, and an assertion fails on constants only.  *)
(* The output: no jump target is lost, no byte is written twice, and the   *)
(* memory map names the module that wrote each byte.                       *)
(***************************************************************************)
EXTENDS Assembly, DataRangesProofs, FiniteSetTheorems

-----------------------------------------------------------------------------
(* FindAssemblyOrder: the inductive invariant *)

\* A registered name is exported by the module it is registered for.
ExporterExports ==
  \A n \in DOMAIN exporter : InOrder(exporter[n]) /\ n \in modules[exporter[n]].exports

\* All that the modules of the order export is registered for them.
AllRegistered ==
  ordering # "duplicate" =>
    \A m \in ModuleIds : InOrder(m) =>
      \A n \in modules[m].exports : n \in DOMAIN exporter /\ exporter[n] = m

\* A sweep that has found nothing so far found nothing that it could have taken.
NothingMissed ==
  /\ ordering = "sweeping" /\ ~moreFound =>
       \A m \in 1 .. scan - 1 : InOrder(m) \/ ~DependenciesMet(m)
  /\ ordering = "cyclic" =>
       /\ Len(order) < Len(modules)
       /\ \A m \in ModuleIds : InOrder(m) \/ ~DependenciesMet(m)

Complete == ordering = "ordered" => Len(order) >= Len(modules)

RealConflict ==
  ordering = "duplicate" =>
    \E k, m \in ModuleIds : k # m /\ modules[k].exports \cap modules[m].exports # {}

OrderInv ==
  /\ OrderTypeOK
  /\ OrderRespectsDependencies
  /\ ExporterExports
  /\ AllRegistered
  /\ NothingMissed
  /\ Complete
  /\ RealConflict

-----------------------------------------------------------------------------

LEMMA ModuleFacts ==
  ASSUME modules \in Projects
  PROVE  /\ Len(modules) \in Nat
         /\ \A m \in ModuleIds : modules[m].exports \subseteq Int /\ modules[m].dependencies \subseteq Int
<1>1. modules \in Seq(Modules)
  BY ProjectsAssumption
<1>2. Len(modules) \in Nat /\ \A m \in ModuleIds : modules[m] \in Modules
  BY <1>1, LenProperties DEF ModuleIds
<1>3. QED
  BY <1>2, ProjectsAssumption

LEMMA OrderFacts ==
  ASSUME OrderTypeOK
  PROVE  /\ Len(order) \in Nat
         /\ DOMAIN order = 1 .. Len(order)
         /\ \A i \in DOMAIN order : order[i] \in ModuleIds
BY LenProperties DEF OrderTypeOK

LEMMA CountTo ==
  ASSUME NEW n \in Nat
  PROVE  IsFiniteSet(1 .. n) /\ Cardinality(1 .. n) = n
<1>1. IsFiniteSet(1 .. n) /\ Cardinality(1 .. n) = IF 1 > n THEN 0 ELSE n - 1 + 1
  BY FS_Interval
<1>2. (IF 1 > n THEN 0 ELSE n - 1 + 1) = n
  OBVIOUS
<1>3. QED
  BY <1>1, <1>2

LEMMA InitInv == OrderInit => OrderInv
<1> SUFFICES ASSUME OrderInit PROVE OrderInv
  OBVIOUS
<1> USE DEF OrderInit
<1>1. Len(modules) \in Nat
  BY ModuleFacts
<1>2. order = << >> /\ Len(order) = 0 /\ DOMAIN order = {} /\ order \in Seq(ModuleIds)
  BY EmptySeq
<1>3. OrderTypeOK
  <2>1. DOMAIN exporter = {} /\ exporter \in [DOMAIN exporter -> ModuleIds]
    OBVIOUS
  <2>2. \A i, j \in DOMAIN order : order[i] = order[j] => i = j
    BY <1>2
  <2>3. scan \in 1 .. Len(modules) + 1
    BY <1>1
  <2>4. moreFound \in BOOLEAN
    BY Zenon
  <2>5. QED
    BY <1>2, <2>1, <2>2, <2>3, <2>4 DEF OrderTypeOK
<1>4. OrderRespectsDependencies /\ ExporterExports /\ AllRegistered
  BY <1>2 DEF OrderRespectsDependencies, ExporterExports, AllRegistered, InOrder
<1>5. NothingMissed /\ Complete /\ RealConflict
  BY DEF NothingMissed, Complete, RealConflict
<1>6. QED
  BY <1>3, <1>4, <1>5 DEF OrderInv

LEMMA PassKeepsInv ==
  ASSUME OrderInv, NEW m \in ModuleIds, Pass(m)
  PROVE  OrderInv'
<1> USE DEF OrderInv, Pass
<1>1. OrderTypeOK'
  BY ModuleFacts DEF OrderTypeOK, ModuleIds
<1>2. OrderRespectsDependencies' /\ ExporterExports' /\ AllRegistered' /\ Complete' /\ RealConflict'
  BY DEF OrderRespectsDependencies, ExporterExports, AllRegistered, Complete, RealConflict, InOrder, ModuleIds
<1>3. NothingMissed'
  <2>1. scan \in Nat /\ \A k \in 1 .. scan' - 1 : k = m \/ k \in 1 .. scan - 1
    BY ModuleFacts DEF OrderTypeOK, ModuleIds
  <2>2. QED
    BY <2>1 DEF NothingMissed, InOrder, DependenciesMet, ModuleIds
<1>4. QED
  BY <1>1, <1>2, <1>3

LEMMA EndSweepKeepsInv ==
  ASSUME OrderInv, EndSweep
  PROVE  OrderInv'
<1> USE DEF OrderInv, EndSweep
<1>0. Len(modules) \in Nat /\ Len(order) \in Nat
  BY ModuleFacts, OrderFacts DEF OrderTypeOK
<1>1. ordering' \in {"sweeping", "ordered", "cyclic"}
  BY <1>0
<1>2. OrderTypeOK'
  <2>1. UNCHANGED <<modules, order, exporter, ModuleIds>>
    BY DEF ModuleIds
  <2>2. scan' \in 1 .. Len(modules) + 1
    BY <1>0
  <2>3. moreFound' \in BOOLEAN
    BY Zenon
  <2>4. QED
    BY <1>1, <2>1, <2>2, <2>3 DEF OrderTypeOK
<1>3. OrderRespectsDependencies' /\ ExporterExports'
  BY DEF OrderRespectsDependencies, ExporterExports, InOrder, ModuleIds
<1>4. AllRegistered' /\ RealConflict'
  BY <1>1 DEF AllRegistered, RealConflict, InOrder, ModuleIds
<1>5. Complete'
  BY <1>0 DEF Complete
<1>6. NothingMissed'
  <2>1. ordering' = "cyclic" => ~moreFound /\ Len(order) < Len(modules)
    BY <1>0
  <2>2. \A m \in 1 .. scan' - 1 : FALSE
    OBVIOUS
  <2>3. ModuleIds = 1 .. scan - 1
    BY <1>0 DEF ModuleIds
  <2>4. ordering' = "cyclic" => \A m \in ModuleIds : InOrder(m) \/ ~DependenciesMet(m)
    BY <2>1, <2>3 DEF NothingMissed
  <2>5. QED
    BY <2>1, <2>2, <2>4 DEF NothingMissed, InOrder, DependenciesMet, ModuleIds
<1>7. QED
  BY <1>2, <1>3, <1>4, <1>5, <1>6

LEMMA TakeKeepsInv ==
  ASSUME OrderInv, NEW m \in ModuleIds, Take(m)
  PROVE  OrderInv'
<1> USE DEF OrderInv, Take
<1> DEFINE last == Len(order) + 1
<1>1. /\ Len(order) \in Nat /\ Len(modules) \in Nat
      /\ order' \in Seq(ModuleIds) /\ DOMAIN order' = 1 .. last
      /\ \A i \in 1 .. Len(order) : order'[i] = order[i]
      /\ order'[last] = m
      /\ DOMAIN order = 1 .. Len(order)
  BY ModuleFacts, OrderFacts, AppendProperties, LenProperties DEF OrderTypeOK
<1>2. \A k : InOrder(k)' <=> InOrder(k) \/ k = m
  BY <1>1 DEF InOrder
<1>3. Registered(m) \subseteq modules[m].exports /\ Registered(m) \subseteq Int
  BY ModuleFacts DEF Registered, OrderTypeOK
<1>4. /\ DOMAIN exporter' = DOMAIN exporter \cup Registered(m)
      /\ \A n \in DOMAIN exporter' : exporter'[n] = IF n \in Registered(m) THEN m ELSE exporter[n]
  OBVIOUS
<1>5. OrderTypeOK'
  <2>1. \A i, j \in DOMAIN order' : order'[i] = order'[j] => i = j
    BY <1>1 DEF InOrder, OrderTypeOK
  <2>2. scan' \in 1 .. Len(modules) + 1
    BY <1>1 DEF ModuleIds
  <2>3. DOMAIN exporter' \subseteq Int /\ exporter' \in [DOMAIN exporter' -> ModuleIds]
    BY <1>3, <1>4 DEF OrderTypeOK
  <2>4. QED
    BY <1>1, <2>1, <2>2, <2>3 DEF OrderTypeOK, ModuleIds
<1>6. OrderRespectsDependencies'
  <2> SUFFICES ASSUME NEW i \in 1 .. last, NEW n \in modules[order'[i]].dependencies
               PROVE  \E j \in 1 .. i - 1 : n \in modules[order'[j]].exports
    BY <1>1 DEF OrderRespectsDependencies
  <2>1. CASE i = last
    <3>1. n \in DOMAIN exporter
      BY <2>1, <1>1 DEF DependenciesMet
    <3>2. PICK j \in 1 .. Len(order) : order[j] = exporter[n]
      BY <3>1, <1>1 DEF ExporterExports, InOrder
    <3>3. n \in modules[order'[j]].exports /\ j \in 1 .. i - 1
      BY <3>1, <3>2, <2>1, <1>1 DEF ExporterExports
    <3>4. QED
      BY <3>3
  <2>2. CASE i # last
    <3>1. i \in DOMAIN order /\ n \in modules[order[i]].dependencies
      BY <2>2, <1>1
    <3>2. PICK j \in 1 .. i - 1 : n \in modules[order[j]].exports
      BY <3>1 DEF OrderRespectsDependencies
    <3>3. order'[j] = order[j]
      BY <3>1, <1>1
    <3>4. QED
      BY <3>2, <3>3
  <2>3. QED
    BY <2>1, <2>2
<1>7. ExporterExports'
  BY <1>2, <1>3, <1>4 DEF ExporterExports
<1>8. AllRegistered'
  <2> SUFFICES ASSUME ordering' # "duplicate", NEW k \in ModuleIds, InOrder(k)',
                      NEW n \in modules[k].exports
               PROVE  n \in DOMAIN exporter' /\ exporter'[n] = k
    BY DEF AllRegistered, ModuleIds
  <2>1. Conflicts(m) = {} /\ Registered(m) = modules[m].exports
    BY DEF Registered
  <2>2. CASE k = m
    BY <2>1, <2>2, <1>4
  <2>3. CASE k # m
    <3>1. n \in DOMAIN exporter /\ exporter[n] = k
      BY <2>3, <1>2 DEF AllRegistered
    <3>2. n \notin Registered(m)
      BY <2>1, <3>1 DEF Conflicts
    <3>3. QED
      BY <3>1, <3>2, <1>4
  <2>4. QED
    BY <2>2, <2>3
<1>9. NothingMissed' /\ Complete'
  BY DEF NothingMissed, Complete
<1>10. RealConflict'
  <2> SUFFICES ASSUME Conflicts(m) # {}
               PROVE  \E k, j \in ModuleIds : k # j /\ modules[k].exports \cap modules[j].exports # {}
    BY DEF RealConflict, ModuleIds
  <2>1. PICK n \in modules[m].exports \cap DOMAIN exporter : TRUE
    BY DEF Conflicts
  <2>2. exporter[n] \in ModuleIds /\ exporter[n] # m /\ n \in modules[exporter[n]].exports
    BY <2>1 DEF ExporterExports, OrderTypeOK
  <2>3. QED
    BY <2>1, <2>2
<1>11. QED
  BY <1>5, <1>6, <1>7, <1>8, <1>9, <1>10

LEMMA StutterKeepsInv == OrderInv /\ UNCHANGED orderVars => OrderInv'
<1> SUFFICES ASSUME OrderInv, UNCHANGED orderVars PROVE OrderInv'
  OBVIOUS
<1>1. /\ UNCHANGED <<modules, order, scan, moreFound, exporter, ordering, ModuleIds>>
      /\ \A m : InOrder(m)' <=> InOrder(m)
      /\ \A m : DependenciesMet(m)' <=> DependenciesMet(m)
  BY DEF orderVars, ModuleIds, InOrder, DependenciesMet
<1>2. OrderTypeOK' /\ OrderRespectsDependencies' /\ ExporterExports'
  BY <1>1 DEF OrderInv, OrderTypeOK, OrderRespectsDependencies, ExporterExports
<1>3. AllRegistered' /\ NothingMissed' /\ Complete' /\ RealConflict'
  BY <1>1 DEF OrderInv, AllRegistered, NothingMissed, Complete, RealConflict
<1>4. QED
  BY <1>2, <1>3 DEF OrderInv

LEMMA OrderInvariant == OrderSpec => []OrderInv
<1>1. OrderInv /\ [OrderNext]_orderVars => OrderInv'
  BY PassKeepsInv, TakeKeepsInv, EndSweepKeepsInv, StutterKeepsInv DEF OrderNext, Ordered
<1>2. QED
  BY InitInv, <1>1, PTL DEF OrderSpec

-----------------------------------------------------------------------------
(* FindAssemblyOrder: theorems *)

\* FindAssemblyOrder keeps its types, and takes no module twice.
THEOREM OrderTypeCorrect == OrderSpec => []OrderTypeOK
BY OrderInvariant, PTL DEF OrderInv

\* Whatever the modules and the order they were added in, a module is
\* assembled after the modules that export what its .equ lines need.
THEOREM DependenciesComeFirst == OrderSpec => []OrderRespectsDependencies
BY OrderInvariant, PTL DEF OrderInv

\* An order that holds as many modules as there are holds all of them.
LEMMA FullOrder ==
  ASSUME OrderTypeOK
  PROVE  /\ Len(order) >= Len(modules) => \A m \in ModuleIds : InOrder(m)
         /\ Len(order) < Len(modules) => \E m \in ModuleIds : ~InOrder(m)
<1> DEFINE Places == 1 .. Len(order)
<1>1. Len(order) \in Nat /\ Len(modules) \in Nat /\ DOMAIN order = Places
  BY ModuleFacts, OrderFacts DEF OrderTypeOK
<1>2. order \in [Places -> ModuleIds]
  BY <1>1, OrderFacts, LenProperties DEF OrderTypeOK
<1>3. order \in Injection(Places, ModuleIds)
  <2>1. \A i, j \in Places : order[i] = order[j] => i = j
    BY <1>1 DEF OrderTypeOK
  <2>2. QED
    BY <1>2, <2>1 DEF Injection, IsInjective
<1>4. IsFiniteSet(Places) /\ Cardinality(Places) = Len(order)
  BY <1>1, CountTo
<1>5. IsFiniteSet(ModuleIds) /\ Cardinality(ModuleIds) = Len(modules)
  BY <1>1, CountTo DEF ModuleIds
<1>6. ASSUME Len(order) >= Len(modules) PROVE \A m \in ModuleIds : InOrder(m)
  <2>1. order \in Surjection(Places, ModuleIds)
    BY <1>1, <1>3, <1>4, <1>5, <1>6, FS_Injection
  <2>2. QED
    BY <2>1, <1>1 DEF Surjection, InOrder
<1>7. ASSUME \A m \in ModuleIds : InOrder(m) PROVE Len(order) >= Len(modules)
  <2>1. order \in Surjection(Places, ModuleIds)
    BY <1>1, <1>2, <1>7 DEF Surjection, InOrder
  <2>2. QED
    BY <1>1, <1>4, <1>5, <2>1, FS_Surjection
<1>8. QED
  BY <1>1, <1>6, <1>7

\* Where the sweeps got stuck no ranking of the modules exists: a module of
\* least rank among those left out would have had its dependencies met.
LEMMA StuckMeansNoOrder == OrderInv => CyclicMeansNoOrder
<1> SUFFICES ASSUME OrderInv, ordering = "cyclic",
                    NEW rank \in [ModuleIds -> 0 .. Len(modules) - 1], Ranks(rank)
             PROVE  FALSE
  BY DEF CyclicMeansNoOrder
<1> USE DEF OrderInv
<1> DEFINE Left == {m \in ModuleIds : ~InOrder(m)}
           LeftRanks == {rank[m] : m \in Left}
<1>1. Len(modules) \in Nat
  BY ModuleFacts DEF OrderTypeOK
<1>2. Left # {} /\ \A m \in Left : ~DependenciesMet(m)
  BY FullOrder DEF NothingMissed
<1>3. LeftRanks \subseteq Nat /\ LeftRanks # {}
  BY <1>1, <1>2
<1>5. PICK r \in LeftRanks : \A s \in LeftRanks : ~(s < r)
  <2> HIDE DEF LeftRanks
  <2>1. PICK r \in LeftRanks : \A s \in LeftRanks : r <= s
    BY <1>3, LeastElement
  <2>2. QED
    BY <2>1, <1>3
<1>6. PICK m \in Left : rank[m] = r
  BY <1>5
<1>7. \A n \in modules[m].dependencies : n \in DOMAIN exporter
  <2> TAKE n \in modules[m].dependencies
  <2>1. PICK k \in ModuleIds : n \in modules[k].exports /\ rank[k] < rank[m]
    BY <1>6 DEF Ranks
  <2>2. InOrder(k)
    BY <2>1, <1>5, <1>6
  <2>3. QED
    BY <2>1, <2>2 DEF AllRegistered
<1>8. DependenciesMet(m)
  BY <1>7 DEF DependenciesMet
<1>9. QED
  BY <1>2, <1>6, <1>8

\* "Cyclic dependency" is never reported of a project that can be ordered,
\* however many sweeps it takes.
THEOREM SweepsAreComplete == OrderSpec => []CyclicMeansNoOrder
BY OrderInvariant, StuckMeansNoOrder, PTL

LEMMA OneDefinition == OrderInv => DefinitionsUnique
<1> SUFFICES ASSUME OrderInv PROVE DefinitionsUnique
  OBVIOUS
<1> USE DEF OrderInv
<1>1. ASSUME ordering = "ordered", NEW m \in ModuleIds
      PROVE  InOrder(m) /\ \A n \in modules[m].exports : n \in DOMAIN exporter /\ exporter[n] = m
  <2>1. InOrder(m)
    BY <1>1, FullOrder DEF Complete
  <2>2. QED
    BY <1>1, <2>1 DEF AllRegistered
<1>2. QED
  BY <1>1 DEF DefinitionsUnique, RealConflict

\* A name AssemblerLookupContext resolves has one definition, whichever
\* module is asked for it.
THEOREM NamesHaveOneDefinition == OrderSpec => []DefinitionsUnique
BY OrderInvariant, OneDefinition, PTL

-----------------------------------------------------------------------------
Equs(m) == Indices(modules[m].lines, "equ")

\* Every .equ line of m has its value.
Settled(m) == \A i \in Equs(m) : value[m][i] # NoValue

-----------------------------------------------------------------------------
(* The passes leave the order alone once it is found *)

\* Assemble does what FindAssemblyOrder does, and then nothing to its result.
THEOREM AssemblyFindsOrder == Spec => OrderSpec
<1>1. Init => OrderInit
  BY DEF Init
<1>2. [Next]_vars => [OrderNext]_orderVars
  <2> SUFFICES ASSUME [Next]_vars PROVE [OrderNext]_orderVars
    OBVIOUS
  <2>1. CASE FindOrder
    BY <2>1 DEF FindOrder, OrderNext
  <2>2. CASE RunFirstPass \/ PlaceFails \/ Reject \/ AnalysisCrashes \/ EndEmpty
    BY <2>2 DEF RunFirstPass, PlaceFails, Reject, AnalysisCrashes, EndEmpty, Stop
  <2>3. CASE EvaluateEqu
    BY <2>3 DEF EvaluateEqu, Stop
  <2>4. CASE SkipLine \/ EndEqu \/ EmitNothing
    BY <2>4 DEF SkipLine, EndEqu, EmitNothing
  <2>5. CASE EmitBytes
    BY <2>5 DEF EmitBytes, Stop
  <2>6. CASE SinkFails \/ EmitNote \/ EmitFails
    BY <2>6 DEF SinkFails, EmitNote, EmitFails, Stop
  <2>7. CASE LabelFails \/ Insert
    BY <2>7 DEF LabelFails, Insert, Stop
  <2>8. CASE Stopped \/ UNCHANGED vars
    BY <2>8 DEF Stopped, vars
  <2>9. QED
    BY <2>1, <2>2, <2>3, <2>4, <2>5, <2>6, <2>7, <2>8 DEF Next
<1>3. QED
  BY <1>1, <1>2, PTL DEF Spec, OrderSpec

-----------------------------------------------------------------------------
(* The .equ expressions: the inductive invariant *)

\* The values have a line each, and the second and third loop are at a
\* module of a finished order.
Positions ==
  /\ \A m \in ModuleIds : DOMAIN value[m] = DOMAIN modules[m].lines
  /\ DOMAIN value = ModuleIds
  /\ at \in Nat \ {0} /\ line \in Nat \ {0}
  /\ phase \in {"first", "equ", "emit", "done"} => ordering = "ordered"
  /\ phase \in {"equ", "emit"} => at \in DOMAIN order

\* Until the second pass no .equ line has a value.
Unevaluated ==
  phase \in {"order", "first"} => \A m \in ModuleIds : \A i \in Equs(m) : value[m][i] = NoValue

\* The second pass has evaluated what lies behind it, and ends with all.
Progress ==
  /\ phase = "equ" =>
       /\ \A j \in 1 .. at - 1 : Settled(order[j])
       /\ \A i \in Equs(m0) : i < line => value[m0][i] # NoValue
  /\ phase \in {"emit", "done"} => \A m \in ModuleIds : Settled(m)

\* A value that an .equ line has is that of its expression, and stays so.
Equations ==
  phase \in {"equ", "emit", "done"} =>
    \A m \in ModuleIds : \A i \in Equs(m) :
      value[m][i] # NoValue => value[m][i] = Evaluate(m, modules[m].lines[i])

EquInv ==
  /\ Positions /\ Unevaluated /\ Progress /\ Equations
  /\ EquEvaluatedBeforeUse

-----------------------------------------------------------------------------
(* Lines, names and values *)

LEMMA LineFacts ==
  ASSUME OrderInv, NEW m \in ModuleIds
  PROVE  /\ modules[m].lines \in Seq(LineTypes)
         /\ Len(modules[m].lines) \in Nat
         /\ DOMAIN modules[m].lines = 1 .. Len(modules[m].lines)
         /\ modules[m].exports = ExportedNames(modules[m].lines)
         /\ modules[m].dependencies = Dependencies(modules[m].lines)
         /\ \A i \in DOMAIN modules[m].lines :
              modules[m].lines[i].ref = "line" => modules[m].lines[i].to \in DOMAIN modules[m].lines
<1>1. modules \in Seq(Modules)
  BY ProjectsAssumption DEF OrderInv, OrderTypeOK
<1>2. modules[m] \in Modules
  BY <1>1, LenProperties DEF ModuleIds
<1>3. modules[m].lines \in Seq(LineTypes)
  BY <1>2, ModulesAssumption
<1>4. QED
  BY <1>2, <1>3, ModulesAssumption, LenProperties

\* An exported name is the label of a line of its module.
LEMMA LineOfName ==
  ASSUME OrderInv, NEW m \in ModuleIds, NEW name \in modules[m].exports
  PROVE  LineOf(m, name) \in DOMAIN modules[m].lines
<1>1. \E i \in DOMAIN modules[m].lines : modules[m].lines[i].label = name
  BY LineFacts DEF ExportedNames
<1>2. QED
  BY <1>1 DEF LineOf

LEMMA ExporterFacts ==
  ASSUME OrderInv, NEW name \in DOMAIN exporter
  PROVE  /\ exporter[name] \in ModuleIds
         /\ LineOf(exporter[name], name) \in DOMAIN modules[exporter[name]].lines
<1>1. exporter[name] \in ModuleIds /\ name \in modules[exporter[name]].exports
  BY DEF OrderInv, OrderTypeOK, ExporterExports
<1>2. QED
  BY <1>1, LineOfName

\* A value that does not go away does not change what was evaluated from it.
LEMMA EvaluateStable ==
  ASSUME OrderInv, UNCHANGED <<modules, exporter>>,
         \A k \in ModuleIds : \A j \in DOMAIN modules[k].lines :
           value[k][j] # NoValue => value'[k][j] = value[k][j],
         NEW m \in ModuleIds, NEW i \in DOMAIN modules[m].lines,
         Evaluate(m, modules[m].lines[i]) # NoValue
  PROVE  Evaluate(m, modules[m].lines[i])' = Evaluate(m, modules[m].lines[i])
<1> DEFINE l == modules[m].lines[i]
<1>1. l' = l
  OBVIOUS
<1>2. CASE l.ref = "number"
  BY <1>1, <1>2 DEF Evaluate
<1>3. CASE l.ref = "line"
  <2>1. l.to \in DOMAIN modules[m].lines
    BY <1>3, LineFacts
  <2>2. Evaluate(m, l) = value[m][l.to] /\ Evaluate(m, l)' = value'[m][l.to]
    BY <1>1, <1>3 DEF Evaluate
  <2>3. QED
    BY <2>1, <2>2
<1>4. CASE l.ref = "name" /\ l.to \in DOMAIN exporter
  <2> DEFINE k == exporter[l.to]
             j == LineOf(k, l.to)
  <2>1. k \in ModuleIds /\ j \in DOMAIN modules[k].lines
    BY <1>4, ExporterFacts
  <2>2. LineOf(k, l.to)' = LineOf(k, l.to)
    BY DEF LineOf
  <2>3. Evaluate(m, l) = value[k][j] /\ Evaluate(m, l)' = value'[k][j]
    BY <1>1, <1>4, <2>2 DEF Evaluate
  <2>4. QED
    BY <2>1, <2>3
<1>5. CASE l.ref \notin {"number", "line"} /\ ~(l.ref = "name" /\ l.to \in DOMAIN exporter)
  BY <1>5 DEF Evaluate
<1>6. QED
  BY <1>2, <1>3, <1>4, <1>5

\* What an .equ line of the second pass needs was evaluated before it.
LEMMA NeededIsSettled ==
  ASSUME OrderInv, EquInv, phase = "equ", line \in Equs(m0), here.ref = "name"
  PROVE  here.to \in DOMAIN exporter /\ Settled(exporter[here.to])
<1>1. at \in DOMAIN order /\ m0 \in ModuleIds /\ ordering = "ordered"
  BY OrderFacts DEF EquInv, Positions, OrderInv, m0
<1>2. here.to \in modules[m0].dependencies
  <2>1. line \in {j \in Indices(modules[m0].lines, "equ") : modules[m0].lines[j].ref = "name"}
    BY DEF Equs, here, lines0
  <2>2. modules[m0].dependencies = Dependencies(modules[m0].lines)
    BY <1>1, LineFacts
  <2>3. QED
    BY <2>1, <2>2 DEF Dependencies, here, lines0
<1>3. PICK j \in 1 .. at - 1 : here.to \in modules[order[j]].exports
  BY <1>1, <1>2 DEF OrderInv, OrderRespectsDependencies, m0
<1>4. j \in DOMAIN order
  BY <1>1, OrderFacts DEF OrderInv
<1>5. order[j] \in ModuleIds /\ InOrder(order[j])
  BY <1>4, OrderFacts DEF OrderInv, InOrder
<1>6. here.to \in DOMAIN exporter /\ exporter[here.to] = order[j]
  BY <1>1, <1>3, <1>5 DEF OrderInv, AllRegistered
<1>7. QED
  BY <1>3, <1>6 DEF EquInv, Progress

\* So a failure of an .equ or an emitted line is never for want of the value of an .equ line.
LEMMA FailureIsNoEqu ==
  ASSUME OrderInv, NEW l, Failure(l) = "no value", Evaluate(m0, l) = NoValue,
         l.to \in DOMAIN exporter => Settled(exporter[l.to])
  PROVE  modules[exporter[l.to]].lines[LineOf(exporter[l.to], l.to)].kind # "equ"
<1>1. l.ref = "name" /\ l.to \in DOMAIN exporter
  BY DEF Failure
<1> DEFINE k == exporter[l.to]
           i == LineOf(k, l.to)
<1>2. k \in ModuleIds /\ i \in DOMAIN modules[k].lines
  BY <1>1, ExporterFacts
<1>3. value[k][i] = NoValue
  BY <1>1 DEF Evaluate
<1>4. i \notin Equs(k)
  BY <1>1, <1>3 DEF Settled
<1>5. QED
  BY <1>2, <1>4 DEF Equs, Indices

-----------------------------------------------------------------------------
(* Every step keeps the invariant *)

LEMMA InitEqu == Init /\ OrderInv => EquInv
<1> SUFFICES ASSUME Init, OrderInv PROVE EquInv
  OBVIOUS
<1>1. phase = "order"
  BY DEF Init
<1>2. Positions
  <2>1. at \in Nat \ {0} /\ line \in Nat \ {0}
    BY SMT DEF Init
  <2>2. QED
    BY <1>1, <2>1 DEF Init, Positions
<1>3. Unevaluated
  BY DEF Init, Unevaluated, Equs, Indices
<1>4. Progress /\ Equations /\ EquEvaluatedBeforeUse
  BY <1>1 DEF Progress, Equations, EquEvaluatedBeforeUse
<1>5. QED
  BY <1>2, <1>3, <1>4 DEF EquInv

\* A phase that has ended the assembly, with another failure than "no value".
LEMMA EndedKeepsEqu ==
  ASSUME OrderInv, EquInv, UNCHANGED <<orderVars, at, value>>,
         UNCHANGED line \/ line' \in Nat \ {0},
         phase' \notin {"order", "first", "equ", "emit", "done", "no value"}
  PROVE  EquInv'
<1>1. Positions'
  BY DEF EquInv, Positions, orderVars, ModuleIds
<1>2. Unevaluated' /\ Progress' /\ Equations' /\ EquEvaluatedBeforeUse'
  BY DEF Unevaluated, Progress, Equations, EquEvaluatedBeforeUse
<1>3. QED
  BY <1>1, <1>2 DEF EquInv

\* The same for a failure to evaluate the line at hand.
LEMMA FailureKeepsEqu ==
  ASSUME OrderInv, EquInv, UNCHANGED <<orderVars, at, line, value>>,
         phase \in {"equ", "emit"}, phase' = Failure(here), Evaluate(m0, here) = NoValue,
         phase = "equ" => line \in Equs(m0)
  PROVE  EquInv'
<1>1. phase' \in {"before definition", "no value", "undefined"}
  BY DEF Failure
<1>2. CASE phase' # "no value"
  BY <1>1, <1>2, EndedKeepsEqu
<1>3. CASE phase' = "no value"
  <2>1. Positions'
    BY <1>3 DEF EquInv, Positions, orderVars, ModuleIds
  <2>2. Unevaluated' /\ Progress' /\ Equations'
    BY <1>3 DEF Unevaluated, Progress, Equations
  <2>3. here.ref = "name" /\ here.to \in DOMAIN exporter
    BY <1>3 DEF Failure
  <2>4. Settled(exporter[here.to])
    <3>1. CASE phase = "equ"
      BY <2>3, <3>1, NeededIsSettled
    <3>2. CASE phase = "emit"
      BY <2>3, <3>2, ExporterFacts DEF EquInv, Progress
    <3>3. QED
      BY <3>1, <3>2
  <2>5. modules[exporter[here.to]].lines[LineOf(exporter[here.to], here.to)].kind # "equ"
    BY <1>3, <2>4, FailureIsNoEqu
  <2>6. /\ UNCHANGED <<modules, exporter, here>>
        /\ \A m, name : LineOf(m, name)' = LineOf(m, name)
    BY DEF orderVars, here, lines0, m0, LineOf
  <2>7. EquEvaluatedBeforeUse'
    BY <2>5, <2>6 DEF EquEvaluatedBeforeUse
  <2>8. QED
    BY <2>1, <2>2, <2>7 DEF EquInv
<1>4. QED
  BY <1>2, <1>3

\* A step that leaves the values and the phase alone and goes to the next
\* line, or stays in the loop that emits.
LEMMA NextLineKeepsEqu ==
  ASSUME OrderInv, EquInv, UNCHANGED <<orderVars, value, phase, at>>, line' \in Nat \ {0},
         phase \in {"equ", "emit"},
         phase = "equ" => line' = line + 1 /\ (line \in Equs(m0) => value[m0][line] # NoValue)
  PROVE  EquInv'
<1> USE DEF EquInv
<1>1. /\ UNCHANGED <<modules, order, exporter, ordering, ModuleIds, m0>>
      /\ \A m : Equs(m)' = Equs(m) /\ (Settled(m)' <=> Settled(m))
      /\ \A m, i : Evaluate(m, modules[m].lines[i])' = Evaluate(m, modules[m].lines[i])
  BY DEF orderVars, ModuleIds, Equs, Indices, Settled, m0, Evaluate, LineOf
<1>2. Positions'
  BY <1>1 DEF Positions
<1>3. Unevaluated' /\ EquEvaluatedBeforeUse'
  BY DEF Unevaluated, EquEvaluatedBeforeUse
<1>4. Equations'
  BY <1>1 DEF Equations
<1>5. Progress'
  <2>1. CASE phase = "emit"
    BY <1>1, <2>1 DEF Progress
  <2>2. CASE phase = "equ"
    <3>1. at \in DOMAIN order /\ m0 \in ModuleIds
      BY <2>2, OrderFacts DEF Positions, OrderInv, m0
    <3>2. \A i \in Equs(m0) : i \in Int
      BY <3>1, LineFacts DEF Equs, Indices
    <3>3. \A i \in Equs(m0) : i < line + 1 => i < line \/ i = line
      BY SMT, <3>2 DEF Positions
    <3>4. \A i \in Equs(m0) : i < line + 1 => value[m0][i] # NoValue
      BY <2>2, <3>3 DEF Progress
    <3>5. \A j \in 1 .. at - 1 : Settled(order[j])
      BY <2>2 DEF Progress
    <3>6. QED
      BY <1>1, <2>2, <3>4, <3>5 DEF Progress
  <2>3. QED
    BY <2>1, <2>2
<1>6. QED
  BY <1>2, <1>3, <1>4, <1>5

LEMMA FindOrderKeepsEqu ==
  ASSUME OrderInv, OrderInv', EquInv, FindOrder
  PROVE  EquInv'
<1> USE DEF EquInv
<1>1. /\ ordering' \in {"sweeping", "ordered", "cyclic", "duplicate"}
      /\ UNCHANGED <<at, line, value>>
  BY DEF FindOrder, OrderInv, OrderTypeOK, moduleVars
<1>2. /\ phase' \in {"order", "first", "cyclic", "duplicate"}
      /\ phase' = "first" => ordering' = "ordered"
  BY <1>1 DEF FindOrder
<1>3. UNCHANGED modules /\ phase = "order"
  BY DEF FindOrder, EndSweep, Pass, Take
<1>4. UNCHANGED ModuleIds /\ \A m : Equs(m)' = Equs(m)
  BY <1>3 DEF ModuleIds, Equs
<1>5. Positions'
  BY <1>1, <1>2, <1>3, <1>4 DEF Positions
<1>6. Unevaluated'
  BY <1>1, <1>3, <1>4 DEF Unevaluated
<1>7. Progress' /\ Equations' /\ EquEvaluatedBeforeUse'
  BY <1>2 DEF Progress, Equations, EquEvaluatedBeforeUse
<1>8. QED
  BY <1>5, <1>6, <1>7

LEMMA FirstPassKeepsEqu ==
  ASSUME OrderInv, EquInv, RunFirstPass
  PROVE  EquInv'
<1> USE DEF EquInv
<1>1. /\ UNCHANGED <<modules, order, exporter, ordering, ModuleIds>>
      /\ \A m : Equs(m)' = Equs(m)
      /\ phase = "first" /\ at \in DOMAIN order
      /\ value' = [value EXCEPT ![m0] = Placed(lines0)]
      /\ line' = 1
      /\ \/ at = Len(order) /\ phase' = "equ" /\ at' = 1
         \/ at # Len(order) /\ phase' = "first" /\ at' = at + 1
  BY DEF RunFirstPass, NextModule, orderVars, ModuleIds, Equs, Indices
<1>2. /\ m0 \in ModuleIds /\ at \in 1 .. Len(order) /\ Len(order) \in Nat
      /\ DOMAIN order = 1 .. Len(order)
  BY <1>1, OrderFacts DEF OrderInv, m0
<1>3. Positions'
  <2>1. \A m \in ModuleIds : DOMAIN value'[m] = DOMAIN modules[m].lines
    BY <1>1, <1>2 DEF Positions, Placed, lines0
  <2>2. DOMAIN value' = ModuleIds
    BY <1>1 DEF Positions
  <2>3. at' \in Nat \ {0} /\ line' \in Nat \ {0} /\ (phase' = "equ" => at' \in 1 .. Len(order))
    BY SMT, <1>1, <1>2
  <2>4. phase' \in {"first", "equ"} /\ ordering = "ordered"
    BY <1>1 DEF Positions
  <2>5. QED
    BY <1>1, <1>2, <2>1, <2>2, <2>3, <2>4 DEF Positions
<1>4. \A m \in ModuleIds : \A i \in Equs(m) : value'[m][i] = NoValue
  <2> TAKE m \in ModuleIds
  <2> TAKE i \in Equs(m)
  <2>1. i \in DOMAIN modules[m].lines /\ modules[m].lines[i].kind = "equ"
    BY DEF Equs, Indices
  <2>2. CASE m = m0
    <3>1. value'[m] = Placed(modules[m].lines)
      BY <1>1, <2>2 DEF Positions, lines0
    <3>2. QED
      BY <2>1, <3>1 DEF Placed
  <2>3. CASE m # m0
    BY <1>1, <2>3 DEF Unevaluated, Positions
  <2>4. QED
    BY <2>2, <2>3
<1>5. Unevaluated' /\ Equations'
  BY <1>1, <1>4 DEF Unevaluated, Equations
<1>6. Progress'
  <2>1. CASE phase' = "first"
    BY <2>1 DEF Progress
  <2>2. CASE phase' = "equ" /\ at' = 1
    <3>1. 1 .. at' - 1 = {}
      BY SMT, <2>2
    <3>2. order'[at'] \in ModuleIds /\ m0' = order'[at']
      BY <1>1, <1>2, <2>2, OrderFacts DEF OrderInv, m0
    <3>3. \A i \in Equs(m0') : i \in DOMAIN modules[m0'].lines
      BY DEF Equs, Indices
    <3>4. \A i \in Equs(m0') : i \in Nat /\ i >= 1
      BY <1>1, <3>2, <3>3, LineFacts
    <3>5. \A i \in Equs(m0') : ~(i < line')
      BY SMT, <1>1, <3>4
    <3>6. QED
      BY <1>1, <2>2, <3>1, <3>5 DEF Progress
  <2>3. QED
    BY <1>1, <2>1, <2>2
<1>7. EquEvaluatedBeforeUse'
  BY <1>1 DEF EquEvaluatedBeforeUse
<1>8. QED
  BY <1>3, <1>5, <1>6, <1>7

LEMMA EvaluateKeepsEqu ==
  ASSUME OrderInv, EquInv, EvaluateEqu
  PROVE  EquInv'
<1> USE DEF EquInv
<1>1. /\ phase = "equ" /\ at \in DOMAIN order /\ m0 \in ModuleIds
      /\ line \in Equs(m0) /\ value[m0][line] = NoValue
  BY OrderFacts DEF EvaluateEqu, Positions, OrderInv, m0, Equs, Indices, here, lines0
<1> DEFINE v == Evaluate(m0, here)
<1>2. CASE v = NoValue
  <2>1. UNCHANGED <<orderVars, at, line, value>> /\ phase' = Failure(here)
    BY <1>2 DEF EvaluateEqu, Stop
  <2>2. QED
    BY <1>1, <1>2, <2>1, FailureKeepsEqu
<1>3. CASE v # NoValue
  <2>1. /\ value' = [value EXCEPT ![m0][line] = v]
        /\ UNCHANGED <<modules, order, exporter, ordering, ModuleIds, phase, at, m0>>
        /\ line' = line + 1
        /\ \A m : Equs(m)' = Equs(m)
    BY <1>3 DEF EvaluateEqu, NextLine, orderVars, ModuleIds, Equs, Indices, m0
  <2>2. m0 \in DOMAIN value /\ line \in DOMAIN value[m0]
    BY <1>1 DEF Positions, Equs, Indices
  <2>3. value'[m0][line] = v
    BY <2>1, <2>2
  <2>4. \A k \in ModuleIds : \A j \in DOMAIN modules[k].lines :
          ~(k = m0 /\ j = line) => value'[k][j] = value[k][j]
    BY <2>1, <2>2 DEF Positions
  <2>5. \A k \in ModuleIds : \A j \in DOMAIN modules[k].lines :
          value[k][j] # NoValue => value'[k][j] = value[k][j]
    BY <1>1, <2>4
  <2>6. \A k \in ModuleIds : \A j \in Equs(k) : value[k][j] # NoValue => value'[k][j] # NoValue
    BY <2>5 DEF Equs, Indices
  <2>7. Positions'
    <3>1. line' \in Nat \ {0}
      BY SMT, <2>1 DEF Positions
    <3>2. DOMAIN value' = ModuleIds /\ \A m \in ModuleIds : DOMAIN value'[m] = DOMAIN value[m]
      BY <2>1 DEF Positions
    <3>3. QED
      BY <2>1, <3>1, <3>2 DEF Positions
  <2>8. Unevaluated' /\ EquEvaluatedBeforeUse'
    BY <1>1, <2>1 DEF Unevaluated, EquEvaluatedBeforeUse
  <2>9. Progress'
    <3>1. \A j \in 1 .. at - 1 : order[j] \in ModuleIds
      BY <1>1, OrderFacts DEF OrderInv
    <3>2. \A j \in 1 .. at - 1 : Settled(order[j])'
      BY <1>1, <2>1, <2>6, <3>1 DEF Progress, Settled
    <3>3. \A i \in Equs(m0) : i \in Int
      BY <1>1, LineFacts DEF Equs, Indices
    <3>4. \A i \in Equs(m0) : i < line + 1 => i < line \/ i = line
      BY SMT, <3>3 DEF Positions
    <3>5. \A i \in Equs(m0) : i < line + 1 => value'[m0][i] # NoValue
      BY <1>1, <1>3, <2>3, <2>6, <3>4 DEF Progress
    <3>6. QED
      BY <1>1, <2>1, <3>2, <3>5 DEF Progress
  <2>10. Equations'
    <3>1. ASSUME NEW m \in ModuleIds, NEW i \in Equs(m), value'[m][i] # NoValue
          PROVE  value'[m][i] = Evaluate(m, modules[m].lines[i])'
      <4>1. i \in DOMAIN modules[m].lines
        BY DEF Equs, Indices
      <4>2. Evaluate(m, modules[m].lines[i]) # NoValue /\ value'[m][i] = Evaluate(m, modules[m].lines[i])
        <5>1. CASE m = m0 /\ i = line
          BY <1>3, <2>3, <5>1 DEF here, lines0
        <5>2. CASE ~(m = m0 /\ i = line)
          BY <1>1, <2>4, <3>1, <4>1, <5>2 DEF Equations
        <5>3. QED
          BY <5>1, <5>2
      <4>3. Evaluate(m, modules[m].lines[i])' = Evaluate(m, modules[m].lines[i])
        BY <2>1, <2>5, <4>1, <4>2, EvaluateStable
      <4>4. QED
        BY <4>2, <4>3
    <3>2. QED
      BY <2>1, <3>1 DEF Equations
  <2>11. QED
    BY <2>7, <2>8, <2>9, <2>10
<1>4. QED
  BY <1>2, <1>3

\* The end of a module in the second pass, and of the second pass.
LEMMA EndEquKeepsEqu ==
  ASSUME OrderInv, EquInv, EndEqu
  PROVE  EquInv'
<1> USE DEF EquInv
<1>1. /\ UNCHANGED <<modules, order, exporter, ordering, ModuleIds, value>>
      /\ \A m : Equs(m)' = Equs(m) /\ (Settled(m)' <=> Settled(m))
      /\ \A m, i : Evaluate(m, modules[m].lines[i])' = Evaluate(m, modules[m].lines[i])
      /\ phase = "equ" /\ line = Len(lines0) + 1
      /\ line' = 1
      /\ \/ at = Len(order) /\ phase' = "emit" /\ at' = 1
         \/ at # Len(order) /\ phase' = "equ" /\ at' = at + 1
  BY DEF EndEqu, NextModule, orderVars, moduleVars, ModuleIds, Equs, Indices, Settled, Evaluate, LineOf
<1>2. /\ m0 \in ModuleIds /\ at \in 1 .. Len(order) /\ Len(order) \in Nat
      /\ DOMAIN order = 1 .. Len(order) /\ ordering = "ordered"
  BY <1>1, OrderFacts DEF Positions, OrderInv, m0
<1>3. Settled(order[at])
  <2>1. \A i \in Equs(m0) : i \in 1 .. Len(lines0) /\ Len(lines0) \in Nat
    BY <1>2, LineFacts DEF Equs, Indices, lines0
  <2>2. \A i \in Equs(m0) : i < line
    BY SMT, <1>1, <2>1
  <2>3. QED
    BY <1>1, <2>2 DEF Progress, Settled, m0
<1>4. \A j \in 1 .. at : Settled(order[j])
  <2>1. \A j \in 1 .. at : j = at \/ j \in 1 .. at - 1
    BY SMT, <1>2
  <2>2. QED
    BY <1>1, <1>3, <2>1 DEF Progress
<1>5. Positions'
  <2>1. line' = 1 /\ (at' = 1 \/ (at # Len(order) /\ at' = at + 1))
    BY <1>1
  <2>2. at \in 1 .. Len(order) /\ Len(order) \in Nat
    BY <1>2
  <2>3. at' \in 1 .. Len(order) /\ at' \in Nat \ {0} /\ line' \in Nat \ {0}
    BY SMT, <2>1, <2>2
  <2>4. UNCHANGED <<modules, order, ordering, ModuleIds, value>>
    BY <1>1
  <2>5. QED
    BY <1>2, <2>3, <2>4 DEF Positions
<1>6. Unevaluated' /\ EquEvaluatedBeforeUse'
  BY <1>1 DEF Unevaluated, EquEvaluatedBeforeUse
<1>7. Equations'
  BY <1>1 DEF Equations
<1>8. Progress'
  <2>1. CASE phase' = "emit" /\ at = Len(order)
    <3>1. \A m \in ModuleIds : InOrder(m)
      BY <1>2, FullOrder DEF OrderInv, Complete
    <3>2. \A m \in ModuleIds : Settled(m)
      BY <1>2, <1>4, <2>1, <3>1 DEF InOrder
    <3>3. QED
      BY <1>1, <2>1, <3>2 DEF Progress
  <2>2. CASE phase' = "equ" /\ at' = at + 1 /\ at # Len(order)
    <3>1. 1 .. at' - 1 = 1 .. at /\ at' \in DOMAIN order
      <4>1. at \in 1 .. Len(order) /\ Len(order) \in Nat /\ at' = at + 1 /\ at # Len(order)
        BY <1>2, <2>2
      <4>2. at' - 1 = at /\ at' \in 1 .. Len(order)
        BY SMT, <4>1
      <4>3. QED
        BY <1>2, <4>2
    <3>2. order[at'] \in ModuleIds /\ m0' = order[at']
      BY <1>1, <3>1, OrderFacts DEF OrderInv, m0
    <3>3. \A i \in Equs(m0') : i \in Nat /\ i >= 1
      BY <3>2, LineFacts DEF Equs, Indices
    <3>4. \A i \in Equs(m0') : ~(i < line')
      BY SMT, <1>1, <3>3
    <3>5. QED
      BY <1>1, <1>4, <2>2, <3>1, <3>4 DEF Progress
  <2>3. QED
    BY <1>1, <2>1, <2>2
<1>9. QED
  BY <1>5, <1>6, <1>7, <1>8

\* What is not over after the last module goes on with another one.
LEMMA InsertKeepsEqu ==
  ASSUME OrderInv, EquInv, Insert
  PROVE  EquInv'
<1> USE DEF EquInv
<1>1. CASE phase' = "overlap"
  <2>1. UNCHANGED <<orderVars, at, line, value>>
    BY <1>1 DEF Insert, NextModule, Stop
  <2>2. QED
    BY <1>1, <2>1, EndedKeepsEqu
<1>2. CASE phase' # "overlap"
  <2>1. /\ UNCHANGED <<modules, order, exporter, ordering, ModuleIds, value>>
        /\ \A m : Equs(m)' = Equs(m) /\ (Settled(m)' <=> Settled(m))
        /\ \A m, i : Evaluate(m, modules[m].lines[i])' = Evaluate(m, modules[m].lines[i])
        /\ phase = "emit" /\ line' = 1
        /\ \/ phase' = "done" /\ at' = 1
           \/ at # Len(order) /\ phase' = "emit" /\ at' = at + 1
    BY ZenonT(60), <1>2 DEF Insert, NextModule, Stop, orderVars, moduleVars, ModuleIds, Equs, Indices, Settled, Evaluate, LineOf
  <2>2. at \in 1 .. Len(order) /\ Len(order) \in Nat /\ DOMAIN order = 1 .. Len(order)
    BY <2>1, OrderFacts DEF Positions, OrderInv
  <2>3. at' \in 1 .. Len(order) /\ at' \in Nat \ {0} /\ line' \in Nat \ {0}
    <3>1. line' = 1 /\ (at' = 1 \/ (at # Len(order) /\ at' = at + 1))
      BY <2>1
    <3>2. at \in 1 .. Len(order) /\ Len(order) \in Nat
      BY <2>2
    <3>3. QED
      BY SMT, <3>1, <3>2
  <2>4. Positions'
    <3>1. UNCHANGED <<modules, order, ordering, ModuleIds, value>> /\ ordering = "ordered"
      BY <2>1 DEF Positions
    <3>2. QED
      BY <2>2, <2>3, <3>1 DEF Positions
  <2>5. Unevaluated' /\ EquEvaluatedBeforeUse' /\ Progress' /\ Equations'
    BY ZenonT(60), <2>1 DEF Unevaluated, EquEvaluatedBeforeUse, Progress, Equations
  <2>6. QED
    BY <2>4, <2>5
<1>3. QED
  BY <1>1, <1>2

LEMMA EndEmptyKeepsEqu ==
  ASSUME OrderInv, EquInv, EndEmpty
  PROVE  EquInv'
<1> USE DEF EquInv
<1>1. /\ UNCHANGED <<modules, order, exporter, ordering, ModuleIds, at, line, value>>
      /\ phase = "first" /\ phase' = "done" /\ order = << >>
  BY DEF EndEmpty, orderVars, moduleVars, ModuleIds
<1>2. ordering = "ordered" /\ \A m \in ModuleIds : InOrder(m)
  BY <1>1, FullOrder DEF Positions, OrderInv, Complete
<1>3. ModuleIds = {}
  BY <1>1, <1>2 DEF InOrder
<1>4. Positions'
  BY <1>1 DEF Positions
<1>5. Unevaluated' /\ EquEvaluatedBeforeUse' /\ Progress' /\ Equations'
  BY <1>1, <1>3 DEF Unevaluated, EquEvaluatedBeforeUse, Progress, Equations
<1>6. QED
  BY <1>4, <1>5

\* The loop that emits: another line, or the end.
LEMMA EmitKeepsEqu ==
  ASSUME OrderInv, EquInv,
         EmitBytes \/ SinkFails \/ EmitNote \/ EmitFails \/ EmitNothing \/ LabelFails
  PROVE  EquInv'
<1>1. phase = "emit" /\ line + 1 \in Nat \ {0}
  <2>1. phase = "emit"
    BY Zenon DEF EmitBytes, SinkFails, EmitNote, EmitFails, EmitNothing, LabelFails
  <2>2. line + 1 \in Nat \ {0}
    BY SMT DEF EquInv, Positions
  <2>3. QED
    BY <2>1, <2>2
<1>2. CASE EmitBytes
  <2>1. \/ UNCHANGED <<orderVars, value, phase, at>> /\ line' = line + 1
        \/ UNCHANGED <<orderVars, at, line, value>> /\ phase' \in {"overlap in module", "crash"}
    BY <1>2 DEF EmitBytes, Stop, NextLine
  <2>2. QED
    BY <1>1, <2>1, NextLineKeepsEqu, EndedKeepsEqu
<1>3. CASE SinkFails
  <2>1. UNCHANGED <<orderVars, at, line, value>> /\ phase' = "sink"
    BY <1>3 DEF SinkFails, Stop
  <2>2. QED
    BY <2>1, EndedKeepsEqu
<1>4. CASE EmitNote
  <2>1. \/ UNCHANGED <<orderVars, value, phase, at>> /\ line' = line + 1
        \/ UNCHANGED <<orderVars, at, line, value>> /\ phase' = "crash"
    BY <1>4 DEF EmitNote, Stop, NextLine
  <2>2. QED
    BY <1>1, <2>1, NextLineKeepsEqu, EndedKeepsEqu
<1>5. CASE EmitFails
  <2>1. BranchFailures \subseteq {"crash", "out of reach"}
    BY DEF BranchFailures
  <2>2. /\ UNCHANGED <<orderVars, at, line, value>>
        /\ \/ phase' \in {"no address", "crash", "out of reach"}
           \/ phase' = Failure(here) /\ Evaluate(m0, here) = NoValue
    BY <1>5, <2>1 DEF EmitFails, Stop
  <2>3. QED
    BY <1>1, <2>2, EndedKeepsEqu, FailureKeepsEqu
<1>6. CASE EmitNothing
  <2>1. UNCHANGED <<orderVars, value, phase, at>> /\ line' = line + 1
    BY <1>6 DEF EmitNothing, NextLine, moduleVars
  <2>2. QED
    BY <1>1, <2>1, NextLineKeepsEqu
<1>7. CASE LabelFails
  <2>1. LabelFailures \subseteq {"label missing", "crash"}
    BY DEF LabelFailures
  <2>2. UNCHANGED <<orderVars, at, line, value>> /\ phase' \in {"label missing", "crash"}
    BY <1>7, <2>1 DEF LabelFails, Stop
  <2>3. QED
    BY <2>2, EndedKeepsEqu
<1>8. QED
  BY <1>2, <1>3, <1>4, <1>5, <1>6, <1>7

\* The first pass stops at a line of the module at hand.
LEMMA PlaceFailsAt ==
  ASSUME OrderInv, PlaceFails
  PROVE  /\ phase = "first" /\ at \in DOMAIN order /\ m0 \in ModuleIds
         /\ UNCHANGED <<orderVars, at, value>>
         /\ line' \in DOMAIN modules[m0].lines /\ line' \in Nat \ {0}
         /\ line' \in 1 .. Len(lines0) /\ Len(lines0) \in Nat
         /\ phase' \in {"rejected", "crash"}
         /\ phase' = "crash" =>
              LET l == modules[m0].lines[line']
              IN  l.kind = "org" /\ l.ref = "number" /\ ~IsAddress(l.to)
<1>1. /\ phase = "first" /\ at \in DOMAIN order /\ UNCHANGED <<orderVars, at, value>>
      /\ line' \in DOMAIN lines0
      /\ PlaceFailure(lines0, line') # "none" /\ phase' = PlaceFailure(lines0, line')
  BY DEF PlaceFails, moduleVars
<1>2. m0 \in ModuleIds
  BY <1>1, OrderFacts DEF OrderInv, m0
<1>3. Len(lines0) \in Nat /\ DOMAIN lines0 = 1 .. Len(lines0)
  BY <1>2, LineFacts DEF lines0
<1>4. line' \in 1 .. Len(lines0) /\ line' \in Nat \ {0}
  BY <1>1, <1>3
<1>5. PICK i \in DOMAIN lines0 :
        line' = i /\ PlaceFailure(lines0, i) # "none" /\ phase' = PlaceFailure(lines0, i)
  BY <1>1
<1> DEFINE l == lines0[i]
           failure == PlaceFailure(lines0, i)
<1>6. failure \in {"rejected", "crash", "none"}
  BY DEF PlaceFailure
<1>7. failure = "crash" => l.kind = "org" /\ l.ref = "number" /\ ~IsAddress(l.to)
  BY DEF PlaceFailure
<1>8. lines0 = modules[m0].lines
  BY DEF lines0
<1> HIDE DEF failure
<1>9. phase' \in {"rejected", "crash"} /\ (phase' = "crash" <=> failure = "crash")
  BY <1>5, <1>6 DEF failure
<1> QED
  BY <1>1, <1>2, <1>3, <1>4, <1>5, <1>7, <1>8, <1>9

LEMMA StepKeepsEqu ==
  ASSUME OrderInv, OrderInv', EquInv, [Next]_vars
  PROVE  EquInv'
<1>1. CASE FindOrder
  BY <1>1, FindOrderKeepsEqu
<1>2. CASE RunFirstPass
  BY <1>2, FirstPassKeepsEqu
<1>3. CASE PlaceFails \/ Reject \/ AnalysisCrashes
  <2>1. CASE PlaceFails
    <3>1. /\ UNCHANGED <<orderVars, at, value>> /\ line' \in Nat \ {0}
          /\ phase' \in {"rejected", "crash"}
      BY <2>1, PlaceFailsAt
    <3>2. QED
      BY <3>1, EndedKeepsEqu
  <2>2. CASE Reject \/ AnalysisCrashes
    <3>1. UNCHANGED <<orderVars, at, line, value>> /\ phase' \in {"rejected", "pull crash"}
      BY <2>2 DEF Reject, AnalysisCrashes, Stop
    <3>2. QED
      BY <3>1, EndedKeepsEqu
  <2>3. QED
    BY <1>3, <2>1, <2>2
<1>4. CASE EvaluateEqu
  BY <1>4, EvaluateKeepsEqu
<1>5. CASE SkipLine
  <2>1. /\ UNCHANGED <<orderVars, value, phase, at>> /\ line' = line + 1 /\ phase = "equ"
        /\ line \in Equs(m0) => value[m0][line] # NoValue
    BY <1>5 DEF SkipLine, NextLine, moduleVars, Equs, Indices, here, lines0
  <2>2. line + 1 \in Nat \ {0}
    BY SMT DEF EquInv, Positions
  <2>3. QED
    BY <2>1, <2>2, NextLineKeepsEqu
<1>6. CASE EndEqu
  BY <1>6, EndEquKeepsEqu
<1>7. CASE EmitBytes \/ SinkFails \/ EmitNote \/ EmitFails \/ EmitNothing \/ LabelFails
  BY <1>7, EmitKeepsEqu
<1>8. CASE Insert
  BY <1>8, InsertKeepsEqu
<1>9. CASE EndEmpty
  BY <1>9, EndEmptyKeepsEqu
<1>10. CASE Stopped \/ UNCHANGED vars
  <2>1. UNCHANGED <<orderVars, phase, at, line, value>>
    BY <1>10 DEF Stopped, vars, moduleVars
  <2>2. /\ UNCHANGED <<modules, order, exporter, ordering, ModuleIds, m0, here>>
        /\ \A m : Equs(m)' = Equs(m) /\ (Settled(m)' <=> Settled(m))
    BY <2>1 DEF orderVars, ModuleIds, Equs, Indices, Settled, m0, lines0, here
  <2>3. /\ \A m, i : Evaluate(m, modules[m].lines[i])' = Evaluate(m, modules[m].lines[i])
        /\ \A m, name : LineOf(m, name)' = LineOf(m, name)
    BY <2>1, <2>2 DEF Evaluate, LineOf
  <2>4. Positions' /\ Unevaluated' /\ Progress'
    BY <2>1, <2>2 DEF EquInv, Positions, Unevaluated, Progress
  <2>5. Equations'
    BY <2>1, <2>2, <2>3 DEF EquInv, Equations
  <2>6. EquEvaluatedBeforeUse'
    BY <2>1, <2>2, <2>3 DEF EquInv, EquEvaluatedBeforeUse
  <2>7. QED
    BY <2>4, <2>5, <2>6 DEF EquInv
<1>11. QED
  BY <1>1, <1>2, <1>3, <1>4, <1>5, <1>6, <1>7, <1>8, <1>9, <1>10 DEF Next

LEMMA EquInvariant == Spec => [](OrderInv /\ EquInv)
<1>1. Spec => []OrderInv
  BY AssemblyFindsOrder, OrderInvariant, PTL
<1>2. Init /\ OrderInv => EquInv
  BY InitEqu
<1>3. OrderInv /\ OrderInv' /\ EquInv /\ [Next]_vars => EquInv'
  BY StepKeepsEqu
<1>4. QED
  BY <1>1, <1>2, <1>3, PTL DEF Spec

-----------------------------------------------------------------------------
(* The .equ expressions: theorems *)

\* However the modules of a project refer to each other, a name without a
\* value is never that of an .equ line: the order does what it is for.
THEOREM EquBeforeUse == Spec => []EquEvaluatedBeforeUse
BY EquInvariant, PTL DEF EquInv

LEMMA SettledEquationsHold == EquInv => EquationsHold
BY DEF EquInv, Progress, Settled, Equations, EquationsHold, Equs

\* Whatever the order and the number of the modules, after the second pass
\* each .equ line of each of them equals its expression.
THEOREM EquationsSettled == Spec => []EquationsHold
BY EquInvariant, SettledEquationsHold, PTL

-----------------------------------------------------------------------------
(* Placing *)

\* A bank that exists, and an offset in it.
LEMMA InMemory ==
  ASSUME NEW q \in 0 .. Banks - 1, NEW r \in 0 .. BankSize - 1
  PROVE  q * BankSize + r \in Locations
<1>1. BankSize \in Nat \ {0} /\ Banks \in Nat \ {0}
  BY MemoryAssumption
<1>2. q \in Nat /\ r \in Nat /\ q + 1 <= Banks /\ r < BankSize
  BY <1>1
<1>3. (q + 1) * BankSize <= Banks * BankSize
  BY <1>1, <1>2
<1>4. q * BankSize + BankSize <= BankSize * Banks /\ q * BankSize \in Nat
  BY <1>1, <1>2, <1>3
<1>5. BankSize * Banks \in Nat
  BY <1>1
<1> DEFINE p == q * BankSize
           top == BankSize * Banks
<1> HIDE DEF p, top
<1>6. p \in Nat /\ top \in Nat /\ p + BankSize <= top
  BY <1>4, <1>5 DEF p, top
<1>7. p + r \in 0 .. top - 1
  BY <1>1, <1>2, <1>6
<1> QED
  BY <1>7 DEF p, top, Locations

LEMMA AddWrappedInMemory ==
  ASSUME NEW a \in Nat, NEW n \in Nat
  PROVE  AddWrapped(a, n) \in Locations
<1>1. BankSize \in Nat \ {0} /\ Banks \in Nat \ {0}
  BY MemoryAssumption
<1>2. a \div BankSize \in Nat /\ a + n \in Nat
  BY <1>1, Division
<1>3. (a \div BankSize) % Banks \in 0 .. Banks - 1
  BY <1>1, <1>2, Division
<1>4. (a + n) % BankSize \in 0 .. BankSize - 1
  BY <1>1, <1>2, Division
<1> QED
  BY <1>3, <1>4, InMemory DEF AddWrapped

LEMMA LastAddressType == LastAddress \in Nat /\ Locations \subseteq 0 .. LastAddress
<1>1. BankSize \in Nat \ {0} /\ Banks \in Nat \ {0}
  BY MemoryAssumption
<1>2. BankSize * Banks \in Nat
  BY <1>1
<1> QED
  BY <1>2 DEF LastAddress, Locations

\* f is pc of Start, up to line n.
Placing(f, lines, n) ==
  f = [i \in 0 .. n |->
        IF i = 0 THEN [start |-> NoValue, end |-> NoValue]
        ELSE LET start == IF lines[i].kind = "org" THEN lines[i].to ELSE f[i - 1].end
             IN  [start |-> start,
                  end |-> IF start = NoValue THEN NoValue ELSE AddWrapped(start, lines[i].size)]]

LEMMA PlacingExists ==
  ASSUME NEW lines
  PROVE  \A n \in Nat : \E f : Placing(f, lines, n)
<1> DEFINE Bad == {n \in Nat : ~\E f : Placing(f, lines, n)}
           First == [start |-> NoValue, end |-> NoValue]
           After(before, i) ==
             LET start == IF lines[i].kind = "org" THEN lines[i].to ELSE before.end
             IN  [start |-> start,
                  end |-> IF start = NoValue THEN NoValue ELSE AddWrapped(start, lines[i].size)]
<1>1. \A f, n : Placing(f, lines, n)
                  <=> f = [i \in 0 .. n |-> IF i = 0 THEN First ELSE After(f[i - 1], i)]
  BY DEF Placing
<1> SUFFICES ASSUME Bad # {}
             PROVE  FALSE
  OBVIOUS
<1>2. PICK n \in Bad : \A m \in Bad : n <= m
  <2>1. Bad \in SUBSET Nat
    OBVIOUS
  <2> HIDE DEF Bad
  <2> QED
    BY <2>1, LeastElement
<1>3. n \in Nat /\ ~\E f : Placing(f, lines, n)
  OBVIOUS
<1>4. CASE n = 0
  <2> DEFINE f == [i \in 0 .. 0 |-> First]
  <2> HIDE DEF First, After
  <2>1. \A i \in 0 .. 0 : (IF i = 0 THEN First ELSE After(f[i - 1], i)) = First
    OBVIOUS
  <2>2. f = [i \in 0 .. 0 |-> IF i = 0 THEN First ELSE After(f[i - 1], i)]
    BY <2>1
  <2> HIDE DEF f
  <2>3. Placing(f, lines, 0)
    BY <1>1, <2>2
  <2> QED
    BY <1>3, <1>4, <2>3
<1>5. CASE n # 0
  <2>1. n - 1 \in Nat /\ ~(n <= n - 1)
    BY <1>3, <1>5
  <2>2. PICK g : Placing(g, lines, n - 1)
    BY <1>2, <2>1
  <2> HIDE DEF First, After
  <2>3. g = [i \in 0 .. n - 1 |-> IF i = 0 THEN First ELSE After(g[i - 1], i)]
    BY <1>1, <2>2
  <2> DEFINE f == [i \in 0 .. n |-> IF i < n THEN g[i] ELSE After(g[n - 1], n)]
  <2>4. ASSUME NEW i \in 0 .. n
        PROVE  f[i] = IF i = 0 THEN First ELSE After(f[i - 1], i)
    <3>1. CASE i = 0
      <4>1. 0 \in 0 .. n - 1 /\ 0 \in 0 .. n /\ 0 < n
        BY <1>3, <1>5
      <4>2. f[0] = g[0] /\ g[0] = First
        BY <4>1, <2>3
      <4> QED
        BY <3>1, <4>2
    <3>2. CASE i # 0 /\ i < n
      <4>1. i \in 0 .. n - 1 /\ i - 1 \in 0 .. n /\ i - 1 < n
        BY <1>3, <3>2
      <4>2. f[i] = g[i] /\ f[i - 1] = g[i - 1]
        BY <4>1, <3>2
      <4>3. g[i] = After(g[i - 1], i)
        <5> HIDE DEF f
        <5> QED
          BY <4>1, <3>2, <2>3
      <4> QED
        BY <3>2, <4>2, <4>3
    <3>3. CASE i = n
      <4>1. n - 1 \in 0 .. n /\ n - 1 < n /\ n \in 0 .. n /\ ~(n < n)
        BY <1>3, <1>5
      <4>2. f[n] = After(g[n - 1], n) /\ f[n - 1] = g[n - 1]
        BY <4>1
      <4> QED
        BY <3>3, <1>5, <4>2
    <3> QED
      BY <3>1, <3>2, <3>3, <1>3
  <2>5. f = [i \in 0 .. n |-> f[i]]
    OBVIOUS
  <2> HIDE DEF f
  <2>6. f = [i \in 0 .. n |-> IF i = 0 THEN First ELSE After(f[i - 1], i)]
    BY <2>4, <2>5
  <2>7. Placing(f, lines, n)
    BY <1>1, <2>6
  <2> QED
    BY <1>3, <2>7
<1> QED
  BY <1>4, <1>5

\* When every .org names an address, every line starts at an address or
\* nowhere, and only an .org may start one past the end of memory.
LEMMA StartsAreAddresses ==
  ASSUME NEW lines \in Seq(LineTypes),
         \A i \in Indices(lines, "org") : IsAddress(lines[i].to)
  PROVE  \A i \in DOMAIN lines :
           /\ Start(lines)[i] = NoValue \/ IsAddress(Start(lines)[i])
           /\ lines[i].kind # "org" => Start(lines)[i] = NoValue \/ Start(lines)[i] \in Locations
<1> DEFINE N == Len(lines)
           f == CHOOSE g : Placing(g, lines, N)
           Good(n) == /\ f[n].start = NoValue \/ IsAddress(f[n].start)
                      /\ f[n].end = NoValue \/ f[n].end \in Locations
           Bad == {n \in 0 .. N : ~Good(n)}
<1>1. N \in Nat /\ DOMAIN lines = 1 .. N
  BY LenProperties
<1>2. Start(lines) = [i \in DOMAIN lines |-> f[i].start]
  BY DEF Start, Placing
<1>3. Placing(f, lines, N)
  BY <1>1, PlacingExists
<1> HIDE DEF f, N
<1>4. f[0] = [start |-> NoValue, end |-> NoValue]
  <2>1. 0 \in 0 .. N
    BY <1>1
  <2> QED
    BY <1>3, <2>1 DEF Placing
<1>5. ASSUME NEW n \in 1 .. N
      PROVE  /\ f[n].start = IF lines[n].kind = "org" THEN lines[n].to ELSE f[n - 1].end
             /\ f[n].end = IF f[n].start = NoValue THEN NoValue
                           ELSE AddWrapped(f[n].start, lines[n].size)
  <2>1. n \in 0 .. N /\ n # 0
    BY <1>1
  <2> DEFINE start == IF lines[n].kind = "org" THEN lines[n].to ELSE f[n - 1].end
  <2>2. f[n] = [start |-> start,
                end |-> IF start = NoValue THEN NoValue ELSE AddWrapped(start, lines[n].size)]
    BY <1>3, <2>1 DEF Placing
  <2> HIDE DEF start
  <2>3. f[n].start = start /\ f[n].end = IF start = NoValue THEN NoValue ELSE AddWrapped(start, lines[n].size)
    BY <2>2
  <2> QED
    BY <2>3 DEF start
<1>6. ASSUME NEW n \in 1 .. N, Good(n - 1)
      PROVE  /\ Good(n)
             /\ lines[n].kind # "org" => f[n].start = NoValue \/ f[n].start \in Locations
  <2>1. n \in DOMAIN lines /\ lines[n].size \in Nat
    <3>1. n \in DOMAIN lines
      BY <1>1
    <3>2. lines[n] \in LineTypes
      BY <3>1, ElementOfSeq, <1>1
    <3> QED
      BY <3>1, <3>2 DEF LineTypes
  <2>2. lines[n].kind = "org" => IsAddress(f[n].start)
    BY <1>5, <2>1 DEF Indices
  <2>3. lines[n].kind # "org" => f[n].start = NoValue \/ f[n].start \in Locations
    BY <1>5, <1>6
  <2>4. f[n].start = NoValue \/ IsAddress(f[n].start)
    BY <2>2, <2>3, LastAddressType DEF IsAddress
  <2>5. f[n].start # NoValue => AddWrapped(f[n].start, lines[n].size) \in Locations
    BY <2>1, <2>4, LastAddressType, AddWrappedInMemory DEF IsAddress
  <2>6. f[n].end = NoValue \/ f[n].end \in Locations
    BY <1>5, <2>5
  <2> QED
    BY <2>3, <2>4, <2>6
<1>7. Good(0)
  BY <1>4
<1> HIDE DEF Good
<1>8. Bad = {}
  <2> SUFFICES ASSUME Bad # {}
               PROVE  FALSE
    OBVIOUS
  <2>1. PICK n \in Bad : \A m \in Bad : n <= m
    <3>1. Bad \in SUBSET Nat
      BY <1>1
    <3> HIDE DEF Bad
    <3> QED
      BY <3>1, LeastElement
  <2>2. n \in 0 .. N /\ ~Good(n)
    OBVIOUS
  <2>3. n # 0
    BY <1>7, <2>2
  <2>4. n \in 1 .. N /\ n - 1 \in 0 .. N /\ ~(n <= n - 1)
    BY <2>2, <2>3, <1>1
  <2>5. Good(n - 1)
    BY <2>1, <2>4
  <2> QED
    BY <2>2, <2>4, <2>5, <1>6
<1>9. ASSUME NEW i \in DOMAIN lines
      PROVE  /\ Start(lines)[i] = NoValue \/ IsAddress(Start(lines)[i])
             /\ lines[i].kind # "org" => Start(lines)[i] = NoValue \/ Start(lines)[i] \in Locations
  <2>1. i \in 1 .. N /\ i - 1 \in 0 .. N /\ i \in 0 .. N
    BY <1>1
  <2>2. Good(i - 1) /\ Good(i)
    BY <1>8, <2>1
  <2>3. Start(lines)[i] = f[i].start
    BY <1>2
  <2>4. lines[i].kind # "org" => f[i].start = NoValue \/ f[i].start \in Locations
    BY <1>6, <2>1, <2>2
  <2> QED
    BY <2>2, <2>3, <2>4 DEF Good
<1> QED
  BY <1>9

-----------------------------------------------------------------------------
(* Values and places: the inductive invariant *)

HasPlaces(m) ==
  \A i \in DOMAIN modules[m].lines : modules[m].lines[i].size > 0 => value[m][i] # NoValue

\* Only an .equ line has a value that is not an address, and what takes up
\* space is in memory.
Values ==
  \A m \in ModuleIds : \A i \in DOMAIN modules[m].lines :
    /\ value[m][i] \in Int \cup {NoValue}
    /\ modules[m].lines[i].kind # "equ" => value[m][i] = NoValue \/ IsAddress(value[m][i])
    /\ modules[m].lines[i].size > 0 => value[m][i] = NoValue \/ value[m][i] \in Locations

\* The first pass has placed what lies behind it.
Places ==
  /\ phase = "first" => \A j \in 1 .. at - 1 : HasPlaces(order[j])
  /\ phase \in {"equ", "emit", "done"} => \A m \in ModuleIds : HasPlaces(m)

\* The loops stay within the order, and within the module at hand.
Loops ==
  /\ at = 1 \/ at \in DOMAIN order
  /\ line \in 1 .. IF at \in DOMAIN order THEN Len(lines0) + 1 ELSE 1
  /\ phase = "order" => at = 1 /\ line = 1

Endings == phase \in Phases \/ (phase = "no address" /\ here.kind = "entry")

\* What was noted are lines, at addresses, and so is what was written.
Notes ==
  /\ DOMAIN targets = ModuleIds /\ DOMAIN conventions = ModuleIds
  /\ DOMAIN sink = Locations /\ \A b \in Locations : sink[b] \subseteq Origins
  /\ \A m \in ModuleIds :
       /\ \A a \in DOMAIN targets[m] : IsAddress(a) /\ targets[m][a] \subseteq DOMAIN modules[m].lines
       /\ \A a \in DOMAIN conventions[m] : IsAddress(a) /\ conventions[m][a] \in DOMAIN modules[m].lines

\* A crash is due to a constant.
CrashHere ==
  IF line = Len(lines0) + 1
    THEN \E i \in Indices(lines0, "equ") : lines0[i].label # NoLabel /\ ~IsAddress(value[m0][i])
    ELSE \/ here.kind = "org" /\ here.ref = "number" /\ ~IsAddress(here.to)
         \/ here.kind \in {"branch", "far", "jump", "remote"} /\ ~IsAddress(Evaluate(m0, here))

Crashes == phase = "crash" => CrashHere

PlaceInv == Values /\ Places /\ Loops /\ Endings /\ Notes /\ Crashes

-----------------------------------------------------------------------------

LEMMA LineTypeFacts ==
  ASSUME OrderInv, NEW m \in ModuleIds, NEW i \in DOMAIN modules[m].lines
  PROVE  /\ modules[m].lines[i].kind \in LineKinds
         /\ modules[m].lines[i].ref \in {"number", "line", "name"}
         /\ modules[m].lines[i].to \in Int /\ modules[m].lines[i].size \in Nat
         /\ modules[m].lines[i].size > 0 => modules[m].lines[i].kind \in CodeKinds
         /\ modules[m].lines[i].kind \in CodeKinds \ {"code"} => modules[m].lines[i].size > 0
<1>1. modules \in Seq(Modules)
  BY ProjectsAssumption DEF OrderInv, OrderTypeOK
<1>2. modules[m] \in Modules
  BY <1>1, LenProperties DEF ModuleIds
<1>3. modules[m].lines \in Seq(LineTypes)
  BY <1>2, ModulesAssumption
<1>4. modules[m].lines[i] \in LineTypes
  BY <1>3, ElementOfSeq, LenProperties
<1>5. /\ modules[m].lines[i].size > 0 => modules[m].lines[i].kind \in CodeKinds
      /\ modules[m].lines[i].kind \in CodeKinds \ {"code"} => modules[m].lines[i].size > 0
  BY <1>2, ModulesAssumption
<1> QED
  BY <1>4, <1>5 DEF LineTypes

\* Expressions are integers.
LEMMA EvaluateType ==
  ASSUME OrderInv, Values, NEW m \in ModuleIds, NEW i \in DOMAIN modules[m].lines
  PROVE  Evaluate(m, modules[m].lines[i]) \in Int \cup {NoValue}
<1> DEFINE l == modules[m].lines[i]
<1>1. l.to \in Int
  BY LineTypeFacts
<1>2. CASE l.ref = "number"
  BY <1>1, <1>2 DEF Evaluate
<1>3. CASE l.ref = "line"
  <2>1. l.to \in DOMAIN modules[m].lines
    BY <1>3, LineFacts
  <2>2. Evaluate(m, l) = value[m][l.to]
    BY <1>3 DEF Evaluate
  <2> QED
    BY <2>1, <2>2 DEF Values
<1>4. CASE l.ref = "name" /\ l.to \in DOMAIN exporter
  <2> DEFINE k == exporter[l.to]
             j == LineOf(k, l.to)
  <2>1. k \in ModuleIds /\ j \in DOMAIN modules[k].lines
    BY <1>4, ExporterFacts
  <2>2. Evaluate(m, l) = value[k][j]
    BY <1>4 DEF Evaluate
  <2> QED
    BY <2>1, <2>2 DEF Values
<1>5. CASE l.ref \notin {"number", "line"} /\ ~(l.ref = "name" /\ l.to \in DOMAIN exporter)
  BY <1>5 DEF Evaluate
<1> QED
  BY <1>2, <1>3, <1>4, <1>5

\* What a step can change.
LEMMA StepFacts ==
  ASSUME [Next]_vars
  PROVE  /\ UNCHANGED modules
         /\ phase # "order" => UNCHANGED orderVars
         /\ UNCHANGED value \/ RunFirstPass \/ EvaluateEqu
<1>1. CASE FindOrder
  <2>1. UNCHANGED <<modules, value>> /\ phase = "order"
    BY <1>1 DEF FindOrder, EndSweep, Pass, Take, moduleVars
  <2> QED
    BY <2>1
<1>2. CASE RunFirstPass \/ EvaluateEqu
  BY <1>2 DEF RunFirstPass, EvaluateEqu, Stop, orderVars
<1>3. CASE PlaceFails \/ Reject \/ AnalysisCrashes \/ SkipLine \/ EndEqu
  BY <1>3 DEF PlaceFails, Reject, AnalysisCrashes, SkipLine, EndEqu, Stop, orderVars, moduleVars
<1>4. CASE EmitBytes
  BY <1>4 DEF EmitBytes, Stop, orderVars
<1>5. CASE SinkFails \/ EmitNote \/ EmitFails \/ EmitNothing
  BY <1>5 DEF SinkFails, EmitNote, EmitFails, EmitNothing, Stop, orderVars, moduleVars
<1>6. CASE LabelFails \/ Insert
  BY <1>6 DEF LabelFails, Insert, Stop, orderVars, moduleVars
<1>7. CASE EndEmpty \/ Stopped \/ UNCHANGED vars
  BY <1>7 DEF EndEmpty, Stopped, vars, orderVars, moduleVars
<1> QED
  BY <1>1, <1>2, <1>3, <1>4, <1>5, <1>6, <1>7 DEF Next

\* What holds of the lines of a module when none of them is a failure.
LEMMA PlaceableLines ==
  ASSUME NEW lines, Placeable(lines)
  PROVE  /\ \A i \in Indices(lines, "org") : IsAddress(lines[i].to)
         /\ \A i \in DOMAIN lines : lines[i].kind # "org" /\ lines[i].size > 0 => Start(lines)[i] # NoValue
<1>1. \A i \in DOMAIN lines : PlaceFailure(lines, i) = "none"
  BY DEF Placeable
<1>2. ASSUME NEW i \in Indices(lines, "org")
      PROVE  IsAddress(lines[i].to)
  BY <1>1 DEF Indices, PlaceFailure
<1>3. ASSUME NEW i \in DOMAIN lines, lines[i].kind # "org", lines[i].size > 0
      PROVE  Start(lines)[i] # NoValue
  BY <1>1, <1>3 DEF PlaceFailure
<1> QED
  BY <1>2, <1>3

LEMMA PlacedValues ==
  ASSUME OrderInv, NEW m \in ModuleIds, Placeable(modules[m].lines), NEW i \in DOMAIN modules[m].lines
  PROVE  LET v == Placed(modules[m].lines)[i]
             l == modules[m].lines[i]
         IN  /\ v \in Int \cup {NoValue}
             /\ v = NoValue \/ IsAddress(v)
             /\ l.size > 0 => v # NoValue /\ v \in Locations
<1> DEFINE lines == modules[m].lines
           v == Placed(lines)[i]
           l == lines[i]
<1>1. lines \in Seq(LineTypes) /\ \A k \in Indices(lines, "org") : IsAddress(lines[k].to)
  BY LineFacts, PlaceableLines
<1>2. /\ Start(lines)[i] = NoValue \/ IsAddress(Start(lines)[i])
      /\ l.kind # "org" => Start(lines)[i] = NoValue \/ Start(lines)[i] \in Locations
  BY <1>1, StartsAreAddresses
<1>3. v = IF l.kind = "equ" THEN NoValue ELSE Start(lines)[i]
  BY DEF Placed
<1>4. l.size > 0 => l.kind \notin {"equ", "org"}
  BY LineTypeFacts DEF CodeKinds
<1>5. l.size > 0 => Start(lines)[i] # NoValue
  BY <1>4, PlaceableLines
<1>6. v = NoValue \/ IsAddress(v)
  BY <1>2, <1>3
<1>7. l.size > 0 => v # NoValue /\ v \in Locations
  BY <1>2, <1>3, <1>4, <1>5
<1>8. v \in Int \cup {NoValue}
  BY <1>6, LastAddressType DEF IsAddress
<1> QED
  BY <1>6, <1>7, <1>8

\* What the first pass and an evaluated .equ line do to the values.
LEMMA FirstPassValues ==
  ASSUME OrderInv, EquInv, RunFirstPass
  PROVE  /\ m0 \in ModuleIds
         /\ value'[m0] = Placed(modules[m0].lines)
         /\ \A m \in ModuleIds : m # m0 => value'[m] = value[m]
         /\ Placeable(modules[m0].lines)
<1>1. at \in DOMAIN order /\ value' = [value EXCEPT ![m0] = Placed(lines0)] /\ Placeable(lines0)
  BY DEF RunFirstPass
<1>2. m0 \in ModuleIds
  BY <1>1, OrderFacts DEF OrderInv, m0
<1> QED
  BY <1>1, <1>2 DEF EquInv, Positions, lines0

LEMMA EquValues ==
  ASSUME OrderInv, EquInv, EvaluateEqu, ~UNCHANGED value
  PROVE  /\ m0 \in ModuleIds /\ line \in DOMAIN modules[m0].lines
         /\ modules[m0].lines[line].kind = "equ"
         /\ value'[m0][line] = Evaluate(m0, modules[m0].lines[line])
         /\ value'[m0][line] # NoValue
         /\ \A m \in ModuleIds : \A i \in DOMAIN modules[m].lines :
              <<m, i>> # <<m0, line>> => value'[m][i] = value[m][i]
<1> DEFINE v == Evaluate(m0, here)
<1>1. /\ phase = "equ" /\ at \in DOMAIN order /\ line \in DOMAIN lines0 /\ here.kind = "equ"
      /\ v # NoValue /\ value' = [value EXCEPT ![m0][line] = v]
  BY DEF EvaluateEqu, Stop, EquInv, Positions
<1>2. m0 \in ModuleIds
  BY <1>1, OrderFacts DEF OrderInv, m0
<1> HIDE DEF v
<1>3. value' = [value EXCEPT ![m0] = [value[m0] EXCEPT ![line] = v]]
  BY <1>1
<1>4. /\ DOMAIN value = ModuleIds
      /\ \A m \in ModuleIds : DOMAIN value[m] = DOMAIN modules[m].lines
  BY DEF EquInv, Positions
<1>5. /\ value'[m0] = [value[m0] EXCEPT ![line] = v]
      /\ \A m \in ModuleIds : m # m0 => value'[m] = value[m]
  BY <1>2, <1>3, <1>4
<1>6. line \in DOMAIN value[m0]
  BY <1>1, <1>2, <1>4 DEF lines0
<1>7. /\ value'[m0][line] = v
      /\ \A i \in DOMAIN modules[m0].lines : i # line => value'[m0][i] = value[m0][i]
  BY <1>2, <1>4, <1>5, <1>6
<1> QED
  BY <1>1, <1>2, <1>5, <1>7 DEF v, here, lines0

LEMMA ValuesStep ==
  ASSUME OrderInv, EquInv, Values, [Next]_vars
  PROVE  Values'
<1>1. UNCHANGED <<modules, ModuleIds>> /\ (UNCHANGED value \/ RunFirstPass \/ EvaluateEqu)
  BY StepFacts DEF ModuleIds
<1>2. CASE UNCHANGED value
  BY <1>1, <1>2 DEF Values
<1>3. CASE RunFirstPass
  <2> SUFFICES ASSUME NEW m \in ModuleIds, NEW i \in DOMAIN modules[m].lines
               PROVE  /\ value'[m][i] \in Int \cup {NoValue}
                      /\ modules[m].lines[i].kind # "equ" => value'[m][i] = NoValue \/ IsAddress(value'[m][i])
                      /\ modules[m].lines[i].size > 0 => value'[m][i] = NoValue \/ value'[m][i] \in Locations
    BY <1>1 DEF Values
  <2>1. CASE m = m0
    <3>1. value'[m][i] = Placed(modules[m].lines)[i] /\ Placeable(modules[m].lines)
      BY <1>3, <2>1, FirstPassValues
    <3> QED
      BY <3>1, PlacedValues
  <2>2. CASE m # m0
    <3>1. value'[m] = value[m]
      BY <1>3, <2>2, FirstPassValues
    <3> QED
      BY <3>1 DEF Values
  <2> QED
    BY <2>1, <2>2
<1>4. CASE EvaluateEqu /\ ~UNCHANGED value
  <2> SUFFICES ASSUME NEW m \in ModuleIds, NEW i \in DOMAIN modules[m].lines
               PROVE  /\ value'[m][i] \in Int \cup {NoValue}
                      /\ modules[m].lines[i].kind # "equ" => value'[m][i] = NoValue \/ IsAddress(value'[m][i])
                      /\ modules[m].lines[i].size > 0 => value'[m][i] = NoValue \/ value'[m][i] \in Locations
    BY <1>1 DEF Values
  <2>1. CASE m = m0 /\ i = line
    <3>1. /\ modules[m].lines[i].kind = "equ"
          /\ value'[m][i] = Evaluate(m, modules[m].lines[i])
      BY <1>4, <2>1, EquValues
    <3>2. Evaluate(m, modules[m].lines[i]) \in Int \cup {NoValue}
      BY EvaluateType
    <3>3. ~(modules[m].lines[i].size > 0)
      BY <3>1, LineTypeFacts DEF CodeKinds
    <3> QED
      BY <3>1, <3>2, <3>3
  <2>2. CASE <<m, i>> # <<m0, line>>
    <3>1. value'[m][i] = value[m][i]
      BY <1>4, <2>2, EquValues
    <3> QED
      BY <3>1 DEF Values
  <2> QED
    BY <2>1, <2>2
<1> QED
  BY <1>1, <1>2, <1>3, <1>4

-----------------------------------------------------------------------------
(* Where a step goes *)

Running == {"order", "first", "equ", "emit", "done"}

\* The assembly stops at the line at hand, or at one that cannot be placed.
Halts ==
  /\ phase' \notin Running /\ UNCHANGED <<orderVars, at, value>>
  /\ UNCHANGED line \/ PlaceFails

\* A module is through; after the last comes the next loop.
Goes(from, to) ==
  /\ phase = from /\ at \in DOMAIN order /\ line' = 1 /\ UNCHANGED orderVars
  /\ \/ at = Len(order) /\ phase' = to /\ at' = 1
     \/ at # Len(order) /\ phase' = from /\ at' = at + 1

LEMMA Moves ==
  ASSUME OrderInv, EquInv, [Next]_vars
  PROVE  \/ FindOrder /\ UNCHANGED <<at, line, value>>
         \/ Halts /\ phase \in {"first", "equ", "emit"}
         \/ /\ phase \in {"equ", "emit"} /\ line \in DOMAIN lines0
            /\ line' = line + 1 /\ UNCHANGED <<orderVars, phase, at>>
            /\ UNCHANGED value \/ (EvaluateEqu /\ ~UNCHANGED value)
         \/ Goes("first", "equ") /\ RunFirstPass
         \/ Goes("equ", "emit") /\ UNCHANGED value
         \/ Goes("emit", "done") /\ Insert /\ UNCHANGED value
         \/ EndEmpty
         \/ UNCHANGED <<orderVars, phase, at, line, value>>
<1>1. phase \in {"equ", "emit"} => at \in DOMAIN order
  BY DEF EquInv, Positions
<1>2. CASE FindOrder
  BY <1>2 DEF FindOrder, moduleVars
<1>3. CASE RunFirstPass
  BY <1>3 DEF RunFirstPass, NextModule, Goes
<1>4. CASE PlaceFails \/ Reject \/ AnalysisCrashes
  <2>1. CASE PlaceFails
    BY <2>1, PlaceFailsAt DEF Halts, Running
  <2>2. CASE Reject \/ AnalysisCrashes
    BY <2>2 DEF Reject, AnalysisCrashes, Stop, Halts, Running
  <2> QED
    BY <1>4, <2>1, <2>2
<1>5. CASE EvaluateEqu
  <2>1. CASE Evaluate(m0, here) = NoValue
    <3>1. Failure(here) \in {"before definition", "no value", "undefined"}
      BY DEF Failure
    <3> QED
      BY <1>5, <2>1, <3>1 DEF EvaluateEqu, Stop, Halts, Running
  <2>2. CASE Evaluate(m0, here) # NoValue
    BY <1>5, <2>2 DEF EvaluateEqu, NextLine
  <2> QED
    BY <2>1, <2>2
<1>6. CASE SkipLine
  BY <1>6 DEF SkipLine, NextLine, moduleVars
<1>7. CASE EndEqu
  BY <1>1, <1>7 DEF EndEqu, NextModule, Goes, moduleVars
<1>8. CASE EmitBytes
  <2>1. \/ UNCHANGED <<orderVars, value, phase, at>> /\ line' = line + 1
        \/ UNCHANGED <<orderVars, at, line, value>> /\ phase' \in {"overlap in module", "crash"}
    BY <1>8 DEF EmitBytes, Stop, NextLine
  <2>2. phase = "emit" /\ line \in DOMAIN lines0
    BY <1>8 DEF EmitBytes
  <2> QED
    BY <2>1, <2>2 DEF Halts, Running
<1>9. CASE SinkFails
  BY <1>9 DEF SinkFails, Stop, Halts, Running
<1>10. CASE EmitNote
  <2>1. \/ UNCHANGED <<orderVars, value, phase, at>> /\ line' = line + 1
        \/ UNCHANGED <<orderVars, at, line, value>> /\ phase' = "crash"
    BY <1>10 DEF EmitNote, Stop, NextLine
  <2>2. phase = "emit" /\ line \in DOMAIN lines0
    BY <1>10 DEF EmitNote
  <2> QED
    BY <2>1, <2>2 DEF Halts, Running
<1>11. CASE EmitFails
  <2>1. BranchFailures \subseteq {"crash", "out of reach"}
    BY DEF BranchFailures
  <2>2. Failure(here) \in {"before definition", "no value", "undefined"}
    BY DEF Failure
  <2>3. /\ UNCHANGED <<orderVars, at, line, value>>
        /\ phase' \in {"no address", "crash", "out of reach"} \/ phase' = Failure(here)
    BY <1>11, <2>1 DEF EmitFails, Stop
  <2>4. phase = "emit"
    BY <1>11 DEF EmitFails
  <2> QED
    BY <2>2, <2>3, <2>4 DEF Halts, Running
<1>12. CASE EmitNothing
  BY <1>12 DEF EmitNothing, NextLine, moduleVars
<1>13. CASE LabelFails
  <2>1. LabelFailures \subseteq {"label missing", "crash"}
    BY DEF LabelFailures
  <2>2. UNCHANGED <<orderVars, at, line, value>> /\ phase' \in {"label missing", "crash"}
    BY <1>13, <2>1 DEF LabelFails, Stop
  <2>3. phase = "emit"
    BY <1>13 DEF LabelFails
  <2> QED
    BY <2>2, <2>3 DEF Halts, Running
<1>14. CASE Insert
  <2>1. \/ UNCHANGED <<orderVars, moduleVars>> /\ NextModule("done")
        \/ UNCHANGED <<orderVars, at, line, value>> /\ phase' = "overlap"
    BY <1>14 DEF Insert, Stop
  <2>2. phase = "emit"
    BY <1>14 DEF Insert
  <2>3. CASE UNCHANGED <<orderVars, moduleVars>> /\ NextModule("done")
    BY <1>1, <1>14, <2>2, <2>3 DEF NextModule, Goes, moduleVars
  <2>4. CASE UNCHANGED <<orderVars, at, line, value>> /\ phase' = "overlap"
    BY <2>2, <2>4 DEF Halts, Running
  <2> QED
    BY <2>1, <2>3, <2>4
<1>15. CASE EndEmpty
  BY <1>15
<1>16. CASE Stopped \/ UNCHANGED vars
  BY <1>16 DEF Stopped, vars, moduleVars
<1> QED
  BY <1>2, <1>3, <1>4, <1>5, <1>6, <1>7, <1>8, <1>9, <1>10, <1>11, <1>12, <1>13, <1>14, <1>15, <1>16 DEF Next

\* FindOrder leaves the loops where they are, and their first module is there
\* before they begin.
LEMMA FindOrderMoves ==
  ASSUME OrderInv, FindOrder
  PROVE  /\ phase = "order" /\ phase' \in {"order", "first", "cyclic", "duplicate"}
         /\ UNCHANGED <<modules, at, line, moduleVars, outputVars>>
<1>1. ordering' \in {"sweeping", "ordered", "cyclic", "duplicate"}
  BY DEF FindOrder, EndSweep, Pass, Take, OrderInv, OrderTypeOK
<1>2. UNCHANGED modules
  BY DEF FindOrder, EndSweep, Pass, Take
<1> QED
  BY <1>1, <1>2 DEF FindOrder

LEMMA LoopsStep ==
  ASSUME OrderInv, OrderInv', EquInv, Loops, [Next]_vars
  PROVE  Loops'
<1>1. /\ Len(order) \in Nat /\ DOMAIN order = 1 .. Len(order)
      /\ Len(order') \in Nat /\ DOMAIN order' = 1 .. Len(order')
      /\ \A i \in DOMAIN order : order[i] \in ModuleIds
      /\ \A i \in DOMAIN order' : order'[i] \in ModuleIds'
  BY OrderFacts, LenProperties DEF OrderInv, OrderTypeOK
<1>2. at \in DOMAIN order => Len(lines0) \in Nat /\ DOMAIN lines0 = 1 .. Len(lines0)
  BY <1>1, LineFacts DEF lines0, m0
<1>3. at' \in DOMAIN order' => Len(lines0') \in Nat
  <2>1. ASSUME NEW m \in ModuleIds'
        PROVE  Len(modules'[m].lines) \in Nat
    <3>1. UNCHANGED modules
      BY StepFacts
    <3> QED
      BY <2>1, <3>1, LineFacts DEF ModuleIds
  <2> QED
    BY <1>1, <2>1 DEF lines0, m0
<1>4. CASE line' = 1 /\ (at' = 1 \/ at' \in DOMAIN order') /\ (phase' = "order" => at' = 1)
  <2>1. line' \in 1 .. IF at' \in DOMAIN order' THEN Len(lines0') + 1 ELSE 1
    BY <1>3, <1>4
  <2> QED
    BY <1>4, <2>1 DEF Loops
<1>5. CASE FindOrder /\ UNCHANGED <<at, line, value>>
  <2>1. at = 1 /\ line = 1
    BY <1>5 DEF FindOrder, Loops
  <2> QED
    BY <1>4, <1>5, <2>1
<1>6. CASE UNCHANGED <<orderVars, at, line>> /\ (phase' = "order" => phase = "order")
  BY <1>6 DEF Loops, orderVars, lines0, m0
<1>7. CASE Halts
  <2>1. CASE UNCHANGED line
    BY <1>6, <1>7, <2>1 DEF Halts, Running
  <2>2. CASE PlaceFails
    <3>1. /\ phase' # "order" /\ at \in DOMAIN order /\ UNCHANGED <<orderVars, at>>
          /\ line' \in 1 .. Len(lines0) /\ Len(lines0) \in Nat
      BY <2>2, PlaceFailsAt
    <3>2. UNCHANGED <<lines0, order>>
      BY <3>1 DEF orderVars, lines0, m0
    <3>3. line' \in 1 .. Len(lines0) + 1
      BY <3>1
    <3> QED
      BY <3>1, <3>2, <3>3 DEF Loops
  <2> QED
    BY <1>7, <2>1, <2>2 DEF Halts
<1>8. CASE /\ phase \in {"equ", "emit"} /\ line \in DOMAIN lines0
           /\ line' = line + 1 /\ UNCHANGED <<orderVars, phase, at>>
  <2>1. at \in DOMAIN order
    BY <1>8 DEF EquInv, Positions
  <2>2. UNCHANGED <<lines0, order>>
    BY <1>8 DEF orderVars, lines0, m0
  <2>3. line' \in 1 .. Len(lines0) + 1
    BY <1>2, <1>8, <2>1
  <2> QED
    BY <1>8, <2>1, <2>2, <2>3 DEF Loops
<1>9. ASSUME NEW from \in {"first", "equ", "emit"}, NEW to \in Running \ {"order"}, Goes(from, to)
      PROVE  Loops'
  <2>1. line' = 1 /\ UNCHANGED order /\ phase' # "order"
    BY <1>9 DEF Goes, orderVars
  <2>2. at' = 1 \/ (at \in 1 .. Len(order) /\ at # Len(order) /\ at' = at + 1)
    BY <1>1, <1>9 DEF Goes
  <2>3. at' = 1 \/ at' \in DOMAIN order'
    BY <1>1, <2>1, <2>2
  <2> QED
    BY <1>4, <2>1, <2>3
<1>10. CASE EndEmpty
  BY <1>6, <1>10 DEF EndEmpty
<1> QED
  BY <1>5, <1>6, <1>7, <1>8, <1>9, <1>10, Moves DEF Running

LEMMA HasPlacesStays ==
  ASSUME UNCHANGED modules, NEW m, value'[m] = value[m]
  PROVE  HasPlaces(m)' <=> HasPlaces(m)
BY DEF HasPlaces

\* A finished order holds every module.
LEMMA OrderedHoldsAll ==
  ASSUME OrderInv, EquInv, phase \in {"first", "equ", "emit", "done"}
  PROVE  \A m \in ModuleIds : \E j \in 1 .. Len(order) : order[j] = m
<1>1. ordering = "ordered" /\ DOMAIN order = 1 .. Len(order)
  BY OrderFacts DEF EquInv, Positions, OrderInv
<1>2. \A m \in ModuleIds : InOrder(m)
  BY <1>1, FullOrder DEF OrderInv, Complete
<1> QED
  BY <1>1, <1>2 DEF InOrder

LEMMA EmptyHasNone ==
  ASSUME OrderInv, EquInv, EndEmpty
  PROVE  ModuleIds = {}
<1>1. phase = "first" /\ order = << >>
  BY DEF EndEmpty
<1>2. 1 .. Len(order) = {}
  BY <1>1
<1> QED
  BY <1>1, <1>2, OrderedHoldsAll

LEMMA PlacesStep ==
  ASSUME OrderInv, EquInv, Values, Loops, Places, [Next]_vars
  PROVE  Places'
<1>1. UNCHANGED <<modules, ModuleIds>>
  BY StepFacts DEF ModuleIds
<1>2. Len(order) \in Nat /\ DOMAIN order = 1 .. Len(order)
  BY OrderFacts DEF OrderInv
<1>3. CASE FindOrder /\ UNCHANGED <<at, line, value>>
  <2>1. phase = "order" /\ phase' \in {"order", "first", "cyclic", "duplicate"}
    BY <1>3, FindOrderMoves
  <2>2. at' = 1
    BY <1>3, <2>1 DEF Loops
  <2>3. 1 .. at' - 1 = {}
    BY <2>2
  <2> QED
    BY <2>1, <2>3 DEF Places
<1>4. CASE Halts
  BY <1>4 DEF Halts, Running, Places
<1>5. CASE UNCHANGED <<orderVars, phase, at, value>>
  <2>1. \A m : HasPlaces(m)' <=> HasPlaces(m)
    BY <1>1, <1>5, HasPlacesStays
  <2> QED
    BY <1>1, <1>5, <2>1 DEF Places, orderVars
<1>6. CASE phase \in {"equ", "emit"} /\ UNCHANGED phase /\ EvaluateEqu /\ ~UNCHANGED value
  <2>1. \A m \in ModuleIds : HasPlaces(m)
    BY <1>6 DEF Places
  <2>2. \A m \in ModuleIds : HasPlaces(m)'
    <3>1. \A m \in ModuleIds : \A i \in DOMAIN modules[m].lines :
            value'[m][i] = value[m][i] \/ value'[m][i] # NoValue
      BY <1>6, EquValues
    <3> QED
      BY <1>1, <2>1, <3>1 DEF HasPlaces
  <2> QED
    BY <1>1, <1>6, <2>2 DEF Places
<1>7. CASE Goes("first", "equ") /\ RunFirstPass
  <2>1. \A m \in ModuleIds : m = m0 => HasPlaces(m)'
    <3>1. m0 \in ModuleIds /\ value'[m0] = Placed(modules[m0].lines) /\ Placeable(modules[m0].lines)
      BY <1>7, FirstPassValues
    <3>2. \A i \in DOMAIN modules[m0].lines : modules[m0].lines[i].size > 0 => value'[m0][i] # NoValue
      BY <3>1, PlacedValues
    <3> QED
      BY <1>1, <3>2 DEF HasPlaces
  <2>2. \A j \in 1 .. at : HasPlaces(order[j])'
    <3> SUFFICES ASSUME NEW j \in 1 .. at
                 PROVE  HasPlaces(order[j])'
      OBVIOUS
    <3>1. UNCHANGED order
      BY <1>7 DEF Goes, orderVars
    <3>2. CASE order[j] = m0
      <4>1. m0 \in ModuleIds
        BY <1>7, FirstPassValues
      <4>2. order'[j] = m0
        BY <3>1, <3>2
      <4> QED
        BY <1>1, <2>1, <4>1, <4>2 DEF HasPlaces
    <3>3. CASE order[j] # m0
      <4>1. at \in 1 .. Len(order) /\ phase = "first"
        BY <1>2, <1>7 DEF Goes
      <4>2. j \in 1 .. at - 1 /\ j \in DOMAIN order
        <5>1. j # at
          BY <3>3 DEF m0
        <5> QED
          BY <1>2, <4>1, <5>1
      <4>3. HasPlaces(order[j]) /\ order[j] \in ModuleIds
        BY <4>1, <4>2, OrderFacts DEF Places, OrderInv
      <4>4. value'[order[j]] = value[order[j]]
        BY <1>7, <3>3, <4>3, FirstPassValues
      <4> QED
        BY <1>1, <3>1, <4>3, <4>4 DEF HasPlaces
    <3> QED
      BY <3>2, <3>3
  <2>3. CASE phase' = "first" /\ at' = at + 1
    <3>1. 1 .. at' - 1 = 1 .. at
      BY <1>2, <1>7, <2>3 DEF Goes
    <3>2. UNCHANGED order
      BY <1>7 DEF Goes, orderVars
    <3> QED
      BY <2>2, <2>3, <3>1, <3>2 DEF Places, HasPlaces
  <2>4. CASE phase' = "equ" /\ at = Len(order)
    <3>1. \A m \in ModuleIds : \E j \in 1 .. at : order[j] = m
      BY <1>7, <2>4, OrderedHoldsAll DEF Goes
    <3>2. UNCHANGED order
      BY <1>7 DEF Goes, orderVars
    <3>3. \A m \in ModuleIds : HasPlaces(m)'
      BY <2>2, <3>1, <3>2 DEF HasPlaces
    <3> QED
      BY <1>1, <2>4, <3>3 DEF Places
  <2> QED
    BY <1>7, <2>3, <2>4 DEF Goes
<1>8. CASE (Goes("equ", "emit") \/ Goes("emit", "done")) /\ UNCHANGED value
  <2>1. \A m \in ModuleIds : HasPlaces(m)
    BY <1>8 DEF Places, Goes
  <2>2. \A m \in ModuleIds : HasPlaces(m)'
    BY <1>1, <1>8, <2>1, HasPlacesStays
  <2>3. phase' # "first"
    BY <1>8 DEF Goes
  <2> QED
    BY <1>1, <2>2, <2>3 DEF Places
<1>9. CASE EndEmpty
  <2>1. ModuleIds = {} /\ phase' = "done"
    BY <1>9, EmptyHasNone DEF EndEmpty
  <2> QED
    BY <1>1, <2>1 DEF Places
<1> QED
  BY <1>3, <1>4, <1>5, <1>6, <1>7, <1>8, <1>9, Moves

-----------------------------------------------------------------------------
(* How the assembly stops *)

LEMMA FailureKinds ==
  ASSUME NEW l
  PROVE  Failure(l) \in {"before definition", "no value", "undefined"}
BY DEF Failure

\* A jump within the bank always leads to an address.
LEMMA JumpStaysInMemory ==
  ASSUME NEW l, l.kind # "far", l.to \in Int, NEW a \in Locations
  PROVE  IsAddress(FarBranchTarget(l, a))
<1>1. BankSize \in Nat \ {0} /\ Banks \in Nat \ {0}
  BY MemoryAssumption
<1>2. a \in Nat
  BY LastAddressType DEF IsAddress
<1>3. (a \div BankSize) % Banks \in 0 .. Banks - 1
  BY <1>1, <1>2, Division
<1>4. l.to % BankSize \in 0 .. BankSize - 1
  BY <1>1
<1>5. FarBranchTarget(l, a) \in Locations
  BY <1>3, <1>4, InMemory DEF FarBranchTarget
<1> QED
  BY <1>5, LastAddressType DEF IsAddress

\* The line at hand, while the lines are emitted.
LEMMA EmittedLine ==
  ASSUME OrderInv, EquInv, Values, Places, phase = "emit", line \in DOMAIN lines0
  PROVE  /\ m0 \in ModuleIds /\ line \in DOMAIN modules[m0].lines /\ here = modules[m0].lines[line]
         /\ line # Len(lines0) + 1
         /\ here.size > 0 => value[m0][line] \in Locations /\ value[m0][line] # NoValue
         /\ here.kind # "equ" => value[m0][line] = NoValue \/ IsAddress(value[m0][line])
<1>1. m0 \in ModuleIds
  BY OrderFacts DEF EquInv, Positions, OrderInv, m0
<1>2. /\ line \in DOMAIN modules[m0].lines /\ here = modules[m0].lines[line]
      /\ Len(lines0) \in Nat /\ DOMAIN lines0 = 1 .. Len(lines0)
  BY <1>1, LineFacts DEF lines0, here
<1>3. line # Len(lines0) + 1
  BY <1>2
<1>4. HasPlaces(m0)
  BY <1>1 DEF Places
<1> QED
  BY <1>1, <1>2, <1>3, <1>4 DEF HasPlaces, Values

LEMMA BytesCrash ==
  ASSUME OrderInv, EquInv, Values, Places, EmitBytes, phase' = "crash"
  PROVE  CrashHere
<1> DEFINE a == value[m0][line]
<1>1. phase = "emit" /\ line \in DOMAIN lines0 /\ here.size > 0
  BY DEF EmitBytes
<1>2. IsFarBranch(here) /\ ~IsAddress(FarBranchTarget(here, a))
  BY DEF EmitBytes, Stop, NextLine
<1>3. m0 \in ModuleIds /\ line # Len(lines0) + 1 /\ a \in Locations /\ here.to \in Int
  BY <1>1, EmittedLine, LineTypeFacts
<1>4. here.kind = "far"
  BY <1>2, <1>3, JumpStaysInMemory
<1>5. Evaluate(m0, here) = here.to /\ FarBranchTarget(here, a) = here.to
  BY <1>2, <1>4 DEF IsFarBranch, Evaluate, FarBranchTarget
<1> QED
  BY <1>2, <1>3, <1>4, <1>5 DEF CrashHere

LEMMA NoteCrash ==
  ASSUME OrderInv, EquInv, Values, Places, EmitNote, phase' = "crash"
  PROVE  CrashHere
<1>1. /\ phase = "emit" /\ line \in DOMAIN lines0 /\ here.kind \in {"entry", "remote"}
      /\ NotedAt # NoValue /\ ~IsAddress(NotedAt)
  BY DEF EmitNote, Stop, NextLine
<1>2. here.kind # "entry"
  BY <1>1, EmittedLine DEF NotedAt
<1> QED
  BY <1>1, <1>2, EmittedLine DEF NotedAt, CrashHere

LEMMA EmitFailsKinds ==
  ASSUME OrderInv, EquInv, Values, Places, EmitFails
  PROVE  /\ phase' \in Phases \/ (phase' = "no address" /\ here.kind = "entry")
         /\ phase' = "crash" => CrashHere
<1>1. phase = "emit" /\ line \in DOMAIN lines0
  BY DEF EmitFails
<1>2. line # Len(lines0) + 1 /\ (here.size > 0 => value[m0][line] # NoValue)
  BY <1>1, EmittedLine
<1>3. CASE (here.size > 0 \/ here.kind = "entry") /\ value[m0][line] = NoValue /\ Stop("no address")
  BY <1>2, <1>3 DEF Stop
<1>4. CASE Stop(Failure(here))
  BY <1>4, FailureKinds DEF Stop, Phases
<1>5. ASSUME NEW failure \in BranchFailures, Stop(failure)
      PROVE  phase' \in Phases /\ (phase' = "crash" => CrashHere)
  <2>1. failure \in {"crash", "out of reach"}
    BY DEF BranchFailures
  <2>2. failure = "crash" => here.kind = "branch" /\ ~IsAddress(Evaluate(m0, here))
    BY DEF BranchFailures
  <2> QED
    BY <1>2, <1>5, <2>1, <2>2 DEF Stop, Phases, CrashHere
<1> QED
  BY <1>3, <1>4, <1>5 DEF EmitFails

LEMMA LabelCrash ==
  ASSUME OrderInv, EquInv, Values, Places, LabelFails
  PROVE  phase' \in Phases /\ (phase' = "crash" => CrashHere)
<1>1. /\ phase = "emit" /\ line = Len(lines0) + 1
      /\ \E failure \in LabelFailures : phase' = failure
  BY DEF LabelFails, Stop
<1>2. LabelFailures \subseteq {"label missing", "crash"}
  BY DEF LabelFailures
<1>3. ASSUME phase' = "crash"
      PROVE  CrashHere
  <2>1. "crash" \in LabelFailures
    BY <1>1, <1>3
  <2>2. PICK i \in DOMAIN lines0 :
          lines0[i].label # NoLabel /\ value[m0][i] # NoValue /\ ~IsAddress(value[m0][i])
    BY <2>1 DEF LabelFailures
  <2>3. m0 \in ModuleIds
    BY <1>1, OrderFacts DEF EquInv, Positions, OrderInv, m0
  <2>4. lines0[i].kind = "equ"
    BY <2>2, <2>3 DEF Values, lines0
  <2> QED
    BY <1>1, <2>2, <2>4 DEF CrashHere, Indices
<1> QED
  BY <1>1, <1>2, <1>3 DEF Phases

\* The ways to stop at the line at hand.
LEMMA HaltKinds ==
  ASSUME OrderInv, EquInv, Values, Places, Next, Halts, ~PlaceFails,
         phase \in {"first", "equ", "emit"}
  PROVE  /\ phase' \in Phases \/ (phase' = "no address" /\ here.kind = "entry")
         /\ phase' = "crash" => CrashHere
<1>1. CASE Reject \/ AnalysisCrashes
  BY <1>1 DEF Reject, AnalysisCrashes, Stop, Phases
<1>2. CASE EvaluateEqu
  BY <1>2, FailureKinds DEF EvaluateEqu, Stop, NextLine, Halts, Running, Phases
<1>3. CASE EmitBytes
  <2>1. phase' \in {"overlap in module", "crash"}
    BY <1>3 DEF EmitBytes, Stop, NextLine, Halts, Running
  <2> QED
    BY <1>3, <2>1, BytesCrash DEF Phases
<1>4. CASE SinkFails
  BY <1>4 DEF SinkFails, Stop, Phases
<1>5. CASE EmitNote
  <2>1. phase' = "crash"
    BY <1>5 DEF EmitNote, Stop, NextLine, Halts, Running
  <2> QED
    BY <1>5, <2>1, NoteCrash DEF Phases
<1>6. CASE EmitFails
  BY <1>6, EmitFailsKinds
<1>7. CASE LabelFails
  BY <1>7, LabelCrash
<1>8. CASE Insert
  <2>1. phase' = "overlap"
    BY <1>8 DEF Insert, Stop, NextModule, Halts, Running
  <2> QED
    BY <2>1 DEF Phases
<1>9. CASE FindOrder \/ RunFirstPass \/ SkipLine \/ EndEqu \/ EmitNothing \/ EndEmpty \/ Stopped
  BY <1>9 DEF FindOrder, RunFirstPass, SkipLine, EndEqu, EmitNothing, EndEmpty, Stopped,
     NextModule, NextLine, Halts, Running
<1> QED
  BY <1>1, <1>2, <1>3, <1>4, <1>5, <1>6, <1>7, <1>8, <1>9 DEF Next

LEMMA EndingsStep ==
  ASSUME OrderInv, EquInv, Values, Places, Endings, Crashes, [Next]_vars
  PROVE  Endings' /\ Crashes'
<1>1. CASE phase' \in Running
  BY <1>1 DEF Running, Endings, Crashes, Phases
<1>2. CASE UNCHANGED <<orderVars, phase, at, line, value>>
  <2>1. UNCHANGED <<modules, order, exporter, m0, lines0, here>>
    BY <1>2 DEF orderVars, m0, lines0, here
  <2>2. UNCHANGED Evaluate(m0, here)
    BY <1>2, <2>1 DEF Evaluate, LineOf
  <2>3. UNCHANGED Indices(lines0, "equ")
    BY <2>1 DEF Indices
  <2> QED
    BY <1>2, <2>1, <2>2, <2>3 DEF Endings, Crashes, CrashHere
<1>3. CASE Halts /\ UNCHANGED line /\ ~PlaceFails /\ phase \in {"first", "equ", "emit"}
  <2>1. UNCHANGED <<modules, order, exporter, m0, lines0, here>>
    BY <1>3 DEF Halts, orderVars, m0, lines0, here
  <2>2. UNCHANGED Evaluate(m0, here)
    BY <1>3, <2>1 DEF Halts, Evaluate, LineOf
  <2>3. UNCHANGED Indices(lines0, "equ")
    BY <2>1 DEF Indices
  <2>4. Next
    BY <1>3 DEF Halts, Running, vars
  <2>5. /\ phase' \in Phases \/ (phase' = "no address" /\ here.kind = "entry")
        /\ phase' = "crash" => CrashHere
    BY <1>3, <2>4, HaltKinds
  <2>6. UNCHANGED <<at, line, value>>
    BY <1>3 DEF Halts
  <2> QED
    BY <2>1, <2>2, <2>3, <2>5, <2>6 DEF Endings, Crashes, CrashHere
<1>4. CASE FindOrder
  <2>1. phase' \in {"order", "first", "cyclic", "duplicate"}
    BY <1>4, FindOrderMoves
  <2> QED
    BY <2>1 DEF Endings, Crashes, Phases
<1>5. CASE \/ phase \in {"equ", "emit"} /\ UNCHANGED phase
           \/ Goes("first", "equ") \/ Goes("equ", "emit") \/ Goes("emit", "done")
           \/ EndEmpty
  BY <1>1, <1>5 DEF Goes, EndEmpty, Running
<1>6. CASE PlaceFails
  <2>1. /\ UNCHANGED <<orderVars, at>> /\ phase' \in {"rejected", "crash"}
        /\ line' \in 1 .. Len(lines0) /\ Len(lines0) \in Nat
        /\ phase' = "crash" =>
             LET l == modules[m0].lines[line']
             IN  l.kind = "org" /\ l.ref = "number" /\ ~IsAddress(l.to)
    BY <1>6, PlaceFailsAt
  <2>2. UNCHANGED <<lines0, m0>> /\ here' = modules[m0].lines[line']
    BY <2>1 DEF orderVars, lines0, m0, here
  <2>3. line' # Len(lines0') + 1
    BY <2>1, <2>2
  <2>4. phase' = "crash" => here'.kind = "org" /\ here'.ref = "number" /\ ~IsAddress(here'.to)
    BY <2>1, <2>2
  <2>5. Crashes'
    BY <2>3, <2>4 DEF Crashes, CrashHere
  <2> QED
    BY <2>1, <2>5 DEF Endings, Phases
<1> QED
  BY <1>2, <1>3, <1>4, <1>5, <1>6, Moves DEF Halts

-----------------------------------------------------------------------------
(* What is noted *)

LEMMA AddTargetHolds ==
  ASSUME NEW map, NEW a, NEW l
  PROVE  LET more == AddTarget(map, a, l)
         IN  /\ DOMAIN more = DOMAIN map \cup {a}
             /\ l \in more[a]
             /\ \A b \in DOMAIN map : map[b] \subseteq more[b]
             /\ \A b \in DOMAIN more : \A x \in more[b] :
                  x = l \/ (b \in DOMAIN map /\ x \in map[b])
BY DEF AddTarget

LEMMA AddTargetKeeps ==
  ASSUME NEW map, NEW a, NEW l, NEW D, IsAddress(a), l \in D,
         \A b \in DOMAIN map : IsAddress(b) /\ map[b] \subseteq D
  PROVE  LET more == AddTarget(map, a, l)
         IN  \A b \in DOMAIN more : IsAddress(b) /\ more[b] \subseteq D
<1> DEFINE more == AddTarget(map, a, l)
<1>1. /\ DOMAIN more = DOMAIN map \cup {a}
      /\ \A b \in DOMAIN more : \A x \in more[b] : x = l \/ (b \in DOMAIN map /\ x \in map[b])
  BY AddTargetHolds
<1> HIDE DEF more
<1>2. \A b \in DOMAIN more : IsAddress(b) /\ more[b] \subseteq D
  BY <1>1
<1> QED
  BY <1>2 DEF more

\* The maps the steps of the last loop fill.
LEMMA NoteSteps ==
  ASSUME [Next]_vars
  PROVE  \/ UNCHANGED <<targets, conventions, sink>>
         \/ SinkFails /\ UNCHANGED <<targets, conventions>>
         \/ EmitBytes /\ UNCHANGED conventions
         \/ EmitNote /\ UNCHANGED sink
<1>1. CASE FindOrder \/ RunFirstPass \/ PlaceFails \/ Reject \/ AnalysisCrashes \/ EvaluateEqu
  BY <1>1 DEF FindOrder, RunFirstPass, PlaceFails, Reject, AnalysisCrashes, EvaluateEqu, Stop,
     moduleVars, outputVars
<1>2. CASE SkipLine \/ EndEqu \/ EmitFails \/ EmitNothing
  BY <1>2 DEF SkipLine, EndEqu, EmitFails, EmitNothing, Stop, moduleVars, outputVars
<1>3. CASE EmitBytes
  BY <1>3 DEF EmitBytes, Stop
<1>4. CASE SinkFails
  BY <1>4 DEF SinkFails, Stop
<1>5. CASE EmitNote
  BY <1>5 DEF EmitNote, Stop
<1>6. CASE LabelFails \/ Insert
  BY <1>6 DEF LabelFails, Insert, Stop, moduleVars
<1>7. CASE EndEmpty \/ Stopped \/ UNCHANGED vars
  BY <1>7 DEF EndEmpty, Stopped, vars, moduleVars, outputVars
<1> QED
  BY <1>1, <1>2, <1>3, <1>4, <1>5, <1>6, <1>7 DEF Next

\* What EmitBytes and EmitNote do to the notes of the module at hand.
LEMMA BytesNotes ==
  ASSUME OrderInv, EquInv, Notes, EmitBytes
  PROVE  /\ m0 \in ModuleIds
         /\ \A m \in ModuleIds : m # m0 => targets'[m] = targets[m]
         /\ DOMAIN targets' = ModuleIds
         /\ \/ targets'[m0] = targets[m0] /\ (phase' \in Running => ~IsFarBranch(here))
            \/ LET a == FarBranchTarget(here, value[m0][line])
               IN  IsFarBranch(here) /\ IsAddress(a) /\ targets'[m0] = AddTarget(targets[m0], a, line)
<1> DEFINE a == FarBranchTarget(here, value[m0][line])
<1>1. phase = "emit"
  BY DEF EmitBytes
<1>2. m0 \in ModuleIds
  BY <1>1, OrderFacts DEF EquInv, Positions, OrderInv, m0
<1>3. \/ UNCHANGED targets /\ phase' \in {"overlap in module", "crash"}
      \/ UNCHANGED targets /\ ~IsFarBranch(here)
      \/ /\ IsFarBranch(here) /\ IsAddress(a)
         /\ targets' = [targets EXCEPT ![m0] = AddTarget(@, a, line)]
  BY DEF EmitBytes, Stop
<1> HIDE DEF a
<1>4. CASE UNCHANGED targets
  BY <1>2, <1>3, <1>4 DEF Notes, Running, a
<1>5. CASE /\ IsFarBranch(here) /\ IsAddress(a)
           /\ targets' = [targets EXCEPT ![m0] = AddTarget(@, a, line)]
  <2>1. targets' = [targets EXCEPT ![m0] = AddTarget(targets[m0], a, line)]
    BY <1>5
  <2>2. DOMAIN targets = ModuleIds
    BY DEF Notes
  <2>3. /\ targets'[m0] = AddTarget(targets[m0], a, line)
        /\ DOMAIN targets' = ModuleIds
        /\ \A m \in ModuleIds : m # m0 => targets'[m] = targets[m]
    BY <1>2, <2>1, <2>2
  <2> QED
    BY <1>2, <1>5, <2>3 DEF a
<1> QED
  BY <1>3, <1>4, <1>5

LEMMA NoteNotes ==
  ASSUME OrderInv, EquInv, Notes, EmitNote, phase' \in Running
  PROVE  /\ m0 \in ModuleIds /\ IsAddress(NotedAt) /\ NotedAt # NoValue
         /\ DOMAIN targets' = ModuleIds /\ DOMAIN conventions' = ModuleIds
         /\ \A m \in ModuleIds : m # m0 => targets'[m] = targets[m] /\ conventions'[m] = conventions[m]
         /\ targets'[m0] = IF here.kind = "entry" THEN targets[m0]
                           ELSE AddTarget(targets[m0], NotedAt, line)
         /\ conventions'[m0] = Convention(conventions[m0], NotedAt)
<1>1. phase = "emit"
  BY DEF EmitNote
<1>2. m0 \in ModuleIds
  BY <1>1, OrderFacts DEF EquInv, Positions, OrderInv, m0
<1>3. /\ IsAddress(NotedAt) /\ NotedAt # NoValue
      /\ targets' = IF here.kind = "entry" THEN targets
                    ELSE [targets EXCEPT ![m0] = AddTarget(@, NotedAt, line)]
      /\ conventions' = [conventions EXCEPT ![m0] = Convention(@, NotedAt)]
  BY DEF EmitNote, Stop, Running
<1>4. DOMAIN targets = ModuleIds /\ DOMAIN conventions = ModuleIds
  BY DEF Notes
<1> DEFINE t == AddTarget(targets[m0], NotedAt, line)
           c == Convention(conventions[m0], NotedAt)
<1>5. /\ targets' = IF here.kind = "entry" THEN targets ELSE [targets EXCEPT ![m0] = t]
      /\ conventions' = [conventions EXCEPT ![m0] = c]
  BY <1>3
<1> HIDE DEF t, c
<1>6. /\ targets'[m0] = IF here.kind = "entry" THEN targets[m0] ELSE t
      /\ DOMAIN targets' = ModuleIds
      /\ \A m \in ModuleIds : m # m0 => targets'[m] = targets[m]
  BY <1>2, <1>4, <1>5
<1>7. /\ conventions'[m0] = c /\ DOMAIN conventions' = ModuleIds
      /\ \A m \in ModuleIds : m # m0 => conventions'[m] = conventions[m]
  BY <1>2, <1>4, <1>5
<1> QED
  BY <1>2, <1>3, <1>6, <1>7 DEF t, c

LEMMA NotesStep ==
  ASSUME OrderInv, EquInv, Values, Places, Notes, [Next]_vars
  PROVE  Notes'
<1>1. UNCHANGED <<modules, ModuleIds, Origins>>
  BY StepFacts DEF ModuleIds, Origins
<1>2. CASE UNCHANGED <<targets, conventions, sink>>
  BY <1>1, <1>2 DEF Notes
<1>3. ASSUME phase = "emit", line \in DOMAIN lines0,
             NEW bytes, sink' = [b \in Locations |-> IF b \in bytes THEN sink[b] \cup {Origin} ELSE sink[b]]
      PROVE  DOMAIN sink' = Locations /\ \A b \in Locations : sink'[b] \subseteq Origins
  <2>1. m0 \in ModuleIds /\ line \in DOMAIN modules[m0].lines
    BY <1>3, EmittedLine
  <2>2. Origin \in Origins
    BY <2>1 DEF Origin, Origins
  <2> QED
    BY <1>3, <2>2 DEF Notes
<1>4. CASE SinkFails /\ UNCHANGED <<targets, conventions>>
  <2>1. /\ phase = "emit" /\ line \in DOMAIN lines0
        /\ \E bytes : sink' = [b \in Locations |-> IF b \in bytes THEN sink[b] \cup {Origin} ELSE sink[b]]
    BY <1>4 DEF SinkFails
  <2>2. DOMAIN sink' = Locations /\ \A b \in Locations : sink'[b] \subseteq Origins
    BY <1>3, <2>1
  <2> QED
    BY <1>1, <1>4, <2>2 DEF Notes
<1>5. CASE EmitBytes /\ UNCHANGED conventions
  <2>1. /\ phase = "emit" /\ line \in DOMAIN lines0
        /\ \E bytes : sink' = [b \in Locations |-> IF b \in bytes THEN sink[b] \cup {Origin} ELSE sink[b]]
    BY <1>5 DEF EmitBytes
  <2>2. DOMAIN sink' = Locations /\ \A b \in Locations : sink'[b] \subseteq Origins
    BY <1>3, <2>1
  <2>3. m0 \in ModuleIds /\ line \in DOMAIN modules[m0].lines
    BY <2>1, EmittedLine
  <2>4. DOMAIN targets' = ModuleIds /\ \A m \in ModuleIds : m # m0 => targets'[m] = targets[m]
    BY <1>5, BytesNotes
  <2>5. \A a \in DOMAIN targets'[m0] : IsAddress(a) /\ targets'[m0][a] \subseteq DOMAIN modules[m0].lines
    <3>1. CASE targets'[m0] = targets[m0]
      BY <2>3, <3>1 DEF Notes
    <3>2. ASSUME NEW t, IsAddress(t), targets'[m0] = AddTarget(targets[m0], t, line)
          PROVE  \A a \in DOMAIN targets'[m0] :
                   IsAddress(a) /\ targets'[m0][a] \subseteq DOMAIN modules[m0].lines
      <4>1. \A a \in DOMAIN targets[m0] : IsAddress(a) /\ targets[m0][a] \subseteq DOMAIN modules[m0].lines
        BY <2>3 DEF Notes
      <4>2. \A a \in DOMAIN AddTarget(targets[m0], t, line) :
               IsAddress(a) /\ AddTarget(targets[m0], t, line)[a] \subseteq DOMAIN modules[m0].lines
        BY <2>3, <3>2, <4>1, AddTargetKeeps
      <4> QED
        BY <3>2, <4>2
    <3> QED
      BY <1>5, <3>1, <3>2, BytesNotes
  <2>6. \A m \in ModuleIds : \A a \in DOMAIN targets'[m] :
          IsAddress(a) /\ targets'[m][a] \subseteq DOMAIN modules[m].lines
    BY <2>4, <2>5 DEF Notes
  <2> QED
    BY <1>1, <1>5, <2>2, <2>4, <2>6 DEF Notes
<1>6. CASE EmitNote /\ UNCHANGED sink
  <2>1. CASE phase' \notin Running
    <3>1. UNCHANGED <<targets, conventions>>
      BY <1>6, <2>1 DEF EmitNote, Stop, NextLine, Running
    <3> QED
      BY <1>2, <1>6, <3>1
  <2>2. CASE phase' \in Running
    <3>1. phase = "emit" /\ line \in DOMAIN lines0
      BY <1>6 DEF EmitNote
    <3>2. m0 \in ModuleIds /\ line \in DOMAIN modules[m0].lines
      BY <3>1, EmittedLine
    <3>3. /\ IsAddress(NotedAt)
          /\ DOMAIN targets' = ModuleIds /\ DOMAIN conventions' = ModuleIds
          /\ \A m \in ModuleIds : m # m0 => targets'[m] = targets[m] /\ conventions'[m] = conventions[m]
          /\ targets'[m0] = IF here.kind = "entry" THEN targets[m0]
                            ELSE AddTarget(targets[m0], NotedAt, line)
          /\ conventions'[m0] = Convention(conventions[m0], NotedAt)
      BY <1>6, <2>2, NoteNotes
    <3>4. \A a \in DOMAIN targets'[m0] : IsAddress(a) /\ targets'[m0][a] \subseteq DOMAIN modules[m0].lines
      <4>1. CASE here.kind = "entry"
        BY <3>2, <3>3, <4>1 DEF Notes
      <4>2. CASE here.kind # "entry"
        <5>1. targets'[m0] = AddTarget(targets[m0], NotedAt, line)
          BY <3>3, <4>2
        <5>2. \A a \in DOMAIN targets[m0] : IsAddress(a) /\ targets[m0][a] \subseteq DOMAIN modules[m0].lines
          BY <3>2 DEF Notes
        <5>3. \A a \in DOMAIN AddTarget(targets[m0], NotedAt, line) :
                 /\ IsAddress(a)
                 /\ AddTarget(targets[m0], NotedAt, line)[a] \subseteq DOMAIN modules[m0].lines
          BY <3>2, <3>3, <5>2, AddTargetKeeps
        <5> QED
          BY <5>1, <5>3
      <4> QED
        BY <4>1, <4>2
    <3>5. \A a \in DOMAIN conventions'[m0] : IsAddress(a) /\ conventions'[m0][a] \in DOMAIN modules[m0].lines
      BY <3>2, <3>3 DEF Notes, Convention
    <3>6. \A m \in ModuleIds :
            /\ \A a \in DOMAIN targets'[m] : IsAddress(a) /\ targets'[m][a] \subseteq DOMAIN modules[m].lines
            /\ \A a \in DOMAIN conventions'[m] : IsAddress(a) /\ conventions'[m][a] \in DOMAIN modules[m].lines
      BY <3>3, <3>4, <3>5 DEF Notes
    <3> QED
      BY <1>1, <1>6, <3>3, <3>6 DEF Notes
  <2> QED
    BY <2>1, <2>2
<1> QED
  BY <1>2, <1>4, <1>5, <1>6, NoteSteps

-----------------------------------------------------------------------------
(* Places: the invariant holds *)

LEMMA InitPlaces == Init /\ OrderInv => PlaceInv
<1> SUFFICES ASSUME Init, OrderInv PROVE PlaceInv
  OBVIOUS
<1>1. /\ phase = "order" /\ at = 1 /\ line = 1 /\ order = << >>
      /\ value = [m \in ModuleIds |-> [i \in DOMAIN modules[m].lines |-> NoValue]]
      /\ targets = [m \in ModuleIds |-> << >>] /\ conventions = [m \in ModuleIds |-> << >>]
      /\ sink = [b \in Locations |-> {}]
  BY DEF Init, OrderInit
<1>2. Values
  BY <1>1 DEF Values
<1>3. Places /\ Endings /\ Crashes
  BY <1>1 DEF Places, Endings, Crashes, Phases
<1>4. Loops
  <2>1. at \notin DOMAIN order /\ 1 \in 1 .. 1
    BY <1>1
  <2> QED
    BY <1>1, <2>1 DEF Loops
<1>5. Notes
  <2>1. DOMAIN << >> = {}
    OBVIOUS
  <2> QED
    BY <1>1, <2>1 DEF Notes
<1> QED
  BY <1>2, <1>3, <1>4, <1>5 DEF PlaceInv

LEMMA PlaceInvariant == Spec => [](OrderInv /\ EquInv /\ PlaceInv)
<1>1. Init /\ OrderInv => PlaceInv
  BY InitPlaces
<1>2. OrderInv /\ OrderInv' /\ EquInv /\ PlaceInv /\ [Next]_vars => PlaceInv'
  <2> SUFFICES ASSUME OrderInv, OrderInv', EquInv, PlaceInv, [Next]_vars
               PROVE  PlaceInv'
    OBVIOUS
  <2>1. Values /\ Places /\ Loops /\ Endings /\ Notes /\ Crashes
    BY DEF PlaceInv
  <2>2. Values' /\ Places' /\ Loops' /\ Notes'
    BY <2>1, ValuesStep, PlacesStep, LoopsStep, NotesStep
  <2>3. Endings' /\ Crashes'
    BY <2>1, EndingsStep
  <2> QED
    BY <2>2, <2>3 DEF PlaceInv
<1> QED
  BY EquInvariant, <1>1, <1>2, PTL DEF Spec

\* An order holds no more modules than there are.
LEMMA OrderFits ==
  ASSUME OrderTypeOK
  PROVE  Len(order) <= Len(modules)
<1> DEFINE Places0 == 1 .. Len(order)
<1>1. Len(order) \in Nat /\ Len(modules) \in Nat /\ DOMAIN order = Places0
  BY ModuleFacts, OrderFacts DEF OrderTypeOK
<1>2. order \in [Places0 -> ModuleIds]
  BY <1>1, OrderFacts, LenProperties DEF OrderTypeOK
<1>3. order \in Injection(Places0, ModuleIds)
  <2>1. \A i, j \in Places0 : order[i] = order[j] => i = j
    BY <1>1 DEF OrderTypeOK
  <2> QED
    BY <1>2, <2>1 DEF Injection, IsInjective
<1>4. IsFiniteSet(Places0) /\ Cardinality(Places0) = Len(order)
  BY <1>1, CountTo
<1>5. IsFiniteSet(ModuleIds) /\ Cardinality(ModuleIds) = Len(modules)
  BY <1>1, CountTo DEF ModuleIds
<1>6. Cardinality(Places0) <= Cardinality(ModuleIds)
  BY <1>3, <1>4, <1>5, FS_Injection
<1> QED
  BY <1>4, <1>5, <1>6

LEMMA PlacesTyped == OrderInv /\ EquInv /\ PlaceInv => TypeOK
<1> SUFFICES ASSUME OrderInv, EquInv, PlaceInv PROVE TypeOK
  OBVIOUS
<1>1. OrderTypeOK /\ Endings /\ Loops
  BY DEF OrderInv, PlaceInv
<1>2. at \in 1 .. Len(modules) + 1
  <2>1. Len(order) \in Nat /\ DOMAIN order = 1 .. Len(order)
    BY <1>1, OrderFacts
  <2>2. Len(modules) \in Nat
    BY <1>1, ModuleFacts DEF OrderTypeOK
  <2>3. Len(order) <= Len(modules)
    BY <1>1, OrderFits
  <2>4. at = 1 \/ at \in 1 .. Len(order)
    BY <1>1, <2>1 DEF Loops
  <2> QED
    BY <2>1, <2>2, <2>3, <2>4
<1>3. \A m \in ModuleIds :
        /\ DOMAIN value[m] = DOMAIN modules[m].lines
        /\ \A i \in DOMAIN value[m] : value[m][i] \in Int \cup {NoValue}
  BY DEF EquInv, Positions, PlaceInv, Values
<1>4. line \in 1 .. IF at \in DOMAIN order THEN Len(lines0) + 1 ELSE 1
  BY <1>1 DEF Loops
<1>5. Notes
  BY DEF PlaceInv
<1> QED
  BY <1>1, <1>2, <1>3, <1>4, <1>5 DEF TypeOK, Endings, Notes

LEMMA CrashesExplained == OrderInv /\ EquInv /\ PlaceInv => CrashesOnlyOnConstants
<1> SUFFICES ASSUME OrderInv, EquInv, PlaceInv PROVE CrashesOnlyOnConstants
  OBVIOUS
<1>1. \A m \in ModuleIds : \A i \in DOMAIN value[m] :
        modules[m].lines[i].size > 0 /\ value[m][i] # NoValue => value[m][i] \in Locations
  BY DEF EquInv, Positions, PlaceInv, Values
<1> QED
  BY <1>1 DEF CrashesOnlyOnConstants, PlaceInv, Crashes, CrashHere

\* For every set of projects: the variables of the assembler keep their
\* types, every line with bytes has an address when it is emitted, and the
\* assembly ends in a listed phase.
THEOREM AssemblyTypeCorrect == Spec => []TypeOK
BY PlaceInvariant, PlacesTyped, PTL

\* For every set of projects and every size of memory: the assertion of
\* address.h fails only on a constant of the source, one that an .org names or
\* that is exported, branched or jumped to or noted, and the first pass places
\* bytes nowhere but in memory.
THEOREM CrashesAreExplained == Spec => []CrashesOnlyOnConstants
BY PlaceInvariant, CrashesExplained, PTL

-----------------------------------------------------------------------------
(* Jump targets *)

\* The line has been noted where it leads to.
Led(m, i) ==
  LET a == LeadsTo(m, i)
  IN  a # NoValue =>
        /\ a \in DOMAIN targets[m] /\ i \in targets[m][a]
        /\ modules[m].lines[i].returns /\ modules[m].lines[i].kind = "remote" =>
             a \in DOMAIN conventions[m]

\* So have all lines that were emitted.
TargetInv ==
  /\ phase = "emit" =>
       /\ \A j \in 1 .. at - 1 : \A i \in DOMAIN modules[order[j]].lines : Led(order[j], i)
       /\ \A i \in DOMAIN lines0 : i < line => Led(m0, i)
  /\ phase = "done" => \A m \in ModuleIds : \A i \in DOMAIN modules[m].lines : Led(m, i)

-----------------------------------------------------------------------------

\* Notes are only added to.
Grows(m) ==
  /\ \A a \in DOMAIN targets[m] : a \in DOMAIN targets'[m] /\ targets[m][a] \subseteq targets'[m][a]
  /\ DOMAIN conventions[m] \subseteq DOMAIN conventions'[m]

LEMMA LeadsToStays ==
  ASSUME UNCHANGED <<modules, exporter, value>>, NEW m, NEW i
  PROVE  LeadsTo(m, i)' = LeadsTo(m, i)
<1>1. UNCHANGED Evaluate(m, modules[m].lines[i])
  BY DEF Evaluate, LineOf
<1> QED
  BY <1>1 DEF LeadsTo

LEMMA LedStays ==
  ASSUME UNCHANGED <<modules, exporter, value>>, NEW m, NEW i, Led(m, i), Grows(m)
  PROVE  Led(m, i)'
<1> DEFINE a == LeadsTo(m, i)
<1>1. a' = a
  BY LeadsToStays
<1>2. a # NoValue =>
        /\ a \in DOMAIN targets[m] /\ i \in targets[m][a]
        /\ modules[m].lines[i].returns /\ modules[m].lines[i].kind = "remote" =>
             a \in DOMAIN conventions[m]
  BY DEF Led
<1> HIDE DEF a
<1>3. a # NoValue =>
        /\ a \in DOMAIN targets'[m] /\ i \in targets'[m][a]
        /\ modules[m].lines[i].returns /\ modules[m].lines[i].kind = "remote" =>
             a \in DOMAIN conventions'[m]
  BY <1>2 DEF Grows
<1>4. a' # NoValue =>
        /\ a' \in DOMAIN targets'[m] /\ i \in targets'[m][a']
        /\ modules'[m].lines[i].returns /\ modules'[m].lines[i].kind = "remote" =>
             a' \in DOMAIN conventions'[m]
  BY <1>1, <1>3
<1> QED
  BY <1>4 DEF Led, a

LEMMA AddedGrows ==
  ASSUME NEW map, NEW a, NEW l
  PROVE  \A b \in DOMAIN map : b \in DOMAIN AddTarget(map, a, l) /\ map[b] \subseteq AddTarget(map, a, l)[b]
<1> DEFINE more == AddTarget(map, a, l)
<1>1. DOMAIN more = DOMAIN map \cup {a} /\ \A b \in DOMAIN map : map[b] \subseteq more[b]
  BY AddTargetHolds
<1> HIDE DEF more
<1>2. \A b \in DOMAIN map : b \in DOMAIN more /\ map[b] \subseteq more[b]
  BY <1>1
<1> QED
  BY <1>2 DEF more

LEMMA AddedIsThere ==
  ASSUME NEW map, NEW a, NEW l
  PROVE  a \in DOMAIN AddTarget(map, a, l) /\ l \in AddTarget(map, a, l)[a]
<1> DEFINE more == AddTarget(map, a, l)
<1>1. DOMAIN more = DOMAIN map \cup {a} /\ l \in more[a]
  BY AddTargetHolds
<1> HIDE DEF more
<1>2. a \in DOMAIN more /\ l \in more[a]
  BY <1>1
<1> QED
  BY <1>2 DEF more

LEMMA EmitGrows ==
  ASSUME OrderInv, EquInv, Notes, [Next]_vars, phase = "emit", phase' \in Running
  PROVE  \A m \in ModuleIds : Grows(m)
<1>1. CASE UNCHANGED <<targets, conventions>>
  BY <1>1 DEF Grows
<1>2. CASE EmitBytes /\ UNCHANGED conventions
  <2> SUFFICES ASSUME NEW m \in ModuleIds
               PROVE  Grows(m)
    OBVIOUS
  <2>1. CASE targets'[m] = targets[m]
    BY <1>2, <2>1 DEF Grows
  <2>2. CASE targets'[m] # targets[m]
    <3>1. m = m0
      BY <1>2, <2>2, BytesNotes
    <3> DEFINE a == FarBranchTarget(here, value[m0][line])
    <3>2. targets'[m] = AddTarget(targets[m], a, line)
      BY <1>2, <2>2, <3>1, BytesNotes
    <3> HIDE DEF a
    <3> QED
      BY <1>2, <3>2, AddedGrows DEF Grows
  <2> QED
    BY <2>1, <2>2
<1>3. CASE EmitNote
  <2> SUFFICES ASSUME NEW m \in ModuleIds
               PROVE  Grows(m)
    OBVIOUS
  <2>1. CASE m # m0
    <3>1. targets'[m] = targets[m] /\ conventions'[m] = conventions[m]
      BY <1>3, <2>1, NoteNotes
    <3> QED
      BY <3>1 DEF Grows
  <2>2. CASE m = m0
    <3>1. /\ targets'[m] = targets[m] \/ targets'[m] = AddTarget(targets[m], NotedAt, line)
          /\ conventions'[m] = Convention(conventions[m], NotedAt)
      BY <1>3, <2>2, NoteNotes
    <3>2. DOMAIN conventions[m] \subseteq DOMAIN conventions'[m]
      BY <3>1 DEF Convention
    <3> QED
      BY <3>1, <3>2, AddedGrows DEF Grows
  <2> QED
    BY <2>1, <2>2
<1> QED
  BY <1>1, <1>2, <1>3, NoteSteps

LEMMA EmitKeepsValues ==
  ASSUME [Next]_vars, phase = "emit"
  PROVE  UNCHANGED <<modules, order, exporter, value>>
BY StepFacts DEF RunFirstPass, EvaluateEqu, orderVars

LEMMA EmitLines ==
  ASSUME OrderInv, EquInv, Values, Places, [Next]_vars,
         phase = "emit", phase' = "emit", line \in DOMAIN lines0, line' = line + 1
  PROVE  EmitBytes \/ EmitNote \/ EmitNothing
<1>1. line # line + 1 /\ line # Len(lines0) + 1
  BY EmittedLine DEF EquInv, Positions
<1>2. /\ ~(FindOrder \/ RunFirstPass \/ PlaceFails \/ Reject \/ AnalysisCrashes)
      /\ ~(EvaluateEqu \/ SkipLine \/ EndEqu \/ EndEmpty)
  BY DEF FindOrder, RunFirstPass, PlaceFails, Reject, AnalysisCrashes, EvaluateEqu, SkipLine, EndEqu, EndEmpty
<1>3. ~(SinkFails \/ LabelFails \/ Insert)
  BY <1>1 DEF SinkFails, LabelFails, Insert, Stop
<1>4. ~EmitFails
  BY <1>1 DEF EmitFails, Stop
<1>5. ~(Stopped \/ UNCHANGED vars)
  BY <1>1 DEF Stopped, vars
<1> QED
  BY <1>2, <1>3, <1>4, <1>5 DEF Next

\* The step that emits a line notes where it leads to.
LEMMA LineIsLed ==
  ASSUME OrderInv, EquInv, Values, Places, Notes, [Next]_vars,
         phase = "emit", phase' = "emit", line \in DOMAIN lines0, line' = line + 1
  PROVE  \A m, i : m = m0 /\ i = line => Led(m, i)'
<1> SUFFICES ASSUME NEW m, NEW i, m = m0, i = line
             PROVE  Led(m, i)'
  OBVIOUS
<1> DEFINE l == modules[m].lines[i]
           a == LeadsTo(m, i)
<1>1. /\ m \in ModuleIds /\ i \in DOMAIN modules[m].lines /\ here = l
      /\ l.size > 0 => l.kind \in CodeKinds
      /\ l.kind \in CodeKinds \ {"code"} => l.size > 0
      /\ l.size \in Nat
  BY EmittedLine, LineTypeFacts
<1>2. UNCHANGED <<modules, order, exporter, value>>
  BY EmitKeepsValues
<1>3. a' = a /\ l' = l
  BY <1>2, LeadsToStays
<1>4. /\ l.kind = "remote" => a = Evaluate(m, l)
      /\ l.kind # "remote" /\ IsFarBranch(l) => a = FarBranchTarget(l, value[m][i])
      /\ l.kind # "remote" /\ ~IsFarBranch(l) => a = NoValue
  BY DEF LeadsTo, IsFarBranch
<1> SUFFICES ASSUME a # NoValue
             PROVE  /\ a \in DOMAIN targets'[m] /\ i \in targets'[m][a]
                    /\ l.returns /\ l.kind = "remote" => a \in DOMAIN conventions'[m]
  BY <1>3 DEF Led
<1> HIDE DEF a
<1>5. phase' \in Running
  BY DEF Running
<1>6. CASE EmitBytes
  <2>1. l.kind # "remote"
    BY <1>1, <1>6 DEF EmitBytes, CodeKinds
  <2>2. IsFarBranch(l)
    BY <1>4, <2>1
  <2>3. a = FarBranchTarget(l, value[m][i])
    BY <1>4, <2>1, <2>2
  <2>4. targets'[m] = AddTarget(targets[m], a, i)
    <3> DEFINE b == FarBranchTarget(here, value[m0][line])
    <3>1. targets'[m0] = AddTarget(targets[m0], b, line)
      BY <1>1, <1>5, <1>6, <2>2, BytesNotes
    <3>2. b = a
      BY <1>1, <2>3
    <3> QED
      BY <3>1, <3>2
  <2> QED
    BY <2>1, <2>4, AddedIsThere
<1>7. CASE EmitNote
  <2>1. l.kind \in {"entry", "remote"}
    BY <1>1, <1>7 DEF EmitNote
  <2>2. l.kind = "remote"
    BY <1>4, <2>1 DEF IsFarBranch
  <2>3. a = NotedAt
    BY <1>1, <1>4, <2>2 DEF NotedAt
  <2>4. /\ targets'[m] = AddTarget(targets[m], a, i)
        /\ conventions'[m] = Convention(conventions[m], a)
    BY <1>1, <1>5, <1>7, <2>2, <2>3, NoteNotes
  <2>5. l.returns => a \in DOMAIN conventions'[m]
    BY <1>1, <2>4 DEF Convention
  <2> QED
    BY <2>4, <2>5, AddedIsThere
<1>8. CASE EmitNothing
  <2>1. l.size = 0 /\ l.kind \notin {"entry", "remote"}
    BY <1>1, <1>8 DEF EmitNothing
  <2>2. ~IsFarBranch(l)
    BY <1>1, <2>1 DEF IsFarBranch, CodeKinds
  <2> QED
    BY <1>4, <2>1, <2>2
<1> QED
  BY <1>6, <1>7, <1>8, EmitLines

LEMMA TargetStep ==
  ASSUME OrderInv, EquInv, PlaceInv, TargetInv, [Next]_vars
  PROVE  TargetInv'
<1> USE DEF PlaceInv
<1>1. UNCHANGED <<modules, ModuleIds>>
  BY StepFacts DEF ModuleIds
<1>2. Len(order) \in Nat /\ DOMAIN order = 1 .. Len(order) /\ \A j \in DOMAIN order : order[j] \in ModuleIds
  BY OrderFacts DEF OrderInv
<1>3. CASE FindOrder \/ Halts
  <2>1. phase' \notin {"emit", "done"}
    BY <1>3, FindOrderMoves DEF Halts, Running
  <2> QED
    BY <2>1 DEF TargetInv
<1>4. CASE phase \in {"order", "first", "equ"} /\ UNCHANGED phase
  BY <1>4 DEF TargetInv
<1>5. CASE phase \notin {"order", "first", "equ", "emit", "done"} /\ UNCHANGED phase
  BY <1>5 DEF TargetInv
<1>6. CASE Goes("first", "equ")
  BY <1>6 DEF Goes, TargetInv
<1>7. CASE Goes("equ", "emit")
  <2>1. CASE phase' = "equ"
    BY <2>1 DEF TargetInv
  <2>2. CASE phase' = "emit" /\ at' = 1 /\ line' = 1
    <3>1. UNCHANGED order /\ at \in DOMAIN order
      BY <1>7 DEF Goes, orderVars
    <3>2. 1 \in DOMAIN order /\ 1 .. at' - 1 = {}
      BY <1>2, <2>2, <3>1
    <3>3. lines0' = modules[order[1]].lines /\ order[1] \in ModuleIds
      BY <1>1, <1>2, <2>2, <3>1, <3>2 DEF lines0, m0
    <3>4. \A i \in DOMAIN lines0' : ~(i < line')
      BY <2>2, <3>3, LineFacts
    <3> QED
      BY <2>2, <3>2, <3>4 DEF TargetInv
  <2> QED
    BY <1>7, <2>1, <2>2 DEF Goes
<1>8. CASE EndEmpty
  <2>1. ModuleIds = {} /\ phase' = "done"
    BY <1>8, EmptyHasNone DEF EndEmpty
  <2> QED
    BY <1>1, <2>1 DEF TargetInv
<1>9. ASSUME phase = "emit", phase' \in Running
      PROVE  /\ UNCHANGED <<modules, order, exporter, value>>
             /\ \A j \in 1 .. at - 1 : \A i \in DOMAIN modules[order[j]].lines : Led(order[j], i)'
             /\ \A m, i : m = m0 /\ i \in DOMAIN lines0 /\ i < line => Led(m, i)'
             /\ m0 \in ModuleIds /\ at \in DOMAIN order
  <2>1. UNCHANGED <<modules, order, exporter, value>>
    BY <1>9, EmitKeepsValues
  <2>2. \A m \in ModuleIds : Grows(m)
    BY <1>9, EmitGrows
  <2>3. at \in DOMAIN order /\ m0 \in ModuleIds
    BY <1>2, <1>9 DEF EquInv, Positions, m0
  <2>4. ASSUME NEW m \in ModuleIds, NEW i, Led(m, i)
        PROVE  Led(m, i)'
    BY <2>1, <2>2, <2>4, LedStays
  <2>5. ASSUME NEW j \in 1 .. at - 1, NEW i \in DOMAIN modules[order[j]].lines
        PROVE  Led(order[j], i)'
    <3>1. j \in DOMAIN order
      BY <1>2, <2>3
    <3>2. order[j] \in ModuleIds /\ Led(order[j], i)
      BY <1>2, <1>9, <3>1 DEF TargetInv
    <3>3. \A m : m = order[j] => Led(m, i)'
      BY <2>4, <3>2
    <3> QED
      BY <2>1, <3>3 DEF Led, LeadsTo, Evaluate, LineOf
  <2>6. ASSUME NEW m, NEW i, m = m0, i \in DOMAIN lines0, i < line
        PROVE  Led(m, i)'
    BY <1>9, <2>3, <2>4, <2>6 DEF TargetInv
  <2> QED
    BY <2>1, <2>3, <2>5, <2>6
<1>10. CASE /\ phase = "emit" /\ line \in DOMAIN lines0
            /\ line' = line + 1 /\ UNCHANGED <<orderVars, phase, at>>
  <2>1. phase' \in Running
    BY <1>10 DEF Running
  <2>2. UNCHANGED <<m0, lines0>>
    BY <1>9, <1>10, <2>1 DEF m0, lines0
  <2>3. \A m, i : m = m0 /\ i = line => Led(m, i)'
    BY <1>10, LineIsLed
  <2>4. \A i \in DOMAIN lines0 : i < line + 1 => i < line \/ i = line
    BY <1>9, <1>10, <2>1, LineFacts DEF lines0
  <2>5. \A i \in DOMAIN lines0 : i < line' => \A m : m = m0 => Led(m, i)'
    BY <1>9, <1>10, <2>1, <2>3, <2>4
  <2> QED
    BY <1>9, <1>10, <2>1, <2>2, <2>5 DEF TargetInv
<1>11. CASE Goes("emit", "done") /\ Insert /\ UNCHANGED value
  <2>1. phase = "emit" /\ phase' \in Running /\ line = Len(lines0) + 1 /\ line' = 1
    BY <1>11 DEF Goes, Insert, Running
  <2>2. \A m : m = m0 => \A i \in DOMAIN modules[m].lines : Led(m, i)'
    <3>1. \A i \in DOMAIN lines0 : i < line
      BY <1>9, <2>1, LineFacts DEF lines0
    <3> QED
      BY <1>9, <2>1, <3>1 DEF lines0
  <2>3. \A j \in 1 .. at : \A i \in DOMAIN modules[order[j]].lines : Led(order[j], i)'
    <3> SUFFICES ASSUME NEW j \in 1 .. at, NEW i \in DOMAIN modules[order[j]].lines
                 PROVE  Led(order[j], i)'
      OBVIOUS
    <3>1. at \in 1 .. Len(order) /\ UNCHANGED <<modules, order, exporter, value>>
      BY <1>2, <1>9, <2>1
    <3>2. CASE j = at
      <4>1. \A m : m = order[j] => Led(m, i)'
        BY <2>2, <3>2 DEF m0
      <4> QED
        BY <3>1, <4>1 DEF Led, LeadsTo, Evaluate, LineOf
    <3>3. CASE j # at
      <4>1. j \in 1 .. at - 1
        BY <1>2, <3>1, <3>3
      <4> QED
        BY <1>9, <2>1, <4>1
    <3> QED
      BY <3>2, <3>3
  <2>4. CASE phase' = "emit" /\ at' = at + 1 /\ at # Len(order)
    <3>1. at \in 1 .. Len(order) /\ UNCHANGED <<modules, order>>
      BY <1>2, <1>9, <2>1
    <3>2. 1 .. at' - 1 = 1 .. at /\ at' \in DOMAIN order
      <4>1. Len(order) \in Nat /\ at \in 1 .. Len(order) /\ at' = at + 1 /\ at # Len(order)
        BY <1>2, <2>4, <3>1
      <4>2. at' - 1 = at /\ at' \in 1 .. Len(order)
        BY SMT, <4>1
      <4> QED
        BY <1>2, <4>2
    <3>3. lines0' = modules[order[at']].lines /\ order[at'] \in ModuleIds
      BY <1>2, <3>1, <3>2 DEF lines0, m0
    <3>4. \A i \in DOMAIN lines0' : ~(i < line')
      BY <2>1, <3>3, LineFacts
    <3>5. \A j \in 1 .. at' - 1 : \A i \in DOMAIN modules'[order'[j]].lines : Led(order[j], i)'
      BY <2>3, <3>1, <3>2
    <3> QED
      BY <2>4, <3>4, <3>5 DEF TargetInv
  <2>5. CASE phase' = "done" /\ at = Len(order)
    <3> SUFFICES ASSUME NEW m \in ModuleIds, NEW i \in DOMAIN modules[m].lines
                 PROVE  Led(m, i)'
      BY <1>1, <2>5 DEF TargetInv
    <3>1. PICK j \in 1 .. at : order[j] = m
      BY <2>1, <2>5, OrderedHoldsAll
    <3>2. UNCHANGED <<modules, order, exporter, value>>
      BY <1>9, <2>1
    <3>3. Led(order[j], i)'
      BY <2>3, <3>1
    <3> QED
      BY <3>1, <3>2, <3>3 DEF Led, LeadsTo, Evaluate, LineOf
  <2> QED
    BY <1>11, <2>4, <2>5 DEF Goes
<1>12. CASE UNCHANGED <<orderVars, phase, at, line, value>>
  <2>1. CASE phase = "emit"
    <3>1. phase' \in Running /\ UNCHANGED <<m0, lines0>>
      BY <1>12, <2>1 DEF Running, orderVars, m0, lines0
    <3>2. \A i \in DOMAIN lines0 : i < line => \A m : m = m0 => Led(m, i)'
      BY <1>9, <2>1, <3>1
    <3> QED
      BY <1>9, <1>12, <2>1, <3>1, <3>2 DEF TargetInv
  <2>2. CASE phase = "done"
    <3>1. UNCHANGED <<targets, conventions>>
      BY <2>2, NoteSteps DEF EmitBytes, EmitNote
    <3>2. UNCHANGED <<modules, exporter>>
      BY <1>12 DEF orderVars
    <3>3. \A m \in ModuleIds : Grows(m)
      BY <3>1 DEF Grows
    <3>4. \A m \in ModuleIds : \A i \in DOMAIN modules[m].lines : Led(m, i)'
      BY <1>12, <2>2, <3>2, <3>3, LedStays DEF TargetInv
    <3> QED
      BY <1>1, <1>12, <2>2, <3>4 DEF TargetInv
  <2>3. CASE phase \notin {"emit", "done"}
    BY <1>12, <2>3 DEF TargetInv
  <2> QED
    BY <2>1, <2>2, <2>3
<1> QED
  BY <1>3, <1>4, <1>6, <1>7, <1>8, <1>10, <1>11, <1>12, Moves

LEMMA TargetInvariant == Spec => [](OrderInv /\ EquInv /\ PlaceInv /\ TargetInv)
<1>1. Init => TargetInv
  BY DEF Init, TargetInv
<1>2. OrderInv /\ EquInv /\ PlaceInv /\ TargetInv /\ [Next]_vars => TargetInv'
  BY TargetStep
<1> QED
  BY PlaceInvariant, <1>1, <1>2, PTL DEF Spec

LEMMA LedIsNoted == PlaceInv /\ TargetInv => NoJumpTargetLost
<1> SUFFICES ASSUME PlaceInv, TargetInv, phase = "done", NEW o \in Origins,
                    LeadsTo(o[1], o[2]) # NoValue
             PROVE  LET a == LeadsTo(o[1], o[2])
                    IN  /\ ~InChunks(used, a) => a \in DOMAIN JumpTargets /\ o \in JumpTargets[a]
                        /\ modules[o[1]].lines[o[2]].returns /\ modules[o[1]].lines[o[2]].kind = "remote" =>
                             a \in ReturnConventions
  BY DEF NoJumpTargetLost
<1> DEFINE m == o[1]
           i == o[2]
           a == LeadsTo(m, i)
<1>1. m \in ModuleIds /\ i \in DOMAIN modules[m].lines
  BY DEF Origins
<1>2. /\ a \in DOMAIN targets[m] /\ i \in targets[m][a]
      /\ modules[m].lines[i].returns /\ modules[m].lines[i].kind = "remote" => a \in DOMAIN conventions[m]
  BY <1>1 DEF TargetInv, Led
<1> HIDE DEF a
<1>3. modules[m].lines[i].returns /\ modules[m].lines[i].kind = "remote" => a \in ReturnConventions
  BY <1>1, <1>2 DEF ReturnConventions
<1>4. ASSUME ~InChunks(used, a)
      PROVE  a \in DOMAIN JumpTargets /\ o \in JumpTargets[a]
  <2> DEFINE addresses == {b \in UNION {DOMAIN targets[k] : k \in ModuleIds} : ~InChunks(used, b)}
             Lines(b) == {p \in Origins : b \in DOMAIN targets[p[1]] /\ p[2] \in targets[p[1]][b]}
  <2>1. a \in addresses
    BY <1>1, <1>2, <1>4
  <2>2. o \in Lines(a)
    BY <1>2
  <2>3. JumpTargets = [b \in addresses |-> Lines(b)]
    BY DEF JumpTargets
  <2> HIDE DEF addresses, Lines
  <2> QED
    BY <2>1, <2>2, <2>3
<1> QED
  BY <1>3, <1>4 DEF a

\* For every set of projects: what Assembler::JumpTargets and
\* JumpTargetReturnConventions return has every way out of the assembled code.
THEOREM JumpTargetsAreComplete == Spec => []NoJumpTargetLost
BY TargetInvariant, LedIsNoted, PTL

-----------------------------------------------------------------------------
(* Memory *)

\* The modules whose bytes are in the map.
Behind == IF phase = "done" THEN ModuleIds ELSE {order[j] : j \in 1 .. at - 1}

Wrote(m, b) == \E o \in sink[b] : o[1] = m

\* A module owns the bytes its lines have written, and wrote each of them once.
Owning ==
  /\ DOMAIN owned = ModuleIds
  /\ phase \in {"emit", "done"} =>
       /\ \A m \in ModuleIds :
            /\ Sorted(owned[m])
            /\ \A b \in Int : Has(owned[m], b) => b \in Locations
            /\ \A b \in Locations : Has(owned[m], b) <=> Wrote(m, b)
       /\ \A b \in Locations : \A o1, o2 \in sink[b] : o1[1] = o2[1] => o1 = o2

\* The map has the chunks of the modules behind, each under its module.
Mapped ==
  phase \in {"emit", "done"} =>
    /\ Sorted(used) /\ DisjointEntries(mapping) /\ SameBytes(used, mapping)
    /\ \A c \in DOMAIN mapping : mapping[c] \in Behind /\ c \in EntriesOf(owned[mapping[c]])
    /\ \A m \in Behind : \A c \in EntriesOf(owned[m]) : c \in DOMAIN mapping /\ mapping[c] = m

Untouched ==
  phase \in {"order", "first", "equ"} =>
    /\ \A m \in ModuleIds : owned[m] = << >>
    /\ used = << >> /\ mapping = << >>
    /\ \A b \in Locations : sink[b] = {}

\* The map is never ahead of the output, wherever the assembly stops.
MapWritten ==
  /\ Sorted(used) /\ DisjointEntries(mapping) /\ SameBytes(used, mapping)
  /\ \A c \in DOMAIN mapping : \A b \in Locations : In(c, b) => Wrote(mapping[c], b)

MemoryInv == Owning /\ Mapped /\ Untouched /\ MapWritten

-----------------------------------------------------------------------------

LEMMA BytesAtIsBytesFrom ==
  ASSUME NEW a \in Locations, NEW n \in Nat
  PROVE  BytesAt(a, n) = BytesFrom(a, n)
<1> DEFINE q == a \div BankSize
<1>1. q \in 0 .. Banks - 1 /\ Banks \in Nat \ {0}
  BY BankInMemory, MemoryAssumption
<1>2. Base(a) = q * BankSize
  BY DEF Base
<1> HIDE DEF q
<1>3. q % Banks = q
  BY <1>1
<1>4. \A k : AddWrapped(a, k) = Base(a) + ((a + k) % BankSize)
  BY <1>2, <1>3 DEF AddWrapped, q
<1> QED
  BY <1>4 DEF BytesAt, BytesFrom

LEMMA BytesFromInt ==
  ASSUME NEW a \in Nat, NEW n \in Nat
  PROVE  BytesFrom(a, n) \subseteq Int
<1>1. BankSize \in Nat \ {0} /\ Base(a) \in Nat
  BY MemoryAssumption, BaseAndOffset
<1>2. \A k \in 0 .. n - 1 : (a + k) % BankSize \in Int
  BY <1>1
<1>3. \A k \in 0 .. n - 1 : Base(a) + ((a + k) % BankSize) \in Int
  BY <1>1, <1>2
<1> QED
  BY <1>3 DEF BytesFrom

LEMMA MemorySteps ==
  ASSUME [Next]_vars
  PROVE  \/ UNCHANGED <<owned, used, mapping, sink>>
         \/ SinkFails /\ phase' = "sink" /\ UNCHANGED owned
         \/ EmitBytes /\ UNCHANGED <<used, mapping>>
         \/ Insert /\ UNCHANGED <<owned, sink>>
<1>1. CASE FindOrder \/ RunFirstPass \/ PlaceFails \/ Reject \/ AnalysisCrashes \/ EvaluateEqu
  BY <1>1 DEF FindOrder, RunFirstPass, PlaceFails, Reject, AnalysisCrashes, EvaluateEqu, Stop,
     moduleVars, outputVars
<1>2. CASE SkipLine \/ EndEqu \/ EmitFails \/ EmitNothing
  BY <1>2 DEF SkipLine, EndEqu, EmitFails, EmitNothing, Stop, moduleVars, outputVars
<1>3. CASE EmitBytes
  BY <1>3 DEF EmitBytes, Stop
<1>4. CASE SinkFails
  BY <1>4 DEF SinkFails, Stop
<1>5. CASE EmitNote
  BY <1>5 DEF EmitNote, Stop
<1>6. CASE LabelFails \/ Insert
  BY <1>6 DEF LabelFails, Insert, Stop, moduleVars
<1>7. CASE EndEmpty \/ Stopped \/ UNCHANGED vars
  BY <1>7 DEF EndEmpty, Stopped, vars, moduleVars, outputVars
<1> QED
  BY <1>1, <1>2, <1>3, <1>4, <1>5, <1>6, <1>7 DEF Next

\* A line is emitted only when the module did not own its bytes before.
LEMMA ClaimOfLine ==
  ASSUME OrderInv, EquInv, PlaceInv, Owning, EmitBytes, phase' = "emit"
  PROVE  LET bytes == BytesAt(value[m0][line], here.size)
         IN  /\ m0 \in ModuleIds /\ at \in DOMAIN order
             /\ bytes \subseteq Locations
             /\ sink' = [b \in Locations |-> IF b \in bytes THEN sink[b] \cup {Origin} ELSE sink[b]]
             /\ DOMAIN owned' = ModuleIds
             /\ \A m \in ModuleIds : m # m0 => owned'[m] = owned[m]
             /\ Sorted(owned'[m0])
             /\ \A b \in Int : Has(owned'[m0], b) <=> Has(owned[m0], b) \/ b \in bytes
             /\ \A b \in bytes : ~Has(owned[m0], b)
<1> DEFINE a == value[m0][line]
           n == here.size
           bytes == BytesAt(a, n)
           list == ChunksOf(a, n)
           claim == ClaimChunks(owned[m0], list)
<1>1. /\ phase = "emit" /\ line \in DOMAIN lines0 /\ n > 0
      /\ sink' = [b \in Locations |-> IF b \in bytes THEN sink[b] \cup {Origin} ELSE sink[b]]
      /\ owned' = [owned EXCEPT ![m0] = claim.chunks]
  BY DEF EmitBytes
<1>2. ~(~claim.free)
  BY DEF EmitBytes, Stop
<1>3. m0 \in ModuleIds /\ a \in Locations /\ n \in Nat /\ at \in DOMAIN order
  BY <1>1, EmittedLine, LineTypeFacts DEF PlaceInv, EquInv, Positions
<1>4. Sorted(owned[m0]) /\ DOMAIN owned = ModuleIds
  BY <1>1, <1>3 DEF Owning
<1>5. BankSize \in Nat \ {0} /\ a \in Nat /\ BytesAt(a, n) = BytesFrom(a, n)
  BY <1>3, MemoryAssumption, BankInMemory, BytesAtIsBytesFrom
<1> HIDE DEF a, n, list
<1>6. /\ DOMAIN owned' = ModuleIds /\ owned'[m0] = claim.chunks
      /\ \A m \in ModuleIds : m # m0 => owned'[m] = owned[m]
  BY <1>1, <1>3, <1>4
<1>7. n <= BankSize
  <2> SUFFICES ASSUME n > BankSize
               PROVE  FALSE
    BY <1>3, <1>5
  <2>1. /\ Len(list) \in Nat /\ \A k \in 1 .. Len(list) : IsChunk(list[k])
        /\ 2 \in 1 .. Len(list) /\ In(list[1], a) /\ In(list[2], a)
    BY <1>3, <1>5, ChunksOfLong DEF list
  <2>2. claim.free \in BOOLEAN /\ (claim.free <=> \A k \in 1 .. Len(list) : Fresh(owned[m0], list, k))
    BY <1>4, <2>1, ClaimChunksHolds
  <2> HIDE DEF claim
  <2>3. Fresh(owned[m0], list, 2)
    BY <1>2, <2>1, <2>2
  <2>4. a \in Int /\ 1 \in 1 .. 2 - 1
    BY <1>5
  <2> QED
    BY <2>1, <2>3, <2>4 DEF Fresh
<1>8. /\ Len(list) \in Nat /\ \A k \in 1 .. Len(list) : IsChunk(list[k])
      /\ \A b \in Int : Has(list, b) <=> b \in bytes
      /\ \A b \in Int : Has(list, b) => b \in Locations
  <2>1. n \in 0 .. BankSize + 1
    BY <1>3, <1>5, <1>7
  <2>2. /\ Len(list) \in Nat /\ \A k \in 1 .. Len(list) : IsChunk(list[k])
        /\ \A b \in Int : Has(list, b) <=> b \in BytesFrom(a, n)
        /\ \A b \in Int : Has(list, b) => Base(a) <= b /\ b < Base(a) + BankSize
    BY <1>5, <2>1, ChunksOfHold DEF list
  <2> QED
    BY <1>3, <1>5, <2>2, BankInMemory
<1> HIDE DEF bytes
<1>9. /\ Sorted(claim.chunks)
      /\ \A b \in Int : Has(claim.chunks, b) <=> Has(owned[m0], b) \/ Has(list, b)
      /\ claim.free \in BOOLEAN
      /\ claim.free <=> \A k \in 1 .. Len(list) : Fresh(owned[m0], list, k)
  BY <1>4, <1>8, ClaimChunksHolds
<1> HIDE DEF claim
<1>10. \A b \in Int : ~(Has(owned[m0], b) /\ Has(list, b))
  BY <1>2, <1>8, <1>9, FreshApart
<1>11. bytes \subseteq Locations
  <2>1. ASSUME NEW b \in bytes
        PROVE  b \in Int
    BY <1>3, <1>5, BytesFromInt DEF bytes
  <2> QED
    BY <1>8, <2>1
<1>12. bytes \subseteq Int
  BY <1>11, LastAddressType DEF Locations
<1>13. \A b \in Int : Has(owned'[m0], b) <=> Has(owned[m0], b) \/ b \in bytes
  BY <1>6, <1>8, <1>9
<1>14. \A b \in bytes : ~Has(owned[m0], b)
  BY <1>8, <1>10, <1>12
<1> QED
  BY <1>1, <1>3, <1>6, <1>9, <1>11, <1>13, <1>14 DEF bytes, a, n

-----------------------------------------------------------------------------
(* Steps of the last loop *)

LEMMA MemoryMoves ==
  ASSUME OrderInv, EquInv, [Next]_vars, phase' \in {"emit", "done"}
  PROVE  \/ /\ UNCHANGED <<order, owned, used, mapping, sink>>
            /\ \/ phase \in {"emit", "done"} /\ UNCHANGED <<phase, at>>
               \/ phase = "equ" /\ phase' = "emit" /\ at' = 1
               \/ EndEmpty
         \/ /\ EmitBytes /\ phase = "emit" /\ phase' = "emit"
            /\ UNCHANGED <<order, at, used, mapping>>
         \/ /\ Insert /\ Goes("emit", "done") /\ UNCHANGED <<order, owned, sink>>
<1>1. line \in Nat \ {0} /\ (phase \in {"equ", "emit"} => at \in DOMAIN order) /\ Len(order) \in Nat
  BY OrderFacts DEF EquInv, Positions, OrderInv
<1>2. EmitBytes => phase = "emit"
  BY DEF EmitBytes
<1>3. Insert => /\ phase = "emit" /\ UNCHANGED <<owned, sink>>
                /\ phase' = "overlap" \/ NextModule("done")
  BY DEF Insert, Stop, moduleVars
<1>4. phase' # "sink" /\ phase' # "overlap" /\ ~Halts
  BY DEF Halts, Running
<1>5. ~FindOrder
  <2> SUFFICES ASSUME FindOrder
               PROVE  FALSE
    OBVIOUS
  <2> QED
    BY FindOrderMoves
<1>6. \/ UNCHANGED <<owned, used, mapping, sink>>
      \/ EmitBytes /\ UNCHANGED <<used, mapping>>
      \/ Insert /\ UNCHANGED <<owned, sink>>
  BY <1>4, MemorySteps
<1>7. CASE /\ phase \in {"equ", "emit"} /\ line' = line + 1 /\ UNCHANGED <<orderVars, phase, at>>
  <2>1. phase = "emit"
    BY <1>7
  <2>2. ~Insert
    BY <1>1, <1>3, <1>4, <1>7 DEF NextModule
  <2> QED
    BY <1>6, <1>7, <2>1, <2>2 DEF orderVars
<1>8. CASE Goes("equ", "emit")
  BY <1>2, <1>3, <1>6, <1>8 DEF Goes, orderVars
<1>9. CASE Goes("emit", "done") /\ Insert
  BY <1>3, <1>9 DEF Goes, orderVars
<1>10. CASE EndEmpty
  BY <1>10 DEF EndEmpty, moduleVars, outputVars, orderVars
<1>11. CASE UNCHANGED <<orderVars, phase, at, line, value>>
  <2>1. ~Insert
    BY <1>1, <1>3, <1>4, <1>11 DEF NextModule
  <2> QED
    BY <1>2, <1>6, <1>11, <2>1 DEF orderVars
<1>12. ~Goes("first", "equ")
  BY DEF Goes
<1> QED
  BY <1>4, <1>5, <1>7, <1>8, <1>9, <1>10, <1>11, <1>12, Moves

LEMMA OwnersStay ==
  ASSUME [Next]_vars, DOMAIN owned = ModuleIds
  PROVE  DOMAIN owned' = ModuleIds'
<1>1. UNCHANGED ModuleIds
  BY StepFacts DEF ModuleIds
<1>2. CASE UNCHANGED owned
  BY <1>1, <1>2
<1>3. CASE EmitBytes
  <2>1. \E x : owned' = [owned EXCEPT ![m0] = x]
    BY <1>3 DEF EmitBytes
  <2> QED
    BY <1>1, <2>1
<1> QED
  BY <1>2, <1>3, MemorySteps

LEMMA OwningStep ==
  ASSUME OrderInv, EquInv, PlaceInv, MemoryInv, [Next]_vars
  PROVE  Owning'
<1>1. UNCHANGED ModuleIds
  BY StepFacts DEF ModuleIds
<1>2. Owning /\ Untouched /\ DOMAIN owned = ModuleIds
  BY DEF MemoryInv, Owning
<1>3. DOMAIN owned' = ModuleIds'
  BY <1>2, OwnersStay
<1>4. CASE phase' \notin {"emit", "done"}
  BY <1>3, <1>4 DEF Owning
<1>5. CASE UNCHANGED <<owned, sink>> /\ phase \in {"emit", "done"}
  BY <1>1, <1>2, <1>5 DEF Owning, Wrote
<1>6. CASE UNCHANGED <<owned, sink>> /\ phase \in {"first", "equ"}
  <2>1. /\ \A m \in ModuleIds : owned'[m] = << >>
        /\ \A b \in Locations : sink'[b] = {}
    BY <1>2, <1>6 DEF Untouched
  <2>2. \A m \in ModuleIds : Sorted(owned'[m]) /\ \A b : ~Has(owned'[m], b)
    BY <2>1, EmptySorted
  <2> QED
    BY <1>1, <1>3, <2>1, <2>2 DEF Owning, Wrote
<1>7. CASE EmitBytes /\ phase = "emit" /\ phase' = "emit"
  <2> DEFINE bytes == BytesAt(value[m0][line], here.size)
  <2>1. /\ m0 \in ModuleIds /\ bytes \subseteq Locations
        /\ sink' = [b \in Locations |-> IF b \in bytes THEN sink[b] \cup {Origin} ELSE sink[b]]
        /\ \A m \in ModuleIds : m # m0 => owned'[m] = owned[m]
        /\ Sorted(owned'[m0])
        /\ \A b \in Int : Has(owned'[m0], b) <=> Has(owned[m0], b) \/ b \in bytes
        /\ \A b \in bytes : ~Has(owned[m0], b)
    BY <1>2, <1>7, ClaimOfLine
  <2> HIDE DEF bytes
  <2>2. /\ \A m \in ModuleIds :
             /\ Sorted(owned[m])
             /\ \A b \in Int : Has(owned[m], b) => b \in Locations
             /\ \A b \in Locations : Has(owned[m], b) <=> \E o \in sink[b] : o[1] = m
        /\ \A b \in Locations : \A o1, o2 \in sink[b] : o1[1] = o2[1] => o1 = o2
    BY <1>2, <1>7 DEF Owning, Wrote
  <2>3. Locations \subseteq Int
    BY LastAddressType
  <2>4. \A b \in Locations : sink'[b] = IF b \in bytes THEN sink[b] \cup {Origin} ELSE sink[b]
    BY <2>1
  <2>5. Origin[1] = m0
    BY DEF Origin
  <2>6. ASSUME NEW m \in ModuleIds
        PROVE  /\ Sorted(owned'[m])
               /\ \A b \in Int : Has(owned'[m], b) => b \in Locations
               /\ \A b \in Locations : Has(owned'[m], b) <=> \E o \in sink'[b] : o[1] = m
    <3>1. CASE m = m0
      <4>1. ASSUME NEW b \in Locations
            PROVE  Has(owned'[m], b) <=> \E o \in sink'[b] : o[1] = m
        <5>1. Has(owned'[m], b) <=> Has(owned[m], b) \/ b \in bytes
          BY <2>1, <2>3, <3>1
        <5>2. Has(owned[m], b) <=> \E o \in sink[b] : o[1] = m
          BY <2>2
        <5>3. CASE b \in bytes
          BY <2>4, <2>5, <3>1, <5>1, <5>3
        <5>4. CASE b \notin bytes
          BY <2>4, <5>1, <5>2, <5>4
        <5> QED
          BY <5>3, <5>4
      <4> QED
        BY <2>1, <2>2, <3>1, <4>1
    <3>2. CASE m # m0
      <4>1. ASSUME NEW b \in Locations
            PROVE  (\E o \in sink'[b] : o[1] = m) <=> \E o \in sink[b] : o[1] = m
        BY <2>4, <2>5, <3>2
      <4> QED
        BY <2>1, <2>2, <3>2, <4>1
    <3> QED
      BY <3>1, <3>2
  <2>7. ASSUME NEW b \in Locations, NEW o1 \in sink'[b], NEW o2 \in sink'[b], o1[1] = o2[1]
        PROVE  o1 = o2
    <3>1. CASE b \in bytes
      <4>1. ~\E o \in sink[b] : o[1] = m0
        BY <2>1, <2>2, <3>1
      <4>2. \A o \in sink'[b] : o \in sink[b] \/ o = Origin
        BY <2>4, <3>1
      <4> QED
        BY <2>2, <2>5, <2>7, <4>1, <4>2
    <3>2. CASE b \notin bytes
      BY <2>2, <2>4, <2>7, <3>2
    <3> QED
      BY <3>1, <3>2
  <2> QED
    BY <1>1, <1>3, <2>6, <2>7 DEF Owning, Wrote
<1>8. EndEmpty => phase = "first"
  BY DEF EndEmpty
<1>9. Insert => phase = "emit"
  BY DEF Insert
<1> QED
  BY <1>4, <1>5, <1>6, <1>7, <1>8, <1>9, MemoryMoves

LEMMA UntouchedStep ==
  ASSUME OrderInv, EquInv, MemoryInv, [Next]_vars
  PROVE  Untouched'
<1>1. UNCHANGED ModuleIds
  BY StepFacts DEF ModuleIds
<1> SUFFICES ASSUME phase' \in {"order", "first", "equ"}
             PROVE  phase \in {"order", "first", "equ"} /\ UNCHANGED <<owned, used, mapping, sink>>
  BY <1>1 DEF MemoryInv, Untouched
<1>2. phase \in {"order", "first", "equ"}
  <2>1. ~Halts
    BY DEF Halts, Running
  <2>2. EndEmpty => phase = "first"
    BY DEF EndEmpty
  <2>3. FindOrder => phase = "order"
    BY DEF FindOrder
  <2> QED
    BY <2>1, <2>2, <2>3, Moves DEF Goes
<1>3. ~EmitBytes /\ ~Insert /\ ~SinkFails
  BY <1>2 DEF EmitBytes, Insert, SinkFails
<1> QED
  BY <1>2, <1>3, MemorySteps

LEMMA MappedStep ==
  ASSUME OrderInv, EquInv, PlaceInv, MemoryInv, [Next]_vars
  PROVE  Mapped'
<1> SUFFICES ASSUME phase' \in {"emit", "done"}
             PROVE  Mapped'
  BY DEF Mapped
<1>1. UNCHANGED ModuleIds
  BY StepFacts DEF ModuleIds
<1>2. Owning /\ Mapped /\ Untouched /\ DOMAIN owned = ModuleIds
  BY DEF MemoryInv, Owning
<1>3. /\ Len(order) \in Nat /\ DOMAIN order = 1 .. Len(order)
      /\ \A j \in DOMAIN order : order[j] \in ModuleIds
      /\ \A i, j \in DOMAIN order : order[i] = order[j] => i = j
  BY OrderFacts DEF OrderInv, OrderTypeOK
<1>4. CASE UNCHANGED <<order, owned, used, mapping, phase, at>> /\ phase \in {"emit", "done"}
  <2>1. UNCHANGED Behind
    BY <1>1, <1>4 DEF Behind
  <2> QED
    BY <1>2, <1>4, <2>1 DEF Mapped
<1>5. CASE /\ UNCHANGED <<order, owned, used, mapping>> /\ Behind' = {}
           /\ phase \in {"first", "equ"}
  <2>1. used' = << >> /\ mapping' = << >>
    BY <1>2, <1>5 DEF Untouched
  <2>2. DOMAIN mapping' = {} /\ DOMAIN << >> = {}
    BY <2>1
  <2>3. DisjointEntries(mapping')
    BY <2>2 DEF DisjointEntries
  <2>4. Sorted(used') /\ SameBytes(used', mapping')
    BY <2>1, <2>2, EmptySorted DEF SameBytes
  <2> QED
    BY <1>5, <2>2, <2>3, <2>4 DEF Mapped
<1>6. CASE phase = "equ" /\ phase' = "emit" /\ at' = 1 /\ UNCHANGED <<order, owned, used, mapping>>
  <2>1. Behind' = {}
    BY <1>6 DEF Behind
  <2> QED
    BY <1>5, <1>6, <2>1
<1>7. CASE EndEmpty /\ UNCHANGED <<order, owned, used, mapping>>
  <2>1. phase = "first" /\ phase' = "done" /\ ModuleIds = {}
    BY <1>7, EmptyHasNone DEF EndEmpty
  <2>2. Behind' = {}
    BY <1>1, <2>1 DEF Behind
  <2> QED
    BY <1>5, <1>7, <2>1, <2>2
<1>8. CASE /\ EmitBytes /\ phase = "emit" /\ phase' = "emit"
           /\ UNCHANGED <<order, at, used, mapping>>
  <2>1. \A m \in ModuleIds : m # m0 => owned'[m] = owned[m]
    BY <1>2, <1>8, ClaimOfLine
  <2>2. at \in DOMAIN order
    BY <1>8 DEF EquInv, Positions
  <2>3. UNCHANGED Behind /\ Behind = {order[j] : j \in 1 .. at - 1}
    BY <1>8 DEF Behind
  <2>4. ASSUME NEW m \in Behind
        PROVE  m \in ModuleIds /\ owned'[m] = owned[m]
    <3>1. PICK j \in 1 .. at - 1 : m = order[j]
      BY <2>3
    <3>2. j \in DOMAIN order /\ j # at
      BY <1>3, <2>2
    <3>3. m \in ModuleIds /\ m # m0
      BY <1>3, <2>2, <3>1, <3>2 DEF m0
    <3> QED
      BY <2>1, <3>3
  <2>5. /\ Sorted(used) /\ DisjointEntries(mapping) /\ SameBytes(used, mapping)
        /\ \A c \in DOMAIN mapping : mapping[c] \in Behind /\ c \in EntriesOf(owned[mapping[c]])
        /\ \A m \in Behind : \A c \in EntriesOf(owned[m]) : c \in DOMAIN mapping /\ mapping[c] = m
    BY <1>2, <1>8 DEF Mapped
  <2> QED
    BY <1>8, <2>3, <2>4, <2>5 DEF Mapped
<1>9. CASE Insert /\ Goes("emit", "done") /\ UNCHANGED <<order, owned, sink>>
  <2> DEFINE list == owned[m0]
             claim == ClaimChunks(used, list)
             into == [c \in DOMAIN mapping \cup EntriesOf(list) |->
                        IF c \in DOMAIN mapping THEN mapping[c] ELSE m0]
  <2>1. phase = "emit" /\ phase' # "overlap" /\ at \in DOMAIN order /\ m0 \in ModuleIds
    BY <1>3, <1>9 DEF Goes, m0
  <2>2. claim.free /\ used' = claim.chunks /\ mapping' = into
    BY <1>9, <2>1 DEF Insert, Stop, EntriesOf
  <2>3. /\ Sorted(used) /\ DisjointEntries(mapping) /\ SameBytes(used, mapping)
        /\ \A c \in DOMAIN mapping : mapping[c] \in Behind /\ c \in EntriesOf(owned[mapping[c]])
        /\ \A m \in Behind : \A c \in EntriesOf(owned[m]) : c \in DOMAIN mapping /\ mapping[c] = m
    BY <1>2, <2>1 DEF Mapped
  <2>4. Sorted(list) /\ \A b \in Int : Has(list, b) => b \in Nat
    <3>1. Sorted(list) /\ \A b \in Int : Has(list, b) => b \in Locations
      BY <1>2, <2>1 DEF Owning
    <3>2. Locations \subseteq Nat
      BY LastAddressType
    <3> QED
      BY <3>1, <3>2
  <2> HIDE DEF list
  <2>5. /\ Sorted(claim.chunks) /\ DisjointEntries(into) /\ SameBytes(claim.chunks, into)
        /\ DOMAIN into = DOMAIN mapping \cup EntriesOf(list)
        /\ \A c \in DOMAIN mapping : into[c] = mapping[c]
        /\ \A c \in EntriesOf(list) : into[c] = m0
    <3>1. Sorted(used) /\ DisjointEntries(mapping) /\ SameBytes(used, mapping) /\ claim.free
      BY <2>2, <2>3
    <3>2. /\ claim.free \in BOOLEAN
          /\ claim.free <=> \A b \in Int : ~(Has(used, b) /\ Has(list, b))
          /\ claim.free => /\ Sorted(claim.chunks)
                           /\ DisjointEntries(into)
                           /\ SameBytes(claim.chunks, into)
                           /\ \A b \in Int : Has(claim.chunks, b) <=> Has(used, b) \/ Has(list, b)
                           /\ DOMAIN into = DOMAIN mapping \cup EntriesOf(list)
                           /\ \A c \in DOMAIN mapping : into[c] = mapping[c]
                           /\ \A c \in EntriesOf(list) : into[c] = m0
      BY <2>4, <3>1, InsertHolds, Zenon
    <3> HIDE DEF claim, into
    <3> QED
      BY <3>1, <3>2
  <2> HIDE DEF claim, into
  <2>6. Behind' = Behind \cup {m0}
    <3>1. Behind = {order[j] : j \in 1 .. at - 1}
      BY <2>1 DEF Behind
    <3>2. Behind \cup {m0} = {order[j] : j \in 1 .. at}
      <4>1. 1 .. at = (1 .. at - 1) \cup {at}
        BY <1>3, <2>1
      <4> QED
        BY <3>1, <4>1 DEF m0
    <3>3. CASE at # Len(order) /\ phase' = "emit" /\ at' = at + 1
      <4>1. at' - 1 = at
        BY <1>3, <2>1, <3>3
      <4> QED
        BY <1>9, <3>2, <3>3, <4>1 DEF Behind
    <3>4. CASE at = Len(order) /\ phase' = "done"
      <4>1. ModuleIds = {order[j] : j \in 1 .. at}
        <5>1. \A m \in ModuleIds : \E j \in 1 .. Len(order) : order[j] = m
          BY <2>1, OrderedHoldsAll
        <5> QED
          BY <1>3, <3>4, <5>1
      <4> QED
        BY <1>1, <3>2, <3>4, <4>1 DEF Behind
    <3> QED
      BY <1>9, <3>3, <3>4 DEF Goes
  <2>7. UNCHANGED owned /\ list = owned[m0]
    BY <1>9 DEF list
  <2>8. ASSUME NEW c \in DOMAIN into
        PROVE  into[c] \in Behind \cup {m0} /\ c \in EntriesOf(owned[into[c]])
    BY <2>3, <2>5, <2>7
  <2>9. ASSUME NEW m \in Behind \cup {m0}, NEW c \in EntriesOf(owned[m])
        PROVE  c \in DOMAIN into /\ into[c] = m
    BY <2>3, <2>5, <2>7
  <2> QED
    BY <2>2, <2>5, <2>6, <2>7, <2>8, <2>9 DEF Mapped
<1> QED
  BY <1>4, <1>6, <1>7, <1>8, <1>9, MemoryMoves

\* What was written stays written.
LEMMA SinkGrows ==
  ASSUME [Next]_vars
  PROVE  \A b \in Locations : sink[b] \subseteq sink'[b]
<1>1. CASE UNCHANGED sink
  BY <1>1
<1>2. CASE EmitBytes
  <2>1. \E bytes : sink' = [b \in Locations |-> IF b \in bytes THEN sink[b] \cup {Origin} ELSE sink[b]]
    BY <1>2 DEF EmitBytes
  <2> QED
    BY <2>1
<1>3. CASE SinkFails
  <2>1. \E bytes : sink' = [b \in Locations |-> IF b \in bytes THEN sink[b] \cup {Origin} ELSE sink[b]]
    BY <1>3 DEF SinkFails
  <2> QED
    BY <2>1
<1> QED
  BY <1>1, <1>2, <1>3, MemorySteps

LEMMA MapWrittenStep ==
  ASSUME OrderInv, EquInv, MemoryInv, [Next]_vars, Mapped'
  PROVE  MapWritten'
<1>1. Owning /\ MapWritten
  BY DEF MemoryInv
<1>2. CASE UNCHANGED <<used, mapping>>
  <2>1. ASSUME NEW m, NEW b \in Locations, Wrote(m, b)
        PROVE  Wrote(m, b)'
    BY <2>1, SinkGrows DEF Wrote
  <2>2. ASSUME NEW c \in DOMAIN mapping, NEW b \in Locations, In(c, b)
        PROVE  \E o \in sink'[b] : o[1] = mapping[c]
    <3>1. \A m : m = mapping[c] => Wrote(m, b)
      BY <1>1, <2>2 DEF MapWritten
    <3>2. \A m : m = mapping[c] => Wrote(m, b)'
      BY <2>1, <3>1
    <3> QED
      BY <3>2 DEF Wrote
  <2> QED
    BY <1>1, <1>2, <2>2 DEF MapWritten, Wrote
<1>3. CASE Insert /\ ~UNCHANGED <<used, mapping>>
  <2> DEFINE list == owned[m0]
  <2>1. /\ phase = "emit" /\ UNCHANGED sink /\ phase' \in {"emit", "done"}
        /\ DOMAIN mapping' = DOMAIN mapping \cup EntriesOf(list)
        /\ \A c \in DOMAIN mapping' : mapping'[c] = IF c \in DOMAIN mapping THEN mapping[c] ELSE m0
    BY <1>3 DEF Insert, Stop, NextModule, EntriesOf
  <2>2. m0 \in ModuleIds
    BY <2>1, OrderFacts DEF EquInv, Positions, OrderInv, m0
  <2>3. Sorted(list) /\ \A b \in Locations : Has(list, b) <=> Wrote(m0, b)
    BY <1>1, <2>1, <2>2 DEF Owning
  <2>4. DOMAIN list = 1 .. Len(list)
    BY <2>3 DEF Sorted
  <2> HIDE DEF list
  <2>5. ASSUME NEW c \in EntriesOf(list), NEW b \in Locations, In(c, b)
        PROVE  \E o \in sink[b] : o[1] = m0
    <3>1. Has(list, b)
      BY <2>4, <2>5 DEF Has, EntriesOf
    <3> QED
      BY <2>3, <3>1 DEF Wrote
  <2>6. ASSUME NEW c \in DOMAIN mapping', NEW b \in Locations, In(c, b)
        PROVE  \E o \in sink'[b] : o[1] = mapping'[c]
    <3>1. CASE c \in DOMAIN mapping
      BY <1>1, <2>1, <2>6, <3>1 DEF MapWritten, Wrote
    <3>2. CASE c \notin DOMAIN mapping
      BY <2>1, <2>5, <2>6, <3>2
    <3> QED
      BY <3>1, <3>2
  <2>7. Sorted(used') /\ DisjointEntries(mapping') /\ SameBytes(used', mapping')
    BY <2>1 DEF Mapped
  <2> QED
    BY <2>6, <2>7 DEF MapWritten, Wrote
<1>4. SinkFails => UNCHANGED <<used, mapping>>
  BY DEF SinkFails, Stop
<1> QED
  BY <1>2, <1>3, <1>4, MemorySteps

LEMMA MemoryInvariant == Spec => [](OrderInv /\ EquInv /\ PlaceInv /\ MemoryInv)
<1>1. Init => MemoryInv
  <2> SUFFICES ASSUME Init
               PROVE  MemoryInv
    OBVIOUS
  <2>1. /\ phase = "order" /\ used = << >> /\ mapping = << >>
        /\ owned = [m \in ModuleIds |-> << >>] /\ sink = [b \in Locations |-> {}]
    BY DEF Init
  <2>2. DOMAIN mapping = {}
    BY <2>1
  <2>3. Sorted(used) /\ SameBytes(used, mapping)
    BY <2>1, <2>2, EmptySorted DEF SameBytes
  <2>4. MapWritten
    BY <2>2, <2>3 DEF MapWritten, DisjointEntries
  <2> QED
    BY <2>1, <2>4 DEF MemoryInv, Owning, Mapped, Untouched
<1>2. OrderInv /\ EquInv /\ PlaceInv /\ MemoryInv /\ [Next]_vars => MemoryInv'
  BY OwningStep, MappedStep, UntouchedStep, MapWrittenStep DEF MemoryInv
<1> QED
  BY PlaceInvariant, <1>1, <1>2, PTL DEF Spec

-----------------------------------------------------------------------------
(* When the assembly has succeeded *)

\* The entries that hold a byte are those of the modules that wrote it.
LEMMA EntriesAreWriters ==
  ASSUME OrderInv, PlaceInv, MemoryInv, phase = "done", NEW b \in Locations
  PROVE  /\ \A o \in sink[b] : \E c \in DOMAIN mapping : In(c, b) /\ mapping[c] = o[1]
         /\ \A c \in DOMAIN mapping : In(c, b) => \E o \in sink[b] : o[1] = mapping[c]
<1>1. /\ Behind = ModuleIds /\ b \in Int
      /\ \A m \in ModuleIds : Sorted(owned[m]) /\ (Has(owned[m], b) <=> Wrote(m, b))
  BY LastAddressType DEF Behind, MemoryInv, Owning
<1>2. /\ \A c \in DOMAIN mapping : mapping[c] \in ModuleIds /\ c \in EntriesOf(owned[mapping[c]])
      /\ \A m \in ModuleIds : \A c \in EntriesOf(owned[m]) : c \in DOMAIN mapping /\ mapping[c] = m
  BY <1>1 DEF MemoryInv, Mapped
<1>3. \A m \in ModuleIds : Has(owned[m], b) <=> \E c \in EntriesOf(owned[m]) : In(c, b)
  <2>1. \A m \in ModuleIds : DOMAIN owned[m] = 1 .. Len(owned[m])
    BY <1>1 DEF Sorted
  <2> QED
    BY <2>1 DEF Has, EntriesOf
<1>4. \A o \in sink[b] : o[1] \in ModuleIds
  BY DEF PlaceInv, Notes, Origins
<1>5. ASSUME NEW o \in sink[b]
      PROVE  \E c \in DOMAIN mapping : In(c, b) /\ mapping[c] = o[1]
  <2>1. o[1] \in ModuleIds /\ Wrote(o[1], b)
    BY <1>4 DEF Wrote
  <2> QED
    BY <1>1, <1>2, <1>3, <2>1
<1>6. ASSUME NEW c \in DOMAIN mapping, In(c, b)
      PROVE  \E o \in sink[b] : o[1] = mapping[c]
  <2>1. mapping[c] \in ModuleIds /\ c \in EntriesOf(owned[mapping[c]])
    BY <1>2
  <2>2. Wrote(mapping[c], b)
    BY <1>1, <1>3, <1>6, <2>1
  <2> QED
    BY <2>2 DEF Wrote
<1> QED
  BY <1>5, <1>6

LEMMA WritersApart == OrderInv /\ PlaceInv /\ MemoryInv => BytesHaveOneWriter
<1> SUFFICES ASSUME OrderInv, PlaceInv, MemoryInv, phase = "done",
                    NEW b \in Locations, NEW o1 \in sink[b], NEW o2 \in sink[b]
             PROVE  o1 = o2
  BY DEF BytesHaveOneWriter
<1>1. PICK c \in DOMAIN mapping : In(c, b) /\ mapping[c] = o1[1]
  BY EntriesAreWriters
<1>2. PICK d \in DOMAIN mapping : In(d, b) /\ mapping[d] = o2[1]
  BY EntriesAreWriters
<1>3. DisjointEntries(mapping) /\ b \in Int
  BY LastAddressType DEF MemoryInv, Mapped
<1>4. c = d
  BY <1>1, <1>2, <1>3 DEF DisjointEntries
<1> QED
  BY <1>1, <1>2, <1>4 DEF MemoryInv, Owning

LEMMA MapOfWriters == OrderInv /\ PlaceInv /\ MemoryInv => MapAgreesWithSink
<1> SUFFICES ASSUME OrderInv, PlaceInv, MemoryInv, NEW b \in Locations
             PROVE  /\ InChunks(used, b) => \E o \in sink[b] : o[1] = Lookup(mapping, b)
                    /\ phase = "done" => /\ InChunks(used, b) <=> sink[b] # {}
                                         /\ \A o \in sink[b] : Lookup(mapping, b) = o[1]
  BY DEF MapAgreesWithSink
<1>1. /\ Sorted(used) /\ DisjointEntries(mapping) /\ SameBytes(used, mapping)
      /\ \A c \in DOMAIN mapping : In(c, b) => \E o \in sink[b] : o[1] = mapping[c]
  BY DEF MemoryInv, MapWritten, Wrote
<1>2. b \in Int /\ b \in Nat
  BY LastAddressType
<1>3. InChunks(used, b) <=> \E c \in DOMAIN mapping : In(c, b)
  BY <1>1, <1>2, InChunksIsHas DEF SameBytes
<1>4. \A c \in DOMAIN mapping : In(c, b) => Lookup(mapping, b) = mapping[c]
  BY <1>1, <1>2, LookupFinds
<1>5. phase = "done" => \A o \in sink[b] : \E c \in DOMAIN mapping : In(c, b) /\ mapping[c] = o[1]
  BY EntriesAreWriters
<1> QED
  BY <1>1, <1>3, <1>4, <1>5

\* For every set of projects and every size of memory: an assembly that
\* succeeds has written no byte twice, within a module or across modules,
\* though Assemble looks for overlaps only after it has written.
THEOREM BytesAreWrittenOnce == Spec => []BytesHaveOneWriter
BY MemoryInvariant, WritersApart, PTL

\* For every set of projects and every size of memory: memory_module_map_ names
\* only modules that have written the byte, wherever the assembly stops; once it
\* has succeeded Assembler::Contains is true of exactly the bytes written, and
\* the map names the module that wrote each of them.
THEOREM MapNamesTheWriters == Spec => []MapAgreesWithSink
BY MemoryInvariant, MapOfWriters, PTL

=============================================================================
