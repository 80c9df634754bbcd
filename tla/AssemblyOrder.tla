---------------------------- MODULE AssemblyOrder ----------------------------
(***************************************************************************)
(* Assembler::FindAssemblyOrder of assembler.cc.  It sweeps over the       *)
(* modules, appending to the order each module whose dependencies (the     *)
(* names its .equ expressions need) are all exported by modules already in *)
(* the order, until a sweep completes the order or finds nothing to add.   *)
(*                                                                         *)
(* Names are the integers: std::map visits a module's exported names in    *)
(* increasing order.                                                       *)
(***************************************************************************)
EXTENDS Integers, Sequences

CONSTANTS
  Modules,    \* what LoadAsmFile can return
  Projects    \* the sequences of modules that are assembled together

ASSUME ProjectsAssumption ==
  /\ Projects \subseteq Seq(Modules)
  /\ \A m \in Modules : m.exports \subseteq Int /\ m.dependencies \subseteq Int

VARIABLES
  modules,     \* modules_
  order,       \* order: the indices of the modules in it
  scan,        \* the module the sweep considers next
  moreFound,   \* more_found
  exporter,    \* exported_names and name_to_module_map_: name -> its module
  ordering     \* "sweeping", or how FindAssemblyOrder returned

orderVars == <<modules, order, scan, moreFound, exporter, ordering>>

ModuleIds == 1 .. Len(modules)
InOrder(m) == \E i \in DOMAIN order : order[i] = m   \* already_inserted

-----------------------------------------------------------------------------

OrderInit ==
  /\ modules \in Projects
  /\ order = << >>
  /\ scan = 1
  /\ moreFound = FALSE
  /\ exporter = [n \in {} |-> 0]
  /\ ordering = "sweeping"

DependenciesMet_Any(m) ==   \* mutant: one known dependency is enough
  \/ modules[m].dependencies = {}
  \/ modules[m].dependencies \cap DOMAIN exporter # {}

DependenciesMet_Always(m) == TRUE   \* mutant: the modules stay in the order they were added

DependenciesMet(m) == modules[m].dependencies \subseteq DOMAIN exporter

Conflicts_None(m) == {}   \* mutant: a second definition goes unnoticed

Conflicts(m) == modules[m].exports \cap DOMAIN exporter

\* The names of m that are registered: all, or those before the first conflict.
Registered(m) == {n \in modules[m].exports : \A c \in Conflicts(m) : n < c}

Pass(m) ==
  /\ ordering = "sweeping" /\ m = scan /\ m \in ModuleIds
  /\ InOrder(m) \/ ~DependenciesMet(m)
  /\ scan' = scan + 1
  /\ UNCHANGED <<modules, order, moreFound, exporter, ordering>>

Take_Again(m) ==   \* mutant: already_inserted is not consulted
  /\ ordering = "sweeping" /\ m = scan /\ m \in ModuleIds
  /\ DependenciesMet(m)
  /\ moreFound' = TRUE
  /\ order' = Append(order, m)
  /\ exporter' = [n \in DOMAIN exporter \cup modules[m].exports |->
                    IF n \in modules[m].exports THEN m ELSE exporter[n]]
  /\ scan' = scan + 1
  /\ UNCHANGED <<modules, ordering>>

Take(m) ==
  /\ ordering = "sweeping" /\ m = scan /\ m \in ModuleIds
  /\ ~InOrder(m) /\ DependenciesMet(m)
  /\ moreFound' = TRUE
  /\ order' = Append(order, m)
  /\ exporter' = [n \in DOMAIN exporter \cup Registered(m) |->
                    IF n \in Registered(m) THEN m ELSE exporter[n]]
  /\ scan' = scan + 1
  /\ ordering' = IF Conflicts(m) = {} THEN ordering ELSE "duplicate"
  /\ UNCHANGED modules

EndSweep_OneSweep ==   \* mutant: one sweep has to find the whole order
  /\ ordering = "sweeping" /\ scan = Len(modules) + 1
  /\ ordering' = IF Len(order) = Len(modules) THEN "ordered" ELSE "cyclic"
  /\ UNCHANGED <<modules, order, scan, moreFound, exporter>>

EndSweep_KeepsFound ==   \* mutant: more_found is declared outside the loop
  /\ ordering = "sweeping" /\ scan = Len(modules) + 1
  /\ scan' = 1
  /\ ordering' = CASE Len(order) >= Len(modules) -> "ordered"
                   [] Len(order) < Len(modules) /\ ~moreFound -> "cyclic"
                   [] OTHER -> ordering
  /\ UNCHANGED <<modules, order, moreFound, exporter>>

EndSweep ==
  /\ ordering = "sweeping" /\ scan = Len(modules) + 1
  /\ scan' = 1 /\ moreFound' = FALSE
  /\ ordering' = CASE Len(order) >= Len(modules) -> "ordered"
                   [] Len(order) < Len(modules) /\ ~moreFound -> "cyclic"
                   [] OTHER -> ordering
  /\ UNCHANGED <<modules, order, exporter>>

Ordered == ordering # "sweeping" /\ UNCHANGED orderVars

OrderNext ==
  \/ \E m \in ModuleIds : Pass(m) \/ Take(m)
  \/ EndSweep
  \/ Ordered

OrderSpec == OrderInit /\ [][OrderNext]_orderVars

\* A loop of one thread.
FairOrderSpec == OrderSpec /\ WF_orderVars(OrderNext)

-----------------------------------------------------------------------------
(* Properties *)

\* Types; no module is taken twice.
OrderTypeOK ==
  /\ modules \in Projects
  /\ order \in Seq(ModuleIds)
  /\ \A i, j \in DOMAIN order : order[i] = order[j] => i = j
  /\ scan \in 1 .. Len(modules) + 1
  /\ moreFound \in BOOLEAN
  /\ DOMAIN exporter \subseteq Int /\ exporter \in [DOMAIN exporter -> ModuleIds]
  /\ ordering \in {"sweeping", "ordered", "cyclic", "duplicate"}

\* assembler.h, "so that all .equ expressions are evaluated before any are
\* accessed": what the .equ expressions of a module need is exported by a
\* module before it.
OrderRespectsDependencies ==
  \A i \in DOMAIN order : \A n \in modules[order[i]].dependencies :
    \E j \in 1 .. i - 1 : n \in modules[order[j]].exports

\* rank gives every module a place such that all it needs is exported by
\* modules with smaller places.
Ranks(rank) ==
  \A m \in ModuleIds : \A n \in modules[m].dependencies :
    \E k \in ModuleIds : n \in modules[k].exports /\ rank[k] < rank[m]

\* Whenever the modules can be ordered the sweeps find an order: "Cyclic
\* dependency" is reported only when there is none.
CyclicMeansNoOrder ==
  ordering = "cyclic" => \A rank \in [ModuleIds -> 0 .. Len(modules) - 1] : ~Ranks(rank)

\* A finished order holds every module, and there is exactly one module the
\* name map can send an exported name to.  A duplicate is reported only when
\* two modules do export the same name.
DefinitionsUnique ==
  /\ ordering = "ordered" =>
       \A m \in ModuleIds :
         InOrder(m) /\ \A n \in modules[m].exports : n \in DOMAIN exporter /\ exporter[n] = m
  /\ ordering = "duplicate" =>
       \E k, m \in ModuleIds : k # m /\ modules[k].exports \cap modules[m].exports # {}

\* FindAssemblyOrder returns.
OrderFound == <>(ordering # "sweeping")

=============================================================================
