--------------------------- MODULE MCAssemblyOrder ---------------------------
(***************************************************************************)
(* Every project of three modules over three names, and every project of   *)
(* up to three modules over two names.  A module never depends on a name   *)
(* it exports itself: such a name is local to it.                          *)
(***************************************************************************)
EXTENDS AssemblyOrder

CONSTANT Names

AllModules ==
  {m \in [exports : SUBSET Names, dependencies : SUBSET Names] :
     m.exports \cap m.dependencies = {}}

Triples == [1 .. 3 -> AllModules]
UpToThree == UNION {[1 .. n -> AllModules] : n \in 0 .. 3}

=============================================================================
