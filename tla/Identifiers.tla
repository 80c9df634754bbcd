---------------------------- MODULE Identifiers ----------------------------
(***************************************************************************)
(* FullIdentifier of identifiers.h: a name, and the module it is qualified *)
(* with.                                                                   *)
(***************************************************************************)

\* module is NoModule in a name that is not qualified, "" in ::name.
NoModule == "(none)"
Identifier(module, name) == [module |-> module, name |-> name]

\* A name that is not qualified is looked for among the global names.
Global(id) == IF id.module = NoModule THEN Identifier("", id.name) ELSE id

=============================================================================
