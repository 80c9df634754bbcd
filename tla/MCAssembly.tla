----------------------------- MODULE MCAssembly -----------------------------
(***************************************************************************)
(* Small projects.  NameProjects: expressions across and within two        *)
(* modules.  ByteProjects: two modules that compete for six bytes and      *)
(* jump out of them.                                                       *)
(***************************************************************************)
EXTENDS Assembly

Base == [kind |-> "plain", label |-> NoLabel, ref |-> "number", to |-> 0, size |-> 0,
         returns |-> FALSE]

Plain(label) == [Base EXCEPT !.label = label]
Org(a) == [Base EXCEPT !.kind = "org", !.to = a]
Equ(label, ref, to) == [Base EXCEPT !.kind = "equ", !.label = label, !.ref = ref, !.to = to]
Code(ref, to, size) == [Base EXCEPT !.kind = "code", !.ref = ref, !.to = to, !.size = size]
Branch(ref, to) == [Code(ref, to, 1) EXCEPT !.kind = "branch"]
Entry == [Base EXCEPT !.kind = "entry", !.returns = TRUE]
Leads(kind, a, returns) ==
  [Base EXCEPT !.kind = kind, !.to = a, !.size = IF kind = "remote" THEN 0 ELSE 1, !.returns = returns]

Loaded(lines) ==
  [exports |-> ExportedNames(lines), dependencies |-> Dependencies(lines), lines |-> lines]

\* No label twice: LoadAsmFile rejects it.
Loadable(files) ==
  {Loaded(f) : f \in {g \in files : \A i, j \in DOMAIN g : i # j /\ g[i].label = g[j].label => g[i].label = NoLabel}}

-----------------------------------------------------------------------------

Expressions(name) == {<<"number", 2>>, <<"line", 2>>, <<"line", 3>>, <<"name", name>>}

Uses(label, name) ==
  {Plain(label), Plain(NoLabel), Entry}
  \cup {Equ(l, e[1], e[2]) : l \in {label, NoLabel}, e \in Expressions(name)}
  \cup {Code("number", 2, 1), Code("name", name, 1)}
  \cup {Branch("line", i) : i \in 2 .. 3} \cup {Branch("name", name)}

FirstFiles == Loadable({<<o, a, b>> : o \in {Plain(NoLabel), Org(1)}, a, b \in Uses(1, 2)})
\* The last address, what is none, and what is no constant.
Orgs == {Org(a) : a \in {LastAddress, LastAddress + 1, -1}} \cup {[Org(0) EXCEPT !.ref = "line", !.to = 2]}

SecondFiles ==
  Loadable({<<Org(0), a, b>> : a \in {Plain(2), Plain(NoLabel)} \cup {Equ(2, "number", 3), Equ(2, "number", 9), Equ(2, "line", 3), Equ(2, "name", 1)},
                               b \in Uses(2, 1)}
           \cup {<<[o EXCEPT !.label = 2], Entry, Code("number", 0, 1)>> : o \in Orgs}
           \cup {<<Org(0), Code("number", 0, 1), o>> : o \in Orgs})
NameModules == FirstFiles \cup SecondFiles
NameProjects == FirstFiles \X SecondFiles \cup {<< >>}

-----------------------------------------------------------------------------

Chunk(a, n) == <<Org(a), Code("number", 0, n)>>

ByteModules ==
  Loadable({Chunk(a, n) \o Chunk(b, n) : a, b \in 0 .. 5, n \in {1, 2}}
           \cup {Chunk(a, n) \o <<x, y>> : a \in {0, 2, 5}, n \in {1, 3},
                   x, y \in {Leads("remote", 3, TRUE), Leads("far", 3, FALSE), Leads("jump", 1, FALSE), Entry}})
ByteProjects == ByteModules \X ByteModules

AllModules == NameModules \cup ByteModules
AllProjects == NameProjects \cup ByteProjects

=============================================================================
