------------------------------ MODULE Loading ------------------------------
(***************************************************************************)
(* Module::LoadAsmFile of module.cc: a file of tokenized lines becomes the *)
(* lines of a module.  Labels wait for the statement that follows them and *)
(* are then entered into the scope that is open, .begin and .end open and  *)
(* close scopes, and at the end of the file the names its .equ lines       *)
(* borrow from other modules are collected.  LocalIndex looks a name up.   *)
(* What a line says and which names an argument refers to are left open    *)
(* here: Parser and Expressions have them, and MCLoading puts them in.     *)
(***************************************************************************)
EXTENDS Identifiers, Integers, Sequences, FiniteSets, SequencesExt

CONSTANTS
  Files,          \* sequences of token sequences
  ParseLine(_),   \* Parse: the entities of a line, if it is one
  NamesOf(_)      \* the names an argument refers to

VARIABLES
  file,          \* the lines of the file, as tokens
  lineNumber,    \* line_number
  entities,      \* what is left of the entities of the current line
  lines,         \* lines_
  pendingLabels, \* pending_labels
  activeScopes,  \* active_scopes
  globalToLine,  \* global_to_line_
  moduleName,    \* module_name_, "" until a .module line
  dependencies,  \* dependencies_
  status         \* "reading", "loaded" or "error"

position == <<file, lineNumber>>
module == <<lines, pendingLabels, activeScopes, globalToLine, moduleName, dependencies>>
vars == <<position, entities, module, status>>

NoLabels == [name \in {} |-> 0]

-----------------------------------------------------------------------------
(* LocalIndex *)

\* The names a scope knows, by the line that opens it; 0 stands for the file.
Names(scope) == IF scope = 0 THEN globalToLine ELSE lines[scope].scopedLocals

\* The scopes to search, the global one first.
ScopePath(scopes) == <<0>> \o scopes
KnownAt(name, scopes) ==
  {k \in DOMAIN ScopePath(scopes) : name \in DOMAIN Names(ScopePath(scopes)[k])}

LocalIndex_OutermostFirst(name, scopes) ==   \* mutant: an outer name hides an inner one
  LET known == KnownAt(name, scopes)
  IN  IF known = {} THEN 0 ELSE Names(ScopePath(scopes)[Min(known)])[name]

\* The line a name stands for in the innermost scope that knows it, or 0.
LocalIndex(name, scopes) ==
  LET known == KnownAt(name, scopes)
  IN  IF known = {} THEN 0 ELSE Names(ScopePath(scopes)[Max(known)])[name]

\* ModuleIsLocalContext: a qualified name is local when it names this module
\* and a global of it.
IsLocal(id, scopes) ==
  IF id.module = NoModule THEN LocalIndex(id.name, scopes) # 0
  ELSE id.module = moduleName /\ LocalIndex(id.name, << >>) # 0

-----------------------------------------------------------------------------

Init ==
  /\ file \in Files
  /\ lineNumber = 0 /\ entities = << >>
  /\ lines = << >> /\ pendingLabels = << >> /\ activeScopes = << >>
  /\ globalToLine = NoLabels /\ moduleName = "" /\ dependencies = {}
  /\ status = "reading"

\* The next line is parsed.
ReadLine ==
  LET parsed == ParseLine(file[lineNumber + 1])
  IN  /\ status = "reading" /\ entities = << >> /\ lineNumber < Len(file)
      /\ lineNumber' = lineNumber + 1
      /\ IF parsed.ok THEN entities' = parsed.value /\ UNCHANGED status
                      ELSE status' = "error" /\ UNCHANGED entities
      /\ UNCHANGED <<file, module>>

NextIs(kind) == status = "reading" /\ entities # << >> /\ Head(entities).kind = kind

TakeLabel ==
  /\ NextIs("label")
  /\ pendingLabels' = Append(pendingLabels, Head(entities))
  /\ entities' = Tail(entities)
  /\ UNCHANGED <<position, lines, activeScopes, globalToLine, moduleName, dependencies, status>>

\* add_label: the scope a label goes to.
GoesToGlobal(label) == activeScopes = << >> \/ label.exported
IntoGlobal == {i \in DOMAIN pendingLabels : GoesToGlobal(pendingLabels[i])}
IntoScope == DOMAIN pendingLabels \ IntoGlobal

\* The labels of one scope all name the new line.
WithLabels(scope, indices) ==
  [name \in DOMAIN scope \cup {pendingLabels[i].name : i \in indices} |->
     IF name \in DOMAIN scope THEN scope[name] ELSE Len(lines) + 1]

\* No label is new twice, or known in its scope.
Fresh(scope, indices) ==
  /\ \A i \in indices : pendingLabels[i].name \notin DOMAIN scope
  /\ \A i, j \in indices : pendingLabels[i].name = pendingLabels[j].name => i = j

OpenNames == IF activeScopes = << >> THEN NoLabels ELSE lines[Last(activeScopes)].scopedLocals

LabelsFresh == Fresh(globalToLine, IntoGlobal) /\ Fresh(OpenNames, IntoScope)

\* What a statement does besides becoming a line may be an error.
StatementAllowed(statement) ==
  /\ statement.name = "module" => moduleName = ""
  /\ statement.name = "end" => activeScopes # << >>

\* The line a statement becomes, and the open scope with its new labels.  That a
\* label was exported is kept on its line to state the properties with; the code
\* keeps the names.
WithLine(statement) ==
  LET scoped == IF activeScopes = << >> THEN lines
                ELSE [lines EXCEPT ![Last(activeScopes)].scopedLocals = WithLabels(@, IntoScope)]
  IN  Append(scoped, [statement |-> statement,
                      labels |-> pendingLabels,
                      activeScopes |-> activeScopes, scopedLocals |-> NoLabels])

IsStatement == NextIs("instruction") \/ NextIs("directive")

TakeStatement_KeepsLabels ==   \* mutant: pending_labels is not cleared after a brace
  LET statement == Head(entities)
  IN  /\ IsStatement /\ LabelsFresh /\ StatementAllowed(statement)
      /\ lines' = WithLine(statement)
      /\ globalToLine' = WithLabels(globalToLine, IntoGlobal)
      /\ pendingLabels' = IF statement.name = "begin" THEN pendingLabels ELSE << >>
      /\ activeScopes' = CASE statement.name = "begin" -> Append(activeScopes, Len(lines) + 1)
                           [] statement.name = "end" -> Front(activeScopes)
                           [] OTHER -> activeScopes
      /\ moduleName' = IF statement.name = "module" THEN statement.list[1].id.name ELSE moduleName
      /\ entities' = Tail(entities)
      /\ UNCHANGED <<position, dependencies, status>>

\* A statement becomes a line with the labels that were waiting for it; its
\* own .begin or .end counts from the next line on.
TakeStatement ==
  LET statement == Head(entities)
  IN  /\ IsStatement /\ LabelsFresh /\ StatementAllowed(statement)
      /\ lines' = WithLine(statement)
      /\ globalToLine' = WithLabels(globalToLine, IntoGlobal)
      /\ pendingLabels' = << >>
      /\ activeScopes' = CASE statement.name = "begin" -> Append(activeScopes, Len(lines) + 1)
                           [] statement.name = "end" -> Front(activeScopes)
                           [] OTHER -> activeScopes
      /\ moduleName' = IF statement.name = "module" THEN statement.list[1].id.name ELSE moduleName
      /\ entities' = Tail(entities)
      /\ UNCHANGED <<position, dependencies, status>>

\* A label is defined twice, or the statement is out of place.
RefuseStatement ==
  /\ IsStatement
  /\ ~LabelsFresh \/ ~StatementAllowed(Head(entities))
  /\ status' = "error"
  /\ UNCHANGED <<position, entities, module>>

\* ExternalNamesReferenced of expression.h.
ExternalNamesReferenced(arg, local) == {Global(id) : id \in NamesOf(arg) \ local}

Borrowed_FromGlobal(line) ==   \* mutant: the scopes of the line are not searched
  ExternalNamesReferenced(line.statement.list[1],
    {id \in NamesOf(line.statement.list[1]) : IsLocal(id, << >>)})

\* What an .equ line borrows.
Borrowed(line) ==
  ExternalNamesReferenced(line.statement.list[1],
    {id \in NamesOf(line.statement.list[1]) : IsLocal(id, line.activeScopes)})

EndFile ==
  /\ status = "reading" /\ entities = << >> /\ lineNumber = Len(file)
  /\ IF activeScopes = << >>
       THEN /\ dependencies' = UNION {Borrowed(lines[i]) :
                                        i \in {j \in DOMAIN lines : lines[j].statement.name = "equ"}}
            /\ status' = "loaded"
       ELSE status' = "error" /\ UNCHANGED dependencies
  /\ UNCHANGED <<position, entities, lines, pendingLabels, activeScopes, globalToLine, moduleName>>

Finished == status \in {"loaded", "error"} /\ UNCHANGED vars

Next == ReadLine \/ TakeLabel \/ TakeStatement \/ RefuseStatement \/ EndFile \/ Finished

Spec == Init /\ [][Next]_vars

-----------------------------------------------------------------------------
(* Blocks by matching braces *)

IsLine(i, name) == lines[i].statement.name = name
Count(b, e, name) == Cardinality({i \in b .. e : IsLine(i, name)})

\* The end at line e closes the begin at line b.
Closes(b, e) ==
  /\ e > b /\ IsLine(e, "end")
  /\ Count(b, e, "begin") = Count(b, e, "end")
  /\ \A f \in b + 1 .. e - 1 : Count(b, f, "begin") > Count(b, f, "end")

Ends(b) == CHOOSE e \in DOMAIN lines : Closes(b, e)

BlocksAround(i) == {b \in 1 .. i - 1 : IsLine(b, "begin") /\ i <= Ends(b)}
InnermostBlock(i) == LET blocks == BlocksAround(i) IN IF blocks = {} THEN 0 ELSE Max(blocks)

\* Every label that has a line, by its place among the labels of that line,
\* with its block; 0 stands for the file.
Definition(i, j) ==
  [name |-> lines[i].labels[j].name, line |-> i, place |-> j,
   block |-> IF lines[i].labels[j].exported THEN 0 ELSE InnermostBlock(i)]

Definitions == UNION {{Definition(i, j) : j \in DOMAIN lines[i].labels} : i \in DOMAIN lines}

Visible(definitions, name, i) ==
  LET blocks == {0} \cup BlocksAround(i)
  IN  {d \in definitions : d.name = name /\ d.block \in blocks}

Innermost(definitions, name, i) ==
  LET visible == Visible(definitions, name, i)
  IN  {d \in visible : \A e \in visible : e.block <= d.block}

-----------------------------------------------------------------------------
(* Properties *)

\* A name means its definition in the innermost block around the line that
\* uses it, wherever in that block it stands, and no block defines a name
\* twice (add_label, the active_scopes of each line and LocalIndex against
\* blocks found by matching braces).
NamesResolveInnermost ==
  LET definitions == Definitions
  IN  status = "loaded" =>
        \A i \in DOMAIN lines, name \in {d.name : d \in definitions} :
          LET found == Innermost(definitions, name, i)
          IN  /\ Cardinality(found) <= 1
              /\ LocalIndex(name, lines[i].activeScopes) =
                   IF found = {} THEN 0 ELSE (CHOOSE d \in found : TRUE).line

\* The names a module waits for before its .equ lines are evaluated are
\* exactly those they use and it does not define for them
\* (ModuleIsLocalContext and ExternalNamesReferenced).
DependenciesAreUndefined ==
  LET definitions == Definitions
      Equations == {i \in DOMAIN lines : IsLine(i, "equ")}
      DefinedFor(id, i) ==
        IF id.module = NoModule THEN Visible(definitions, id.name, i) # {}
        ELSE id.module = moduleName /\ \E d \in definitions : d.name = id.name /\ d.block = 0
      Missing(i) == {id \in NamesOf(lines[i].statement.list[1]) : ~DefinedFor(id, i)}
  IN  status = "loaded" =>
        dependencies = {Global(id) : id \in UNION {Missing(i) : i \in Equations}}

=============================================================================
