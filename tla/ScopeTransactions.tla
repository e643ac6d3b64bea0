------------------------- MODULE ScopeTransactions --------------------------
(***************************************************************************)
(* The life of the scope graph while a translation unit is compiled: the   *)
(* loop over top-level items of src/src/frontend/translation_unit.c and    *)
(* what declaration resolution does to the graph in each of its phases.    *)
(*                                                                         *)
(* A function is parsed first (phase "body"), then its header and its body *)
(* are resolved inside a transaction that is committed or rolled back.  An *)
(* initializer at file scope is resolved in a transaction of its own.  The *)
(* global and the local registry each take a checkpoint of the graph at    *)
(* the same moment, and give them back together: one is modelled.          *)
(*                                                                         *)
(* A declaration that is diagnosed is an action that is not enabled; the   *)
(* transaction around it is rolled back.                                   *)
(***************************************************************************)
EXTENDS ScopeGraph

CONSTANTS
  Anonymous,        \* the generated names, which no source name equals
  MemberLists,      \* the member names of a record, in order
  MaxScopes,        \* bound: scopes of the translation unit
  MaxDeclarations,  \* bound: declarations of the translation unit
  MaxCaptured       \* bound: names looked up at one function's points

ASSUME NameAssumption ==
  /\ Anonymous \in Name
  /\ MemberLists \subseteq Seq(Name)

ASSUME BoundAssumption ==
  MaxScopes \in Nat /\ MaxDeclarations \in Nat /\ MaxCaptured \in Nat

VARIABLES
  graph,
  checkpoints,  \* the open transaction's checkpoint, if one is open
  phase,
  header,       \* old_style_declaration_start
  saved,        \* ghost: the graph at the checkpoint
  captured,     \* ghost: lookups made in the function being resolved
  at_file_scope \* ghost: names with linkage declared at file scope

vars == <<graph, checkpoints, phase, header, saved, captured, at_file_scope>>

Phase == {"toplevel", "initializer", "body", "header", "statements",
          "stopped"}

SourceName == Name \ {Anonymous}

Resolving == {"header", "statements"}

Init ==
  /\ graph = EmptyGraph
  /\ checkpoints = << >>
  /\ phase = "toplevel"
  /\ header = 0
  /\ saved = << >>
  /\ captured = {}
  /\ at_file_scope = {}

Fits(g) ==
  /\ Len(g.scopes) <= MaxScopes
  /\ Len(g.declarations) <= MaxDeclarations

(* Whole items and whole blocks: no prototype or block is open.            *)
AtItem ==
  phase = "toplevel" /\ graph.scopes[graph.current].kind # "FUNCTION_PROTOTYPE"

InFunctionScope == graph.scopes[graph.current].kind = "FUNCTION"

Step(g) ==
  /\ graph' = g
  /\ Fits(g)
  /\ UNCHANGED <<checkpoints, phase, header, saved>>

-----------------------------------------------------------------------------
(* Top-level items                                                         *)

ResetLocals(g) == EnterScope(LeaveAllScopes(g), "FUNCTION")

(* A header is parsed: the graph enters the function's scope at once.      *)
ParseFunction ==
  /\ AtItem
  /\ graph' = ResetLocals(graph)
  /\ Fits(graph')
  /\ phase' = "body"
  /\ captured' = {}
  /\ UNCHANGED <<checkpoints, header, saved, at_file_scope>>

(* The body has a syntax error: the locals are reset and the next item is  *)
(* read.                                                                   *)
RecoverFromSyntaxError ==
  /\ phase = "body"
  /\ graph' = ResetLocals(graph)
  /\ Fits(graph')
  /\ phase' = "toplevel"
  /\ UNCHANGED <<checkpoints, header, saved, captured, at_file_scope>>

Begin(next) ==
  /\ checkpoints' = <<Snapshot(graph)>>
  /\ saved' = <<graph>>
  /\ phase' = next

BeginFunction ==
  /\ phase = "body"
  /\ Begin("header")
  /\ header' = Len(graph.declarations)
  /\ UNCHANGED <<graph, captured, at_file_scope>>

BeginInitializer ==
  /\ AtItem
  /\ Begin("initializer")
  /\ UNCHANGED <<graph, header, captured, at_file_scope>>

Close ==
  /\ checkpoints' = << >>
  /\ saved' = << >>

CommitFunction ==
  /\ phase = "statements"
  /\ InFunctionScope
  /\ Close
  /\ graph' = LeaveAllScopes(graph)
  /\ phase' = "toplevel"
  /\ captured' = {}
  /\ UNCHANGED <<header, at_file_scope>>

CommitInitializer ==
  /\ phase = "initializer"
  /\ Close
  /\ phase' = "toplevel"
  /\ UNCHANGED <<graph, header, captured, at_file_scope>>

(* A function that cannot be resolved ends the stream; an initializer is   *)
(* diagnosed and the next item is read.                                    *)
Rollback ==
  /\ phase \in Resolving \cup {"initializer"}
  /\ Close
  /\ graph' = Restore(graph, checkpoints[1])
  /\ phase' = IF phase = "initializer" THEN "toplevel" ELSE "stopped"
  /\ captured' = {}
  /\ at_file_scope' =
       {n \in at_file_scope :
          \E d \in DOMAIN saved[1].declarations :
            /\ saved[1].declarations[d].name = n
            /\ saved[1].declarations[d].scope = TranslationUnit
            /\ saved[1].declarations[d].kind \in Linked
            /\ ~saved[1].declarations[d].hidden}
  /\ UNCHANGED header

(* The next stream of the session: the functions of the last one go.       *)
BeginStream ==
  /\ AtItem \/ phase = "stopped"
  /\ LET functions == {d \in DOMAIN graph.declarations :
                         graph.declarations[d].kind = "FUNCTION"}
     IN /\ graph' = Forget(LeaveAllScopes(graph), functions)
        /\ at_file_scope' = at_file_scope
             \ {graph.declarations[d].name : d \in functions}
  /\ phase' = "toplevel"
  /\ captured' = {}
  /\ UNCHANGED <<checkpoints, header, saved>>

-----------------------------------------------------------------------------
(* Declarations with linkage                                               *)

TopName(name) == LookupInScope(graph, TranslationUnit, "ORDINARY", name)

\* mutant: the backing declaration of a block stays hidden
X_FileScopeLinked(kind, name) ==
  IF TopName(name) = Invalid
  THEN DeclareAt(graph, TranslationUnit, "ORDINARY", kind, name)
  ELSE graph

(* An object or a function declared at file scope: the first declaration   *)
(* enters the name, a later one shows what a block had declared hidden.    *)
FileScopeLinked(kind, name) ==
  IF TopName(name) = Invalid
  THEN DeclareAt(graph, TranslationUnit, "ORDINARY", kind, name)
  ELSE SetHidden(graph, TopName(name), FALSE)

DeclareAtFileScope(kind, name) ==
  /\ AtItem
  /\ ~HasDifferentKind(graph, TranslationUnit, "ORDINARY", kind, name)
  /\ Step(FileScopeLinked(kind, name))
  /\ at_file_scope' = at_file_scope \cup {name}
  /\ captured' = {}

(* extern in a block: the backing declaration of the translation unit is   *)
(* made when there is none, hidden, and an alias of it enters the block.   *)
DeclareInBlock(kind, name) ==
  LET here     == LookupInScope(graph, graph.current, "ORDINARY", name)
      hereKind == IF graph.declarations[here].kind = "LINKAGE_ALIAS"
                  THEN graph.declarations[graph.declarations[here].alias].kind
                  ELSE graph.declarations[here].kind
      top      == TopName(name)
      new      == \/ top = Invalid
                  \/ graph.declarations[top].kind
                       \in {"TYPEDEF", "ENUM_CONSTANT"}
      made     == DeclareAt(graph, TranslationUnit, "ORDINARY", kind, name)
      backed   == IF new THEN SetHidden(made, LastDeclaration(made), TRUE)
                  ELSE graph
      backing  == IF new THEN LastDeclaration(made) ELSE top
  IN /\ phase = "statements"
     /\ here # Invalid => hereKind = kind
     /\ ~new => graph.declarations[top].kind = kind
     /\ MayAlias(backed, name, backing)
     /\ Step(DeclareLinkageAlias(backed, graph.current, name, backing))
     /\ UNCHANGED <<captured, at_file_scope>>

-----------------------------------------------------------------------------
(* Other declarations                                                      *)

(* Names of the current scope: a parameter or an automatic object, an      *)
(* enumerator, a typedef.                                                  *)
DeclareHere(kind, name) ==
  /\ phase \in Resolving \cup {"toplevel"}
  /\ kind = "OBJECT" => ~AtItem
  /\ LookupInScope(graph, graph.current, "ORDINARY", name) = Invalid
  /\ Step(Declare(graph, "ORDINARY", kind, name))
  /\ captured' = IF phase = "toplevel" THEN {} ELSE captured
  /\ UNCHANGED at_file_scope

(* static in a block: the storage is a synthetic object of the translation *)
(* unit with a generated name.  An anonymous record that is its type moves *)
(* to file scope.                                                          *)
DeclareStaticLocal(name, promoted) ==
  LET moved == Rehome(graph, promoted, TranslationUnit)
      made  == DeclareSyntheticAt(moved, TranslationUnit, "ORDINARY",
                                  "GLOBAL_OBJECT", Anonymous)
  IN /\ phase = "statements"
     /\ \A d \in promoted :
          /\ d > header
          /\ graph.declarations[d].kind = "TAG"
          /\ graph.declarations[d].name = Anonymous
          /\ graph.declarations[d].scope # TranslationUnit
     /\ LookupInScope(graph, graph.current, "ORDINARY", name) = Invalid
     /\ Step(Declare(made, "ORDINARY", "OBJECT", name))
     /\ UNCHANGED <<captured, at_file_scope>>

(* A compound literal at file scope, inside the initializer's transaction. *)
DeclareLiteral ==
  /\ phase = "initializer"
  /\ Step(DeclareSyntheticAt(graph, TranslationUnit, "ORDINARY",
                             "GLOBAL_OBJECT", Anonymous))
  /\ UNCHANGED <<captured, at_file_scope>>

(* A record with its members.  The members are entered under a checkpoint  *)
(* of their own, which a duplicate name rolls back.                        *)
RecordScope(g) == CreateScopeAt(g, g.current, "RECORD")

EnterMembers(g, s, names, count) ==
  LET base == g.scopes[Root(g, s)].order
  IN [g EXCEPT
        !.scopes[Root(g, s)].order = base + count,
        !.declarations =
          @ \o [i \in 1 .. count |->
                  [scope |-> s, space |-> "MEMBER", kind |-> "MEMBER",
                   name |-> names[i], order |-> base + i, alias |-> Invalid,
                   hidden |-> FALSE]]]

\* mutant: the members entered so far are not compared
X_Duplicate(g, s, names, i) ==
  LookupInScope(g, s, "MEMBER", names[i]) # Invalid

Duplicate(g, s, names, i) ==
  \/ LookupInScope(g, s, "MEMBER", names[i]) # Invalid
  \/ \E j \in 1 .. i - 1 : names[j] = names[i]

(* count members are entered before the first duplicate.                   *)
Accepted(g, s, names, count) ==
  /\ \A i \in 1 .. count : ~Duplicate(g, s, names, i)
  /\ count < Len(names) => Duplicate(g, s, names, count + 1)

RegisterMembers(g, s, names, count) ==
  LET entered == EnterMembers(g, s, names, count)
  IN IF count = Len(names) THEN entered ELSE Restore(entered, Snapshot(g))

DeclareTag(name, members) ==
  LET scoped == RecordScope(Declare(graph, "TAG", "TAG", name))
      s      == Len(scoped.scopes)
  IN /\ phase \in Resolving \cup {"toplevel"}
     /\ \/ name = Anonymous
        \/ LookupInScope(graph, graph.current, "TAG", name) = Invalid
     /\ \E count \in 0 .. Len(members) :
          /\ Accepted(scoped, s, members, count)
          /\ Step(RegisterMembers(scoped, s, members, count))
     /\ captured' = IF phase = "toplevel" THEN {} ELSE captured
     /\ UNCHANGED at_file_scope

(* The header is complete: the tags and enumerators of an old-style        *)
(* declaration list leave the function's scope, and the function itself is *)
(* declared.                                                               *)
FinishHeader(name, oldStyle) ==
  LET listed == {d \in header + 1 .. LastDeclaration(graph) :
                   /\ graph.declarations[d].scope = graph.current
                   /\ graph.declarations[d].kind \in {"TAG", "ENUM_CONSTANT"}}
      scoped == CreateScopeAt(graph, graph.current, "FUNCTION_PROTOTYPE")
      ready  == IF oldStyle THEN Rehome(scoped, listed, Len(scoped.scopes))
                ELSE graph
      top    == TopName(name)
  IN /\ phase = "header"
     /\ InFunctionScope
     /\ ~HasDifferentKind(graph, TranslationUnit, "ORDINARY", "FUNCTION", name)
     /\ graph' = IF top = Invalid
                 THEN DeclareAt(ready, TranslationUnit, "ORDINARY",
                                "FUNCTION", name)
                 ELSE SetHidden(ready, top, FALSE)
     /\ Fits(graph')
     /\ phase' = "statements"
     /\ at_file_scope' = at_file_scope \cup {name}
     /\ captured' = {}
     /\ UNCHANGED <<checkpoints, header, saved>>

(* Labels belong to the function, wherever they stand.                     *)
DeclareLabel(name) ==
  LET scope == NearestFunction(graph)
  IN /\ phase = "statements"
     /\ scope \in DOMAIN graph.scopes
     /\ LookupInScope(graph, scope, "LABEL", name) = Invalid
     /\ Step(DeclareSyntheticAt(graph, scope, "LABEL", "LABEL", name))
     /\ UNCHANGED <<captured, at_file_scope>>

EnterBlock(kind) ==
  /\ phase \in Resolving \cup {"toplevel"}
  /\ kind = "BLOCK" =>
       /\ phase = "statements"
       /\ graph.scopes[graph.current].kind \in {"FUNCTION", "BLOCK"}
  /\ Step(EnterScope(graph, kind))
  /\ UNCHANGED <<captured, at_file_scope>>

LeaveBlock ==
  /\ graph.scopes[graph.current].kind \in {"BLOCK", "FUNCTION_PROTOTYPE"}
  /\ Step(LeaveScope(graph))
  /\ UNCHANGED <<captured, at_file_scope>>

(* An identifier is looked up at its point.                                *)
LookUp(name) ==
  LET point == LookupPoint(graph)
  IN /\ phase \in Resolving
     /\ Cardinality(captured) < MaxCaptured
     /\ captured' = captured \cup
          {[name |-> name, point |-> point,
            answer |-> Lookup(graph, "ORDINARY", name, point)]}
     /\ UNCHANGED <<graph, checkpoints, phase, header, saved, at_file_scope>>

Next ==
  \/ ParseFunction \/ RecoverFromSyntaxError
  \/ BeginFunction \/ BeginInitializer
  \/ CommitFunction \/ CommitInitializer \/ Rollback \/ BeginStream
  \/ \E kind \in Linked, name \in SourceName :
       DeclareAtFileScope(kind, name) \/ DeclareInBlock(kind, name)
  \/ \E kind \in {"OBJECT", "TYPEDEF", "ENUM_CONSTANT"},
        name \in SourceName : DeclareHere(kind, name)
  \/ \E name \in SourceName,
        promoted \in SUBSET DOMAIN graph.declarations :
       Cardinality(promoted) <= 1 /\ DeclareStaticLocal(name, promoted)
  \/ DeclareLiteral
  \/ \E name \in Name, members \in MemberLists : DeclareTag(name, members)
  \/ \E name \in SourceName, oldStyle \in BOOLEAN :
       FinishHeader(name, oldStyle)
  \/ \E name \in SourceName : DeclareLabel(name) \/ LookUp(name)
  \/ \E kind \in {"BLOCK", "FUNCTION_PROTOTYPE"} : EnterBlock(kind)
  \/ LeaveBlock

Spec == Init /\ [][Next]_vars

-----------------------------------------------------------------------------
(* Properties                                                              *)

(* The graph, the checkpoint and the ghosts have their shapes.             *)
TypeOK ==
  /\ graph \in Graph
  /\ checkpoints \in Seq(Checkpoint)
  /\ phase \in Phase
  /\ header \in Nat
  /\ saved \in Seq(Graph)
  /\ at_file_scope \subseteq Name

(* The graph stays a tree of scopes in which every declaration has a live  *)
(* scope and an order its root has reached, and every alias an older       *)
(* target, through rollbacks and moves of declarations between scopes.     *)
WellFormed == ScopesNested(graph) /\ DeclarationsPlaced(graph)
                /\ AliasesOlder(graph)

(* psx_scope_graph_checkpoint_rollback: a function or an initializer that  *)
(* is given up leaves no trace in the graph, although the rollback only    *)
(* cuts the arrays and restores counters and marks.                        *)
RollbackRestores == [][Rollback => graph' = saved[1]]_vars

(* An identifier resolves the same however late its lookup point is used   *)
(* in the function: later declarations, hidden backing declarations and    *)
(* moved tags never change the answer.  A point inside a prototype is left *)
(* out: a prototype counts its own declarations, so its points see what    *)
(* the function declares later, and the resolver uses them at once.        *)
AnswersStand ==
  \A c \in captured :
    graph.scopes[c.point.scope].kind \in {"FUNCTION", "BLOCK"} =>
      Lookup(graph, "ORDINARY", c.name, c.point) = c.answer

(* Two visible declarations of one name in one scope and name space name   *)
(* the same entity: the duplicate checks of the registries see all that    *)
(* lookup sees.                                                            *)
OneMeaning ==
  LET Entity(d) == IF graph.declarations[d].kind = "LINKAGE_ALIAS"
                   THEN graph.declarations[d].alias ELSE d
  IN \A d, e \in DOMAIN graph.declarations :
       LET D == graph.declarations[d]
           E == graph.declarations[e]
       IN (/\ D.name = E.name /\ D.name \in SourceName
           /\ D.scope = E.scope /\ D.space = E.space
           /\ "UNKNOWN" \notin {D.kind, E.kind}
           /\ ~D.hidden /\ ~E.hidden)
          => Entity(d) = Entity(e)

(* A name with linkage is visible at file scope exactly when it was        *)
(* declared there, whatever blocks declared it extern before, after or in  *)
(* a function that was rolled back.                                        *)
FileScopeVisible ==
  \A n \in SourceName :
    n \in at_file_scope <=>
      \E d \in DOMAIN graph.declarations :
        /\ graph.declarations[d].scope = TranslationUnit
        /\ graph.declarations[d].name = n
        /\ graph.declarations[d].kind \in Linked
        /\ ~graph.declarations[d].hidden
=============================================================================
