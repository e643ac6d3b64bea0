----------------------------- MODULE ScopeGraph -----------------------------
(***************************************************************************)
(* The scope graph, src/src/semantic/scope_graph.c: the scopes of a        *)
(* translation unit, the declarations made in them, and the current scope. *)
(* Each operation of the file is an operator from a graph to a graph; the  *)
(* modules that EXTEND this one keep a graph in a variable.                *)
(*                                                                         *)
(* Identifiers are positions in the two arrays.  The code numbers scopes   *)
(* from 0 and declarations from 1; here both count from 1, and 0 is the    *)
(* invalid identifier of either.                                           *)
(*                                                                         *)
(* A scope that is an order root counts the declarations made below it up  *)
(* to the next root.  A lookup point is a scope with the count of its root *)
(* at that moment: lookup passes over what was declared later.             *)
(***************************************************************************)
EXTENDS Integers, Sequences, FiniteSets

CONSTANT Name       \* identifiers, members and labels

Invalid == 0
TranslationUnit == 1

ScopeKind == {"TRANSLATION_UNIT", "FUNCTION", "FUNCTION_PROTOTYPE", "BLOCK",
              "RECORD"}
OrderRoot == {"FUNCTION", "FUNCTION_PROTOTYPE", "RECORD"}

NameSpace == {"ORDINARY", "TAG", "LABEL", "MEMBER"}

DeclKind == {"UNKNOWN", "OBJECT", "GLOBAL_OBJECT", "FUNCTION",
             "LINKAGE_ALIAS", "TYPEDEF", "ENUM_CONSTANT", "TAG", "LABEL",
             "MEMBER"}

(* Declarations with linkage, the only targets of an alias.                *)
Linked == {"GLOBAL_OBJECT", "FUNCTION"}

Scope == [parent : Nat, root : Nat \ {0}, kind : ScopeKind, order : Nat]

Declaration ==
  [scope : Nat \ {0}, space : NameSpace, kind : DeclKind, name : Name,
   order : Nat, alias : Nat, hidden : BOOLEAN]

Graph ==
  [scopes : Seq(Scope), declarations : Seq(Declaration), current : Nat \ {0}]

Checkpoint ==
  [scope_count : Nat \ {0}, declaration_count : Nat, current : Nat \ {0},
   orders : Seq(Nat), hidden : Seq(BOOLEAN)]

-----------------------------------------------------------------------------
(* Scopes                                                                  *)

EmptyGraph ==
  [scopes |-> <<[parent |-> Invalid, root |-> TranslationUnit,
                 kind |-> "TRANSLATION_UNIT", order |-> 0]>>,
   declarations |-> << >>,
   current |-> TranslationUnit]

NextScope(g) == Len(g.scopes) + 1

Root(g, s) == g.scopes[s].root

CreateScopeAt(g, parent, kind) ==
  [g EXCEPT !.scopes =
     Append(@, [parent |-> parent,
                root   |-> IF kind \in OrderRoot THEN NextScope(g)
                                                 ELSE Root(g, parent),
                kind   |-> kind,
                order  |-> 0])]

EnterScope(g, kind) ==
  [CreateScopeAt(g, g.current, kind) EXCEPT !.current = NextScope(g)]

(* leave_scope refuses to leave the translation unit.                      *)
LeaveScope(g) ==
  IF g.current = TranslationUnit THEN g
  ELSE [g EXCEPT !.current = g.scopes[g.current].parent]

LeaveAllScopes(g) == [g EXCEPT !.current = TranslationUnit]

(* s and the scopes around it.  A scope is younger than its parent.        *)
Enclosing(g, s) ==
  LET chain[t \in 1 .. s] ==
        IF t = TranslationUnit THEN {t} ELSE {t} \cup chain[g.scopes[t].parent]
  IN chain[s]

Innermost(S) == CHOOSE s \in S : \A t \in S : t <= s

NearestFunction(g) ==
  Innermost({s \in Enclosing(g, g.current) : g.scopes[s].kind = "FUNCTION"})

LookupPoint(g) ==
  [scope |-> g.current, order |-> g.scopes[Root(g, g.current)].order]

-----------------------------------------------------------------------------
(* Declarations                                                            *)

\* mutant: the order is counted in the scope, not in its root
X_AppendDeclaration(g, s, space, kind, name, alias, step) ==
  LET order == g.scopes[s].order + step
  IN [g EXCEPT
        !.scopes[s].order = order,
        !.declarations =
          Append(@, [scope |-> s, space |-> space, kind |-> kind,
                     name |-> name, order |-> order, alias |-> alias,
                     hidden |-> FALSE])]

(* declare_at.  A synthetic declaration does not advance the order of its  *)
(* root: it stands at the order of the last one that did.                  *)
AppendDeclaration(g, s, space, kind, name, alias, step) ==
  LET order == g.scopes[Root(g, s)].order + step
  IN [g EXCEPT
        !.scopes[Root(g, s)].order = order,
        !.declarations =
          Append(@, [scope |-> s, space |-> space, kind |-> kind,
                     name |-> name, order |-> order, alias |-> alias,
                     hidden |-> FALSE])]

DeclareAt(g, s, space, kind, name) ==
  AppendDeclaration(g, s, space, kind, name, Invalid, 1)

Declare(g, space, kind, name) == DeclareAt(g, g.current, space, kind, name)

DeclareSyntheticAt(g, s, space, kind, name) ==
  AppendDeclaration(g, s, space, kind, name, Invalid, 0)

LastDeclaration(g) == Len(g.declarations)

(* An alias names a declaration of the translation unit with linkage.      *)
MayAlias(g, name, target) ==
  /\ target \in DOMAIN g.declarations
  /\ LET d == g.declarations[target]
     IN /\ d.scope = TranslationUnit
        /\ d.space = "ORDINARY"
        /\ d.kind \in Linked
        /\ d.name = name

DeclareLinkageAlias(g, s, name, target) ==
  AppendDeclaration(g, s, "ORDINARY", "LINKAGE_ALIAS", name, target, 1)

Forget(g, ids) ==
  [g EXCEPT !.declarations =
     [d \in DOMAIN @ |-> IF d \in ids
                         THEN [@[d] EXCEPT !.kind = "UNKNOWN",
                                           !.alias = Invalid]
                         ELSE @[d]]]

SetHidden(g, d, hidden) == [g EXCEPT !.declarations[d].hidden = hidden]

Rehome(g, ids, s) ==
  [g EXCEPT !.declarations =
     [d \in DOMAIN @ |-> IF d \in ids
                         THEN [@[d] EXCEPT
                                 !.scope = s,
                                 !.order = g.scopes[Root(g, s)].order]
                         ELSE @[d]]]

-----------------------------------------------------------------------------
(* Lookup                                                                  *)

Matches(g, d, space, name) ==
  /\ g.declarations[d].kind # "UNKNOWN"
  /\ g.declarations[d].space = space
  /\ g.declarations[d].name = name

\* mutant: one declaration too many is before the point
X_DeclaredBefore(g, d, space, point) ==
  LET s == g.declarations[d].scope
  IN \/ space = "LABEL"
     \/ Root(g, s) # Root(g, point.scope)
     \/ g.declarations[d].order <= point.order + 1

(* Within the order root of the point, only what was declared before it.   *)
DeclaredBefore(g, d, space, point) ==
  LET s == g.declarations[d].scope
  IN \/ space = "LABEL"
     \/ Root(g, s) # Root(g, point.scope)
     \/ g.declarations[d].order <= point.order

Targeted(g, d) ==
  g.declarations[d].kind = "LINKAGE_ALIAS"
    => g.declarations[g.declarations[d].alias].kind # "UNKNOWN"

Lookup(g, space, name, point) ==
  LET found == {d \in DOMAIN g.declarations :
                  /\ g.declarations[d].scope \in Enclosing(g, point.scope)
                  /\ ~g.declarations[d].hidden
                  /\ Matches(g, d, space, name)
                  /\ DeclaredBefore(g, d, space, point)
                  /\ Targeted(g, d)}
      scope == Innermost({g.declarations[d].scope : d \in found})
      last  == Innermost({d \in found : g.declarations[d].scope = scope})
  IN IF found = {} THEN Invalid
     ELSE IF g.declarations[last].kind = "LINKAGE_ALIAS"
          THEN g.declarations[last].alias
          ELSE last

InScope(g, s, space, name) ==
  {d \in DOMAIN g.declarations :
     g.declarations[d].scope = s /\ Matches(g, d, space, name)}

(* Hidden declarations and later ones are found as well.                   *)
LookupInScope(g, s, space, name) ==
  IF InScope(g, s, space, name) = {} THEN Invalid
  ELSE Innermost(InScope(g, s, space, name))

HasDifferentKind(g, s, space, kind, name) ==
  \E d \in InScope(g, s, space, name) : g.declarations[d].kind # kind

-----------------------------------------------------------------------------
(* Checkpoints                                                             *)

Snapshot(g) ==
  [scope_count       |-> Len(g.scopes),
   declaration_count |-> Len(g.declarations),
   current           |-> g.current,
   orders            |-> [s \in DOMAIN g.scopes |-> g.scopes[s].order],
   hidden            |-> [d \in DOMAIN g.declarations |->
                            g.declarations[d].hidden]]

\* mutant: the counters are not put back
X_Restore(g, checkpoint) ==
  [scopes |-> [s \in 1 .. checkpoint.scope_count |-> g.scopes[s]],
   declarations |->
     [d \in 1 .. checkpoint.declaration_count |->
        [g.declarations[d] EXCEPT !.hidden = checkpoint.hidden[d]]],
   current |-> checkpoint.current]

(* Later scopes and declarations go; of the older ones only the counters   *)
(* and the hidden marks are put back.                                      *)
Restore(g, checkpoint) ==
  [scopes |->
     [s \in 1 .. checkpoint.scope_count |->
        [g.scopes[s] EXCEPT !.order = checkpoint.orders[s]]],
   declarations |->
     [d \in 1 .. checkpoint.declaration_count |->
        [g.declarations[d] EXCEPT !.hidden = checkpoint.hidden[d]]],
   current |-> checkpoint.current]

-----------------------------------------------------------------------------
(* What every graph keeps, whatever the order of the operations.           *)

ScopesNested(g) ==
  /\ g.current \in DOMAIN g.scopes
  /\ g.scopes # << >>
  /\ g.scopes[TranslationUnit].root = TranslationUnit
  /\ \A s \in DOMAIN g.scopes :
       /\ g.scopes[s].root \in 1 .. s
       /\ s # TranslationUnit => g.scopes[s].parent \in 1 .. s - 1

DeclarationsPlaced(g) ==
  \A d \in DOMAIN g.declarations :
    /\ g.declarations[d].scope \in DOMAIN g.scopes
    /\ g.declarations[d].order
         <= g.scopes[Root(g, g.declarations[d].scope)].order

AliasesOlder(g) ==
  \A d \in DOMAIN g.declarations :
    g.declarations[d].kind = "LINKAGE_ALIAS" =>
      g.declarations[d].alias \in 1 .. d - 1
=============================================================================
