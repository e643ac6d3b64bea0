---------------------- MODULE ScopeTransactionsProofs -----------------------
(***************************************************************************)
(* What holds of the scope graph for every number of names, scopes and     *)
(* declarations and every order of operations.                             *)
(*                                                                         *)
(* The argument rests on one relation: Extends(g, o) says that g was made  *)
(* from o by adding scopes and declarations and by changing nothing older  *)
(* than counters and hidden marks.  Every operation but Forget extends its *)
(* graph, a move of declarations extends any graph that has none of them,  *)
(* and restoring the snapshot of o in a graph that extends o gives o back. *)
(*                                                                         *)
(* The lookups rest on a second one: Quiet(h, g) says that nothing h has   *)
(* beyond g is seen from a point in a function or a block of g.  Every     *)
(* step that keeps the captured answers is quiet, and every graph obeys    *)
(* the laws of DeclLaw and ScopeLaw, which say what may share a name.      *)
(*                                                                         *)
(* The names of NameResolution come last: one sequence q of places serves  *)
(* the parser, which writes it, and the resolver, which walks along it.    *)
(***************************************************************************)
EXTENDS ScopeTransactions, NameResolution, SequenceTheorems, FiniteSetTheorems,
  WellFoundedInduction, TLAPS

Good(g) ==
  /\ g \in Graph
  /\ ScopesNested(g)
  /\ DeclarationsPlaced(g)
  /\ AliasesOlder(g)

SameScope(s, t) == s.parent = t.parent /\ s.root = t.root /\ s.kind = t.kind

SameDeclaration(d, e) ==
  /\ d.scope = e.scope /\ d.space = e.space /\ d.kind = e.kind
  /\ d.name = e.name /\ d.order = e.order /\ d.alias = e.alias

Extends(g, o) ==
  /\ Len(o.scopes) <= Len(g.scopes)
  /\ Len(o.declarations) <= Len(g.declarations)
  /\ \A s \in 1 .. Len(o.scopes) : SameScope(g.scopes[s], o.scopes[s])
  /\ \A d \in 1 .. Len(o.declarations) :
       SameDeclaration(g.declarations[d], o.declarations[d])

----------------------------------------
(* Functions on an initial interval are sequences. *)

LEMMA FunctionIsSeq ==
  ASSUME NEW S, NEW n \in Nat, NEW f \in [1 .. n -> S]
  PROVE  f \in Seq(S) /\ Len(f) = n /\ DOMAIN f = 1 .. n
<1>1. f \in Seq(S)
  BY SeqDef
<1>2. Len(f) \in Nat /\ DOMAIN f = 1 .. Len(f) /\ DOMAIN f = 1 .. n
  BY <1>1, LenProperties
<1> QED BY <1>1, <1>2

LEMMA SameSeq ==
  ASSUME NEW S, NEW t \in Seq(S), NEW f \in [1 .. Len(t) -> S],
         \A i \in 1 .. Len(t) : f[i] = t[i]
  PROVE  f = t
<1>1. t \in [1 .. Len(t) -> S]
  BY LenProperties
<1> QED BY <1>1

----------------------------------------
(* The relation. *)

LEMMA ExtendsReflexive ==
  ASSUME NEW g \in Graph
  PROVE  Extends(g, g)
BY DEF Extends, SameScope, SameDeclaration, Graph

LEMMA ExtendsTransitive ==
  ASSUME NEW g \in Graph, NEW h \in Graph, NEW o \in Graph,
         Extends(h, g), Extends(g, o)
  PROVE  Extends(h, o)
BY DEF Extends, SameScope, SameDeclaration, Graph

LEMMA SnapshotType ==
  ASSUME NEW g, Good(g)
  PROVE  Snapshot(g) \in Checkpoint
<1>1. /\ Len(g.scopes) \in Nat \ {0}
      /\ Len(g.declarations) \in Nat
      /\ g.current \in Nat \ {0}
  BY DEF Good, Graph, ScopesNested
<1>2. [s \in DOMAIN g.scopes |-> g.scopes[s].order] \in Seq(Nat)
  <2> DEFINE f == [s \in DOMAIN g.scopes |-> g.scopes[s].order]
  <2>1. DOMAIN g.scopes = 1 .. Len(g.scopes)
    BY DEF Good, Graph
  <2>2. \A s \in DOMAIN g.scopes : g.scopes[s].order \in Nat
    <3>1. \A s \in DOMAIN g.scopes : g.scopes[s] \in Scope
      BY DEF Good, Graph
    <3>2. \A s \in Scope : s.order \in Nat
      BY DEF Scope
    <3> QED BY <3>1, <3>2
  <2>3. f \in [1 .. Len(g.scopes) -> Nat]
    BY <2>1, <2>2
  <2> QED BY <1>1, <2>3, FunctionIsSeq
<1>3. [d \in DOMAIN g.declarations |-> g.declarations[d].hidden]
        \in Seq(BOOLEAN)
  <2> DEFINE f == [d \in DOMAIN g.declarations |-> g.declarations[d].hidden]
  <2>1. DOMAIN g.declarations = 1 .. Len(g.declarations)
    BY DEF Good, Graph
  <2>2. \A d \in DOMAIN g.declarations : g.declarations[d].hidden \in BOOLEAN
    <3>1. \A d \in DOMAIN g.declarations : g.declarations[d] \in Declaration
      BY DEF Good, Graph
    <3>2. \A d \in Declaration : d.hidden \in BOOLEAN
      BY Zenon DEF Declaration
    <3> QED BY <3>1, <3>2
  <2>3. f \in [1 .. Len(g.declarations) -> BOOLEAN]
    BY <2>1, <2>2
  <2> QED BY <1>1, <2>3, FunctionIsSeq
<1> QED BY <1>1, <1>2, <1>3 DEF Snapshot, Checkpoint

(* A rollback to the snapshot of o gives o back. *)
LEMMA RestoreExact ==
  ASSUME NEW g \in Graph, NEW o \in Graph, Extends(g, o)
  PROVE  Restore(g, Snapshot(o)) = o
<1> DEFINE k == Snapshot(o)
<1>1. /\ k.scope_count = Len(o.scopes)
      /\ k.declaration_count = Len(o.declarations)
      /\ k.current = o.current
      /\ \A s \in 1 .. Len(o.scopes) : k.orders[s] = o.scopes[s].order
      /\ \A d \in 1 .. Len(o.declarations) :
           k.hidden[d] = o.declarations[d].hidden
  BY DEF Snapshot, Graph
<1> HIDE DEF k
<1>2. ASSUME NEW s \in 1 .. Len(o.scopes)
      PROVE  [g.scopes[s] EXCEPT !.order = k.orders[s]] = o.scopes[s]
  <2>1. g.scopes[s] \in Scope /\ o.scopes[s] \in Scope
    BY DEF Extends, Graph
  <2>2. SameScope(g.scopes[s], o.scopes[s])
    BY DEF Extends
  <2> QED BY <1>1, <2>1, <2>2 DEF Scope, SameScope
<1>3. ASSUME NEW d \in 1 .. Len(o.declarations)
      PROVE  [g.declarations[d] EXCEPT !.hidden = k.hidden[d]]
               = o.declarations[d]
  <2>1. g.declarations[d] \in Declaration /\ o.declarations[d] \in Declaration
    BY DEF Extends, Graph
  <2>2. SameDeclaration(g.declarations[d], o.declarations[d])
    BY DEF Extends
  <2> QED BY <1>1, <2>1, <2>2 DEF Declaration, SameDeclaration
<1>4. [s \in 1 .. k.scope_count |->
         [g.scopes[s] EXCEPT !.order = k.orders[s]]] = o.scopes
  <2> DEFINE f == [s \in 1 .. k.scope_count |->
                     [g.scopes[s] EXCEPT !.order = k.orders[s]]]
  <2>1. o.scopes \in Seq(Scope)
    BY DEF Graph
  <2>2. \A s \in 1 .. Len(o.scopes) : o.scopes[s] \in Scope
    BY <2>1
  <2>3. \A s \in 1 .. Len(o.scopes) : f[s] = o.scopes[s]
    BY <1>1, <1>2
  <2>4. f \in [1 .. Len(o.scopes) -> Scope]
    BY <1>1, <2>2, <1>2
  <2> HIDE DEF f
  <2>5. f = o.scopes
    BY <2>1, <2>3, <2>4, SameSeq
  <2> QED BY <2>5 DEF f
<1>5. [d \in 1 .. k.declaration_count |->
         [g.declarations[d] EXCEPT !.hidden = k.hidden[d]]] = o.declarations
  <2> DEFINE f == [d \in 1 .. k.declaration_count |->
                     [g.declarations[d] EXCEPT !.hidden = k.hidden[d]]]
  <2>1. o.declarations \in Seq(Declaration)
    BY DEF Graph
  <2>2. \A d \in 1 .. Len(o.declarations) : o.declarations[d] \in Declaration
    BY <2>1
  <2>3. \A d \in 1 .. Len(o.declarations) : f[d] = o.declarations[d]
    BY <1>1, <1>3
  <2>4. f \in [1 .. Len(o.declarations) -> Declaration]
    BY <1>1, <2>2, <1>3
  <2> HIDE DEF f
  <2>5. f = o.declarations
    BY <2>1, <2>3, <2>4, SameSeq
  <2> QED BY <2>5 DEF f
<1>6. o = [scopes |-> o.scopes, declarations |-> o.declarations,
           current |-> o.current]
  BY DEF Graph
<1> QED BY <1>1, <1>4, <1>5, <1>6 DEF Restore, k

----------------------------------------
(* Scopes. *)

LEMMA GraphParts ==
  ASSUME NEW g, Good(g)
  PROVE  /\ g.scopes \in Seq(Scope) /\ g.declarations \in Seq(Declaration)
         /\ Len(g.scopes) \in Nat \ {0} /\ Len(g.declarations) \in Nat
         /\ g \in Graph /\ DOMAIN g.scopes = 1 .. Len(g.scopes)
         /\ DOMAIN g.declarations = 1 .. Len(g.declarations)
         /\ g.current \in 1 .. Len(g.scopes) /\ g.current \in Nat \ {0}
         /\ 1 \in 1 .. Len(g.scopes)
         /\ g = [scopes |-> g.scopes, declarations |-> g.declarations,
                 current |-> g.current]
BY DEF Good, Graph, ScopesNested

(* What an EXCEPT of a graph leaves alone. *)
LEMMA ExceptParts ==
  ASSUME NEW g \in Graph, NEW x
  PROVE  /\ [g EXCEPT !.scopes = x]
              = [scopes |-> x, declarations |-> g.declarations,
                 current |-> g.current]
         /\ [g EXCEPT !.declarations = x]
              = [scopes |-> g.scopes, declarations |-> x,
                 current |-> g.current]
         /\ [g EXCEPT !.current = x]
              = [scopes |-> g.scopes, declarations |-> g.declarations,
                 current |-> x]
BY DEF Graph

LEMMA ScopeParts ==
  ASSUME NEW g, Good(g), NEW s \in 1 .. Len(g.scopes)
  PROVE  /\ g.scopes[s] \in Scope
         /\ g.scopes[s].parent \in Nat /\ g.scopes[s].kind \in ScopeKind
         /\ g.scopes[s].order \in Nat
         /\ g.scopes[s].root \in 1 .. s /\ Root(g, s) \in 1 .. Len(g.scopes)
         /\ s # 1 => g.scopes[s].parent \in 1 .. s - 1
<1>1. g.scopes[s] \in Scope
  BY DEF Good, Graph
<1>2. /\ g.scopes[s].parent \in Nat /\ g.scopes[s].kind \in ScopeKind
      /\ g.scopes[s].order \in Nat
  BY <1>1 DEF Scope
<1>3. DOMAIN g.scopes = 1 .. Len(g.scopes) /\ Len(g.scopes) \in Nat
  BY GraphParts
<1>4. /\ g.scopes[s].root \in 1 .. s
      /\ s # 1 => g.scopes[s].parent \in 1 .. s - 1
  BY <1>3 DEF Good, ScopesNested, TranslationUnit
<1> QED BY <1>1, <1>2, <1>3, <1>4 DEF Root

LEMMA DeclarationParts ==
  ASSUME NEW g, Good(g), NEW d \in 1 .. Len(g.declarations)
  PROVE  /\ g.declarations[d] \in Declaration
         /\ g.declarations[d].scope \in 1 .. Len(g.scopes)
         /\ g.declarations[d].order \in Nat
         /\ g.declarations[d].order
              <= g.scopes[Root(g, g.declarations[d].scope)].order
         /\ g.declarations[d].kind = "LINKAGE_ALIAS" =>
              g.declarations[d].alias \in 1 .. d - 1
<1>1. g.declarations[d] \in Declaration
  BY DEF Good, Graph
<1>2. g.declarations[d].order \in Nat
  BY <1>1 DEF Declaration
<1>3. d \in DOMAIN g.declarations /\ DOMAIN g.scopes = 1 .. Len(g.scopes)
  BY GraphParts
<1> QED BY <1>1, <1>2, <1>3 DEF Good, DeclarationsPlaced, AliasesOlder

(* A new scope. *)
LEMMA CreateScopeGood ==
  ASSUME NEW g, Good(g), NEW p \in 1 .. Len(g.scopes), NEW k \in ScopeKind
  PROVE  /\ Good(CreateScopeAt(g, p, k))
         /\ Extends(CreateScopeAt(g, p, k), g)
         /\ Len(CreateScopeAt(g, p, k).scopes) = NextScope(g)
         /\ CreateScopeAt(g, p, k).declarations = g.declarations
         /\ CreateScopeAt(g, p, k).current = g.current
<1> DEFINE new == [parent |-> p,
                   root   |-> IF k \in OrderRoot THEN NextScope(g)
                                                 ELSE Root(g, p),
                   kind   |-> k,
                   order  |-> 0]
           h == CreateScopeAt(g, p, k)
<1>1. /\ h.scopes = Append(g.scopes, new)
      /\ h.declarations = g.declarations
      /\ h.current = g.current
      /\ h = [scopes |-> h.scopes, declarations |-> h.declarations,
              current |-> h.current]
  <2>1. h = [g EXCEPT !.scopes = Append(g.scopes, new)]
    BY DEF CreateScopeAt
  <2>2. g \in Graph
    BY GraphParts
  <2> HIDE DEF h, new
  <2>3. h = [scopes |-> Append(g.scopes, new),
             declarations |-> g.declarations, current |-> g.current]
    BY <2>1, <2>2, ExceptParts
  <2> QED BY <2>3
<1>2. new \in Scope /\ new.root \in 1 .. NextScope(g) /\ new.parent = p
  <2>1. Root(g, p) \in 1 .. Len(g.scopes) /\ Len(g.scopes) \in Nat \ {0}
    BY ScopeParts, GraphParts
  <2> DEFINE r == IF k \in OrderRoot THEN NextScope(g) ELSE Root(g, p)
  <2>2. r \in 1 .. NextScope(g) /\ p \in Nat
    BY <2>1 DEF NextScope
  <2>3. r \in Nat \ {0}
    BY <2>1, <2>2 DEF NextScope
  <2> HIDE DEF r
  <2>4. /\ [parent |-> p, root |-> r, kind |-> k, order |-> 0] \in Scope
        /\ [parent |-> p, root |-> r, kind |-> k, order |-> 0].root = r
        /\ [parent |-> p, root |-> r, kind |-> k, order |-> 0].parent = p
    BY <2>2, <2>3 DEF Scope
  <2> QED BY <2>2, <2>4 DEF r
<1> HIDE DEF h, new
<1>3. /\ h.scopes \in Seq(Scope)
      /\ Len(h.scopes) = Len(g.scopes) + 1
      /\ \A s \in 1 .. Len(g.scopes) : h.scopes[s] = g.scopes[s]
      /\ h.scopes[Len(g.scopes) + 1] = new
  BY <1>1, <1>2, GraphParts
<1>4. h \in Graph
  BY <1>1, <1>3, GraphParts DEF Graph
<1>5. ScopesNested(h)
  <2>1. h.current \in DOMAIN h.scopes /\ h.scopes # << >>
    BY <1>1, <1>3, GraphParts
  <2>2. h.scopes[1].root = 1
    BY <1>3, GraphParts DEF Good, ScopesNested, TranslationUnit
  <2>3. ASSUME NEW s \in DOMAIN h.scopes
        PROVE  /\ h.scopes[s].root \in 1 .. s
               /\ s # 1 => h.scopes[s].parent \in 1 .. s - 1
    <3>1. CASE s \in 1 .. Len(g.scopes)
      BY <3>1, <1>3, ScopeParts
    <3>2. CASE s = Len(g.scopes) + 1
      BY <3>2, <1>2, <1>3, GraphParts DEF NextScope
    <3> QED BY <3>1, <3>2, <1>3, GraphParts
  <2> QED BY <2>1, <2>2, <2>3 DEF ScopesNested, TranslationUnit
<1>6. DeclarationsPlaced(h)
  <2> SUFFICES ASSUME NEW d \in DOMAIN h.declarations
               PROVE  /\ h.declarations[d].scope \in DOMAIN h.scopes
                      /\ h.declarations[d].order
                           <= h.scopes[Root(h, h.declarations[d].scope)].order
    BY DEF DeclarationsPlaced
  <2>1. d \in 1 .. Len(g.declarations)
    BY <1>1, GraphParts
  <2>2. Root(g, g.declarations[d].scope) \in 1 .. Len(g.scopes)
    BY <2>1, DeclarationParts, ScopeParts
  <2>3. Root(h, g.declarations[d].scope) = Root(g, g.declarations[d].scope)
    BY <2>1, <1>3, DeclarationParts DEF Root
  <2> QED BY <1>1, <1>3, <2>1, <2>2, <2>3, DeclarationParts, GraphParts
<1>7. AliasesOlder(h)
  BY <1>1 DEF Good, AliasesOlder
<1>8. Extends(h, g)
  BY <1>1, <1>3, GraphParts DEF Extends, SameScope, SameDeclaration
<1> QED BY <1>1, <1>3, <1>4, <1>5, <1>6, <1>7, <1>8 DEF Good, NextScope, h

(* Another current scope. *)
LEMMA MoveGood ==
  ASSUME NEW g, Good(g), NEW s \in 1 .. Len(g.scopes)
  PROVE  /\ Good([g EXCEPT !.current = s])
         /\ Extends([g EXCEPT !.current = s], g)
<1> DEFINE h == [g EXCEPT !.current = s]
<1>1. /\ h.scopes = g.scopes
      /\ h.declarations = g.declarations
      /\ h.current = s
      /\ h = [scopes |-> h.scopes, declarations |-> h.declarations,
              current |-> h.current]
  BY GraphParts
<1> HIDE DEF h
<1>2. h \in Graph
  BY <1>1, GraphParts DEF Graph
<1>3. ScopesNested(h)
  BY <1>1, GraphParts DEF Good, ScopesNested
<1>4. DeclarationsPlaced(h)
  BY <1>1 DEF Good, DeclarationsPlaced, Root
<1>5. AliasesOlder(h)
  BY <1>1 DEF Good, AliasesOlder
<1>6. Extends(h, g)
  BY <1>1, GraphParts DEF Extends, SameScope, SameDeclaration
<1> QED BY <1>2, <1>3, <1>4, <1>5, <1>6 DEF Good, h

LEMMA EnterScopeGood ==
  ASSUME NEW g, Good(g), NEW k \in ScopeKind
  PROVE  Good(EnterScope(g, k)) /\ Extends(EnterScope(g, k), g)
<1> DEFINE h == CreateScopeAt(g, g.current, k)
<1>1. Good(h) /\ Extends(h, g) /\ Len(h.scopes) = NextScope(g)
  BY GraphParts, CreateScopeGood
<1>2. NextScope(g) \in 1 .. Len(h.scopes)
  BY <1>1, GraphParts DEF NextScope
<1> HIDE DEF h
<1>3. /\ Good([h EXCEPT !.current = NextScope(g)])
      /\ Extends([h EXCEPT !.current = NextScope(g)], h)
  BY <1>1, <1>2, MoveGood
<1> QED BY <1>1, <1>3, ExtendsTransitive DEF EnterScope, h, Good

LEMMA LeaveScopeGood ==
  ASSUME NEW g, Good(g)
  PROVE  Good(LeaveScope(g)) /\ Extends(LeaveScope(g), g)
<1>1. CASE g.current = TranslationUnit
  BY <1>1, ExtendsReflexive DEF LeaveScope, Good
<1>2. CASE g.current # TranslationUnit
  <2>1. g.scopes[g.current].parent \in 1 .. Len(g.scopes)
    BY <1>2, GraphParts, ScopeParts DEF TranslationUnit
  <2> QED BY <1>2, <2>1, MoveGood DEF LeaveScope
<1> QED BY <1>1, <1>2

LEMMA LeaveAllScopesGood ==
  ASSUME NEW g, Good(g)
  PROVE  Good(LeaveAllScopes(g)) /\ Extends(LeaveAllScopes(g), g)
BY GraphParts, MoveGood DEF LeaveAllScopes, TranslationUnit

LEMMA ResetLocalsGood ==
  ASSUME NEW g, Good(g)
  PROVE  Good(ResetLocals(g)) /\ Extends(ResetLocals(g), g)
<1>1. Good(LeaveAllScopes(g)) /\ Extends(LeaveAllScopes(g), g)
  BY LeaveAllScopesGood
<1>2. /\ Good(EnterScope(LeaveAllScopes(g), "FUNCTION"))
      /\ Extends(EnterScope(LeaveAllScopes(g), "FUNCTION"),
                 LeaveAllScopes(g))
  BY <1>1, EnterScopeGood DEF ScopeKind
<1> QED BY <1>1, <1>2, ExtendsTransitive DEF ResetLocals, Good

----------------------------------------
(* Declarations. *)

(* The counter of a root only rises. *)
RaiseOrder(g, r, n) == [g EXCEPT !.scopes[r].order = n]

LEMMA RaiseOrderGood ==
  ASSUME NEW g, Good(g), NEW r \in 1 .. Len(g.scopes), NEW n \in Nat,
         g.scopes[r].order <= n
  PROVE  /\ Good(RaiseOrder(g, r, n)) /\ Extends(RaiseOrder(g, r, n), g)
         /\ Len(RaiseOrder(g, r, n).scopes) = Len(g.scopes)
         /\ RaiseOrder(g, r, n).scopes[r].order = n
         /\ RaiseOrder(g, r, n).declarations = g.declarations
         /\ RaiseOrder(g, r, n).current = g.current
         /\ \A s \in 1 .. Len(g.scopes) :
              Root(RaiseOrder(g, r, n), s) = Root(g, s)
<1> DEFINE t == [g.scopes[r] EXCEPT !.order = n]
           u == [g.scopes EXCEPT ![r] = t]
           h == RaiseOrder(g, r, n)
<1>1. h = [scopes |-> u, declarations |-> g.declarations,
           current |-> g.current]
  <2>1. g \in Graph
    BY GraphParts
  <2>2. h = [g EXCEPT !.scopes = u]
    BY DEF RaiseOrder
  <2> HIDE DEF h, u
  <2> QED BY <2>1, <2>2, ExceptParts
<1>2. t \in Scope /\ SameScope(t, g.scopes[r]) /\ t.order = n
  <2>1. g.scopes[r] \in Scope
    BY ScopeParts
  <2> QED BY <2>1 DEF Scope, SameScope
<1> HIDE DEF t
<1>3. /\ u \in Seq(Scope) /\ Len(u) = Len(g.scopes)
      /\ u[r] = t
      /\ \A s \in 1 .. Len(g.scopes) : s # r => u[s] = g.scopes[s]
  BY <1>2, GraphParts
<1> HIDE DEF u, h
<1>4. /\ h.scopes = u /\ h.declarations = g.declarations
      /\ h.current = g.current
  BY <1>1
<1>5. \A s \in 1 .. Len(g.scopes) :
        SameScope(h.scopes[s], g.scopes[s]) /\ Root(h, s) = Root(g, s)
  BY <1>2, <1>3, <1>4 DEF SameScope, Root
<1>6. ASSUME NEW s \in 1 .. Len(g.scopes)
      PROVE  g.scopes[s].order <= h.scopes[s].order
  <2>1. CASE s = r
    BY <1>2, <1>3, <1>4, <2>1
  <2>2. CASE s # r
    <3>1. h.scopes[s] = g.scopes[s] /\ g.scopes[s].order \in Nat
      BY <1>3, <1>4, <2>2, ScopeParts
    <3> QED BY <3>1
  <2> QED BY <2>1, <2>2
<1>7. h \in Graph
  BY <1>1, <1>3, GraphParts DEF Graph
<1>8. ScopesNested(h)
  <2>1. h.current \in DOMAIN h.scopes /\ h.scopes # << >>
    BY <1>3, <1>4, GraphParts
  <2>2. h.scopes[1].root = 1
    BY <1>5, GraphParts DEF Good, ScopesNested, TranslationUnit, SameScope
  <2>3. ASSUME NEW s \in DOMAIN h.scopes
        PROVE  /\ h.scopes[s].root \in 1 .. s
               /\ s # 1 => h.scopes[s].parent \in 1 .. s - 1
    <3>1. s \in 1 .. Len(g.scopes)
      BY <1>3, <1>4, GraphParts
    <3>2. SameScope(h.scopes[s], g.scopes[s])
      BY <1>5, <3>1
    <3> QED BY <3>1, <3>2, ScopeParts DEF SameScope
  <2> QED BY <2>1, <2>2, <2>3 DEF ScopesNested, TranslationUnit
<1>9. DeclarationsPlaced(h)
  <2> SUFFICES ASSUME NEW d \in 1 .. Len(g.declarations)
               PROVE  /\ h.declarations[d].scope \in DOMAIN h.scopes
                      /\ h.declarations[d].order
                           <= h.scopes[Root(h, h.declarations[d].scope)].order
    BY <1>4, GraphParts DEF DeclarationsPlaced
  <2> DEFINE s == g.declarations[d].scope
             root == Root(g, s)
  <2>1. s \in 1 .. Len(g.scopes) /\ root \in 1 .. Len(g.scopes)
    BY DeclarationParts, ScopeParts
  <2>2. g.declarations[d].order <= g.scopes[root].order
    BY DeclarationParts
  <2>3. /\ g.declarations[d].order \in Nat /\ g.scopes[root].order \in Nat
        /\ h.scopes[root].order \in Nat
    BY <1>2, <1>3, <1>4, <2>1, DeclarationParts, ScopeParts
  <2>4. Root(h, s) = root
    BY <1>5, <2>1
  <2>5. DOMAIN h.scopes = 1 .. Len(g.scopes) /\ h.declarations[d].scope = s
    BY <1>3, <1>4, GraphParts
  <2> HIDE DEF root, s
  <2> QED BY <1>4, <1>6, <2>1, <2>2, <2>3, <2>4, <2>5, SMTT(30)
<1>10. AliasesOlder(h)
  BY <1>4 DEF Good, AliasesOlder
<1>11. Extends(h, g)
  BY <1>3, <1>4, <1>5, GraphParts DEF Extends, SameDeclaration
<1> QED BY <1>2, <1>3, <1>4, <1>5, <1>7, <1>8, <1>9, <1>10, <1>11
        DEF Good, h, u, t

(* What is declared stands in a scope of the graph. *)
Fresh(g, new) ==
  \A i \in 1 .. Len(new) :
    /\ new[i].scope \in 1 .. Len(g.scopes)
    /\ new[i].order <= g.scopes[Root(g, new[i].scope)].order
    /\ new[i].kind = "LINKAGE_ALIAS" =>
         new[i].alias \in 1 .. Len(g.declarations)

LEMMA AddDeclarationsGood ==
  ASSUME NEW g, Good(g), NEW new \in Seq(Declaration), Fresh(g, new)
  PROVE  /\ Good([g EXCEPT !.declarations = g.declarations \o new])
         /\ Extends([g EXCEPT !.declarations = g.declarations \o new], g)
         /\ Len([g EXCEPT !.declarations = g.declarations \o new].declarations)
              = Len(g.declarations) + Len(new)
<1> DEFINE u == g.declarations \o new
           h == [g EXCEPT !.declarations = u]
<1>1. /\ u \in Seq(Declaration)
      /\ Len(u) = Len(g.declarations) + Len(new)
      /\ \A d \in 1 .. Len(g.declarations) : u[d] = g.declarations[d]
      /\ \A d \in Len(g.declarations) + 1 .. Len(u) :
           u[d] = new[d - Len(g.declarations)]
      /\ DOMAIN u = 1 .. Len(u) /\ Len(new) \in Nat
  BY GraphParts
<1> HIDE DEF u
<1>2. h = [scopes |-> g.scopes, declarations |-> u, current |-> g.current]
  BY GraphParts, ExceptParts
<1> HIDE DEF h
<1>3. h.scopes = g.scopes /\ h.declarations = u /\ h.current = g.current
  BY <1>2
<1>4. h \in Graph
  BY <1>1, <1>2, GraphParts DEF Graph
<1>5. ScopesNested(h)
  BY <1>3 DEF Good, ScopesNested
<1>6. DeclarationsPlaced(h)
  <2> SUFFICES ASSUME NEW d \in 1 .. Len(u)
               PROVE  /\ u[d].scope \in 1 .. Len(g.scopes)
                      /\ u[d].order <= g.scopes[Root(g, u[d].scope)].order
    BY <1>1, <1>3, GraphParts DEF DeclarationsPlaced, Root
  <2>1. CASE d \in 1 .. Len(g.declarations)
    BY <1>1, <2>1, DeclarationParts
  <2>2. CASE d \in Len(g.declarations) + 1 .. Len(u)
    <3>1. d - Len(g.declarations) \in 1 .. Len(new)
      BY <1>1, <2>2, GraphParts
    <3> QED BY <1>1, <2>2, <3>1 DEF Fresh
  <2> QED BY <1>1, <2>1, <2>2, GraphParts
<1>7. AliasesOlder(h)
  <2> SUFFICES ASSUME NEW d \in 1 .. Len(u), u[d].kind = "LINKAGE_ALIAS"
               PROVE  u[d].alias \in 1 .. d - 1
    BY <1>1, <1>3 DEF AliasesOlder
  <2>1. CASE d \in 1 .. Len(g.declarations)
    BY <1>1, <2>1, DeclarationParts
  <2>2. CASE d \in Len(g.declarations) + 1 .. Len(u)
    <3>1. d - Len(g.declarations) \in 1 .. Len(new)
      BY <1>1, <2>2, GraphParts
    <3>2. u[d].alias \in 1 .. Len(g.declarations)
      BY <1>1, <2>2, <3>1 DEF Fresh
    <3> QED BY <1>1, <2>2, <3>2, GraphParts
  <2> QED BY <1>1, <2>1, <2>2, GraphParts
<1>8. Extends(h, g)
  BY <1>1, <1>3, GraphParts DEF Extends, SameScope, SameDeclaration
<1> QED BY <1>1, <1>3, <1>4, <1>5, <1>6, <1>7, <1>8 DEF Good, h, u

LEMMA AppendDeclarationGood ==
  ASSUME NEW g, Good(g), NEW s \in 1 .. Len(g.scopes),
         NEW space \in NameSpace, NEW kind \in DeclKind, NEW name \in Name,
         NEW alias \in Nat, NEW step \in {0, 1},
         kind = "LINKAGE_ALIAS" => alias \in 1 .. Len(g.declarations)
  PROVE  LET h == AppendDeclaration(g, s, space, kind, name, alias, step)
         IN /\ Good(h) /\ Extends(h, g)
            /\ Len(h.declarations) = Len(g.declarations) + 1
            /\ Len(h.scopes) = Len(g.scopes)
            /\ h.current = g.current
<1> DEFINE r     == Root(g, s)
           order == g.scopes[r].order + step
           new   == [scope |-> s, space |-> space, kind |-> kind,
                     name |-> name, order |-> order, alias |-> alias,
                     hidden |-> FALSE]
           k     == RaiseOrder(g, r, order)
           h     == AppendDeclaration(g, s, space, kind, name, alias, step)
<1>1. /\ r \in 1 .. Len(g.scopes) /\ order \in Nat
      /\ g.scopes[r].order <= order
  BY ScopeParts
<1>2. /\ Good(k) /\ Extends(k, g) /\ Len(k.scopes) = Len(g.scopes)
      /\ k.scopes[r].order = order /\ k.declarations = g.declarations
      /\ k.current = g.current /\ Root(k, s) = r
  <2> HIDE DEF order, r
  <2>1. Root(k, s) = Root(g, s)
    BY <1>1, RaiseOrderGood
  <2>2. /\ Good(k) /\ Extends(k, g) /\ Len(k.scopes) = Len(g.scopes)
        /\ k.scopes[r].order = order /\ k.declarations = g.declarations
        /\ k.current = g.current
    BY <1>1, RaiseOrderGood
  <2> QED BY <2>1, <2>2 DEF r
<1>3. /\ <<new>> \in Seq(Declaration) /\ Len(<<new>>) = 1
      /\ <<new>>[1] = new /\ new.scope = s /\ new.order = order
      /\ new.kind = kind /\ new.alias = alias
  <2>1. new \in Declaration
    <3> HIDE DEF order
    <3>1. s \in Nat \ {0}
      BY GraphParts
    <3> QED BY <1>1, <3>1 DEF Declaration
  <2> QED BY <2>1
<1>4. h = [k EXCEPT !.declarations = Append(g.declarations, new)]
  <2> DEFINE x == Append(g.declarations, new)
  <2>1. h = [g EXCEPT !.scopes[r].order = order, !.declarations = x]
    BY Zenon DEF AppendDeclaration
  <2>2. g \in Graph
    BY GraphParts
  <2> HIDE DEF h, x, new, order, r
  <2>3. [g EXCEPT !.scopes[r].order = order, !.declarations = x]
          = [RaiseOrder(g, r, order) EXCEPT !.declarations = x]
    BY <2>2 DEF Graph, RaiseOrder
  <2> QED BY <2>1, <2>3, Zenon DEF x
<1> HIDE DEF h, k, new, order, r
<1>5. Append(g.declarations, new) = k.declarations \o <<new>>
  <2>1. g.declarations \in Seq(Declaration) /\ new \in Declaration
    BY <1>3, GraphParts
  <2> QED BY <1>2, <2>1
<1>6. Fresh(k, <<new>>)
  BY <1>1, <1>2, <1>3 DEF Fresh
<1>7. /\ Good(h) /\ Extends(h, k)
      /\ Len(h.declarations) = Len(k.declarations) + 1
  BY <1>2, <1>3, <1>4, <1>5, <1>6, AddDeclarationsGood
<1>8. h.scopes = k.scopes /\ h.current = k.current
  BY <1>2, <1>4, ExceptParts DEF Good
<1>9. Extends(h, g)
  BY <1>2, <1>7, ExtendsTransitive DEF Good
<1> QED BY <1>2, <1>7, <1>8, <1>9 DEF h

LEMMA SetHiddenGood ==
  ASSUME NEW g, Good(g), NEW d \in 1 .. Len(g.declarations),
         NEW v \in BOOLEAN
  PROVE  /\ Good(SetHidden(g, d, v)) /\ Extends(SetHidden(g, d, v), g)
         /\ Len(SetHidden(g, d, v).declarations) = Len(g.declarations)
         /\ SetHidden(g, d, v).scopes = g.scopes
         /\ SetHidden(g, d, v).current = g.current
         /\ \A e \in 1 .. Len(g.declarations) :
              SameDeclaration(SetHidden(g, d, v).declarations[e],
                              g.declarations[e])
<1> DEFINE t == [g.declarations[d] EXCEPT !.hidden = v]
           u == [g.declarations EXCEPT ![d] = t]
           h == SetHidden(g, d, v)
<1>1. h = [scopes |-> g.scopes, declarations |-> u, current |-> g.current]
  <2>1. g \in Graph
    BY GraphParts
  <2>2. h = [g EXCEPT !.declarations = u]
    BY DEF SetHidden
  <2> HIDE DEF h, u
  <2> QED BY <2>1, <2>2, ExceptParts
<1>2. t \in Declaration /\ SameDeclaration(t, g.declarations[d])
  <2>1. g.declarations[d] \in Declaration
    BY DeclarationParts
  <2> QED BY <2>1 DEF Declaration, SameDeclaration
<1> HIDE DEF t
<1>3. /\ u \in Seq(Declaration) /\ Len(u) = Len(g.declarations)
      /\ DOMAIN u = 1 .. Len(g.declarations)
      /\ \A e \in 1 .. Len(g.declarations) :
           SameDeclaration(u[e], g.declarations[e])
  <2>1. /\ u \in Seq(Declaration) /\ Len(u) = Len(g.declarations)
        /\ DOMAIN u = 1 .. Len(g.declarations)
        /\ u[d] = t
        /\ \A e \in 1 .. Len(g.declarations) :
             e # d => u[e] = g.declarations[e]
    BY <1>2, GraphParts
  <2>2. \A e \in 1 .. Len(g.declarations) :
          SameDeclaration(u[e], g.declarations[e])
    BY <1>2, <2>1 DEF SameDeclaration
  <2> QED BY <2>1, <2>2
<1> HIDE DEF u, h
<1>4. h.scopes = g.scopes /\ h.declarations = u /\ h.current = g.current
  BY <1>1
<1>5. h \in Graph
  BY <1>1, <1>3, GraphParts DEF Graph
<1>6. ScopesNested(h)
  BY <1>4 DEF Good, ScopesNested
<1>7. DeclarationsPlaced(h)
  <2> SUFFICES ASSUME NEW e \in 1 .. Len(g.declarations)
               PROVE  /\ u[e].scope \in 1 .. Len(g.scopes)
                      /\ u[e].order <= g.scopes[Root(g, u[e].scope)].order
    BY <1>3, <1>4, GraphParts DEF DeclarationsPlaced, Root
  <2>1. SameDeclaration(u[e], g.declarations[e])
    BY <1>3
  <2> QED BY <2>1, DeclarationParts DEF SameDeclaration
<1>8. AliasesOlder(h)
  <2> SUFFICES ASSUME NEW e \in 1 .. Len(g.declarations),
                      u[e].kind = "LINKAGE_ALIAS"
               PROVE  u[e].alias \in 1 .. e - 1
    BY <1>3, <1>4 DEF AliasesOlder
  <2>1. SameDeclaration(u[e], g.declarations[e])
    BY <1>3
  <2> QED BY <2>1, DeclarationParts DEF SameDeclaration
<1>9. Extends(h, g)
  BY <1>3, <1>4, GraphParts DEF Extends, SameScope
<1> QED BY <1>3, <1>4, <1>5, <1>6, <1>7, <1>8, <1>9 DEF Good, h

(* The members of a record, counted from the order of their root. *)
LEMMA EnterMembersGood ==
  ASSUME NEW g, Good(g), NEW s \in 1 .. Len(g.scopes),
         NEW names \in Seq(Name), NEW count \in 0 .. Len(names)
  PROVE  /\ Good(EnterMembers(g, s, names, count))
         /\ Extends(EnterMembers(g, s, names, count), g)
<1> DEFINE r    == Root(g, s)
           base == g.scopes[r].order
           member(i) ==
             [scope |-> s, space |-> "MEMBER", kind |-> "MEMBER",
              name |-> names[i], order |-> base + i, alias |-> Invalid,
              hidden |-> FALSE]
           new  == [i \in 1 .. count |-> member(i)]
           k    == RaiseOrder(g, r, base + count)
           h    == EnterMembers(g, s, names, count)
<1>1. /\ r \in 1 .. Len(g.scopes) /\ base \in Nat /\ count \in Nat
      /\ base + count \in Nat /\ base <= base + count /\ s \in Nat \ {0}
  BY ScopeParts, GraphParts
<1>2. /\ Good(k) /\ Extends(k, g) /\ Len(k.scopes) = Len(g.scopes)
      /\ k.scopes[r].order = base + count
      /\ k.declarations = g.declarations /\ Root(k, s) = r
  <2> DEFINE n == base + count
  <2> HIDE DEF r
  <2>1. n \in Nat /\ g.scopes[r].order <= n
    BY <1>1
  <2> HIDE DEF n
  <2>2. Root(RaiseOrder(g, r, n), s) = Root(g, s)
    BY <1>1, <2>1, RaiseOrderGood
  <2>3. LET q == RaiseOrder(g, r, n)
        IN /\ Good(q) /\ Extends(q, g) /\ Len(q.scopes) = Len(g.scopes)
           /\ q.scopes[r].order = n /\ q.declarations = g.declarations
    BY <1>1, <2>1, RaiseOrderGood
  <2> QED BY <2>2, <2>3 DEF r, n
<1>3. /\ new \in Seq(Declaration) /\ Len(new) = count
      /\ \A i \in 1 .. count :
           /\ new[i].scope = s /\ new[i].order = base + i
           /\ new[i].kind = "MEMBER"
  <2> HIDE DEF base
  <2>1. ASSUME NEW i \in 1 .. count
        PROVE  member(i) \in Declaration
    <3>1. names[i] \in Name
      BY <1>1
    <3>2. base + i \in Nat
      BY <1>1
    <3> QED BY <1>1, <3>1, <3>2
            DEF Declaration, NameSpace, DeclKind, Invalid
  <2>2. new \in [1 .. count -> Declaration]
    BY <2>1
  <2>3. \A i \in 1 .. count : new[i] = member(i)
    OBVIOUS
  <2>4. \A i \in 1 .. count :
           /\ member(i).scope = s /\ member(i).order = base + i
           /\ member(i).kind = "MEMBER"
    OBVIOUS
  <2> HIDE DEF new, member
  <2>5. new \in Seq(Declaration) /\ Len(new) = count
    BY <1>1, <2>2, FunctionIsSeq
  <2> QED BY <2>3, <2>4, <2>5
<1>4. h = [k EXCEPT !.declarations = k.declarations \o new]
  <2> DEFINE x == g.declarations \o new
             n == base + count
  <2>1. h = [g EXCEPT !.scopes[r].order = n, !.declarations = x]
    BY Zenon DEF EnterMembers
  <2>2. g \in Graph
    BY GraphParts
  <2> HIDE DEF h, x, new, n, r
  <2>3. [g EXCEPT !.scopes[r].order = n, !.declarations = x]
          = [RaiseOrder(g, r, n) EXCEPT !.declarations = x]
    BY <2>2 DEF Graph, RaiseOrder
  <2>4. k = RaiseOrder(g, r, n)
    BY DEF n
  <2> HIDE DEF k
  <2> QED BY <1>2, <2>1, <2>3, <2>4, Zenon DEF x
<1> HIDE DEF h, k, new, base, r
<1>5. Fresh(k, new)
  <2> SUFFICES ASSUME NEW i \in 1 .. count
               PROVE  /\ new[i].scope \in 1 .. Len(k.scopes)
                      /\ new[i].order <= k.scopes[Root(k, new[i].scope)].order
                      /\ new[i].kind # "LINKAGE_ALIAS"
    BY <1>3 DEF Fresh
  <2> QED BY SMTT(30), <1>1, <1>2, <1>3
<1>6. Good(h) /\ Extends(h, k)
  BY <1>2, <1>3, <1>4, <1>5, AddDeclarationsGood
<1> QED BY <1>2, <1>6, ExtendsTransitive DEF Good, h

(* Forgotten declarations stay in place. *)
LEMMA ForgetGood ==
  ASSUME NEW g, Good(g), NEW ids
  PROVE  Good(Forget(g, ids))
<1> DEFINE f(d) == IF d \in ids
                   THEN [g.declarations[d] EXCEPT !.kind = "UNKNOWN",
                                                  !.alias = Invalid]
                   ELSE g.declarations[d]
           u == [d \in DOMAIN g.declarations |-> f(d)]
           h == Forget(g, ids)
<1>1. h = [scopes |-> g.scopes, declarations |-> u, current |-> g.current]
  <2>1. g \in Graph
    BY GraphParts
  <2>2. h = [g EXCEPT !.declarations = u]
    BY Zenon DEF Forget
  <2> HIDE DEF h, u
  <2> QED BY <2>1, <2>2, ExceptParts
<1>2. ASSUME NEW d \in 1 .. Len(g.declarations)
      PROVE  /\ f(d) \in Declaration
             /\ f(d).scope = g.declarations[d].scope
             /\ f(d).order = g.declarations[d].order
             /\ f(d).kind = "LINKAGE_ALIAS" =>
                  /\ g.declarations[d].kind = "LINKAGE_ALIAS"
                  /\ f(d).alias = g.declarations[d].alias
  <2>1. g.declarations[d] \in Declaration
    BY DeclarationParts
  <2> QED BY <2>1 DEF Declaration, DeclKind, Invalid
<1>3. DOMAIN g.declarations = 1 .. Len(g.declarations)
  BY GraphParts
<1>4. \A d \in 1 .. Len(g.declarations) : u[d] = f(d)
  BY <1>3
<1>5. u \in [1 .. Len(g.declarations) -> Declaration]
  BY <1>2, <1>3
<1> HIDE DEF u, h, f
<1>6. /\ u \in Seq(Declaration) /\ Len(u) = Len(g.declarations)
      /\ DOMAIN u = 1 .. Len(g.declarations)
  BY <1>5, GraphParts, FunctionIsSeq
<1>7. h.scopes = g.scopes /\ h.declarations = u /\ h.current = g.current
  BY <1>1
<1>8. h \in Graph
  BY <1>1, <1>6, GraphParts DEF Graph
<1>9. ScopesNested(h)
  BY <1>7 DEF Good, ScopesNested
<1>10. DeclarationsPlaced(h)
  <2> SUFFICES ASSUME NEW d \in 1 .. Len(g.declarations)
               PROVE  /\ u[d].scope \in 1 .. Len(g.scopes)
                      /\ u[d].order <= g.scopes[Root(g, u[d].scope)].order
    BY <1>6, <1>7, GraphParts DEF DeclarationsPlaced, Root
  <2> QED BY <1>2, <1>4, DeclarationParts
<1>11. AliasesOlder(h)
  <2> SUFFICES ASSUME NEW d \in 1 .. Len(g.declarations),
                      u[d].kind = "LINKAGE_ALIAS"
               PROVE  u[d].alias \in 1 .. d - 1
    BY <1>6, <1>7 DEF AliasesOlder
  <2> QED BY <1>2, <1>4, DeclarationParts
<1> QED BY <1>8, <1>9, <1>10, <1>11 DEF Good, h

(* What is moved arrives at the order its new root has reached. *)
LEMMA RehomeGood ==
  ASSUME NEW g, Good(g), NEW ids, NEW s \in 1 .. Len(g.scopes)
  PROVE  /\ Good(Rehome(g, ids, s))
         /\ Rehome(g, ids, s).scopes = g.scopes
         /\ Rehome(g, ids, s).current = g.current
         /\ Len(Rehome(g, ids, s).declarations) = Len(g.declarations)
         /\ \A d \in 1 .. Len(g.declarations) :
              d \notin ids => Rehome(g, ids, s).declarations[d]
                                = g.declarations[d]
<1> DEFINE order == g.scopes[Root(g, s)].order
           f(d) == IF d \in ids
                   THEN [g.declarations[d] EXCEPT !.scope = s,
                                                  !.order = order]
                   ELSE g.declarations[d]
           u == [d \in DOMAIN g.declarations |-> f(d)]
           h == Rehome(g, ids, s)
<1>1. h = [scopes |-> g.scopes, declarations |-> u, current |-> g.current]
  <2>1. g \in Graph
    BY GraphParts
  <2>2. h = [g EXCEPT !.declarations = u]
    BY Zenon DEF Rehome
  <2> HIDE DEF h, u
  <2> QED BY <2>1, <2>2, ExceptParts
<1>2. order \in Nat /\ s \in Nat \ {0}
  BY ScopeParts, GraphParts
<1>3. ASSUME NEW d \in 1 .. Len(g.declarations)
      PROVE  /\ f(d) \in Declaration
             /\ \/ f(d).scope = s /\ f(d).order = order
                \/ /\ f(d).scope = g.declarations[d].scope
                   /\ f(d).order = g.declarations[d].order
             /\ f(d).kind = g.declarations[d].kind
             /\ f(d).alias = g.declarations[d].alias
             /\ d \notin ids => f(d) = g.declarations[d]
  <2>1. g.declarations[d] \in Declaration
    BY DeclarationParts
  <2> HIDE DEF order
  <2> QED BY <1>2, <2>1 DEF Declaration
<1>4. DOMAIN g.declarations = 1 .. Len(g.declarations)
  BY GraphParts
<1>5. \A d \in 1 .. Len(g.declarations) : u[d] = f(d)
  BY <1>4
<1>6. u \in [1 .. Len(g.declarations) -> Declaration]
  BY <1>3, <1>4
<1> HIDE DEF u, h, f
<1>7. /\ u \in Seq(Declaration) /\ Len(u) = Len(g.declarations)
      /\ DOMAIN u = 1 .. Len(g.declarations)
  BY <1>6, GraphParts, FunctionIsSeq
<1>8. h.scopes = g.scopes /\ h.declarations = u /\ h.current = g.current
  BY <1>1
<1>9. h \in Graph
  BY <1>1, <1>7, GraphParts DEF Graph
<1>10. ScopesNested(h)
  BY <1>8 DEF Good, ScopesNested
<1>11. DeclarationsPlaced(h)
  <2> SUFFICES ASSUME NEW d \in 1 .. Len(g.declarations)
               PROVE  /\ u[d].scope \in 1 .. Len(g.scopes)
                      /\ u[d].order <= g.scopes[Root(g, u[d].scope)].order
    BY <1>7, <1>8, GraphParts DEF DeclarationsPlaced, Root
  <2>1. CASE f(d).scope = s /\ f(d).order = order
    BY <1>2, <1>5, <2>1
  <2>2. CASE /\ f(d).scope = g.declarations[d].scope
             /\ f(d).order = g.declarations[d].order
    BY <1>5, <2>2, DeclarationParts
  <2> QED BY <1>3, <2>1, <2>2
<1>12. AliasesOlder(h)
  <2> SUFFICES ASSUME NEW d \in 1 .. Len(g.declarations),
                      u[d].kind = "LINKAGE_ALIAS"
               PROVE  u[d].alias \in 1 .. d - 1
    BY <1>7, <1>8 DEF AliasesOlder
  <2> QED BY SMTT(30), <1>3, <1>5, DeclarationParts
<1> QED BY <1>3, <1>5, <1>7, <1>8, <1>9, <1>10, <1>11, <1>12 DEF Good, h

(* A move leaves alone every graph that has nothing of what is moved. *)
LEMMA RehomeExtends ==
  ASSUME NEW g, Good(g), NEW o \in Graph, Extends(g, o),
         NEW ids, NEW s \in 1 .. Len(g.scopes),
         \A d \in 1 .. Len(o.declarations) : d \notin ids
  PROVE  Extends(Rehome(g, ids, s), o)
<1>1. \A d \in 1 .. Len(o.declarations) : d \in 1 .. Len(g.declarations)
  BY GraphParts DEF Extends, Graph
<1> QED BY <1>1, RehomeGood DEF Extends

----------------------------------------
(* A nonempty set of identifiers has a largest member. *)

LEMMA InnermostIn ==
  ASSUME NEW n \in Nat, NEW T, T \subseteq 1 .. n, T # {}
  PROVE  Innermost(T) \in T /\ \A t \in T : t <= Innermost(T)
<1> DEFINE U == {n - t : t \in T}
           R == OpToRel(<, Nat)
<1>1. U \subseteq Nat /\ U # {}
  <2>1. \A t \in T : n - t \in Nat
    OBVIOUS
  <2>2. PICK t \in T : TRUE
    OBVIOUS
  <2>3. n - t \in U
    OBVIOUS
  <2> QED BY <2>1, <2>3
<1>2. IsWellFoundedOn(R, Nat)
  BY NatLessThanWellFounded
<1>3. \A x, y \in Nat : x < y => <<x, y>> \in R
  BY DEF OpToRel
<1> HIDE DEF R
<1>4. PICK x \in U : \A y \in U : <<y, x>> \notin R
  <2> HIDE DEF U
  <2> QED BY <1>1, <1>2, WFMin, Zenon
<1>5. PICK s \in T : x = n - s
  OBVIOUS
<1>6. ASSUME NEW t \in T
      PROVE  t <= s
  <2>1. n - t \in U /\ n - t \in Nat /\ n - s \in Nat /\ x \in Nat
    BY <1>1
  <2>2. ~(n - t < n - s)
    BY <1>3, <1>4, <1>5, <2>1
  <2> QED BY <2>1, <2>2
<1> QED BY <1>5, <1>6 DEF Innermost

LEMMA LookupInScopeIn ==
  ASSUME NEW g, Good(g), NEW s, NEW space, NEW name,
         LookupInScope(g, s, space, name) # Invalid
  PROVE  LookupInScope(g, s, space, name) \in 1 .. Len(g.declarations)
<1>1. InScope(g, s, space, name) \subseteq 1 .. Len(g.declarations)
  BY GraphParts DEF InScope
<1>2. InScope(g, s, space, name) # {}
  BY DEF LookupInScope
<1>3. Innermost(InScope(g, s, space, name)) \in InScope(g, s, space, name)
  BY <1>1, <1>2, InnermostIn, GraphParts
<1> QED BY <1>1, <1>2, <1>3 DEF LookupInScope

----------------------------------------
(* The operations of declaration resolution. *)

LEMMA FileScopeLinkedGood ==
  ASSUME NEW g, Good(g), NEW kind \in DeclKind, kind # "LINKAGE_ALIAS",
         NEW name \in Name, NEW top,
         top = LookupInScope(g, TranslationUnit, "ORDINARY", name)
  PROVE  LET h == IF top = Invalid
                  THEN DeclareAt(g, TranslationUnit, "ORDINARY", kind, name)
                  ELSE SetHidden(g, top, FALSE)
         IN Good(h) /\ Extends(h, g)
<1>1. CASE top = Invalid
  <2>1. LET h == AppendDeclaration(g, 1, "ORDINARY", kind, name, 0, 1)
        IN Good(h) /\ Extends(h, g)
    BY AppendDeclarationGood, GraphParts DEF NameSpace
  <2> QED BY <1>1, <2>1 DEF DeclareAt, TranslationUnit, Invalid
<1>2. CASE top # Invalid
  <2>1. top \in 1 .. Len(g.declarations)
    BY <1>2, LookupInScopeIn
  <2>2. Good(SetHidden(g, top, FALSE)) /\ Extends(SetHidden(g, top, FALSE), g)
    BY <2>1, SetHiddenGood
  <2> QED BY <1>2, <2>2
<1> QED BY <1>1, <1>2

(* The duplicate that ends a record rolls back to the graph before it. *)
LEMMA RegisterMembersGood ==
  ASSUME NEW g, Good(g), NEW s \in 1 .. Len(g.scopes),
         NEW names \in Seq(Name), NEW count \in 0 .. Len(names)
  PROVE  /\ Good(RegisterMembers(g, s, names, count))
         /\ Extends(RegisterMembers(g, s, names, count), g)
<1> DEFINE k == EnterMembers(g, s, names, count)
<1>1. Good(k) /\ Extends(k, g)
  BY EnterMembersGood
<1>2. Restore(k, Snapshot(g)) = g
  BY <1>1, RestoreExact DEF Good
<1>3. Extends(g, g)
  BY ExtendsReflexive DEF Good
<1> HIDE DEF k
<1> QED BY <1>1, <1>2, <1>3 DEF RegisterMembers, k

(* A declaration in a scope of the graph. *)
LEMMA DeclareGood ==
  ASSUME NEW g, Good(g), NEW s \in 1 .. Len(g.scopes),
         NEW space \in NameSpace, NEW kind \in DeclKind, NEW name \in Name,
         kind # "LINKAGE_ALIAS"
  PROVE  /\ LET h == DeclareAt(g, s, space, kind, name)
            IN /\ Good(h) /\ Extends(h, g) /\ Len(h.scopes) = Len(g.scopes)
               /\ LastDeclaration(h) = LastDeclaration(g) + 1
               /\ h.current = g.current
         /\ LET h == DeclareSyntheticAt(g, s, space, kind, name)
            IN /\ Good(h) /\ Extends(h, g) /\ Len(h.scopes) = Len(g.scopes)
               /\ h.current = g.current
<1>1. LET h == AppendDeclaration(g, s, space, kind, name, 0, 1)
      IN /\ Good(h) /\ Extends(h, g) /\ Len(h.scopes) = Len(g.scopes)
         /\ Len(h.declarations) = Len(g.declarations) + 1
         /\ h.current = g.current
  BY AppendDeclarationGood
<1>2. LET h == AppendDeclaration(g, s, space, kind, name, 0, 0)
      IN /\ Good(h) /\ Extends(h, g) /\ Len(h.scopes) = Len(g.scopes)
         /\ h.current = g.current
  BY AppendDeclarationGood
<1> QED BY <1>1, <1>2 DEF DeclareAt, DeclareSyntheticAt, LastDeclaration,
                          Invalid

----------------------------------------
(* The inductive invariant: an open transaction has the snapshot of a      *)
(* graph that the present one extends.                                     *)

InTransaction == phase \in Resolving \cup {"initializer"}

TransactionInv ==
  /\ ~InTransaction => checkpoints = << >> /\ saved = << >>
  /\ InTransaction =>
       LET o == saved[1]
       IN /\ saved = <<o>> /\ checkpoints = <<Snapshot(o)>>
          /\ Good(o) /\ Extends(graph, o)
          /\ phase \in Resolving => header = Len(o.declarations)

IInv == TypeOK /\ Good(graph) /\ TransactionInv

LEMMA EmptyGood ==
  /\ Good(EmptyGraph) /\ EmptyGraph.declarations = << >> /\ DOMAIN EmptyGraph.declarations = {}
  /\ Len(EmptyGraph.declarations) = 0 /\ Len(EmptyGraph.scopes) = 1 /\ EmptyGraph.current = 1
<1> DEFINE t == [parent |-> Invalid, root |-> TranslationUnit,
                 kind |-> "TRANSLATION_UNIT", order |-> 0]
<1>2. t \in Scope /\ t.root = 1
  BY DEF Scope, Invalid, TranslationUnit, ScopeKind
<1>3. EmptyGraph = [scopes |-> <<t>>, declarations |-> << >>, current |-> 1]
  BY DEF EmptyGraph, TranslationUnit
<1> HIDE DEF t
<1>4. /\ <<t>> \in Seq(Scope) /\ Len(<<t>>) = 1 /\ <<t>>[1] = t
      /\ DOMAIN <<t>> = 1 .. 1
      /\ << >> \in Seq(Declaration) /\ DOMAIN << >> = {}
  BY <1>2
<1>5. /\ EmptyGraph.scopes = <<t>> /\ EmptyGraph.declarations = << >>
      /\ EmptyGraph.current = 1
  BY <1>3
<1>6. EmptyGraph \in Graph
  BY <1>3, <1>4 DEF Graph
<1>7. ScopesNested(EmptyGraph)
  BY <1>2, <1>4, <1>5 DEF ScopesNested, TranslationUnit
<1>8. DeclarationsPlaced(EmptyGraph) /\ AliasesOlder(EmptyGraph)
  BY <1>4, <1>5 DEF DeclarationsPlaced, AliasesOlder
<1> QED BY <1>4, <1>5, <1>6, <1>7, <1>8 DEF Good

LEMMA InitIInv == Init => IInv
<1> SUFFICES ASSUME Init
             PROVE  IInv
  OBVIOUS
<1>1. /\ graph = EmptyGraph /\ checkpoints = << >> /\ phase = "toplevel"
      /\ header = 0 /\ saved = << >> /\ at_file_scope = {}
  BY DEF Init
<1>2. Good(graph) /\ graph \in Graph
  BY <1>1, EmptyGood DEF Good
<1>3. TypeOK
  BY <1>1, <1>2 DEF TypeOK, Phase
<1>4. TransactionInv
  BY <1>1 DEF TransactionInv, InTransaction, Resolving
<1> QED BY <1>2, <1>3, <1>4 DEF IInv

(* A step that extends the graph and leaves the transaction open. *)
LEMMA ExtendingStep ==
  ASSUME IInv, Good(graph'), Extends(graph', graph), phase' = phase,
         UNCHANGED <<checkpoints, header, saved>>,
         at_file_scope' \subseteq Name
  PROVE  IInv'
<1>1. TypeOK'
  BY DEF IInv, TypeOK, Good
<1>2. CASE InTransaction
  <2> DEFINE o == saved[1]
  <2>1. /\ saved = <<o>> /\ checkpoints = <<Snapshot(o)>> /\ Good(o)
        /\ Extends(graph, o)
        /\ phase \in Resolving => header = Len(o.declarations)
    BY <1>2 DEF IInv, TransactionInv
  <2>2. Extends(graph', o)
    BY <2>1, ExtendsTransitive DEF Good, IInv
  <2>3. saved' = saved /\ checkpoints' = checkpoints /\ header' = header
    OBVIOUS
  <2>4. InTransaction'
    BY <1>2 DEF InTransaction
  <2> QED BY <1>1, <2>1, <2>2, <2>3, <2>4 DEF IInv, TransactionInv
<1>3. CASE ~InTransaction
  BY <1>1, <1>3 DEF IInv, TransactionInv, InTransaction
<1> QED BY <1>2, <1>3

(* A step outside every transaction, and one that closes the transaction. *)
LEMMA ClosedStep ==
  ASSUME IInv, Good(graph'), phase' \in {"toplevel", "body", "stopped"},
         checkpoints' = << >>, saved' = << >>, header' = header,
         at_file_scope' \subseteq Name
  PROVE  IInv'
BY DEF IInv, TypeOK, Good, Phase, TransactionInv, InTransaction, Resolving

----------------------------------------
(* The actions. *)

LEMMA TopLevelStep ==
  ASSUME IInv,
         \/ ParseFunction \/ RecoverFromSyntaxError
         \/ CommitFunction \/ CommitInitializer \/ BeginStream
  PROVE  IInv'
<1> USE DEF IInv
<1>1. CASE ParseFunction
  <2>1. Good(graph')
    BY <1>1, ResetLocalsGood DEF ParseFunction
  <2>2. checkpoints' = << >> /\ saved' = << >>
    BY <1>1 DEF ParseFunction, AtItem, TransactionInv, InTransaction,
                Resolving
  <2> QED BY <1>1, <2>1, <2>2, ClosedStep DEF ParseFunction, TypeOK
<1>2. CASE RecoverFromSyntaxError
  <2>1. Good(graph')
    BY <1>2, ResetLocalsGood DEF RecoverFromSyntaxError
  <2>2. checkpoints' = << >> /\ saved' = << >>
    BY <1>2 DEF RecoverFromSyntaxError, TransactionInv, InTransaction,
                Resolving
  <2> QED BY <1>2, <2>1, <2>2, ClosedStep DEF RecoverFromSyntaxError, TypeOK
<1>3. CASE CommitFunction
  <2>1. Good(graph')
    BY <1>3, LeaveAllScopesGood DEF CommitFunction
  <2> QED BY <1>3, <2>1, ClosedStep DEF CommitFunction, Close, TypeOK
<1>4. CASE CommitInitializer
  BY <1>4, ClosedStep DEF CommitInitializer, Close, TypeOK
<1>5. CASE BeginStream
  <2>1. Good(graph')
    <3>1. Good(LeaveAllScopes(graph))
      BY LeaveAllScopesGood
    <3> QED BY <1>5, <3>1, ForgetGood DEF BeginStream
  <2>2. checkpoints' = << >> /\ saved' = << >>
    BY <1>5 DEF BeginStream, AtItem, TransactionInv, InTransaction, Resolving
  <2>3. at_file_scope' \subseteq Name
    BY <1>5 DEF BeginStream, TypeOK
  <2> QED BY <1>5, <2>1, <2>2, <2>3, ClosedStep DEF BeginStream
<1> QED BY <1>1, <1>2, <1>3, <1>4, <1>5

LEMMA BeginStep ==
  ASSUME IInv, BeginFunction \/ BeginInitializer
  PROVE  IInv'
<1>1. /\ checkpoints' = <<Snapshot(graph)>> /\ saved' = <<graph>>
      /\ graph' = graph /\ at_file_scope' = at_file_scope
      /\ \/ phase' = "header" /\ header' = Len(graph.declarations)
         \/ phase' = "initializer" /\ header' = header
  BY DEF BeginFunction, BeginInitializer, Begin
<1>2. /\ Snapshot(graph) \in Checkpoint /\ graph \in Graph
      /\ Len(graph.declarations) \in Nat
  BY SnapshotType, GraphParts DEF IInv
<1>3. TypeOK'
  BY <1>1, <1>2 DEF IInv, TypeOK, Phase
<1>4. Extends(graph, graph)
  BY <1>2, ExtendsReflexive
<1>5. TransactionInv'
  <2> DEFINE o == saved'[1]
  <2>1. o = graph
    BY <1>1
  <2>2. /\ saved' = <<o>> /\ checkpoints' = <<Snapshot(o)>> /\ Good(o)
        /\ Extends(graph', o)
    BY <1>1, <1>4, <2>1 DEF IInv
  <2>3. phase' \in Resolving => header' = Len(o.declarations)
    BY <1>1, <2>1 DEF Resolving
  <2>4. InTransaction'
    BY <1>1 DEF InTransaction, Resolving
  <2> QED BY <2>2, <2>3, <2>4 DEF TransactionInv
<1> QED BY <1>1, <1>3, <1>5 DEF IInv

(* The graph of the checkpoint comes back. *)
LEMMA RollbackStep ==
  ASSUME IInv, Rollback
  PROVE  IInv' /\ graph' = saved[1]
<1> DEFINE o == saved[1]
<1>1. InTransaction
  BY DEF Rollback, InTransaction
<1>2. /\ checkpoints = <<Snapshot(o)>> /\ Good(o) /\ Extends(graph, o)
  BY <1>1 DEF IInv, TransactionInv
<1>3. graph' = o
  BY <1>2, RestoreExact DEF Rollback, IInv, Good
<1>4. phase' \in {"toplevel", "stopped"} /\ at_file_scope' \subseteq Name
  BY DEF Rollback, IInv, TypeOK
<1> QED BY <1>2, <1>3, <1>4, ClosedStep DEF Rollback, Close

LEMMA DeclareAtFileScopeStep ==
  ASSUME IInv, NEW kind \in Linked, NEW name \in SourceName,
         DeclareAtFileScope(kind, name)
  PROVE  IInv'
<1> DEFINE h == FileScopeLinked(kind, name)
<1>1. kind \in DeclKind /\ kind # "LINKAGE_ALIAS" /\ name \in Name
  BY DEF Linked, DeclKind, SourceName
<1>2. Good(h) /\ Extends(h, graph)
  BY <1>1, FileScopeLinkedGood DEF IInv, FileScopeLinked, TopName
<1>3. at_file_scope' \subseteq Name
  BY <1>1 DEF DeclareAtFileScope, IInv, TypeOK
<1> HIDE DEF h
<1> QED BY <1>2, <1>3, ExtendingStep DEF DeclareAtFileScope, Step, h

LEMMA DeclareInBlockStep ==
  ASSUME IInv, NEW kind \in Linked, NEW name \in SourceName,
         DeclareInBlock(kind, name)
  PROVE  IInv'
<1> DEFINE top     == TopName(name)
           new     == \/ top = Invalid
                      \/ graph.declarations[top].kind
                           \in {"TYPEDEF", "ENUM_CONSTANT"}
           made    == DeclareAt(graph, TranslationUnit, "ORDINARY", kind,
                                name)
           backed  == IF new THEN SetHidden(made, LastDeclaration(made), TRUE)
                      ELSE graph
           backing == IF new THEN LastDeclaration(made) ELSE top
           h       == DeclareLinkageAlias(backed, graph.current, name, backing)
<1>1. /\ MayAlias(backed, name, backing)
      /\ graph' = h
      /\ UNCHANGED <<checkpoints, phase, header, saved, at_file_scope>>
  BY DEF DeclareInBlock, Step
<1>2. /\ kind \in DeclKind /\ kind # "LINKAGE_ALIAS" /\ name \in Name
      /\ Good(graph)
  BY DEF Linked, DeclKind, SourceName, IInv
<1>3. /\ Good(made) /\ Extends(made, graph)
      /\ Len(made.scopes) = Len(graph.scopes)
      /\ LastDeclaration(made) \in 1 .. Len(made.declarations)
  <2>1. TranslationUnit \in 1 .. Len(graph.scopes) /\ "ORDINARY" \in NameSpace
    BY <1>2, GraphParts DEF TranslationUnit, NameSpace
  <2>2. /\ Good(made) /\ Extends(made, graph)
        /\ Len(made.scopes) = Len(graph.scopes)
        /\ LastDeclaration(made) = LastDeclaration(graph) + 1
    BY <1>2, <2>1, DeclareGood
  <2> HIDE DEF made
  <2> QED BY <1>2, <2>2, GraphParts DEF LastDeclaration
<1>4. /\ Good(backed) /\ Extends(backed, graph)
      /\ Len(backed.scopes) = Len(graph.scopes)
  <2> DEFINE m == SetHidden(made, LastDeclaration(made), TRUE)
  <2> HIDE DEF made
  <2>1. Good(m) /\ Extends(m, made) /\ m.scopes = made.scopes
    BY <1>3, SetHiddenGood
  <2>2. Extends(m, graph)
    BY <1>2, <1>3, <2>1, ExtendsTransitive DEF Good
  <2>3. Extends(graph, graph)
    BY <1>2, ExtendsReflexive DEF Good
  <2> HIDE DEF m, new
  <2> QED BY <1>2, <1>3, <2>1, <2>2, <2>3 DEF m
<1> HIDE DEF backed, backing, made, new, top
<1>5. /\ backing \in 1 .. Len(backed.declarations) /\ backing \in Nat
      /\ graph.current \in 1 .. Len(backed.scopes)
  BY <1>1, <1>2, <1>4, GraphParts DEF MayAlias
<1>6. Good(h) /\ Extends(h, backed)
  <2>1. LET q == AppendDeclaration(backed, graph.current, "ORDINARY",
                                   "LINKAGE_ALIAS", name, backing, 1)
        IN Good(q) /\ Extends(q, backed)
    BY <1>2, <1>4, <1>5, AppendDeclarationGood DEF NameSpace, DeclKind
  <2> QED BY <2>1 DEF DeclareLinkageAlias
<1> HIDE DEF h
<1>7. Extends(h, graph)
  BY <1>2, <1>4, <1>6, ExtendsTransitive DEF Good
<1> QED BY <1>1, <1>6, <1>7, ExtendingStep DEF IInv, TypeOK

LEMMA DeclareStep ==
  ASSUME IInv,
         \/ \E kind \in {"OBJECT", "TYPEDEF", "ENUM_CONSTANT"},
               name \in SourceName : DeclareHere(kind, name)
         \/ DeclareLiteral
         \/ \E name \in SourceName : DeclareLabel(name)
  PROVE  IInv'
<1>1. Good(graph) /\ at_file_scope \subseteq Name
  BY DEF IInv, TypeOK
<1>2. CASE \E kind \in {"OBJECT", "TYPEDEF", "ENUM_CONSTANT"},
              name \in SourceName : DeclareHere(kind, name)
  <2>1. PICK kind \in {"OBJECT", "TYPEDEF", "ENUM_CONSTANT"},
             name \in SourceName : DeclareHere(kind, name)
    BY <1>2
  <2> DEFINE h == DeclareAt(graph, graph.current, "ORDINARY", kind, name)
  <2>2. Good(h) /\ Extends(h, graph)
    BY <1>1, DeclareGood, GraphParts DEF NameSpace, DeclKind, SourceName
  <2>3. graph' = h /\ UNCHANGED <<checkpoints, phase, header, saved,
                                  at_file_scope>>
    BY <2>1 DEF DeclareHere, Step, Declare
  <2> HIDE DEF h
  <2> QED BY <1>1, <2>2, <2>3, ExtendingStep
<1>3. CASE DeclareLiteral
  <2> DEFINE h == DeclareSyntheticAt(graph, TranslationUnit, "ORDINARY",
                                     "GLOBAL_OBJECT", Anonymous)
  <2>1. TranslationUnit \in 1 .. Len(graph.scopes)
    BY <1>1, GraphParts DEF TranslationUnit
  <2>2. Good(h) /\ Extends(h, graph)
    BY <1>1, <2>1, DeclareGood, NameAssumption DEF NameSpace, DeclKind
  <2>3. graph' = h /\ UNCHANGED <<checkpoints, phase, header, saved,
                                  at_file_scope>>
    BY <1>3 DEF DeclareLiteral, Step
  <2> HIDE DEF h
  <2> QED BY <1>1, <2>2, <2>3, ExtendingStep
<1>4. CASE \E name \in SourceName : DeclareLabel(name)
  <2>1. PICK name \in SourceName : DeclareLabel(name)
    BY <1>4
  <2> DEFINE s == NearestFunction(graph)
             h == DeclareSyntheticAt(graph, s, "LABEL", "LABEL", name)
  <2>2. /\ s \in DOMAIN graph.scopes /\ graph' = h
        /\ UNCHANGED <<checkpoints, phase, header, saved, at_file_scope>>
    BY <2>1 DEF DeclareLabel, Step
  <2> HIDE DEF s
  <2>3. Good(h) /\ Extends(h, graph)
    <3>1. s \in 1 .. Len(graph.scopes)
      BY <1>1, <2>2, GraphParts
    <3>2. "LABEL" \in NameSpace /\ "LABEL" \in DeclKind /\ name \in Name
      BY DEF NameSpace, DeclKind, SourceName
    <3> QED BY <1>1, <3>1, <3>2, DeclareGood
  <2> HIDE DEF h
  <2> QED BY <1>1, <2>2, <2>3, ExtendingStep
<1> QED BY <1>2, <1>3, <1>4

(* Only what the function has declared is moved, so that the graph of the  *)
(* checkpoint is still extended.                                           *)
LEMMA MoveExtends ==
  ASSUME IInv, phase \in Resolving, NEW g, Good(g), Extends(g, graph),
         NEW ids, \A d \in ids : d > header, NEW s \in 1 .. Len(g.scopes)
  PROVE  /\ Good(Rehome(g, ids, s))
         /\ Extends(Rehome(g, ids, s), saved[1])
<1> DEFINE o == saved[1]
<1>1. Good(o) /\ Extends(graph, o) /\ header = Len(o.declarations)
  BY DEF IInv, TransactionInv, InTransaction
<1>2. Extends(g, o)
  BY <1>1, ExtendsTransitive DEF IInv, Good
<1>3. \A d \in 1 .. Len(o.declarations) : d \notin ids
  BY <1>1, GraphParts
<1> HIDE DEF o
<1> QED BY <1>1, <1>2, <1>3, RehomeGood, RehomeExtends DEF Good, o

(* A step of a function after a move. *)
LEMMA MovingStep ==
  ASSUME IInv, phase \in Resolving, Good(graph'), Extends(graph', saved[1]),
         phase' \in Resolving, UNCHANGED <<checkpoints, header, saved>>,
         at_file_scope' \subseteq Name
  PROVE  IInv'
<1> DEFINE o == saved[1]
<1>1. /\ saved = <<o>> /\ checkpoints = <<Snapshot(o)>> /\ Good(o)
      /\ header = Len(o.declarations)
  BY DEF IInv, TransactionInv, InTransaction
<1>2. TypeOK'
  BY DEF IInv, TypeOK, Good, Resolving, Phase
<1>3. saved' = saved /\ saved'[1] = o
  OBVIOUS
<1>4. InTransaction'
  BY DEF InTransaction
<1> HIDE DEF o
<1>5. TransactionInv'
  BY <1>1, <1>3, <1>4 DEF TransactionInv, o
<1> QED BY <1>2, <1>5 DEF IInv

LEMMA DeclareStaticLocalStep ==
  ASSUME IInv, NEW name \in SourceName,
         NEW promoted \in SUBSET DOMAIN graph.declarations,
         DeclareStaticLocal(name, promoted)
  PROVE  IInv'
<1> DEFINE moved == Rehome(graph, promoted, TranslationUnit)
           made  == DeclareSyntheticAt(moved, TranslationUnit, "ORDINARY",
                                       "GLOBAL_OBJECT", Anonymous)
           h     == DeclareAt(made, made.current, "ORDINARY", "OBJECT", name)
           o     == saved[1]
<1>1. /\ phase \in Resolving
      /\ \A d \in promoted : d > header
      /\ graph' = h
      /\ UNCHANGED <<checkpoints, phase, header, saved, at_file_scope>>
  BY DEF DeclareStaticLocal, Resolving, Step, Declare
<1>2. Good(graph) /\ TranslationUnit \in 1 .. Len(graph.scopes)
  BY GraphParts DEF IInv, TranslationUnit
<1>3. Good(moved) /\ Extends(moved, o)
  BY <1>1, <1>2, MoveExtends, ExtendsReflexive DEF Good
<1>4. TranslationUnit \in 1 .. Len(moved.scopes)
  BY <1>3, GraphParts DEF TranslationUnit
<1> HIDE DEF moved
<1>5. Good(made) /\ Extends(made, moved)
  BY <1>3, <1>4, DeclareGood, NameAssumption DEF NameSpace, DeclKind
<1> HIDE DEF made
<1>6. Good(h) /\ Extends(h, made)
  BY <1>5, DeclareGood, GraphParts DEF NameSpace, DeclKind, SourceName
<1>7. Good(o)
  BY <1>1 DEF IInv, TransactionInv, InTransaction
<1> HIDE DEF h
<1>8. Extends(h, o)
  BY <1>3, <1>5, <1>6, <1>7, ExtendsTransitive DEF Good
<1> QED BY <1>1, <1>6, <1>8, MovingStep DEF IInv, TypeOK

LEMMA DeclareTagStep ==
  ASSUME IInv, NEW name \in Name, NEW members \in MemberLists,
         DeclareTag(name, members)
  PROVE  IInv'
<1> DEFINE tagged == DeclareAt(graph, graph.current, "TAG", "TAG", name)
           scoped == CreateScopeAt(tagged, tagged.current, "RECORD")
           s      == Len(scoped.scopes)
<1>1. PICK count \in 0 .. Len(members) :
        /\ graph' = RegisterMembers(scoped, s, members, count)
        /\ UNCHANGED <<checkpoints, phase, header, saved, at_file_scope>>
  BY DEF DeclareTag, Step, RecordScope, Declare
<1>2. Good(tagged) /\ Extends(tagged, graph)
  BY DeclareGood, GraphParts DEF IInv, NameSpace, DeclKind
<1>3. tagged.current \in 1 .. Len(tagged.scopes)
  BY <1>2, GraphParts
<1> HIDE DEF tagged
<1>4. Good(scoped) /\ Extends(scoped, tagged)
  BY <1>2, <1>3, CreateScopeGood DEF ScopeKind
<1>5. s \in 1 .. Len(scoped.scopes)
  BY <1>4, GraphParts
<1> HIDE DEF scoped, s
<1>6. /\ Good(RegisterMembers(scoped, s, members, count))
      /\ Extends(RegisterMembers(scoped, s, members, count), scoped)
  <2>1. members \in Seq(Name)
    BY NameAssumption
  <2> QED BY <1>4, <1>5, <2>1, RegisterMembersGood DEF s
<1>7. Extends(graph', graph)
  BY <1>1, <1>2, <1>4, <1>6, ExtendsTransitive DEF Good, IInv
<1> QED BY <1>1, <1>6, <1>7, ExtendingStep DEF IInv, TypeOK

LEMMA FinishHeaderStep ==
  ASSUME IInv, NEW name \in SourceName, NEW oldStyle \in BOOLEAN,
         FinishHeader(name, oldStyle)
  PROVE  IInv'
<1> DEFINE listed == {d \in header + 1 .. LastDeclaration(graph) :
                        /\ graph.declarations[d].scope = graph.current
                        /\ graph.declarations[d].kind
                             \in {"TAG", "ENUM_CONSTANT"}}
           scoped == CreateScopeAt(graph, graph.current, "FUNCTION_PROTOTYPE")
           moved  == Rehome(scoped, listed, Len(scoped.scopes))
           ready  == IF oldStyle THEN moved ELSE graph
           top    == TopName(name)
           h      == IF top = Invalid
                     THEN DeclareAt(ready, TranslationUnit, "ORDINARY",
                                    "FUNCTION", name)
                     ELSE SetHidden(ready, top, FALSE)
           o      == saved[1]
<1>1. /\ phase = "header" /\ graph' = h /\ phase' = "statements"
      /\ at_file_scope' = at_file_scope \cup {name}
      /\ UNCHANGED <<checkpoints, header, saved>>
  BY DEF FinishHeader
<1>2. /\ phase \in Resolving /\ phase' \in Resolving /\ Good(graph)
      /\ header \in Nat /\ name \in Name /\ at_file_scope' \subseteq Name
  BY <1>1 DEF Resolving, IInv, TypeOK, SourceName
<1>3. Good(o) /\ Extends(graph, o)
  BY <1>2 DEF IInv, TransactionInv, InTransaction
<1>4. Good(moved) /\ Extends(moved, o)
      /\ Len(moved.declarations) = Len(graph.declarations)
  <2>1. /\ Good(scoped) /\ Extends(scoped, graph)
        /\ scoped.declarations = graph.declarations
    BY <1>2, CreateScopeGood, GraphParts DEF ScopeKind
  <2>2. Len(scoped.scopes) \in 1 .. Len(scoped.scopes)
    BY <2>1, GraphParts
  <2>3. \A d \in listed : d > header
    BY <1>2, GraphParts DEF LastDeclaration
  <2> HIDE DEF scoped, listed
  <2>4. Good(moved) /\ Extends(moved, o)
    BY <1>2, <2>1, <2>2, <2>3, MoveExtends
  <2>5. Len(moved.declarations) = Len(scoped.declarations)
    BY <2>1, <2>2, RehomeGood
  <2> QED BY <2>1, <2>4, <2>5
<1>5. /\ Good(ready) /\ Extends(ready, o)
      /\ Len(ready.declarations) = Len(graph.declarations)
  <2> HIDE DEF moved, o
  <2> QED BY <1>2, <1>3, <1>4
<1> HIDE DEF ready, o
<1>6. Good(h) /\ Extends(h, ready)
  <2>1. CASE top = Invalid
    <3>1. TranslationUnit \in 1 .. Len(ready.scopes)
      BY <1>5, GraphParts DEF TranslationUnit
    <3> DEFINE k == DeclareAt(ready, TranslationUnit, "ORDINARY", "FUNCTION",
                              name)
    <3>2. Good(k) /\ Extends(k, ready)
      BY <1>2, <1>5, <3>1, DeclareGood DEF NameSpace, DeclKind
    <3> HIDE DEF k, top
    <3> QED BY <2>1, <3>2 DEF k
  <2>2. CASE top # Invalid
    <3>1. top \in 1 .. Len(ready.declarations)
      BY <1>2, <1>5, <2>2, LookupInScopeIn DEF TopName
    <3> HIDE DEF top
    <3>2. Good(SetHidden(ready, top, FALSE))
            /\ Extends(SetHidden(ready, top, FALSE), ready)
      BY <1>5, <3>1, SetHiddenGood
    <3> QED BY <2>2, <3>2
  <2> QED BY <2>1, <2>2
<1> HIDE DEF h
<1>7. Extends(h, o)
  BY <1>3, <1>5, <1>6, ExtendsTransitive DEF Good, o
<1> QED BY <1>1, <1>2, <1>6, <1>7, MovingStep DEF o

LEMMA BlockStep ==
  ASSUME IInv,
         \/ \E kind \in {"BLOCK", "FUNCTION_PROTOTYPE"} : EnterBlock(kind)
         \/ LeaveBlock
         \/ \E name \in SourceName : LookUp(name)
  PROVE  IInv'
<1>1. Good(graph) /\ at_file_scope \subseteq Name
  BY DEF IInv, TypeOK
<1>2. CASE \E kind \in {"BLOCK", "FUNCTION_PROTOTYPE"} : EnterBlock(kind)
  <2>1. PICK kind \in {"BLOCK", "FUNCTION_PROTOTYPE"} : EnterBlock(kind)
    BY <1>2
  <2>2. kind \in ScopeKind
    BY DEF ScopeKind
  <2>3. /\ Good(EnterScope(graph, kind))
        /\ Extends(EnterScope(graph, kind), graph)
    BY <1>1, <2>2, EnterScopeGood
  <2>4. /\ graph' = EnterScope(graph, kind)
        /\ UNCHANGED <<checkpoints, phase, header, saved, at_file_scope>>
    BY <2>1 DEF EnterBlock, Step
  <2> QED BY <1>1, <2>3, <2>4, ExtendingStep
<1>3. CASE LeaveBlock
  <2>1. Good(LeaveScope(graph)) /\ Extends(LeaveScope(graph), graph)
    BY <1>1, LeaveScopeGood
  <2>2. /\ graph' = LeaveScope(graph)
        /\ UNCHANGED <<checkpoints, phase, header, saved, at_file_scope>>
    BY <1>3 DEF LeaveBlock, Step
  <2> QED BY <1>1, <2>1, <2>2, ExtendingStep
<1>4. CASE \E name \in SourceName : LookUp(name)
  <2>1. UNCHANGED <<graph, checkpoints, phase, header, saved, at_file_scope>>
    BY <1>4 DEF LookUp
  <2>2. Extends(graph, graph)
    BY <1>1, ExtendsReflexive DEF Good
  <2> QED BY <1>1, <2>1, <2>2, ExtendingStep
<1> QED BY <1>2, <1>3, <1>4

LEMMA NextIInv == IInv /\ [Next]_vars => IInv'
<1> SUFFICES ASSUME IInv, [Next]_vars
             PROVE  IInv'
  OBVIOUS
<1>1. CASE \/ ParseFunction \/ RecoverFromSyntaxError
           \/ CommitFunction \/ CommitInitializer \/ BeginStream
  BY <1>1, TopLevelStep
<1>2. CASE BeginFunction \/ BeginInitializer
  BY <1>2, BeginStep
<1>3. CASE Rollback
  BY <1>3, RollbackStep
<1>4. CASE \E kind \in Linked, name \in SourceName :
             DeclareAtFileScope(kind, name) \/ DeclareInBlock(kind, name)
  BY <1>4, DeclareAtFileScopeStep, DeclareInBlockStep
<1>5. CASE \/ \E kind \in {"OBJECT", "TYPEDEF", "ENUM_CONSTANT"},
                 name \in SourceName : DeclareHere(kind, name)
           \/ DeclareLiteral
           \/ \E name \in SourceName : DeclareLabel(name)
  BY <1>5, DeclareStep
<1>6. CASE \E name \in SourceName,
              promoted \in SUBSET DOMAIN graph.declarations :
             Cardinality(promoted) <= 1 /\ DeclareStaticLocal(name, promoted)
  BY <1>6, DeclareStaticLocalStep
<1>7. CASE \E name \in Name, members \in MemberLists :
             DeclareTag(name, members)
  BY <1>7, DeclareTagStep
<1>8. CASE \E name \in SourceName, oldStyle \in BOOLEAN :
             FinishHeader(name, oldStyle)
  BY <1>8, FinishHeaderStep
<1>9. CASE \/ \E kind \in {"BLOCK", "FUNCTION_PROTOTYPE"} : EnterBlock(kind)
           \/ LeaveBlock
           \/ \E name \in SourceName : LookUp(name)
  BY <1>9, BlockStep
<1>10. CASE UNCHANGED vars
  <2>1. UNCHANGED <<graph, checkpoints, phase, header, saved, at_file_scope>>
    BY <1>10 DEF vars
  <2>2. Extends(graph, graph)
    BY ExtendsReflexive DEF IInv, Good
  <2> QED BY <2>1, <2>2, ExtendingStep DEF IInv, TypeOK
<1> QED BY <1>1, <1>2, <1>3, <1>4, <1>5, <1>6, <1>7, <1>8, <1>9, <1>10
        DEF Next

----------------------------------------
(* The theorems. *)

(* The graph, the checkpoint and the ghosts keep their shapes. *)
THEOREM TypeCorrect == Spec => []TypeOK
<1>1. IInv => TypeOK
  BY DEF IInv
<1> QED BY <1>1, InitIInv, NextIInv, PTL DEF Spec

(* Through every rollback and every move the graph of scope_graph.c stays  *)
(* a tree in which declarations have a live scope and aliases an older     *)
(* target.                                                                 *)
THEOREM AlwaysWellFormed == Spec => []WellFormed
<1>1. IInv => WellFormed
  BY DEF IInv, Good, WellFormed
<1> QED BY <1>1, InitIInv, NextIInv, PTL DEF Spec

(* psx_scope_graph_checkpoint_rollback brings back exactly the graph of    *)
(* the checkpoint, whatever was declared, hidden, moved or entered since.  *)
THEOREM RollbackExact == Spec => RollbackRestores
<1>1. IInv /\ [Next]_vars => [Rollback => graph' = saved[1]]_vars
  BY RollbackStep
<1> QED BY <1>1, InitIInv, NextIInv, PTL DEF Spec, RollbackRestores

----------------------------------------
(* Lookups.  What each operation does to the declarations, exactly. *)

Shown(d) == ~d.hidden

(* v is u with one more declaration. *)
Adds(v, u, s, space, kind, name, alias) ==
  /\ Len(u) \in Nat /\ Len(v) = Len(u) + 1
  /\ DOMAIN u = 1 .. Len(u) /\ DOMAIN v = 1 .. Len(u) + 1
  /\ \A d \in 1 .. Len(u) : v[d] = u[d]
  /\ v[Len(u) + 1].scope = s /\ v[Len(u) + 1].space = space
  /\ v[Len(u) + 1].kind = kind /\ v[Len(u) + 1].name = name
  /\ v[Len(u) + 1].alias = alias

(* The scopes are those of g and may have counted further. *)
Risen(h, g) ==
  /\ Len(h.scopes) = Len(g.scopes)
  /\ \A t \in 1 .. Len(g.scopes) :
       /\ SameScope(h.scopes[t], g.scopes[t])
       /\ g.scopes[t].order <= h.scopes[t].order

LEMMA AppendEffect ==
  ASSUME NEW g, Good(g), NEW s \in 1 .. Len(g.scopes),
         NEW space, NEW kind, NEW name, NEW alias, NEW step \in {0, 1}
  PROVE  LET h == AppendDeclaration(g, s, space, kind, name, alias, step)
             n == Len(g.declarations) + 1
         IN /\ Adds(h.declarations, g.declarations, s, space, kind, name,
                    alias)
            /\ Shown(h.declarations[n])
            /\ h.declarations[n].order = g.scopes[Root(g, s)].order + step
            /\ Risen(h, g)
            /\ h.current = g.current
<1> DEFINE r     == Root(g, s)
           order == g.scopes[r].order + step
           new   == [scope |-> s, space |-> space, kind |-> kind,
                     name |-> name, order |-> order, alias |-> alias,
                     hidden |-> FALSE]
           x     == Append(g.declarations, new)
           h     == AppendDeclaration(g, s, space, kind, name, alias, step)
<1>1. /\ r \in 1 .. Len(g.scopes) /\ order \in Nat
      /\ g.scopes[r].order <= order
  BY ScopeParts
<1>2. /\ new.scope = s /\ new.space = space /\ new.kind = kind
      /\ new.name = name /\ new.order = order /\ new.alias = alias
  OBVIOUS
<1>3. ~new.hidden
  BY Zenon
<1>4. h = [g EXCEPT !.scopes[r].order = order, !.declarations = x]
  BY Zenon DEF AppendDeclaration
<1> HIDE DEF h, x, new, order, r
<1>5. /\ h.declarations = x /\ h.current = g.current
      /\ h.scopes = [g.scopes EXCEPT ![r].order = order]
  BY <1>4, GraphParts DEF Graph
<1>6. /\ Len(x) = Len(g.declarations) + 1
      /\ DOMAIN x = 1 .. Len(g.declarations) + 1
      /\ \A d \in 1 .. Len(g.declarations) : x[d] = g.declarations[d]
      /\ x[Len(g.declarations) + 1] = new
  BY GraphParts DEF x
<1>7. Adds(h.declarations, g.declarations, s, space, kind, name, alias)
  BY <1>2, <1>5, <1>6, GraphParts DEF Adds
<1>8. Shown(h.declarations[Len(g.declarations) + 1])
  BY <1>3, <1>5, <1>6 DEF Shown
<1>9. Risen(h, g)
  <2>1. /\ Len(h.scopes) = Len(g.scopes)
        /\ \A t \in 1 .. Len(g.scopes) :
             t # r => h.scopes[t] = g.scopes[t]
        /\ h.scopes[r] = [g.scopes[r] EXCEPT !.order = order]
    BY <1>1, <1>5, GraphParts
  <2>2. /\ SameScope(h.scopes[r], g.scopes[r])
        /\ h.scopes[r].order = order
    <3>1. g.scopes[r] \in Scope
      BY <1>1, ScopeParts
    <3> QED BY <2>1, <3>1 DEF Scope, SameScope
  <2>3. ASSUME NEW t \in 1 .. Len(g.scopes)
        PROVE  /\ SameScope(h.scopes[t], g.scopes[t])
               /\ g.scopes[t].order <= h.scopes[t].order
    <3>1. CASE t = r
      BY <1>1, <2>2, <3>1
    <3>2. CASE t # r
      <4>1. h.scopes[t] = g.scopes[t] /\ g.scopes[t].order \in Nat
        BY <2>1, <3>2, ScopeParts
      <4> QED BY <4>1 DEF SameScope
    <3> QED BY <3>1, <3>2
  <2> QED BY <2>1, <2>3 DEF Risen
<1>10. h.declarations[Len(g.declarations) + 1].order
         = g.scopes[Root(g, s)].order + step
  BY <1>2, <1>5, <1>6 DEF order, r
<1> QED BY <1>5, <1>7, <1>8, <1>9, <1>10 DEF h

LEMMA SetHiddenMarks ==
  ASSUME NEW g, Good(g), NEW d \in 1 .. Len(g.declarations), NEW v
  PROVE  LET h == SetHidden(g, d, v)
         IN /\ Len(h.declarations) = Len(g.declarations)
            /\ DOMAIN h.declarations = 1 .. Len(g.declarations)
            /\ \A e \in 1 .. Len(g.declarations) :
                 e # d => h.declarations[e] = g.declarations[e]
            /\ h.declarations[d].hidden = v
<1> DEFINE t == [g.declarations[d] EXCEPT !.hidden = v]
           u == [g.declarations EXCEPT ![d] = t]
           h == SetHidden(g, d, v)
<1>1. h.declarations = u
  <2>1. g \in Graph
    BY GraphParts
  <2>2. h = [g EXCEPT !.declarations = u]
    BY DEF SetHidden
  <2> HIDE DEF h, u
  <2> QED BY <2>1, <2>2, ExceptParts
<1>2. t.hidden = v
  <2>1. g.declarations[d] \in Declaration
    BY DeclarationParts
  <2> QED BY <2>1 DEF Declaration
<1> HIDE DEF t
<1>3. /\ Len(u) = Len(g.declarations)
      /\ DOMAIN u = 1 .. Len(g.declarations)
      /\ u[d] = t
      /\ \A e \in 1 .. Len(g.declarations) : e # d => u[e] = g.declarations[e]
  BY GraphParts
<1> HIDE DEF u, h
<1> QED BY <1>1, <1>2, <1>3 DEF h

LEMMA SetHiddenEffect ==
  ASSUME NEW g, Good(g), NEW d \in 1 .. Len(g.declarations),
         NEW v \in BOOLEAN
  PROVE  LET h == SetHidden(g, d, v)
         IN /\ Len(h.declarations) = Len(g.declarations)
            /\ DOMAIN h.declarations = 1 .. Len(g.declarations)
            /\ \A e \in 1 .. Len(g.declarations) :
                 e # d => h.declarations[e] = g.declarations[e]
            /\ SameDeclaration(h.declarations[d], g.declarations[d])
            /\ h.scopes = g.scopes /\ h.current = g.current
BY SetHiddenMarks, SetHiddenGood

LEMMA SetHiddenShown ==
  ASSUME NEW g, Good(g), NEW d \in 1 .. Len(g.declarations)
  PROVE  /\ Shown(SetHidden(g, d, FALSE).declarations[d])
         /\ ~Shown(SetHidden(g, d, TRUE).declarations[d])
<1>1. \A v : SetHidden(g, d, v).declarations[d].hidden = v
  BY SetHiddenMarks
<1> QED BY <1>1, Zenon DEF Shown

LEMMA RehomeEffect ==
  ASSUME NEW g, Good(g), NEW ids, NEW s \in 1 .. Len(g.scopes)
  PROVE  LET h == Rehome(g, ids, s)
         IN /\ Len(h.declarations) = Len(g.declarations)
            /\ DOMAIN h.declarations = 1 .. Len(g.declarations)
            /\ \A d \in 1 .. Len(g.declarations) :
                 /\ d \notin ids => h.declarations[d] = g.declarations[d]
                 /\ d \in ids => h.declarations[d].scope = s
                 /\ h.declarations[d].space = g.declarations[d].space
                 /\ h.declarations[d].kind = g.declarations[d].kind
                 /\ h.declarations[d].name = g.declarations[d].name
                 /\ h.declarations[d].alias = g.declarations[d].alias
                 /\ Shown(h.declarations[d]) <=> Shown(g.declarations[d])
            /\ h.scopes = g.scopes /\ h.current = g.current
<1> DEFINE order == g.scopes[Root(g, s)].order
           f(d) == IF d \in ids
                   THEN [g.declarations[d] EXCEPT !.scope = s,
                                                  !.order = order]
                   ELSE g.declarations[d]
           u == [d \in DOMAIN g.declarations |-> f(d)]
           h == Rehome(g, ids, s)
<1>1. h = [scopes |-> g.scopes, declarations |-> u, current |-> g.current]
  <2>1. g \in Graph
    BY GraphParts
  <2>2. h = [g EXCEPT !.declarations = u]
    BY Zenon DEF Rehome
  <2> HIDE DEF h, u
  <2> QED BY <2>1, <2>2, ExceptParts
<1>2. /\ DOMAIN g.declarations = 1 .. Len(g.declarations)
      /\ Len(h.declarations) = Len(g.declarations)
  BY GraphParts, RehomeGood
<1>3. ASSUME NEW d \in 1 .. Len(g.declarations)
      PROVE  /\ d \notin ids => f(d) = g.declarations[d]
             /\ d \in ids => f(d).scope = s
             /\ f(d).space = g.declarations[d].space
             /\ f(d).kind = g.declarations[d].kind
             /\ f(d).name = g.declarations[d].name
             /\ f(d).alias = g.declarations[d].alias
             /\ f(d).hidden = g.declarations[d].hidden
  <2>1. g.declarations[d] \in Declaration
    BY DeclarationParts
  <2> HIDE DEF order
  <2> QED BY <2>1 DEF Declaration
<1>4. \A d \in 1 .. Len(g.declarations) : u[d] = f(d)
  BY <1>2
<1>5. DOMAIN u = 1 .. Len(g.declarations)
  BY <1>2
<1> HIDE DEF u, h, f, order
<1>6. h.scopes = g.scopes /\ h.declarations = u /\ h.current = g.current
  BY <1>1
<1>7. \A d \in 1 .. Len(g.declarations) :
        Shown(h.declarations[d]) <=> Shown(g.declarations[d])
  BY <1>3, <1>4, <1>6, Zenon DEF Shown
<1> QED BY <1>2, <1>3, <1>4, <1>5, <1>6, <1>7 DEF h

LEMMA ForgetEffect ==
  ASSUME NEW g, Good(g), NEW ids
  PROVE  LET h == Forget(g, ids)
         IN /\ DOMAIN h.declarations = 1 .. Len(g.declarations)
            /\ \A d \in 1 .. Len(g.declarations) :
                 /\ d \notin ids => h.declarations[d] = g.declarations[d]
                 /\ d \in ids => h.declarations[d].kind = "UNKNOWN"
                 /\ h.declarations[d].scope = g.declarations[d].scope
                 /\ h.declarations[d].space = g.declarations[d].space
                 /\ h.declarations[d].name = g.declarations[d].name
            /\ h.scopes = g.scopes /\ h.current = g.current
<1> DEFINE f(d) == IF d \in ids
                   THEN [g.declarations[d] EXCEPT !.kind = "UNKNOWN",
                                                  !.alias = Invalid]
                   ELSE g.declarations[d]
           u == [d \in DOMAIN g.declarations |-> f(d)]
           h == Forget(g, ids)
<1>1. h = [scopes |-> g.scopes, declarations |-> u, current |-> g.current]
  <2>1. g \in Graph
    BY GraphParts
  <2>2. h = [g EXCEPT !.declarations = u]
    BY Zenon DEF Forget
  <2> HIDE DEF h, u
  <2> QED BY <2>1, <2>2, ExceptParts
<1>2. ASSUME NEW d \in 1 .. Len(g.declarations)
      PROVE  /\ d \notin ids => f(d) = g.declarations[d]
             /\ d \in ids => f(d).kind = "UNKNOWN"
             /\ f(d).scope = g.declarations[d].scope
             /\ f(d).space = g.declarations[d].space
             /\ f(d).name = g.declarations[d].name
  <2>1. g.declarations[d] \in Declaration
    BY DeclarationParts
  <2> QED BY <2>1 DEF Declaration
<1>3. DOMAIN g.declarations = 1 .. Len(g.declarations)
  BY GraphParts
<1>4. /\ \A d \in 1 .. Len(g.declarations) : u[d] = f(d)
      /\ DOMAIN u = 1 .. Len(g.declarations)
  BY <1>3
<1> HIDE DEF u, h, f
<1>5. h.scopes = g.scopes /\ h.declarations = u /\ h.current = g.current
  BY <1>1
<1> QED BY <1>2, <1>4, <1>5 DEF h

LEMMA EnterMembersEffect ==
  ASSUME NEW g, Good(g), NEW s \in 1 .. Len(g.scopes), NEW names,
         NEW count \in Nat
  PROVE  LET h == EnterMembers(g, s, names, count)
             n == Len(g.declarations)
         IN /\ Len(h.declarations) = n + count
            /\ DOMAIN h.declarations = 1 .. n + count
            /\ \A d \in 1 .. n : h.declarations[d] = g.declarations[d]
            /\ \A i \in 1 .. count :
                 /\ h.declarations[n + i].scope = s
                 /\ h.declarations[n + i].space = "MEMBER"
                 /\ h.declarations[n + i].kind = "MEMBER"
                 /\ h.declarations[n + i].name = names[i]
            /\ Risen(h, g)
            /\ h.current = g.current
<1> DEFINE r    == Root(g, s)
           base == g.scopes[r].order
           member(i) ==
             [scope |-> s, space |-> "MEMBER", kind |-> "MEMBER",
              name |-> names[i], order |-> base + i, alias |-> Invalid,
              hidden |-> FALSE]
           new  == [i \in 1 .. count |-> member(i)]
           n    == Len(g.declarations)
           x    == g.declarations \o new
           h    == EnterMembers(g, s, names, count)
<1>1. r \in 1 .. Len(g.scopes) /\ base \in Nat /\ n \in Nat
  BY ScopeParts, GraphParts
<1>2. \A i \in 1 .. count :
        /\ member(i).scope = s /\ member(i).space = "MEMBER"
        /\ member(i).kind = "MEMBER" /\ member(i).name = names[i]
  OBVIOUS
<1>3. h = [g EXCEPT !.scopes[r].order = base + count, !.declarations = x]
  BY Zenon DEF EnterMembers
<1> HIDE DEF member
<1>4. new \in Seq({member(i) : i \in 1 .. count}) /\ Len(new) = count
      /\ \A i \in 1 .. count : new[i] = member(i)
  <2> DEFINE S == {member(i) : i \in 1 .. count}
  <2>1. new \in [1 .. count -> S] /\ \A i \in 1 .. count : new[i] = member(i)
    OBVIOUS
  <2> HIDE DEF new, S
  <2>2. new \in Seq(S) /\ Len(new) = count
    BY <2>1, FunctionIsSeq
  <2> QED BY <2>1, <2>2 DEF S
<1> HIDE DEF new
<1>5. /\ Len(x) = n + count /\ DOMAIN x = 1 .. n + count
      /\ \A d \in 1 .. n : x[d] = g.declarations[d]
      /\ \A i \in 1 .. count : x[n + i] = new[i]
  <2> DEFINE S == Declaration \cup {member(i) : i \in 1 .. count}
  <2>1. g.declarations \in Seq(S) /\ new \in Seq(S)
    BY <1>4, GraphParts
  <2> HIDE DEF S
  <2>2. x \in Seq(S) /\ Len(x) = n + count
    BY <1>4, <2>1
  <2>3. /\ \A d \in 1 .. n : x[d] = g.declarations[d]
        /\ \A i \in 1 .. count : x[n + i] = new[i]
    BY <1>1, <1>4, <2>1
  <2> QED BY <2>2, <2>3
<1> HIDE DEF h, x, base, r
<1>6. /\ h.declarations = x /\ h.current = g.current
      /\ h.scopes = [g.scopes EXCEPT ![r].order = base + count]
  BY <1>3, GraphParts DEF Graph
<1>7. Risen(h, g)
  <2>1. /\ Len(h.scopes) = Len(g.scopes)
        /\ \A t \in 1 .. Len(g.scopes) :
             t # r => h.scopes[t] = g.scopes[t]
        /\ h.scopes[r] = [g.scopes[r] EXCEPT !.order = base + count]
    BY <1>1, <1>6, GraphParts
  <2>2. /\ SameScope(h.scopes[r], g.scopes[r])
        /\ h.scopes[r].order = base + count
    <3>1. g.scopes[r] \in Scope
      BY <1>1, ScopeParts
    <3> QED BY <2>1, <3>1 DEF Scope, SameScope
  <2>3. ASSUME NEW t \in 1 .. Len(g.scopes)
        PROVE  /\ SameScope(h.scopes[t], g.scopes[t])
               /\ g.scopes[t].order <= h.scopes[t].order
    <3>1. CASE t = r
      BY <1>1, <2>2, <3>1 DEF base
    <3>2. CASE t # r
      <4>1. h.scopes[t] = g.scopes[t] /\ g.scopes[t].order \in Nat
        BY <2>1, <3>2, ScopeParts
      <4> QED BY <4>1 DEF SameScope
    <3> QED BY <3>1, <3>2
  <2> QED BY <2>1, <2>3 DEF Risen
<1> QED BY <1>2, <1>4, <1>5, <1>6, <1>7 DEF h

(* A new scope. *)
LEMMA CreateScopeEffect ==
  ASSUME NEW g, Good(g), NEW p \in 1 .. Len(g.scopes), NEW k \in ScopeKind
  PROVE  LET h == CreateScopeAt(g, p, k)
             n == Len(g.scopes) + 1
         IN /\ Len(h.scopes) = n
            /\ \A s \in 1 .. Len(g.scopes) : h.scopes[s] = g.scopes[s]
            /\ h.scopes[n].parent = p /\ h.scopes[n].kind = k
            /\ k \notin OrderRoot => h.scopes[n].root = Root(g, p)
            /\ h.declarations = g.declarations /\ h.current = g.current
<1> DEFINE n   == Len(g.scopes) + 1
           r   == IF k \in OrderRoot THEN NextScope(g) ELSE Root(g, p)
           new == [parent |-> p, root |-> r, kind |-> k, order |-> 0]
           x   == Append(g.scopes, new)
           h   == CreateScopeAt(g, p, k)
<1>1. h = [g EXCEPT !.scopes = x]
  BY DEF CreateScopeAt
<1>2. k \notin OrderRoot => r = Root(g, p)
  OBVIOUS
<1> HIDE DEF h, r
<1>3. new.parent = p /\ new.kind = k /\ new.root = r
  OBVIOUS
<1> HIDE DEF new
<1>4. /\ Len(x) = n /\ x[n] = new
      /\ \A s \in 1 .. Len(g.scopes) : x[s] = g.scopes[s]
  BY GraphParts
<1> HIDE DEF x
<1>5. h.scopes = x /\ h.declarations = g.declarations /\ h.current = g.current
  BY <1>1, GraphParts, ExceptParts
<1> QED BY <1>2, <1>3, <1>4, <1>5 DEF h

----------------------------------------
(* The laws of the declarations, and what may be added, shown or moved. *)

Weak == {"TYPEDEF", "ENUM_CONSTANT"}

(* Two declarations of one name in one scope and name space. *)
Twins(ds, d, e) ==
  /\ ds[d].name = ds[e].name
  /\ ds[d].scope = ds[e].scope
  /\ ds[d].space = ds[e].space
  /\ ds[d].kind # "UNKNOWN" /\ ds[e].kind # "UNKNOWN"

Denoted(ds, d) == IF ds[d].kind = "LINKAGE_ALIAS" THEN ds[d].alias ELSE d

LinkedOutside(ds) ==
  \A d \in DOMAIN ds :
    ds[d].kind \in Linked =>
      ds[d].scope = TranslationUnit /\ ds[d].space = "ORDINARY"

TagsApart(ds) ==
  \A d \in DOMAIN ds : ds[d].kind = "TAG" => ds[d].space = "TAG"

LinkedLast(ds) ==
  \A d, e \in DOMAIN ds :
    (/\ d < e /\ Twins(ds, d, e)
     /\ ds[d].name \in SourceName
     /\ ds[d].scope = TranslationUnit /\ ds[d].space = "ORDINARY")
    => ds[d].kind \in Weak

MayTarget(D, name) ==
  /\ D.scope = TranslationUnit /\ D.space = "ORDINARY" /\ D.name = name
  /\ D.kind \in Linked \cup {"UNKNOWN"}

AliasesMean(ds) ==
  \A d \in DOMAIN ds :
    ds[d].kind = "LINKAGE_ALIAS" =>
      /\ Shown(ds[d])
      /\ ds[d].alias \in DOMAIN ds
      /\ MayTarget(ds[ds[d].alias], ds[d].name)

OneEntity(ds) ==
  \A d, e \in DOMAIN ds :
    (/\ Twins(ds, d, e) /\ ds[d].name \in SourceName
     /\ Shown(ds[d]) /\ Shown(ds[e]))
    => Denoted(ds, d) = Denoted(ds, e)

DeclLaw(ds) ==
  /\ LinkedOutside(ds)
  /\ TagsApart(ds)
  /\ LinkedLast(ds)
  /\ AliasesMean(ds)
  /\ OneEntity(ds)

FileScopeName(D, n) ==
  /\ D.scope = TranslationUnit /\ D.name = n /\ D.kind \in Linked /\ Shown(D)

VisibleNames(ds) == {n \in SourceName : \E d \in DOMAIN ds : FileScopeName(ds[d], n)}

(* A declaration that u has in the scope and name space. *)
Taken(D, s, space, name) ==
  D.scope = s /\ D.space = space /\ D.name = name /\ D.kind # "UNKNOWN"

(* What may be declared next. *)
MayAdd(u, s, space, kind, name, alias) ==
  /\ kind \in Linked => s = TranslationUnit /\ space = "ORDINARY"
  /\ kind = "TAG" => space = "TAG"
  /\ kind = "LINKAGE_ALIAS" => /\ alias \in 1 .. Len(u)
                               /\ MayTarget(u[alias], name)

(* The name is free, among all declarations or among those that are shown. *)
LEMMA AddLaw ==
  ASSUME NEW u, NEW v, NEW s, NEW space, NEW kind, NEW name, NEW alias,
         DeclLaw(u), Adds(v, u, s, space, kind, name, alias),
         MayAdd(u, s, space, kind, name, alias),
         kind = "LINKAGE_ALIAS" => Shown(v[Len(u) + 1]),
         name \in SourceName =>
           \A d \in 1 .. Len(u) :
             Taken(u[d], s, space, name) =>
               /\ s = TranslationUnit /\ space = "ORDINARY" =>
                    u[d].kind \in Weak
               /\ Shown(u[d]) /\ Shown(v[Len(u) + 1]) =>
                    /\ kind = "LINKAGE_ALIAS"
                    /\ Denoted(u, d) = alias
  PROVE  DeclLaw(v)
<1> DEFINE n == Len(u)
<1>1. /\ n \in Nat /\ DOMAIN u = 1 .. n /\ DOMAIN v = 1 .. n + 1
      /\ \A d \in 1 .. n : v[d] = u[d]
      /\ v[n + 1].scope = s /\ v[n + 1].space = space
      /\ v[n + 1].kind = kind /\ v[n + 1].name = name
      /\ v[n + 1].alias = alias
  BY DEF Adds
<1>2. \A d \in 1 .. n + 1 : d \in 1 .. n \/ d = n + 1
  BY <1>1
<1>3. \A d \in 1 .. n : d \in 1 .. n + 1 /\ d # n + 1
  BY <1>1
<1>4. /\ LinkedOutside(u) /\ TagsApart(u) /\ LinkedLast(u) /\ AliasesMean(u)
      /\ OneEntity(u)
  BY DEF DeclLaw
<1>5. /\ kind \in Linked => s = TranslationUnit /\ space = "ORDINARY"
      /\ kind = "TAG" => space = "TAG"
      /\ kind = "LINKAGE_ALIAS" => alias \in 1 .. n /\ MayTarget(u[alias], name)
  BY DEF MayAdd
<1>6. name \in SourceName =>
        \A d \in 1 .. n :
          Taken(u[d], s, space, name) =>
            /\ s = TranslationUnit /\ space = "ORDINARY" => u[d].kind \in Weak
            /\ Shown(u[d]) /\ Shown(v[n + 1]) =>
                 /\ kind = "LINKAGE_ALIAS"
                 /\ Denoted(u, d) = alias
  OBVIOUS
<1> HIDE DEF n
<1>7. LinkedOutside(v)
  BY <1>1, <1>2, <1>4, <1>5 DEF LinkedOutside
<1>8. TagsApart(v)
  BY <1>1, <1>2, <1>4, <1>5 DEF TagsApart
<1>9. \A d, e \in 1 .. n : Twins(v, d, e) => Twins(u, d, e)
  BY <1>1 DEF Twins
<1>10. \A d \in 1 .. n : Twins(v, d, n + 1) \/ Twins(v, n + 1, d)
                          => Taken(u[d], s, space, name)
  BY <1>1 DEF Twins, Taken
<1>11. LinkedLast(v)
  <2> SUFFICES ASSUME NEW d \in 1 .. n + 1, NEW e \in 1 .. n + 1, d < e,
                      Twins(v, d, e), v[d].name \in SourceName,
                      v[d].scope = TranslationUnit, v[d].space = "ORDINARY"
               PROVE  v[d].kind \in Weak
    BY <1>1 DEF LinkedLast
  <2>1. d \in 1 .. n /\ v[d] = u[d]
    BY <1>1
  <2>2. CASE e \in 1 .. n
    BY <1>1, <1>4, <1>9, <2>1, <2>2 DEF LinkedLast
  <2>3. CASE e = n + 1
    <3>1. Taken(u[d], s, space, name)
      BY <1>10, <2>1, <2>3
    <3>2. name \in SourceName /\ s = TranslationUnit /\ space = "ORDINARY"
      BY <2>1, <3>1 DEF Taken
    <3> QED BY <1>6, <2>1, <3>1, <3>2
  <2> QED BY <1>2, <2>2, <2>3
<1>12. AliasesMean(v)
  <2> SUFFICES ASSUME NEW d \in 1 .. n + 1, v[d].kind = "LINKAGE_ALIAS"
               PROVE  /\ Shown(v[d])
                      /\ v[d].alias \in 1 .. n + 1
                      /\ MayTarget(v[v[d].alias], v[d].name)
    BY <1>1 DEF AliasesMean
  <2>1. CASE d \in 1 .. n
    <3>1. v[d] = u[d] /\ Shown(u[d]) /\ u[d].alias \in 1 .. n
          /\ MayTarget(u[u[d].alias], u[d].name)
      BY <1>1, <1>4, <2>1 DEF AliasesMean
    <3> QED BY <1>1, <1>3, <3>1
  <2>2. CASE d = n + 1
    BY <1>1, <1>3, <1>5, <2>2
  <2> QED BY <1>2, <2>1, <2>2
<1>13. \A d \in 1 .. n : Denoted(v, d) = Denoted(u, d)
  BY <1>1 DEF Denoted
<1>14. kind = "LINKAGE_ALIAS" => Denoted(v, n + 1) = alias
  BY <1>1 DEF Denoted
<1>15. ASSUME NEW d \in 1 .. n, Taken(u[d], s, space, name),
              name \in SourceName, Shown(v[d]), Shown(v[n + 1])
       PROVE  Denoted(v, d) = Denoted(v, n + 1)
  <2>1. Shown(u[d])
    BY <1>1, <1>15
  <2> QED BY <1>6, <1>13, <1>14, <1>15, <2>1
<1>16. OneEntity(v)
  <2> SUFFICES ASSUME NEW d \in 1 .. n + 1, NEW e \in 1 .. n + 1,
                      Twins(v, d, e), v[d].name \in SourceName,
                      Shown(v[d]), Shown(v[e])
               PROVE  Denoted(v, d) = Denoted(v, e)
    BY <1>1 DEF OneEntity
  <2>1. CASE d \in 1 .. n /\ e \in 1 .. n
    BY <1>1, <1>4, <1>9, <1>13, <2>1 DEF OneEntity
  <2>2. CASE d \in 1 .. n /\ e = n + 1
    <3>1. Taken(u[d], s, space, name)
      BY <1>10, <2>2
    <3>2. name \in SourceName
      BY <1>1, <2>2, <3>1 DEF Taken
    <3> QED BY <1>15, <2>2, <3>1, <3>2
  <2>3. CASE d = n + 1 /\ e \in 1 .. n
    <3>1. Taken(u[e], s, space, name)
      BY <1>10, <2>3
    <3>2. name \in SourceName
      BY <1>1, <2>3
    <3> QED BY <1>15, <2>3, <3>1, <3>2
  <2>4. CASE d = n + 1 /\ e = n + 1
    BY <2>4
  <2> QED BY <1>2, <2>1, <2>2, <2>3, <2>4
<1> QED BY <1>7, <1>8, <1>11, <1>12, <1>16 DEF DeclLaw

LEMMA AddVisible ==
  ASSUME NEW u, NEW v, NEW s, NEW space, NEW kind, NEW name, NEW alias,
         Adds(v, u, s, space, kind, name, alias)
  PROVE  /\ (\/ kind \notin Linked \/ name \notin SourceName
             \/ ~Shown(v[Len(u) + 1]))
            => VisibleNames(v) = VisibleNames(u)
         /\ (/\ kind \in Linked /\ name \in SourceName
             /\ s = TranslationUnit /\ Shown(v[Len(u) + 1]))
            => VisibleNames(v) = VisibleNames(u) \cup {name}
<1> DEFINE n == Len(u)
<1>1. /\ n \in Nat /\ DOMAIN u = 1 .. n /\ DOMAIN v = 1 .. n + 1
      /\ \A d \in 1 .. n : v[d] = u[d]
      /\ v[n + 1].scope = s /\ v[n + 1].kind = kind /\ v[n + 1].name = name
  BY DEF Adds
<1>2. \A d \in 1 .. n + 1 : d \in 1 .. n \/ d = n + 1
  BY <1>1
<1>3. \A d \in 1 .. n : d \in 1 .. n + 1
  BY <1>1
<1>4. n + 1 \in 1 .. n + 1
  BY <1>1
<1> HIDE DEF n
<1>5. \A m \in SourceName :
        m \in VisibleNames(v) <=> \/ m \in VisibleNames(u)
                             \/ FileScopeName(v[n + 1], m)
  BY <1>1, <1>2, <1>3, <1>4 DEF VisibleNames
<1>6. \A m : FileScopeName(v[n + 1], m) <=>
        /\ s = TranslationUnit /\ name = m /\ kind \in Linked
        /\ Shown(v[n + 1])
  BY <1>1 DEF FileScopeName
<1>7. VisibleNames(u) \subseteq SourceName /\ VisibleNames(v) \subseteq SourceName
  BY DEF VisibleNames
<1> QED BY <1>5, <1>6, <1>7 DEF n

(* The only declaration of a name at file scope is shown. *)
Shows(v, u, n, top) ==
  /\ n \in Nat /\ top \in 1 .. n /\ DOMAIN u = 1 .. n /\ DOMAIN v = 1 .. n
  /\ \A d \in 1 .. n : d # top => v[d] = u[d]
  /\ SameDeclaration(v[top], u[top]) /\ Shown(v[top])
  /\ u[top].scope = TranslationUnit /\ u[top].space = "ORDINARY"
  /\ u[top].kind \in Linked /\ u[top].name \in SourceName
  /\ \A d \in 1 .. n : Twins(u, d, top) => d = top

LEMMA ShowLaw ==
  ASSUME NEW u, NEW v, NEW n, NEW top, DeclLaw(u), Shows(v, u, n, top)
  PROVE  DeclLaw(v) /\ VisibleNames(v) = VisibleNames(u) \cup {u[top].name}
<1> USE DEF Shows
<1>1. \A d \in 1 .. n :
        /\ v[d].scope = u[d].scope /\ v[d].space = u[d].space
        /\ v[d].kind = u[d].kind /\ v[d].name = u[d].name
        /\ v[d].alias = u[d].alias
        /\ d # top => v[d] = u[d]
  BY DEF SameDeclaration
<1>2. /\ LinkedOutside(u) /\ TagsApart(u) /\ LinkedLast(u) /\ AliasesMean(u)
      /\ OneEntity(u)
  BY DEF DeclLaw
<1>3. LinkedOutside(v) /\ TagsApart(v)
  BY <1>1, <1>2 DEF LinkedOutside, TagsApart
<1>4. \A d, e \in 1 .. n : Twins(v, d, e) <=> Twins(u, d, e)
  BY <1>1 DEF Twins
<1>5. LinkedLast(v)
  BY <1>1, <1>2, <1>4 DEF LinkedLast
<1>6. AliasesMean(v)
  <2> SUFFICES ASSUME NEW d \in 1 .. n, v[d].kind = "LINKAGE_ALIAS"
               PROVE  /\ Shown(v[d])
                      /\ v[d].alias \in 1 .. n
                      /\ MayTarget(v[v[d].alias], v[d].name)
    BY DEF AliasesMean
  <2>1. /\ Shown(u[d]) /\ u[d].alias \in 1 .. n
        /\ MayTarget(u[u[d].alias], u[d].name)
    BY <1>1, <1>2 DEF AliasesMean
  <2> QED BY <1>1, <2>1 DEF MayTarget
<1>7. \A d \in 1 .. n : Denoted(v, d) = Denoted(u, d)
  BY <1>1 DEF Denoted
<1>8. OneEntity(v)
  <2> SUFFICES ASSUME NEW d \in 1 .. n, NEW e \in 1 .. n,
                      Twins(v, d, e), v[d].name \in SourceName,
                      Shown(v[d]), Shown(v[e])
               PROVE  Denoted(v, d) = Denoted(v, e)
    BY DEF OneEntity
  <2>1. Twins(u, d, e) /\ Twins(u, e, d)
    BY <1>4 DEF Twins
  <2>2. CASE d # top /\ e # top
    BY <1>1, <1>2, <1>7, <2>1, <2>2 DEF OneEntity
  <2>3. CASE d = top \/ e = top
    BY <2>1, <2>3
  <2> QED BY <2>2, <2>3
<1>9. VisibleNames(v) = VisibleNames(u) \cup {u[top].name}
  <2>1. FileScopeName(v[top], u[top].name)
    BY <1>1 DEF FileScopeName
  <2>2. \A d \in 1 .. n : d # top => v[d] = u[d]
    BY <1>1
  <2>3. \A m : FileScopeName(v[top], m) => m = u[top].name
    BY <1>1 DEF FileScopeName
  <2>4. \A m : FileScopeName(u[top], m) => m = u[top].name
    BY DEF FileScopeName
  <2> QED BY <2>1, <2>2, <2>3, <2>4 DEF VisibleNames
<1> QED BY <1>3, <1>5, <1>6, <1>8, <1>9 DEF DeclLaw

(* Tags and enumerators move together to a scope that has none of them. *)
Moves(v, u, n, ids, s) ==
  /\ n \in Nat /\ DOMAIN u = 1 .. n /\ DOMAIN v = 1 .. n
  /\ \A d \in 1 .. n :
       /\ d \notin ids => v[d] = u[d]
       /\ d \in ids => v[d].scope = s
       /\ v[d].space = u[d].space /\ v[d].kind = u[d].kind
       /\ v[d].name = u[d].name /\ v[d].alias = u[d].alias
       /\ Shown(v[d]) <=> Shown(u[d])

MayMove(u, n, ids, s) ==
  /\ \A d \in ids : u[d].kind \in {"TAG", "ENUM_CONSTANT"}
  /\ \/ \A d \in ids : u[d].name \notin SourceName /\ u[d].kind = "TAG"
     \/ /\ s # TranslationUnit
        /\ \A d \in 1 .. n : u[d].scope # s
        /\ \A d, e \in ids : u[d].scope = u[e].scope

LEMMA MoveLaw ==
  ASSUME NEW u, NEW v, NEW n, NEW ids, NEW s, DeclLaw(u),
         Moves(v, u, n, ids, s), MayMove(u, n, ids, s)
  PROVE  DeclLaw(v) /\ VisibleNames(v) = VisibleNames(u)
<1> USE DEF Moves, MayMove
<1>1. \A d \in 1 .. n :
        /\ d \notin ids => v[d] = u[d]
        /\ d \in ids => v[d].scope = s /\ u[d].kind \in {"TAG", "ENUM_CONSTANT"}
        /\ v[d].space = u[d].space /\ v[d].kind = u[d].kind
        /\ v[d].name = u[d].name /\ v[d].alias = u[d].alias
        /\ Shown(v[d]) <=> Shown(u[d])
  OBVIOUS
<1>2. /\ LinkedOutside(u) /\ TagsApart(u) /\ LinkedLast(u) /\ AliasesMean(u)
      /\ OneEntity(u)
  BY DEF DeclLaw
<1>3. \A d \in 1 .. n : d \in ids => u[d].kind \notin Linked \cup {"UNKNOWN"}
  BY <1>1 DEF Linked
<1>4. LinkedOutside(v) /\ TagsApart(v)
  BY <1>1, <1>2, <1>3 DEF LinkedOutside, TagsApart
<1>5. ASSUME NEW d \in 1 .. n, NEW e \in 1 .. n, Twins(v, d, e),
             v[d].name \in SourceName
      PROVE  Twins(u, d, e)
  <2>1. CASE \A c \in ids : u[c].name \notin SourceName
    <3>1. d \notin ids /\ e \notin ids
      BY <1>1, <1>5, <2>1 DEF Twins
    <3> QED BY <1>1, <1>5, <3>1 DEF Twins
  <2>2. CASE /\ \A c \in 1 .. n : u[c].scope # s
             /\ \A b, c \in ids : u[b].scope = u[c].scope
    <3>1. d \in ids <=> e \in ids
      BY <1>1, <1>5, <2>2 DEF Twins
    <3> QED BY <1>1, <1>5, <2>2, <3>1 DEF Twins
  <2> QED BY <2>1, <2>2
<1>6. ASSUME NEW d \in 1 .. n, v[d].name \in SourceName,
             v[d].scope = TranslationUnit, v[d].space = "ORDINARY"
      PROVE  v[d] = u[d]
  BY <1>1, <1>6
<1>7. LinkedLast(v)
  BY <1>1, <1>2, <1>5, <1>6 DEF LinkedLast
<1>8. AliasesMean(v)
  <2> SUFFICES ASSUME NEW d \in 1 .. n, v[d].kind = "LINKAGE_ALIAS"
               PROVE  /\ Shown(v[d])
                      /\ v[d].alias \in 1 .. n
                      /\ MayTarget(v[v[d].alias], v[d].name)
    BY DEF AliasesMean
  <2>1. /\ Shown(u[d]) /\ u[d].alias \in 1 .. n
        /\ MayTarget(u[u[d].alias], u[d].name)
    BY <1>1, <1>2 DEF AliasesMean
  <2>2. u[d].alias \notin ids
    BY <1>3, <2>1 DEF MayTarget
  <2> QED BY <1>1, <2>1, <2>2
<1>9. \A d \in 1 .. n : Denoted(v, d) = Denoted(u, d)
  BY <1>1 DEF Denoted
<1>10. OneEntity(v)
  <2> SUFFICES ASSUME NEW d \in 1 .. n, NEW e \in 1 .. n,
                      Twins(v, d, e), v[d].name \in SourceName,
                      Shown(v[d]), Shown(v[e])
               PROVE  Denoted(v, d) = Denoted(v, e)
    BY DEF OneEntity
  <2>1. Twins(u, d, e) /\ u[d].name \in SourceName /\ Shown(u[d]) /\ Shown(u[e])
    BY <1>1, <1>5
  <2> QED BY <1>2, <1>9, <2>1 DEF OneEntity
<1>11. \A d \in 1 .. n :
         \A m : FileScopeName(v[d], m) <=> FileScopeName(u[d], m)
  <2> SUFFICES ASSUME NEW d \in 1 .. n, NEW m
               PROVE  FileScopeName(v[d], m) <=> FileScopeName(u[d], m)
    OBVIOUS
  <2>1. CASE d \in ids
    BY <1>1, <1>3, <2>1 DEF FileScopeName
  <2>2. CASE d \notin ids
    BY <1>1, <2>2
  <2> QED BY <2>1, <2>2
<1>12. VisibleNames(v) = VisibleNames(u)
  BY <1>11 DEF VisibleNames
<1> QED BY <1>4, <1>7, <1>8, <1>10, <1>12 DEF DeclLaw

(* The members of a new record, no two of one name. *)
AddsMembers(v, u, n, s, names, count) ==
  /\ n \in Nat /\ count \in Nat
  /\ DOMAIN u = 1 .. n /\ DOMAIN v = 1 .. n + count
  /\ \A d \in 1 .. n : v[d] = u[d] /\ u[d].scope # s
  /\ \A i \in 1 .. count :
       /\ v[n + i].scope = s /\ v[n + i].space = "MEMBER"
       /\ v[n + i].kind = "MEMBER" /\ v[n + i].name = names[i]
  /\ \A i, j \in 1 .. count : j < i => names[j] # names[i]

LEMMA MembersLaw ==
  ASSUME NEW u, NEW v, NEW n, NEW s, NEW names, NEW count, DeclLaw(u),
         AddsMembers(v, u, n, s, names, count)
  PROVE  DeclLaw(v) /\ VisibleNames(v) = VisibleNames(u)
<1> USE DEF AddsMembers
<1>1. \A d \in 1 .. n + count :
        \/ d \in 1 .. n
        \/ d - n \in 1 .. count /\ d = n + (d - n)
  OBVIOUS
<1>2. \A d \in 1 .. n : d \in 1 .. n + count
  OBVIOUS
<1>3. ASSUME NEW d \in 1 .. n + count, d \notin 1 .. n
      PROVE  /\ v[d].scope = s /\ v[d].space = "MEMBER"
             /\ v[d].kind = "MEMBER" /\ v[d].name = names[d - n]
             /\ d - n \in 1 .. count
  <2>1. PICK i \in 1 .. count : i = d - n /\ d = n + i
    BY <1>1, <1>3
  <2> QED BY <2>1
<1>4. /\ LinkedOutside(u) /\ TagsApart(u) /\ LinkedLast(u) /\ AliasesMean(u)
      /\ OneEntity(u)
  BY DEF DeclLaw
<1>5. LinkedOutside(v) /\ TagsApart(v)
  <2>1. ASSUME NEW d \in 1 .. n + count
        PROVE  /\ v[d].kind \in Linked =>
                    v[d].scope = TranslationUnit /\ v[d].space = "ORDINARY"
               /\ v[d].kind = "TAG" => v[d].space = "TAG"
    <3>1. CASE d \in 1 .. n
      BY <1>4, <3>1 DEF LinkedOutside, TagsApart
    <3>2. CASE d \notin 1 .. n
      BY <1>3, <3>2 DEF Linked
    <3> QED BY <3>1, <3>2
  <2> QED BY <2>1 DEF LinkedOutside, TagsApart
<1>6. ASSUME NEW d \in 1 .. n + count, NEW e \in 1 .. n + count,
             Twins(v, d, e), d # e
      PROVE  d \in 1 .. n /\ e \in 1 .. n /\ Twins(u, d, e)
  <2>1. CASE d \in 1 .. n /\ e \in 1 .. n
    BY <1>6, <2>1 DEF Twins
  <2>2. CASE d \in 1 .. n /\ e \notin 1 .. n
    <3>1. v[e].scope = s /\ v[d] = u[d]
      BY <1>3, <2>2
    <3> QED BY <1>6, <2>2, <3>1 DEF Twins
  <2>3. CASE d \notin 1 .. n /\ e \in 1 .. n
    <3>1. v[d].scope = s /\ v[e] = u[e]
      BY <1>3, <2>3
    <3> QED BY <1>6, <2>3, <3>1 DEF Twins
  <2>4. CASE d \notin 1 .. n /\ e \notin 1 .. n
    <3>1. /\ d - n \in 1 .. count /\ e - n \in 1 .. count
          /\ names[d - n] = names[e - n]
      BY <1>3, <1>6, <2>4 DEF Twins
    <3>2. d - n < e - n \/ e - n < d - n
      BY <1>6, <3>1
    <3> QED BY <3>1, <3>2
  <2> QED BY <2>1, <2>2, <2>3, <2>4
<1>7. LinkedLast(v)
  <2> SUFFICES ASSUME NEW d \in 1 .. n + count, NEW e \in 1 .. n + count,
                      d < e, Twins(v, d, e), v[d].name \in SourceName,
                      v[d].scope = TranslationUnit, v[d].space = "ORDINARY"
               PROVE  v[d].kind \in Weak
    BY DEF LinkedLast
  <2>1. d \in 1 .. n /\ e \in 1 .. n /\ Twins(u, d, e)
    BY <1>6
  <2> QED BY <1>4, <2>1 DEF LinkedLast
<1>8. AliasesMean(v)
  <2> SUFFICES ASSUME NEW d \in 1 .. n + count, v[d].kind = "LINKAGE_ALIAS"
               PROVE  /\ Shown(v[d])
                      /\ v[d].alias \in 1 .. n + count
                      /\ MayTarget(v[v[d].alias], v[d].name)
    BY DEF AliasesMean
  <2>1. d \in 1 .. n
    BY <1>3
  <2>2. /\ Shown(u[d]) /\ u[d].alias \in 1 .. n
        /\ MayTarget(u[u[d].alias], u[d].name)
    BY <1>4, <2>1 DEF AliasesMean
  <2> QED BY <1>2, <2>1, <2>2
<1>9. \A d \in 1 .. n : Denoted(v, d) = Denoted(u, d)
  BY DEF Denoted
<1>10. OneEntity(v)
  <2> SUFFICES ASSUME NEW d \in 1 .. n + count, NEW e \in 1 .. n + count,
                      Twins(v, d, e), v[d].name \in SourceName,
                      Shown(v[d]), Shown(v[e]), d # e
               PROVE  Denoted(v, d) = Denoted(v, e)
    BY DEF OneEntity
  <2>1. d \in 1 .. n /\ e \in 1 .. n /\ Twins(u, d, e)
    BY <1>6
  <2> QED BY <1>4, <1>9, <2>1 DEF OneEntity
<1>11. \A d \in 1 .. n + count :
         \A m : FileScopeName(v[d], m) => d \in 1 .. n
  BY <1>3 DEF FileScopeName, Linked
<1>12. VisibleNames(v) = VisibleNames(u)
  BY <1>2, <1>11 DEF VisibleNames
<1> QED BY <1>5, <1>7, <1>8, <1>10, <1>12 DEF DeclLaw

(* The functions of a stream are forgotten. *)
Forgets(v, u, n, ids) ==
  /\ n \in Nat /\ DOMAIN u = 1 .. n /\ DOMAIN v = 1 .. n
  /\ ids = {d \in 1 .. n : u[d].kind = "FUNCTION"}
  /\ \A d \in 1 .. n :
       /\ d \notin ids => v[d] = u[d]
       /\ d \in ids => v[d].kind = "UNKNOWN"
       /\ v[d].scope = u[d].scope /\ v[d].space = u[d].space
       /\ v[d].name = u[d].name

LEMMA ForgetLaw ==
  ASSUME NEW u, NEW v, NEW n, NEW ids, DeclLaw(u), Forgets(v, u, n, ids)
  PROVE  /\ DeclLaw(v)
         /\ VisibleNames(v) = VisibleNames(u) \ {u[d].name : d \in ids}
<1> USE DEF Forgets
<1>1. \A d \in 1 .. n :
        /\ v[d].kind # "UNKNOWN" => v[d] = u[d] /\ d \notin ids
        /\ v[d].kind = u[d].kind \/ v[d].kind = "UNKNOWN"
        /\ d \notin ids => v[d] = u[d]
        /\ v[d].scope = u[d].scope /\ v[d].space = u[d].space
        /\ v[d].name = u[d].name
  OBVIOUS
<1>2. /\ LinkedOutside(u) /\ TagsApart(u) /\ LinkedLast(u) /\ AliasesMean(u)
      /\ OneEntity(u)
  BY DEF DeclLaw
<1>3. LinkedOutside(v) /\ TagsApart(v)
  BY <1>1, <1>2 DEF LinkedOutside, TagsApart, Linked
<1>4. \A d, e \in 1 .. n :
        Twins(v, d, e) => Twins(u, d, e) /\ v[d] = u[d] /\ v[e] = u[e]
  BY <1>1 DEF Twins
<1>5. LinkedLast(v)
  BY <1>2, <1>4 DEF LinkedLast
<1>6. AliasesMean(v)
  <2> SUFFICES ASSUME NEW d \in 1 .. n, v[d].kind = "LINKAGE_ALIAS"
               PROVE  /\ Shown(v[d])
                      /\ v[d].alias \in 1 .. n
                      /\ MayTarget(v[v[d].alias], v[d].name)
    BY DEF AliasesMean
  <2>1. /\ v[d] = u[d] /\ Shown(u[d]) /\ u[d].alias \in 1 .. n
        /\ MayTarget(u[u[d].alias], u[d].name)
    BY <1>1, <1>2 DEF AliasesMean
  <2> QED BY <1>1, <2>1 DEF MayTarget
<1>7. OneEntity(v)
  <2> SUFFICES ASSUME NEW d \in 1 .. n, NEW e \in 1 .. n,
                      Twins(v, d, e), v[d].name \in SourceName,
                      Shown(v[d]), Shown(v[e])
               PROVE  Denoted(v, d) = Denoted(v, e)
    BY DEF OneEntity
  <2>1. Twins(u, d, e) /\ v[d] = u[d] /\ v[e] = u[e]
    BY <1>4
  <2>2. Denoted(u, d) = Denoted(u, e)
    BY <1>2, <2>1 DEF OneEntity
  <2> QED BY <2>1, <2>2 DEF Denoted
<1>8. ASSUME NEW m \in SourceName, NEW d \in 1 .. n, NEW e \in ids,
             FileScopeName(v[d], m), u[e].name = m
      PROVE  FALSE
  <2>1. /\ d \notin ids /\ v[d] = u[d] /\ e \in 1 .. n
        /\ u[d].kind \in Linked /\ u[e].kind \in Linked
    BY <1>1, <1>8 DEF FileScopeName, Linked
  <2>2. /\ u[d].scope = 1 /\ u[e].scope = 1 /\ u[d].space = "ORDINARY"
        /\ u[e].space = "ORDINARY" /\ u[d].name = m /\ u[e].name = m
    BY <1>2, <1>8, <2>1 DEF LinkedOutside, TranslationUnit, FileScopeName
  <2>3. Twins(u, d, e) /\ Twins(u, e, d)
    BY <2>1, <2>2 DEF Twins, Linked
  <2>4. d < e \/ e < d
    BY <2>1
  <2>5. u[d].kind \in Weak \/ u[e].kind \in Weak
    BY <1>2, <2>1, <2>2, <2>3, <2>4 DEF LinkedLast, TranslationUnit
  <2> QED BY <2>1, <2>5 DEF Weak, Linked
<1>9. VisibleNames(v) \subseteq VisibleNames(u)
  BY <1>1 DEF VisibleNames, FileScopeName, Linked
<1>10. ASSUME NEW m \in VisibleNames(u), \A e \in ids : u[e].name # m
       PROVE  m \in VisibleNames(v)
  <2>1. PICK d \in 1 .. n : FileScopeName(u[d], m)
    BY DEF VisibleNames
  <2>2. d \notin ids
    BY <1>10, <2>1 DEF FileScopeName
  <2>3. FileScopeName(v[d], m)
    BY <1>1, <2>1, <2>2
  <2> QED BY <2>3 DEF VisibleNames
<1>11. ASSUME NEW m \in VisibleNames(v)
       PROVE  \A e \in ids : u[e].name # m
  BY <1>8 DEF VisibleNames
<1> QED BY <1>3, <1>5, <1>6, <1>7, <1>9, <1>10, <1>11 DEF DeclLaw

----------------------------------------
(* The scopes around a scope, and what a lookup at a point passes over. *)

(* A nonempty set of numbers has a least member. *)
LEMMA LeastOf ==
  ASSUME NEW T, T \subseteq Nat, T # {}
  PROVE  \E x \in T : \A y \in T : x <= y
<1> DEFINE R == OpToRel(<, Nat)
<1>1. IsWellFoundedOn(R, Nat)
  BY NatLessThanWellFounded
<1>2. \A x, y \in Nat : x < y => <<x, y>> \in R
  BY DEF OpToRel
<1> HIDE DEF R
<1>3. PICK x \in T : \A y \in T : <<y, x>> \notin R
  BY <1>1, WFMin, Zenon
<1>4. \A y \in T : ~(y < x)
  BY <1>2, <1>3
<1>5. \A y \in T : x <= y
  <2>1. \A y \in T : x \in Nat /\ y \in Nat
    OBVIOUS
  <2> QED BY <1>4, <2>1
<1> QED BY <1>5

(* Enclosing chooses the chain of a scope: there is one, and it depends on *)
(* the parents of the scopes below only.                                   *)
IsChain(g, f, s) ==
  f = [t \in 1 .. s |->
         IF t = TranslationUnit THEN {t} ELSE {t} \cup f[g.scopes[t].parent]]

LEMMA ChainLaw ==
  ASSUME NEW g, NEW f, NEW s \in Nat, IsChain(g, f, s)
  PROVE  \A t \in 1 .. s :
           /\ t = 1 => f[t] = {t}
           /\ t # 1 => f[t] = {t} \cup f[g.scopes[t].parent]
<1> SUFFICES ASSUME NEW t \in 1 .. s
             PROVE  /\ t = 1 => f[t] = {t}
                    /\ t # 1 => f[t] = {t} \cup f[g.scopes[t].parent]
  OBVIOUS
<1>1. f[t] = IF t = TranslationUnit THEN {t}
                                    ELSE {t} \cup f[g.scopes[t].parent]
  BY Zenon DEF IsChain
<1> QED BY <1>1 DEF TranslationUnit

LEMMA ChainExists ==
  ASSUME NEW g, Good(g), NEW s \in 1 .. Len(g.scopes)
  PROVE  \E f : IsChain(g, f, s)
<1> DEFINE T == {t \in 1 .. Len(g.scopes) : ~ \E f : IsChain(g, f, t)}
<1> SUFFICES ASSUME T # {}
             PROVE  FALSE
  OBVIOUS
<1>1. T \subseteq Nat
  BY GraphParts
<1>2. PICK t \in T : \A y \in T : t <= y
  <2> HIDE DEF T
  <2> QED BY <1>1, LeastOf
<1>3. t \in 1 .. Len(g.scopes) /\ t \in Nat
  BY GraphParts
<1>4. t # 1
  <2> SUFFICES ASSUME t = 1
               PROVE  FALSE
    OBVIOUS
  <2> DEFINE f == [r \in 1 .. 1 |-> {r}]
  <2>1. f = [r \in 1 .. 1 |-> f[r]] /\ \A r \in 1 .. 1 : f[r] = {r}
    OBVIOUS
  <2> HIDE DEF f
  <2>2. \A r \in 1 .. 1 :
          f[r] = IF r = TranslationUnit THEN {r}
                 ELSE {r} \cup f[g.scopes[r].parent]
    BY <2>1 DEF TranslationUnit
  <2>3. f = [r \in 1 .. 1 |->
               IF r = TranslationUnit THEN {r}
               ELSE {r} \cup f[g.scopes[r].parent]]
    BY <2>1, <2>2
  <2>4. IsChain(g, f, 1)
    BY <2>3 DEF IsChain
  <2> QED BY <2>4
<1>5. t - 1 \in 1 .. Len(g.scopes) /\ t - 1 \notin T
  BY <1>2, <1>3, <1>4, GraphParts
<1>6. PICK k : IsChain(g, k, t - 1)
  BY <1>5
<1> DEFINE f == [r \in 1 .. t |->
                   IF r = t THEN {t} \cup k[g.scopes[t].parent] ELSE k[r]]
<1>7. \A r \in 1 .. t : r # 1 => g.scopes[r].parent \in 1 .. r - 1
  <2>1. \A r \in 1 .. t : r \in 1 .. Len(g.scopes)
    BY <1>3, GraphParts
  <2> QED BY <2>1, ScopeParts
<1>8. \A r \in 1 .. t - 1 :
        /\ r = 1 => k[r] = {r}
        /\ r # 1 => k[r] = {r} \cup k[g.scopes[r].parent]
  BY <1>3, <1>4, <1>6, ChainLaw
<1>9. \A r \in 1 .. t - 1 : f[r] = k[r]
  BY <1>3
<1>10. f[t] = {t} \cup k[g.scopes[t].parent]
  BY <1>3, <1>4
<1> HIDE DEF f
<1>11. ASSUME NEW r \in 1 .. t
       PROVE  f[r] = IF r = TranslationUnit THEN {r}
                     ELSE {r} \cup f[g.scopes[r].parent]
  <2>1. CASE r = t
    <3>1. g.scopes[t].parent \in 1 .. t - 1
      BY <1>3, <1>4, <1>7
    <3> QED BY <1>4, <1>9, <1>10, <2>1, <3>1 DEF TranslationUnit
  <2>2. CASE r # t /\ r = 1
    <3>1. r \in 1 .. t - 1
      BY <1>3, <2>2
    <3> QED BY <1>8, <1>9, <2>2, <3>1 DEF TranslationUnit
  <2>3. CASE r # t /\ r # 1
    <3>1. r \in 1 .. t - 1 /\ g.scopes[r].parent \in 1 .. t - 1
      BY <1>3, <1>7, <2>3
    <3> QED BY <1>8, <1>9, <2>3, <3>1 DEF TranslationUnit
  <2> QED BY <2>1, <2>2, <2>3
<1>12. f = [r \in 1 .. t |->
              IF r = TranslationUnit THEN {r}
              ELSE {r} \cup f[g.scopes[r].parent]]
  <2>1. f = [r \in 1 .. t |-> f[r]]
    BY DEF f
  <2> QED BY <1>11, <2>1
<1>13. IsChain(g, f, t)
  BY <1>12 DEF IsChain
<1> QED BY <1>13

LEMMA EnclosingIs ==
  ASSUME NEW g, Good(g), NEW s \in 1 .. Len(g.scopes)
  PROVE  \E f : IsChain(g, f, s) /\ Enclosing(g, s) = f[s]
<1> DEFINE f == CHOOSE f : IsChain(g, f, s)
<1>1. IsChain(g, f, s)
  BY ChainExists, Zenon
<1>2. Enclosing(g, s) = f[s]
  BY Zenon DEF Enclosing, IsChain
<1> QED BY <1>1, <1>2

(* The scopes around a scope stay those they were. *)
LEMMA EnclosingSame ==
  ASSUME NEW g, NEW h, Good(g), Good(h), Len(g.scopes) <= Len(h.scopes),
         \A t \in 1 .. Len(g.scopes) : SameScope(h.scopes[t], g.scopes[t]),
         NEW s \in 1 .. Len(g.scopes)
  PROVE  Enclosing(h, s) = Enclosing(g, s)
<1>1. s \in 1 .. Len(h.scopes) /\ s \in Nat
  BY GraphParts
<1>2. PICK f : IsChain(g, f, s) /\ Enclosing(g, s) = f[s]
  BY EnclosingIs
<1>3. PICK k : IsChain(h, k, s) /\ Enclosing(h, s) = k[s]
  BY <1>1, EnclosingIs
<1> DEFINE T == {t \in 1 .. s : f[t] # k[t]}
<1> SUFFICES ASSUME T # {}
             PROVE  FALSE
  BY <1>1, <1>2, <1>3
<1>4. T \subseteq Nat
  OBVIOUS
<1>5. PICK t \in T : \A y \in T : t <= y
  <2> HIDE DEF T
  <2> QED BY <1>4, LeastOf
<1>6. t \in 1 .. s /\ t \in 1 .. Len(g.scopes)
  BY <1>1, GraphParts
<1>7. /\ t = 1 => f[t] = {t}
      /\ t # 1 => f[t] = {t} \cup f[g.scopes[t].parent]
  BY <1>1, <1>2, <1>6, ChainLaw
<1>8. /\ t = 1 => k[t] = {t}
      /\ t # 1 => k[t] = {t} \cup k[h.scopes[t].parent]
  BY <1>1, <1>3, <1>6, ChainLaw
<1>9. h.scopes[t].parent = g.scopes[t].parent
  BY <1>6 DEF SameScope
<1>10. CASE t = 1
  BY <1>7, <1>8, <1>10
<1>11. CASE t # 1
  <2>1. g.scopes[t].parent \in 1 .. t - 1
    BY <1>6, <1>11, ScopeParts
  <2>2. g.scopes[t].parent \in 1 .. s /\ g.scopes[t].parent < t
    BY <1>1, <1>6, <2>1
  <2>3. g.scopes[t].parent \notin T
    BY <1>5, <1>6, <2>2
  <2>4. f[g.scopes[t].parent] = k[g.scopes[t].parent]
    BY <2>2, <2>3
  <2> QED BY <1>7, <1>8, <1>9, <1>11, <2>4
<1> QED BY <1>10, <1>11

(* Blocks stand in functions, and functions at file scope. *)
ScopeLaw(ss) ==
  /\ ss[TranslationUnit].kind = "TRANSLATION_UNIT"
  /\ \A s \in DOMAIN ss :
       /\ ss[s].kind = "FUNCTION" => ss[s].parent = TranslationUnit
       /\ ss[s].kind = "BLOCK" =>
            /\ ss[ss[s].parent].kind \in {"FUNCTION", "BLOCK"}
            /\ ss[s].root = ss[ss[s].parent].root

LEMMA EnclosingRoots ==
  ASSUME NEW g, Good(g), ScopeLaw(g.scopes), NEW s \in 1 .. Len(g.scopes),
         g.scopes[s].kind \in {"FUNCTION", "BLOCK"}
  PROVE  \A r \in Enclosing(g, s) :
           /\ r \in 1 .. Len(g.scopes)
           /\ r = TranslationUnit \/ Root(g, r) = Root(g, s)
<1>1. PICK f : IsChain(g, f, s) /\ Enclosing(g, s) = f[s]
  BY EnclosingIs
<1> DEFINE Held(t) == \A r \in f[t] :
                        /\ r \in 1 .. Len(g.scopes)
                        /\ r = TranslationUnit \/ Root(g, r) = Root(g, t)
           T == {t \in 1 .. s :
                   g.scopes[t].kind \in {"FUNCTION", "BLOCK"} /\ ~Held(t)}
<1>2. s \in Nat /\ s \in 1 .. s
  BY GraphParts
<1> SUFFICES ASSUME T # {}
             PROVE  FALSE
  BY <1>1, <1>2
<1>3. T \subseteq Nat
  OBVIOUS
<1>4. PICK t \in T : \A y \in T : t <= y
  <2> HIDE DEF T
  <2> QED BY <1>3, LeastOf
<1>5. /\ t \in 1 .. s /\ t \in 1 .. Len(g.scopes)
      /\ g.scopes[t].kind \in {"FUNCTION", "BLOCK"} /\ ~Held(t)
  BY <1>2, GraphParts
<1>6. \A q \in 1 .. s : /\ q = 1 => f[q] = {q}
                        /\ q # 1 => f[q] = {q} \cup f[g.scopes[q].parent]
  BY <1>1, <1>2, ChainLaw
<1>7. 1 \in 1 .. s
  BY <1>2
<1>8. CASE t = 1
  BY <1>5, <1>6, <1>8 DEF TranslationUnit
<1>9. CASE t # 1 /\ g.scopes[t].kind = "FUNCTION"
  <2>1. g.scopes[t].parent = 1
    BY <1>5, <1>9, GraphParts DEF ScopeLaw, TranslationUnit
  <2>2. f[t] = {t} \cup {1} /\ 1 \in 1 .. Len(g.scopes)
    BY <1>5, <1>6, <1>7, <1>9, <2>1, GraphParts
  <2> QED BY <1>5, <2>2 DEF TranslationUnit
<1>10. CASE t # 1 /\ g.scopes[t].kind = "BLOCK"
  <2> DEFINE p == g.scopes[t].parent
  <2>1. /\ g.scopes[p].kind \in {"FUNCTION", "BLOCK"}
        /\ Root(g, t) = Root(g, p)
    BY <1>5, <1>10, GraphParts DEF ScopeLaw, Root
  <2>2. p \in 1 .. t - 1
    BY <1>5, <1>10, ScopeParts
  <2>3. p \in 1 .. s /\ p < t
    BY <1>2, <1>5, <2>2
  <2>4. p \notin T
    BY <1>4, <1>5, <2>3
  <2>5. Held(p)
    BY <2>1, <2>3, <2>4
  <2>6. f[t] = {t} \cup f[p]
    BY <1>5, <1>6, <1>10
  <2> HIDE DEF p
  <2> QED BY <1>5, <2>1, <2>5, <2>6
<1> QED BY <1>5, <1>8, <1>9, <1>10

----------------------------------------
(* Nothing that h adds to g is seen from a point of g in a block. *)

Unseen(D, g) ==
  \/ D.space # "ORDINARY"
  \/ D.name \notin SourceName
  \/ ~Shown(D)
  \/ /\ D.scope # TranslationUnit
     /\ D.scope \in 1 .. Len(g.scopes) =>
          D.order > g.scopes[Root(g, D.scope)].order

Quiet(h, g) ==
  /\ Len(g.scopes) <= Len(h.scopes)
  /\ Len(g.declarations) <= Len(h.declarations)
  /\ \A t \in 1 .. Len(g.scopes) :
       /\ SameScope(h.scopes[t], g.scopes[t])
       /\ g.scopes[t].order <= h.scopes[t].order
  /\ \A d \in 1 .. Len(g.declarations) :
       /\ h.declarations[d].space = g.declarations[d].space
       /\ g.declarations[d].space = "ORDINARY" =>
            h.declarations[d] = g.declarations[d]
  /\ \A d \in Len(g.declarations) + 1 .. Len(h.declarations) :
       Unseen(h.declarations[d], g)

LEMMA QuietReflexive ==
  ASSUME NEW g, Good(g)
  PROVE  Quiet(g, g)
<1>1. Len(g.scopes) \in Nat /\ Len(g.declarations) \in Nat
  BY GraphParts
<1>2. \A t \in 1 .. Len(g.scopes) : g.scopes[t].order <= g.scopes[t].order
  BY ScopeParts
<1> QED BY <1>1, <1>2 DEF Quiet, SameScope

LEMMA QuietTransitive ==
  ASSUME NEW g, NEW h, NEW k, Good(g), Good(h), Good(k),
         Quiet(h, g), Quiet(k, h)
  PROVE  Quiet(k, g)
<1>1. /\ Len(g.scopes) \in Nat /\ Len(g.declarations) \in Nat
      /\ Len(h.scopes) \in Nat /\ Len(h.declarations) \in Nat
      /\ Len(k.scopes) \in Nat /\ Len(k.declarations) \in Nat
  BY GraphParts
<1>2. /\ Len(g.scopes) <= Len(h.scopes) /\ Len(h.scopes) <= Len(k.scopes)
      /\ Len(g.declarations) <= Len(h.declarations)
      /\ Len(h.declarations) <= Len(k.declarations)
  BY DEF Quiet
<1>3. ASSUME NEW t \in 1 .. Len(g.scopes)
      PROVE  /\ SameScope(k.scopes[t], g.scopes[t])
             /\ g.scopes[t].order <= k.scopes[t].order
             /\ g.scopes[t].order <= h.scopes[t].order
             /\ Root(h, t) = Root(g, t)
  <2>1. t \in 1 .. Len(h.scopes) /\ t \in 1 .. Len(k.scopes)
    BY <1>1, <1>2
  <2>2. /\ SameScope(h.scopes[t], g.scopes[t])
        /\ SameScope(k.scopes[t], h.scopes[t])
        /\ g.scopes[t].order <= h.scopes[t].order
        /\ h.scopes[t].order <= k.scopes[t].order
    BY <2>1 DEF Quiet
  <2>3. /\ g.scopes[t].order \in Nat /\ h.scopes[t].order \in Nat
        /\ k.scopes[t].order \in Nat
    BY <2>1, ScopeParts
  <2> QED BY <2>2, <2>3 DEF SameScope, Root
<1>4. ASSUME NEW d \in 1 .. Len(g.declarations)
      PROVE  /\ k.declarations[d].space = g.declarations[d].space
             /\ g.declarations[d].space = "ORDINARY" =>
                  k.declarations[d] = g.declarations[d]
  <2>1. d \in 1 .. Len(h.declarations)
    BY <1>1, <1>2
  <2> QED BY <2>1 DEF Quiet
<1>5. ASSUME NEW D, Unseen(D, h), D.order \in Nat
      PROVE  Unseen(D, g)
  <2> SUFFICES ASSUME D.scope # TranslationUnit,
                      D.scope \in 1 .. Len(g.scopes),
                      D.scope \in 1 .. Len(h.scopes) =>
                        D.order > h.scopes[Root(h, D.scope)].order
               PROVE  D.order > g.scopes[Root(g, D.scope)].order
    BY <1>5 DEF Unseen
  <2>1. D.scope \in 1 .. Len(h.scopes)
    BY <1>1, <1>2
  <2>2. /\ Root(h, D.scope) = Root(g, D.scope)
        /\ Root(g, D.scope) \in 1 .. Len(g.scopes)
    BY <1>3, ScopeParts
  <2>3. g.scopes[Root(g, D.scope)].order <= h.scopes[Root(g, D.scope)].order
    BY <1>3, <2>2
  <2>4. /\ g.scopes[Root(g, D.scope)].order \in Nat
        /\ h.scopes[Root(g, D.scope)].order \in Nat
    <3> DEFINE r == Root(g, D.scope)
    <3> HIDE DEF r
    <3>1. r \in 1 .. Len(g.scopes)
      BY <2>2 DEF r
    <3>2. r \in 1 .. Len(h.scopes)
      BY <1>1, <1>2, <3>1
    <3>3. g.scopes[r].order \in Nat /\ h.scopes[r].order \in Nat
      BY <3>1, <3>2, ScopeParts
    <3> QED BY <3>3 DEF r
  <2>5. D.order > h.scopes[Root(g, D.scope)].order
    BY <2>1, <2>2
  <2> QED BY <1>5, <2>3, <2>4, <2>5
<1>6. ASSUME NEW d \in Len(g.declarations) + 1 .. Len(k.declarations)
      PROVE  Unseen(k.declarations[d], g)
  <2>1. CASE d \in 1 .. Len(h.declarations)
    <3>1. d \in Len(g.declarations) + 1 .. Len(h.declarations)
      BY <1>1, <2>1
    <3>2. Unseen(h.declarations[d], g)
      BY <3>1 DEF Quiet
    <3>3. /\ k.declarations[d].space = h.declarations[d].space
          /\ h.declarations[d].space = "ORDINARY" =>
               k.declarations[d] = h.declarations[d]
      BY <2>1 DEF Quiet
    <3> QED BY <3>2, <3>3 DEF Unseen
  <2>2. CASE d \notin 1 .. Len(h.declarations)
    <3>1. d \in Len(h.declarations) + 1 .. Len(k.declarations)
      BY <1>1, <1>2, <2>2
    <3>2. Unseen(k.declarations[d], h)
      BY <3>1 DEF Quiet
    <3>3. d \in 1 .. Len(k.declarations)
      BY <1>1, <3>1
    <3>4. k.declarations[d].order \in Nat
      BY <3>3, DeclarationParts
    <3> QED BY <1>5, <3>2, <3>4
  <2> QED BY <2>1, <2>2
<1> QED BY <1>1, <1>2, <1>3, <1>4, <1>6 DEF Quiet

LEMMA LookupSame ==
  ASSUME NEW g, NEW h, Good(g), Good(h), Quiet(h, g), ScopeLaw(g.scopes),
         AliasesMean(g.declarations), NEW name \in SourceName, NEW point,
         point.scope \in 1 .. Len(g.scopes), point.order \in Nat,
         point.order <= g.scopes[Root(g, point.scope)].order,
         g.scopes[point.scope].kind \in {"FUNCTION", "BLOCK"}
  PROVE  Lookup(h, "ORDINARY", name, point)
           = Lookup(g, "ORDINARY", name, point)
<1> DEFINE F(x) == {d \in DOMAIN x.declarations :
                      /\ x.declarations[d].scope \in Enclosing(x, point.scope)
                      /\ ~x.declarations[d].hidden
                      /\ Matches(x, d, "ORDINARY", name)
                      /\ DeclaredBefore(x, d, "ORDINARY", point)
                      /\ Targeted(x, d)}
           m == Len(g.declarations)
           n == Len(h.declarations)
<1>1. /\ m \in Nat /\ n \in Nat /\ m <= n
      /\ DOMAIN g.declarations = 1 .. m /\ DOMAIN h.declarations = 1 .. n
      /\ Len(g.scopes) \in Nat /\ Len(h.scopes) \in Nat
      /\ Len(g.scopes) <= Len(h.scopes)
  BY GraphParts DEF Quiet
<1>2. /\ \A d \in 1 .. m : /\ h.declarations[d].space = g.declarations[d].space
                           /\ g.declarations[d].space = "ORDINARY" =>
                                h.declarations[d] = g.declarations[d]
      /\ \A d \in m + 1 .. n : Unseen(h.declarations[d], g)
      /\ \A t \in 1 .. Len(g.scopes) : SameScope(h.scopes[t], g.scopes[t])
  BY DEF Quiet
<1>3. Enclosing(h, point.scope) = Enclosing(g, point.scope)
  BY <1>1, <1>2, EnclosingSame
<1>4. \A t \in 1 .. Len(g.scopes) : Root(h, t) = Root(g, t)
  BY <1>2 DEF SameScope, Root
<1> HIDE DEF m, n
<1>5. ASSUME NEW d \in 1 .. m, g.declarations[d].space = "ORDINARY"
      PROVE  d \in F(h) <=> d \in F(g)
  <2>1. h.declarations[d] = g.declarations[d] /\ d \in 1 .. n
    BY <1>1, <1>2, <1>5
  <2>2. g.declarations[d].scope \in 1 .. Len(g.scopes)
    BY DeclarationParts DEF m
  <2>3. DeclaredBefore(h, d, "ORDINARY", point)
          <=> DeclaredBefore(g, d, "ORDINARY", point)
    BY <1>4, <2>1, <2>2 DEF DeclaredBefore
  <2>4. Targeted(h, d) <=> Targeted(g, d)
    <3>1. CASE g.declarations[d].kind = "LINKAGE_ALIAS"
      <4> DEFINE t == g.declarations[d].alias
      <4>1. t \in 1 .. m /\ MayTarget(g.declarations[t], g.declarations[d].name)
        BY <1>1, <3>1 DEF AliasesMean
      <4>2. h.declarations[t] = g.declarations[t]
        BY <1>2, <4>1 DEF MayTarget
      <4> QED BY <2>1, <4>2 DEF Targeted
    <3>2. CASE g.declarations[d].kind # "LINKAGE_ALIAS"
      BY <2>1, <3>2 DEF Targeted
    <3> QED BY <3>1, <3>2
  <2>5. Matches(h, d, "ORDINARY", name) <=> Matches(g, d, "ORDINARY", name)
    BY <2>1 DEF Matches
  <2>6. h.declarations[d].hidden <=> g.declarations[d].hidden
    BY <2>1
  <2> QED BY <1>1, <1>3, <2>1, <2>3, <2>4, <2>5, <2>6
<1>6. ASSUME NEW d \in 1 .. m, g.declarations[d].space # "ORDINARY"
      PROVE  d \notin F(h) /\ d \notin F(g)
  BY <1>2, <1>6 DEF Matches
<1>7. ASSUME NEW d \in m + 1 .. n, d \in F(h)
      PROVE  FALSE
  <2> DEFINE s == h.declarations[d].scope
  <2>1. Unseen(h.declarations[d], g)
    BY <1>2
  <2>2. /\ s \in Enclosing(g, point.scope) /\ ~h.declarations[d].hidden
        /\ Matches(h, d, "ORDINARY", name)
        /\ DeclaredBefore(h, d, "ORDINARY", point)
    BY <1>3, <1>7
  <2>3. Shown(h.declarations[d])
    BY <2>2 DEF Shown
  <2>4. s # TranslationUnit /\ s \in 1 .. Len(g.scopes) =>
          h.declarations[d].order > g.scopes[Root(g, s)].order
    BY <2>1, <2>2, <2>3 DEF Unseen, Matches
  <2>5. s # TranslationUnit
    BY <2>1, <2>2, <2>3 DEF Unseen, Matches
  <2>6. s \in 1 .. Len(g.scopes) /\ Root(g, s) = Root(g, point.scope)
    BY <2>2, <2>5, EnclosingRoots
  <2>7. Root(h, s) = Root(h, point.scope)
    BY <1>4, <2>6
  <2>8. h.declarations[d].order <= point.order
    BY <2>2, <2>7 DEF DeclaredBefore
  <2>9. h.declarations[d].order > g.scopes[Root(g, point.scope)].order
    BY <2>4, <2>5, <2>6
  <2>10. /\ h.declarations[d].order \in Nat
         /\ g.scopes[Root(g, point.scope)].order \in Nat
    <3>1. d \in 1 .. Len(h.declarations)
      BY <1>1 DEF n
    <3>2. Root(g, point.scope) \in 1 .. Len(g.scopes)
      BY ScopeParts
    <3> QED BY <3>1, <3>2, ScopeParts, DeclarationParts
  <2> HIDE DEF s
  <2> QED BY <2>8, <2>9, <2>10
<1>8. F(g) \subseteq 1 .. m /\ F(h) \subseteq 1 .. n
  BY <1>1
<1>9. \A d \in F(g) : g.declarations[d].space = "ORDINARY"
  BY DEF Matches
<1> DEFINE Fg == F(g)
           Fh == F(h)
           scope(x) == Innermost({x.declarations[d].scope : d \in F(x)})
           last(x)  == Innermost({d \in F(x) : x.declarations[d].scope
                                                  = scope(x)})
<1>10. \A x : Lookup(x, "ORDINARY", name, point) =
         IF F(x) = {} THEN Invalid
         ELSE IF x.declarations[last(x)].kind = "LINKAGE_ALIAS"
              THEN x.declarations[last(x)].alias
              ELSE last(x)
  BY Zenon DEF Lookup
<1> HIDE DEF F
<1>11. F(h) = F(g)
  <2>1. \A d \in F(h) : d \in F(g)
    BY <1>1, <1>5, <1>6, <1>7, <1>8
  <2>2. \A d \in F(g) : d \in F(h)
    BY <1>5, <1>8, <1>9
  <2> QED BY <2>1, <2>2
<1>12. \A d \in F(g) : h.declarations[d] = g.declarations[d]
  BY <1>2, <1>8, <1>9
<1>13. {h.declarations[d].scope : d \in F(h)}
         = {g.declarations[d].scope : d \in F(g)}
  BY <1>11, <1>12
<1>14. scope(h) = scope(g)
  BY <1>13
<1> HIDE DEF scope
<1>15. {d \in F(h) : h.declarations[d].scope = scope(h)}
         = {d \in F(g) : g.declarations[d].scope = scope(g)}
  BY <1>11, <1>12, <1>14
<1>16. last(h) = last(g)
  BY <1>15
<1>17. CASE F(g) # {}
  <2> DEFINE S == {g.declarations[d].scope : d \in F(g)}
             L == {d \in F(g) : g.declarations[d].scope = scope(g)}
  <2>1. S \subseteq 1 .. Len(g.scopes) /\ S # {}
    BY <1>8, <1>17, DeclarationParts DEF m
  <2>2. Innermost(S) \in S
    <3> HIDE DEF S
    <3> QED BY <1>1, <2>1, InnermostIn
  <2>3. PICK d \in F(g) : g.declarations[d].scope = scope(g)
    BY <2>2 DEF scope
  <2>4. L \subseteq 1 .. m /\ L # {}
    BY <1>8, <2>3
  <2>5. Innermost(L) \in L
    <3> HIDE DEF L
    <3> QED BY <1>1, <2>4, InnermostIn
  <2>6. last(g) \in F(g)
    BY <2>5
  <2> HIDE DEF last
  <2>7. h.declarations[last(h)] = g.declarations[last(g)]
    BY <1>12, <1>16, <2>6
  <2> QED BY <1>10, <1>11, <1>16, <2>7
<1>18. CASE F(g) = {}
  BY <1>10, <1>11, <1>18
<1> QED BY <1>17, <1>18

----------------------------------------
(* The laws of the whole graph under each operation. *)

Lawful(g) == DeclLaw(g.declarations) /\ ScopeLaw(g.scopes)

(* The current scope is that of the youngest function or below. *)
Inside(g) ==
  \E f \in DOMAIN g.scopes :
    /\ f # TranslationUnit /\ f <= g.current
    /\ g.scopes[f].kind = "FUNCTION"
    /\ \A s \in DOMAIN g.scopes : s > f => g.scopes[s].parent >= f

LEMMA NoneTaken ==
  ASSUME NEW g, Good(g), NEW s, NEW space, NEW name,
         LookupInScope(g, s, space, name) = Invalid
  PROVE  \A d \in 1 .. Len(g.declarations) :
           ~Taken(g.declarations[d], s, space, name)
<1>1. InScope(g, s, space, name) \subseteq 1 .. Len(g.declarations)
  BY GraphParts DEF InScope
<1>2. CASE InScope(g, s, space, name) # {}
  <2>1. Innermost(InScope(g, s, space, name)) \in 1 .. Len(g.declarations)
    BY <1>1, <1>2, InnermostIn, GraphParts
  <2>2. LookupInScope(g, s, space, name) \in 1 .. Len(g.declarations)
    BY <1>2, <2>1 DEF LookupInScope
  <2> QED BY <2>2, GraphParts DEF Invalid
<1>3. CASE InScope(g, s, space, name) = {}
  BY <1>3, GraphParts DEF InScope, Matches, Taken
<1> QED BY <1>2, <1>3

LEMMA TopTaken ==
  ASSUME NEW g, Good(g), NEW s, NEW space, NEW name, NEW top,
         top = LookupInScope(g, s, space, name), top # Invalid
  PROVE  /\ top \in 1 .. Len(g.declarations)
         /\ Taken(g.declarations[top], s, space, name)
         /\ \A d \in 1 .. Len(g.declarations) :
              Taken(g.declarations[d], s, space, name) => d <= top
<1> DEFINE T == InScope(g, s, space, name)
<1>1. T \subseteq 1 .. Len(g.declarations) /\ T # {}
  BY GraphParts DEF InScope, LookupInScope
<1>2. Innermost(T) \in T /\ \A t \in T : t <= Innermost(T)
  BY <1>1, InnermostIn, GraphParts
<1>3. top = Innermost(T)
  BY DEF LookupInScope
<1>4. \A d \in 1 .. Len(g.declarations) :
        d \in T <=> Taken(g.declarations[d], s, space, name)
  BY GraphParts DEF InScope, Matches, Taken
<1> HIDE DEF T
<1> QED BY <1>1, <1>2, <1>3, <1>4

----------------------------------------
(* The scopes under the operations. *)

LEMMA RisenLaw ==
  ASSUME NEW g, NEW h, Good(g), Good(h), Risen(h, g), h.current = g.current
  PROVE  /\ ScopeLaw(g.scopes) => ScopeLaw(h.scopes)
         /\ Inside(g) => Inside(h)
<1>1. /\ DOMAIN g.scopes = 1 .. Len(g.scopes)
      /\ DOMAIN h.scopes = 1 .. Len(g.scopes)
      /\ \A s \in 1 .. Len(g.scopes) :
           /\ h.scopes[s].parent = g.scopes[s].parent
           /\ h.scopes[s].root = g.scopes[s].root
           /\ h.scopes[s].kind = g.scopes[s].kind
  BY GraphParts DEF Risen, SameScope
<1>2. ASSUME ScopeLaw(g.scopes)
      PROVE  ScopeLaw(h.scopes)
  <2> SUFFICES ASSUME NEW s \in 1 .. Len(g.scopes)
               PROVE  /\ h.scopes[s].kind = "FUNCTION" =>
                           h.scopes[s].parent = TranslationUnit
                      /\ h.scopes[s].kind = "BLOCK" =>
                           /\ h.scopes[h.scopes[s].parent].kind
                                \in {"FUNCTION", "BLOCK"}
                           /\ h.scopes[s].root
                                = h.scopes[h.scopes[s].parent].root
    BY <1>1, <1>2, GraphParts DEF ScopeLaw, TranslationUnit
  <2>1. /\ g.scopes[s].kind = "FUNCTION" => g.scopes[s].parent = TranslationUnit
        /\ g.scopes[s].kind = "BLOCK" =>
             /\ g.scopes[g.scopes[s].parent].kind \in {"FUNCTION", "BLOCK"}
             /\ g.scopes[s].root = g.scopes[g.scopes[s].parent].root
    BY <1>1, <1>2 DEF ScopeLaw
  <2>2. CASE g.scopes[s].kind = "BLOCK"
    <3>1. s # 1 => g.scopes[s].parent \in 1 .. Len(g.scopes)
      BY ScopeParts, GraphParts
    <3>2. s # 1
      BY <1>2, <2>2 DEF ScopeLaw, TranslationUnit
    <3> QED BY <1>1, <2>1, <2>2, <3>1, <3>2
  <2>3. CASE g.scopes[s].kind # "BLOCK"
    BY <1>1, <2>1, <2>3
  <2> QED BY <2>2, <2>3
<1>3. ASSUME Inside(g)
      PROVE  Inside(h)
  BY <1>1, <1>3 DEF Inside
<1> QED BY <1>2, <1>3

LEMMA CreateScopeLaw ==
  ASSUME NEW g, Good(g), NEW p \in 1 .. Len(g.scopes), NEW k \in ScopeKind,
         ScopeLaw(g.scopes),
         k = "FUNCTION" => p = TranslationUnit,
         k = "BLOCK" => g.scopes[p].kind \in {"FUNCTION", "BLOCK"}
  PROVE  /\ ScopeLaw(CreateScopeAt(g, p, k).scopes)
         /\ Inside(g) /\ p = g.current => Inside(CreateScopeAt(g, p, k))
         /\ Quiet(CreateScopeAt(g, p, k), g)
<1> DEFINE h == CreateScopeAt(g, p, k)
           n == Len(g.scopes)
<1>1. /\ n \in Nat \ {0} /\ Len(h.scopes) = n + 1
      /\ \A s \in 1 .. n : h.scopes[s] = g.scopes[s]
      /\ h.scopes[n + 1].parent = p /\ h.scopes[n + 1].kind = k
      /\ k \notin OrderRoot => h.scopes[n + 1].root = Root(g, p)
      /\ h.declarations = g.declarations /\ h.current = g.current
  BY CreateScopeEffect, GraphParts
<1>2. Good(h)
  BY CreateScopeGood
<1> HIDE DEF h
<1>3. /\ DOMAIN g.scopes = 1 .. n /\ DOMAIN h.scopes = 1 .. n + 1
      /\ g.current \in 1 .. n
  BY <1>1, <1>2, GraphParts
<1>4. \A s \in 1 .. n + 1 : s \in 1 .. n \/ s = n + 1
  BY <1>1
<1>5. ASSUME NEW s \in 1 .. n + 1
      PROVE  /\ h.scopes[s].kind = "FUNCTION" =>
                  h.scopes[s].parent = TranslationUnit
             /\ h.scopes[s].kind = "BLOCK" =>
                  /\ h.scopes[h.scopes[s].parent].kind \in {"FUNCTION", "BLOCK"}
                  /\ h.scopes[s].root = h.scopes[h.scopes[s].parent].root
  <2>1. CASE s \in 1 .. n
    <3>1. h.scopes[s] = g.scopes[s]
      BY <1>1, <2>1
    <3>2. s # 1 => g.scopes[s].parent \in 1 .. n
      BY <1>1, <2>1, ScopeParts
    <3>3. /\ g.scopes[s].kind = "FUNCTION" =>
               g.scopes[s].parent = TranslationUnit
          /\ g.scopes[s].kind = "BLOCK" =>
               /\ g.scopes[g.scopes[s].parent].kind \in {"FUNCTION", "BLOCK"}
               /\ g.scopes[s].root = g.scopes[g.scopes[s].parent].root
      BY <1>3, <2>1 DEF ScopeLaw
    <3>4. s # 1 => h.scopes[g.scopes[s].parent] = g.scopes[g.scopes[s].parent]
      BY <1>1, <3>2
    <3>5. g.scopes[s].kind = "BLOCK" => s # 1
      BY DEF ScopeLaw, TranslationUnit
    <3> QED BY <3>1, <3>3, <3>4, <3>5
  <2>2. CASE s = n + 1
    <3>1. h.scopes[p] = g.scopes[p]
      BY <1>1
    <3> QED BY <1>1, <2>2, <3>1 DEF OrderRoot, Root
  <2> QED BY <1>4, <2>1, <2>2
<1>6. ScopeLaw(h.scopes)
  BY <1>1, <1>3, <1>5 DEF ScopeLaw, TranslationUnit
<1>8. ASSUME Inside(g), p = g.current
      PROVE  Inside(h)
  <2>1. PICK f \in 1 .. n :
          /\ f # TranslationUnit /\ f <= g.current
          /\ g.scopes[f].kind = "FUNCTION"
          /\ \A s \in 1 .. n : s > f => g.scopes[s].parent >= f
    BY <1>3, <1>8 DEF Inside
  <2>2. \A s \in 1 .. n + 1 : s > f => h.scopes[s].parent >= f
    BY <1>1, <1>4, <1>8, <2>1
  <2>3. f \in 1 .. n + 1 /\ h.scopes[f].kind = "FUNCTION"
    BY <1>1, <2>1
  <2> QED BY <1>1, <1>3, <2>1, <2>2, <2>3 DEF Inside
<1>9. Quiet(h, g)
  <2>1. Len(g.declarations) \in Nat
    BY GraphParts
  <2>2. \A t \in 1 .. n : g.scopes[t].order <= g.scopes[t].order
    BY ScopeParts
  <2> QED BY <1>1, <2>1, <2>2 DEF Quiet, SameScope
<1> QED BY <1>6, <1>8, <1>9 DEF h

----------------------------------------
(* The declarations under the operations. *)

MayJoin(u, s, space, kind, name, alias) ==
  name \in SourceName =>
    \A d \in 1 .. Len(u) :
      Taken(u[d], s, space, name) =>
        /\ s = TranslationUnit /\ space = "ORDINARY" => u[d].kind \in Weak
        /\ Shown(u[d]) => kind = "LINKAGE_ALIAS" /\ Denoted(u, d) = alias

(* h is g with one more declaration, shown. *)
Joined(h, g, s, space, kind, name, step) ==
  /\ Good(h) /\ Lawful(h)
  /\ Inside(g) => Inside(h)
  /\ kind \notin Linked \/ name \notin SourceName =>
       VisibleNames(h.declarations) = VisibleNames(g.declarations)
  /\ kind \in Linked /\ name \in SourceName =>
       VisibleNames(h.declarations) = VisibleNames(g.declarations) \cup {name}
  /\ (\/ space # "ORDINARY" \/ name \notin SourceName
      \/ s # TranslationUnit /\ step = 1) => Quiet(h, g)
  /\ Len(h.scopes) = Len(g.scopes) /\ h.current = g.current

LEMMA AppendLaw ==
  ASSUME NEW g, Good(g), Lawful(g), NEW s \in 1 .. Len(g.scopes),
         NEW space \in NameSpace, NEW kind \in DeclKind, NEW name \in Name,
         NEW alias \in Nat, NEW step \in {0, 1},
         MayAdd(g.declarations, s, space, kind, name, alias),
         MayJoin(g.declarations, s, space, kind, name, alias)
  PROVE  Joined(AppendDeclaration(g, s, space, kind, name, alias, step), g,
                s, space, kind, name, step)
<1> DEFINE h == AppendDeclaration(g, s, space, kind, name, alias, step)
           n == Len(g.declarations)
           u == g.declarations
           v == h.declarations
<1>1. /\ Adds(v, u, s, space, kind, name, alias) /\ Shown(v[n + 1])
      /\ v[n + 1].order = g.scopes[Root(g, s)].order + step
      /\ Risen(h, g) /\ h.current = g.current
  BY AppendEffect
<1>2. Good(h)
  <2>1. kind = "LINKAGE_ALIAS" => alias \in 1 .. Len(g.declarations)
    BY DEF MayAdd
  <2> QED BY <2>1, AppendDeclarationGood
<1> HIDE DEF h
<1>3. DeclLaw(v)
  <2>1. name \in SourceName =>
          \A d \in 1 .. Len(u) :
             Taken(u[d], s, space, name) =>
               /\ s = TranslationUnit /\ space = "ORDINARY" =>
                    u[d].kind \in Weak
               /\ Shown(u[d]) /\ Shown(v[Len(u) + 1]) =>
                    /\ kind = "LINKAGE_ALIAS"
                    /\ Denoted(u, d) = alias
    BY DEF MayJoin
  <2>2. DeclLaw(u)
    BY DEF Lawful
  <2> HIDE DEF u, v
  <2> QED BY <1>1, <2>1, <2>2, AddLaw DEF u
<1>4. ScopeLaw(h.scopes) /\ (Inside(g) => Inside(h))
  BY <1>1, <1>2, RisenLaw DEF Lawful
<1>5. /\ kind \notin Linked \/ name \notin SourceName => VisibleNames(v) = VisibleNames(u)
      /\ kind \in Linked /\ name \in SourceName =>
           VisibleNames(v) = VisibleNames(u) \cup {name}
  <2>1. kind \in Linked => s = TranslationUnit
    BY DEF MayAdd
  <2> HIDE DEF u, v
  <2> QED BY <1>1, <2>1, AddVisible DEF u
<1>6. ASSUME \/ space # "ORDINARY" \/ name \notin SourceName
             \/ s # TranslationUnit /\ step = 1
      PROVE  Quiet(h, g)
  <2>1. Unseen(v[n + 1], g)
    <3>1. /\ v[n + 1].scope = s /\ v[n + 1].space = space
          /\ v[n + 1].name = name
      BY <1>1 DEF Adds
    <3>2. g.scopes[Root(g, s)].order \in Nat
      BY ScopeParts
    <3> QED BY <1>1, <1>6, <3>1, <3>2 DEF Unseen
  <2>2. /\ n \in Nat /\ Len(v) = n + 1
        /\ \A d \in 1 .. n : v[d] = u[d]
    BY <1>1 DEF Adds
  <2>3. \A d \in n + 1 .. Len(v) : d = n + 1
    BY <2>2
  <2>4. Len(g.scopes) \in Nat
    BY GraphParts
  <2> QED BY <1>1, <2>1, <2>2, <2>3, <2>4 DEF Quiet, Risen
<1> QED BY <1>1, <1>2, <1>3, <1>4, <1>5, <1>6 DEF Lawful, Risen, Joined, h

(* A name that is free in its scope, or a generated one. *)
MayDeclareAt(g, s, space, kind, name) ==
  /\ s \in 1 .. Len(g.scopes) /\ space \in NameSpace /\ name \in Name
  /\ kind \in DeclKind /\ kind # "LINKAGE_ALIAS"
  /\ kind \in Linked => s = TranslationUnit /\ space = "ORDINARY"
  /\ kind = "TAG" => space = "TAG"
  /\ name \in SourceName =>
       \A d \in 1 .. Len(g.declarations) :
         ~Taken(g.declarations[d], s, space, name)

LEMMA DeclareLaw ==
  ASSUME NEW g, Good(g), Lawful(g), NEW s, NEW space, NEW kind, NEW name,
         MayDeclareAt(g, s, space, kind, name)
  PROVE  /\ Joined(DeclareAt(g, s, space, kind, name), g, s, space, kind,
                   name, 1)
         /\ Joined(DeclareSyntheticAt(g, s, space, kind, name), g, s, space,
                   kind, name, 0)
<1>1. MayAdd(g.declarations, s, space, kind, name, 0)
  BY DEF MayDeclareAt, MayAdd
<1>2. MayJoin(g.declarations, s, space, kind, name, 0)
  BY DEF MayDeclareAt, MayJoin
<1>5. /\ s \in 1 .. Len(g.scopes) /\ space \in NameSpace /\ name \in Name
      /\ kind \in DeclKind
  BY DEF MayDeclareAt
<1>3. ASSUME NEW step \in {0, 1}
      PROVE  Joined(AppendDeclaration(g, s, space, kind, name, 0, step), g,
                    s, space, kind, name, step)
  BY <1>1, <1>2, <1>5, AppendLaw
<1> QED BY <1>3 DEF DeclareAt, DeclareSyntheticAt, Invalid

(* What a name with linkage finds at file scope before it is declared. *)
FileScopeTop(g, top, kind, name) ==
  /\ top = Invalid =>
       \A d \in 1 .. Len(g.declarations) :
         ~Taken(g.declarations[d], TranslationUnit, "ORDINARY", name)
  /\ top # Invalid =>
       /\ top \in 1 .. Len(g.declarations)
       /\ Taken(g.declarations[top], TranslationUnit, "ORDINARY", name)
       /\ g.declarations[top].kind = kind
       /\ \A d \in 1 .. Len(g.declarations) :
            Taken(g.declarations[d], TranslationUnit, "ORDINARY", name) =>
              d = top

LEMMA TopIs ==
  ASSUME NEW g, Good(g), Lawful(g), NEW kind \in Linked,
         NEW name \in SourceName,
         ~HasDifferentKind(g, TranslationUnit, "ORDINARY", kind, name)
  PROVE  FileScopeTop(g,
           LookupInScope(g, TranslationUnit, "ORDINARY", name), kind, name)
<1> DEFINE top == LookupInScope(g, TranslationUnit, "ORDINARY", name)
           n == Len(g.declarations)
<1>1. CASE top = Invalid
  BY <1>1, NoneTaken DEF FileScopeTop
<1>2. CASE top # Invalid
  <2>1. /\ top \in 1 .. n
        /\ Taken(g.declarations[top], TranslationUnit, "ORDINARY", name)
        /\ \A d \in 1 .. n :
             Taken(g.declarations[d], TranslationUnit, "ORDINARY", name)
               => d <= top
    BY <1>2, TopTaken
  <2>2. \A d \in 1 .. n :
          Taken(g.declarations[d], TranslationUnit, "ORDINARY", name)
            => g.declarations[d].kind = kind
    BY GraphParts DEF HasDifferentKind, InScope, Matches, Taken
  <2> HIDE DEF top
  <2>3. ASSUME NEW d \in 1 .. n,
               Taken(g.declarations[d], TranslationUnit, "ORDINARY", name)
        PROVE  d = top
    <3> SUFFICES ASSUME d < top
                 PROVE  FALSE
      BY <2>1, <2>3
    <3>1. Twins(g.declarations, d, top)
      BY <2>1, <2>3 DEF Twins, Taken
    <3>2. g.declarations[d].kind \in Weak
      <4>1. DOMAIN g.declarations = 1 .. n
        BY GraphParts
      <4> QED BY <2>1, <2>3, <3>1, <4>1 DEF Lawful, DeclLaw, LinkedLast, Taken
    <3> QED BY <2>2, <2>3, <3>2 DEF Weak, Linked
  <2> QED BY <1>2, <2>1, <2>2, <2>3 DEF FileScopeTop, top
<1> QED BY <1>1, <1>2

(* The name is visible at file scope afterwards. *)
Enters(h, g, name) ==
  /\ Lawful(h)
  /\ Inside(g) => Inside(h)
  /\ VisibleNames(h.declarations) = VisibleNames(g.declarations) \cup {name}

LEMMA FileScopeLinkedLaw ==
  ASSUME NEW g, Good(g), Lawful(g), NEW kind \in Linked,
         NEW name \in SourceName, NEW top, FileScopeTop(g, top, kind, name)
  PROVE  /\ top = Invalid =>
              Enters(DeclareAt(g, TranslationUnit, "ORDINARY", kind, name),
                     g, name)
         /\ top # Invalid => Enters(SetHidden(g, top, FALSE), g, name)
<1>1. CASE top = Invalid
  <2>1. TranslationUnit \in 1 .. Len(g.scopes) /\ "ORDINARY" \in NameSpace
    BY GraphParts DEF TranslationUnit, NameSpace
  <2>2. /\ kind \in DeclKind /\ kind # "LINKAGE_ALIAS" /\ kind # "TAG"
        /\ name \in Name
    BY DEF Linked, DeclKind, SourceName
  <2>3. \A d \in 1 .. Len(g.declarations) :
          ~Taken(g.declarations[d], TranslationUnit, "ORDINARY", name)
    BY <1>1 DEF FileScopeTop
  <2> DEFINE h == DeclareAt(g, TranslationUnit, "ORDINARY", kind, name)
  <2>5. MayDeclareAt(g, TranslationUnit, "ORDINARY", kind, name)
    BY <2>1, <2>2, <2>3 DEF MayDeclareAt
  <2>6. Joined(h, g, TranslationUnit, "ORDINARY", kind, name, 1)
    BY <2>5, DeclareLaw
  <2> HIDE DEF h
  <2>4. Enters(h, g, name)
    BY <2>6 DEF Joined, Enters
  <2> QED BY <1>1, <2>4 DEF h
<1>2. CASE top # Invalid
  <2> DEFINE h == SetHidden(g, top, FALSE)
             n == Len(g.declarations)
             u == g.declarations
             v == h.declarations
  <2>1. /\ top \in 1 .. n
        /\ Taken(u[top], TranslationUnit, "ORDINARY", name)
        /\ u[top].kind = kind
        /\ \A d \in 1 .. n :
             Taken(u[d], TranslationUnit, "ORDINARY", name) => d = top
    BY <1>2 DEF FileScopeTop
  <2>2. /\ DOMAIN v = 1 .. n
        /\ \A e \in 1 .. n : e # top => v[e] = u[e]
        /\ SameDeclaration(v[top], u[top])
        /\ h.scopes = g.scopes /\ h.current = g.current
    BY <2>1, SetHiddenEffect
  <2>9. Shown(v[top])
    BY <2>1, SetHiddenShown, Zenon
  <2> HIDE DEF h
  <2>3. \A d \in 1 .. n : Twins(u, d, top) => d = top
    BY <2>1 DEF Twins, Taken
  <2>4. /\ n \in Nat /\ DOMAIN u = 1 .. n /\ DeclLaw(u)
    BY GraphParts DEF Lawful
  <2>5. /\ u[top].scope = TranslationUnit /\ u[top].space = "ORDINARY"
        /\ u[top].kind \in Linked /\ u[top].name \in SourceName
        /\ u[top].name = name
    BY <2>1 DEF Taken
  <2> HIDE DEF n, u, v
  <2>8. Shows(v, u, n, top)
    BY <2>1, <2>2, <2>3, <2>4, <2>5, <2>9 DEF Shows
  <2>6. DeclLaw(v) /\ VisibleNames(v) = VisibleNames(u) \cup {u[top].name}
    BY <2>4, <2>8, ShowLaw
  <2>7. Lawful(h) /\ (Inside(g) => Inside(h))
    BY <2>2, <2>6 DEF Lawful, Inside, v
  <2>10. Enters(h, g, name)
    BY <2>5, <2>6, <2>7 DEF Enters, u, v
  <2> QED BY <1>2, <2>10, Zenon DEF h
<1> QED BY <1>1, <1>2

LEMMA RehomeLaw ==
  ASSUME NEW g, Good(g), Lawful(g), NEW ids, NEW s \in 1 .. Len(g.scopes),
         ids \subseteq 1 .. Len(g.declarations),
         \A d \in ids : g.declarations[d].kind \in {"TAG", "ENUM_CONSTANT"},
         \/ \A d \in ids : /\ g.declarations[d].name \notin SourceName
                           /\ g.declarations[d].kind = "TAG"
         \/ /\ s # TranslationUnit
            /\ \A d \in 1 .. Len(g.declarations) : g.declarations[d].scope # s
            /\ \A d, e \in ids :
                 g.declarations[d].scope = g.declarations[e].scope
  PROVE  LET h == Rehome(g, ids, s)
         IN /\ Lawful(h)
            /\ Inside(g) => Inside(h)
            /\ VisibleNames(h.declarations) = VisibleNames(g.declarations)
            /\ (\A d \in ids : g.declarations[d].kind = "TAG") => Quiet(h, g)
<1> DEFINE h == Rehome(g, ids, s)
           n == Len(g.declarations)
           u == g.declarations
           v == h.declarations
<1>1. /\ Len(v) = n /\ DOMAIN v = 1 .. n
      /\ \A d \in 1 .. n :
           /\ d \notin ids => v[d] = u[d]
           /\ d \in ids => v[d].scope = s
           /\ v[d].space = u[d].space /\ v[d].kind = u[d].kind
           /\ v[d].name = u[d].name /\ v[d].alias = u[d].alias
           /\ Shown(v[d]) <=> Shown(u[d])
      /\ h.scopes = g.scopes /\ h.current = g.current
  BY RehomeEffect
<1> HIDE DEF h
<1>2. n \in Nat /\ DOMAIN u = 1 .. n /\ DeclLaw(u) /\ Len(g.scopes) \in Nat
  BY GraphParts DEF Lawful
<1>3. DeclLaw(v) /\ VisibleNames(v) = VisibleNames(u)
  <2>1. /\ \A d \in ids : u[d].kind \in {"TAG", "ENUM_CONSTANT"}
        /\ \/ \A d \in ids : u[d].name \notin SourceName /\ u[d].kind = "TAG"
           \/ /\ s # TranslationUnit
              /\ \A d \in 1 .. n : u[d].scope # s
              /\ \A d, e \in ids : u[d].scope = u[e].scope
    OBVIOUS
  <2> HIDE DEF n, u, v
  <2>2. Moves(v, u, n, ids, s) /\ MayMove(u, n, ids, s)
    BY <1>1, <1>2, <2>1 DEF Moves, MayMove
  <2> QED BY <1>2, <2>2, MoveLaw
<1>4. ASSUME \A d \in ids : u[d].kind = "TAG"
      PROVE  Quiet(h, g)
  <2>1. \A d \in 1 .. n : u[d].space = "ORDINARY" => d \notin ids
    BY <1>2, <1>4 DEF DeclLaw, TagsApart
  <2>2. \A t \in 1 .. Len(g.scopes) : g.scopes[t].order <= g.scopes[t].order
    BY ScopeParts
  <2> QED BY <1>1, <1>2, <2>1, <2>2 DEF Quiet, SameScope
<1> QED BY <1>1, <1>3, <1>4 DEF Lawful, Inside, h

LEMMA RegisterMembersLaw ==
  ASSUME NEW g, Good(g), Lawful(g), NEW s \in 1 .. Len(g.scopes),
         NEW names \in Seq(Name), NEW count \in 0 .. Len(names),
         \A d \in 1 .. Len(g.declarations) : g.declarations[d].scope # s,
         Accepted(g, s, names, count)
  PROVE  LET h == RegisterMembers(g, s, names, count)
         IN /\ Lawful(h)
            /\ Inside(g) => Inside(h)
            /\ VisibleNames(h.declarations) = VisibleNames(g.declarations)
            /\ Quiet(h, g)
<1> DEFINE k == EnterMembers(g, s, names, count)
           n == Len(g.declarations)
           u == g.declarations
           v == k.declarations
<1>1. Good(k) /\ Extends(k, g)
  BY EnterMembersGood
<1>2. Restore(k, Snapshot(g)) = g
  BY <1>1, RestoreExact DEF Good
<1>3. Quiet(g, g)
  BY QuietReflexive
<1>4. /\ Len(v) = n + count /\ DOMAIN v = 1 .. n + count
      /\ \A d \in 1 .. n : v[d] = u[d]
      /\ \A i \in 1 .. count :
           /\ v[n + i].scope = s /\ v[n + i].space = "MEMBER"
           /\ v[n + i].kind = "MEMBER" /\ v[n + i].name = names[i]
      /\ Risen(k, g) /\ k.current = g.current
  <2>1. count \in Nat
    OBVIOUS
  <2> QED BY <2>1, EnterMembersEffect
<1> HIDE DEF k
<1>5. /\ n \in Nat /\ DOMAIN u = 1 .. n /\ DeclLaw(u) /\ count \in Nat
      /\ Len(g.scopes) \in Nat
  BY GraphParts DEF Lawful
<1>6. \A i, j \in 1 .. count : j < i => names[j] # names[i]
  BY DEF Accepted, Duplicate
<1>7. DeclLaw(v) /\ VisibleNames(v) = VisibleNames(u)
  <2>1. \A d \in 1 .. n : u[d].scope # s
    OBVIOUS
  <2> HIDE DEF n, u, v
  <2>2. AddsMembers(v, u, n, s, names, count)
    BY <1>4, <1>5, <1>6, <2>1 DEF AddsMembers
  <2> QED BY <1>5, <2>2, MembersLaw
<1>8. ScopeLaw(k.scopes) /\ (Inside(g) => Inside(k))
  BY <1>1, <1>4, RisenLaw DEF Lawful
<1>9. Quiet(k, g)
  <2>1. ASSUME NEW d \in n + 1 .. n + count
        PROVE  Unseen(v[d], g)
    <3>1. PICK i \in 1 .. count : d = n + i
      <4>1. n \in Nat /\ count \in Nat /\ d \in n + 1 .. n + count
        BY <1>5
      <4> HIDE DEF n, u, v
      <4>2. d - n \in 1 .. count /\ d = n + (d - n)
        BY ONLY <4>1
      <4> QED BY <4>2
    <3> QED BY <1>4, <3>1 DEF Unseen
  <2> QED BY <1>4, <1>5, <2>1 DEF Quiet, Risen
<1> QED BY <1>2, <1>3, <1>7, <1>8, <1>9 DEF RegisterMembers, Lawful, k

----------------------------------------
(* Entering and leaving scopes. *)

LEMMA InsideBelow ==
  ASSUME NEW g, Good(g), Inside(g)
  PROVE  g.current # TranslationUnit
<1>1. PICK f \in 1 .. Len(g.scopes) : f # 1 /\ f <= g.current
  BY GraphParts DEF Inside, TranslationUnit
<1> QED BY <1>1, GraphParts DEF TranslationUnit

(* A scope is entered. *)
LEMMA EnterScopeLaw ==
  ASSUME NEW g, Good(g), Lawful(g), NEW k \in ScopeKind,
         k = "FUNCTION" => g.current = TranslationUnit,
         k = "BLOCK" => g.scopes[g.current].kind \in {"FUNCTION", "BLOCK"}
  PROVE  LET h == EnterScope(g, k)
         IN /\ Lawful(h) /\ h.declarations = g.declarations /\ Quiet(h, g)
            /\ Inside(g) \/ k = "FUNCTION" => Inside(h)
<1> DEFINE m == CreateScopeAt(g, g.current, k)
           h == EnterScope(g, k)
           n == Len(g.scopes)
<1>1. g.current \in 1 .. n /\ n \in Nat \ {0}
  BY GraphParts
<1>2. Good(m)
  BY <1>1, CreateScopeGood
<1>3. ScopeLaw(m.scopes) /\ (Inside(g) => Inside(m)) /\ Quiet(m, g)
  BY <1>1, CreateScopeLaw DEF Lawful
<1>4. /\ Len(m.scopes) = n + 1 /\ m.scopes[n + 1].kind = k
      /\ m.declarations = g.declarations /\ m.current = g.current
  BY <1>1, CreateScopeEffect
<1>5. m \in Graph /\ DOMAIN m.scopes = 1 .. n + 1
  BY <1>2, <1>4, GraphParts
<1>6. h = [m EXCEPT !.current = n + 1]
  BY DEF EnterScope, NextScope
<1> HIDE DEF m, h
<1>7. h.scopes = m.scopes /\ h.declarations = m.declarations
      /\ h.current = n + 1
  <2>1. h = [scopes |-> m.scopes, declarations |-> m.declarations,
             current |-> n + 1]
    BY <1>5, <1>6, ExceptParts
  <2> QED BY <2>1
<1>8. Lawful(h) /\ h.declarations = g.declarations
  BY <1>3, <1>4, <1>7 DEF Lawful
<1>9. Quiet(h, g)
  BY <1>3, <1>7 DEF Quiet
<1>10. ASSUME Inside(g) PROVE Inside(h)
  <2>1. PICK f \in 1 .. n + 1 :
          /\ f # TranslationUnit /\ f <= m.current
          /\ m.scopes[f].kind = "FUNCTION"
          /\ \A s \in 1 .. n + 1 : s > f => m.scopes[s].parent >= f
    BY <1>3, <1>5, <1>10 DEF Inside
  <2>2. f <= n + 1
    BY <1>1
  <2> QED BY <1>5, <1>7, <2>1, <2>2 DEF Inside
<1>11. ASSUME k = "FUNCTION" PROVE Inside(h)
  <2>1. n + 1 \in 1 .. n + 1 /\ n + 1 # TranslationUnit /\ n + 1 <= n + 1
    BY <1>1 DEF TranslationUnit
  <2>2. \A s \in 1 .. n + 1 : ~(s > n + 1)
    BY <1>1
  <2> QED BY <1>4, <1>5, <1>7, <1>11, <2>1, <2>2 DEF Inside
<1> QED BY <1>8, <1>9, <1>10, <1>11 DEF h

(* The current scope is left, or all scopes are. *)
LEMMA LeaveLaw ==
  ASSUME NEW g, Good(g), Lawful(g)
  PROVE  /\ Lawful(LeaveAllScopes(g))
         /\ LeaveAllScopes(g).declarations = g.declarations
         /\ LeaveAllScopes(g).current = TranslationUnit
         /\ Lawful(LeaveScope(g))
         /\ LeaveScope(g).declarations = g.declarations
         /\ Quiet(LeaveScope(g), g)
         /\ Inside(g) /\ g.scopes[g.current].kind # "FUNCTION"
              => Inside(LeaveScope(g))
<1>1. ASSUME NEW h, NEW x, h = [g EXCEPT !.current = x]
      PROVE  h.scopes = g.scopes /\ h.declarations = g.declarations
             /\ h.current = x /\ Lawful(h) /\ Quiet(h, g)
  <2>1. h = [scopes |-> g.scopes, declarations |-> g.declarations,
             current |-> x]
    BY <1>1, GraphParts, ExceptParts
  <2>2. Quiet(g, g)
    BY QuietReflexive
  <2> QED BY <2>1, <2>2 DEF Lawful, Quiet
<1>2. LeaveAllScopes(g) = [g EXCEPT !.current = TranslationUnit]
  BY DEF LeaveAllScopes
<1>3. \/ LeaveScope(g) = g
      \/ /\ g.current # TranslationUnit
         /\ LeaveScope(g) = [g EXCEPT !.current = g.scopes[g.current].parent]
  BY DEF LeaveScope
<1>4. CASE LeaveScope(g) = g
  BY <1>1, <1>2, <1>4, QuietReflexive
<1>5. CASE /\ g.current # TranslationUnit
           /\ LeaveScope(g) = [g EXCEPT !.current = g.scopes[g.current].parent]
  <2> DEFINE h == LeaveScope(g)
  <2>1. h.scopes = g.scopes /\ h.declarations = g.declarations
        /\ h.current = g.scopes[g.current].parent /\ Lawful(h) /\ Quiet(h, g)
    BY <1>1, <1>5
  <2>2. ASSUME Inside(g), g.scopes[g.current].kind # "FUNCTION"
        PROVE  Inside(h)
    <3>1. PICK f \in DOMAIN g.scopes :
            /\ f # TranslationUnit /\ f <= g.current
            /\ g.scopes[f].kind = "FUNCTION"
            /\ \A s \in DOMAIN g.scopes : s > f => g.scopes[s].parent >= f
      BY <2>2 DEF Inside
    <3>2. /\ g.current \in 1 .. Len(g.scopes)
          /\ DOMAIN g.scopes = 1 .. Len(g.scopes)
          /\ Len(g.scopes) \in Nat
      BY GraphParts
    <3>3. f # g.current
      BY <2>2, <3>1
    <3>4. g.current > f
      BY <3>1, <3>2, <3>3
    <3>5. g.scopes[g.current].parent >= f /\ g.scopes[g.current].parent \in Nat
      BY <3>1, <3>2, <3>4, ScopeParts
    <3>6. f <= h.current
      BY <2>1, <3>2, <3>5
    <3> HIDE DEF h
    <3> QED BY <2>1, <3>1, <3>6 DEF Inside
  <2> QED BY <1>1, <1>2, <2>1, <2>2
<1> QED BY <1>3, <1>4, <1>5

----------------------------------------
(* The invariant of the lookups, and what a step has to show to keep it. *)

(* A lookup point that was taken in the graph. *)
PointLive(c, g) ==
  /\ c.name \in SourceName
  /\ c.point.scope \in 1 .. Len(g.scopes)
  /\ c.point.order \in Nat
  /\ c.point.order <= g.scopes[Root(g, c.point.scope)].order

Stands(c, g) ==
  g.scopes[c.point.scope].kind \in {"FUNCTION", "BLOCK"} =>
    Lookup(g, "ORDINARY", c.name, c.point) = c.answer

InFunction == phase \in {"body", "header", "statements"}

NamesInv ==
  /\ Lawful(graph)
  /\ InFunction => Inside(graph)
  /\ at_file_scope = VisibleNames(graph.declarations)
  /\ InTransaction => /\ Lawful(saved[1])
                      /\ VisibleNames(saved[1].declarations) \subseteq at_file_scope

AnswersInv ==
  /\ phase \notin Resolving => captured = {}
  /\ \A c \in captured : PointLive(c, graph) /\ Stands(c, graph)

LookupInv == NamesInv /\ AnswersInv

(* A quiet step keeps every answer. *)
LEMMA AnswerKept ==
  ASSUME NEW g, NEW h, Good(g), Good(h), Lawful(g), Quiet(h, g),
         NEW c, PointLive(c, g), Stands(c, g)
  PROVE  PointLive(c, h) /\ Stands(c, h)
<1> DEFINE s == c.point.scope
<1>1. /\ s \in 1 .. Len(g.scopes) /\ s \in 1 .. Len(h.scopes)
      /\ h.scopes[s].kind = g.scopes[s].kind
      /\ Root(h, s) = Root(g, s)
  BY GraphParts DEF PointLive, Quiet, SameScope, Root
<1>2. /\ Root(g, s) \in 1 .. Len(g.scopes)
      /\ g.scopes[Root(g, s)].order \in Nat
  BY <1>1, ScopeParts
<1>3. /\ g.scopes[Root(g, s)].order <= h.scopes[Root(g, s)].order
      /\ h.scopes[Root(g, s)].order \in Nat
  <2>1. Root(h, s) \in 1 .. Len(h.scopes)
    BY <1>1, ScopeParts
  <2> QED BY <1>1, <1>2, <2>1, ScopeParts DEF Quiet
<1>4. PointLive(c, h)
  BY <1>1, <1>2, <1>3 DEF PointLive
<1>5. Stands(c, h)
  <2> SUFFICES ASSUME g.scopes[s].kind \in {"FUNCTION", "BLOCK"}
               PROVE  Lookup(h, "ORDINARY", c.name, c.point) = c.answer
    BY <1>1 DEF Stands
  <2>1. Lookup(g, "ORDINARY", c.name, c.point) = c.answer
    BY DEF Stands
  <2>2. Lookup(h, "ORDINARY", c.name, c.point)
          = Lookup(g, "ORDINARY", c.name, c.point)
    BY LookupSame DEF Lawful, DeclLaw, PointLive
  <2> QED BY <2>1, <2>2
<1> QED BY <1>4, <1>5

(* What a step that leaves the transaction as it is has to show. *)
LEMMA OpenStep ==
  ASSUME IInv, LookupInv, Good(graph'), Lawful(graph'), saved' = saved,
         phase' = phase \/ (phase \in Resolving /\ phase' \in Resolving),
         InFunction /\ Inside(graph) => Inside(graph'),
         at_file_scope' = VisibleNames(graph'.declarations),
         at_file_scope \subseteq at_file_scope',
         \/ captured' = {}
         \/ /\ captured' = captured
            /\ phase \in Resolving => Quiet(graph', graph)
  PROVE  LookupInv'
<1>1. /\ InTransaction' <=> InTransaction
      /\ InFunction' <=> InFunction
      /\ phase' \in Resolving <=> phase \in Resolving
  BY DEF InTransaction, InFunction, Resolving
<1>2. NamesInv'
  BY <1>1 DEF LookupInv, NamesInv
<1>3. AnswersInv'
  <2>1. CASE captured' = {}
    BY <2>1 DEF AnswersInv
  <2>2. CASE captured' = captured /\ phase \notin Resolving
    BY <1>1, <2>2 DEF LookupInv, AnswersInv
  <2>3. CASE /\ captured' = captured /\ phase \in Resolving
             /\ Quiet(graph', graph)
    <3>1. ASSUME NEW c \in captured
          PROVE  PointLive(c, graph') /\ Stands(c, graph')
      <4>1. PointLive(c, graph) /\ Stands(c, graph) /\ Good(graph)
            /\ Lawful(graph)
        BY DEF LookupInv, AnswersInv, NamesInv, IInv
      <4> QED BY <2>3, <4>1, AnswerKept
    <3>2. \A c \in captured' : PointLive(c, graph') /\ Stands(c, graph')
      BY <2>3, <3>1
    <3>3. phase' \in Resolving
      BY <1>1, <2>3
    <3> QED BY <3>2, <3>3 DEF AnswersInv, PointLive, Stands
  <2> QED BY <2>1, <2>2, <2>3
<1> QED BY <1>2, <1>3 DEF LookupInv

(* A step to a place where no transaction is open. *)
LEMMA OutsideStep ==
  ASSUME phase' \in {"toplevel", "body", "stopped"}, captured' = {},
         Lawful(graph'), phase' = "body" => Inside(graph'),
         at_file_scope' = VisibleNames(graph'.declarations)
  PROVE  LookupInv'
<1>1. /\ phase' \notin Resolving \cup {"initializer"}
      /\ phase' \in {"body", "header", "statements"} => phase' = "body"
  BY DEF Resolving
<1>2. NamesInv'
  BY <1>1 DEF NamesInv, InTransaction, InFunction
<1>3. AnswersInv'
  BY DEF AnswersInv
<1> QED BY <1>2, <1>3 DEF LookupInv

LEMMA InitLookupInv == Init => LookupInv
<1> SUFFICES ASSUME Init
             PROVE  LookupInv
  OBVIOUS
<1>1. /\ graph = EmptyGraph /\ phase = "toplevel" /\ captured = {}
      /\ at_file_scope = {}
  BY DEF Init
<1> DEFINE t == [parent |-> Invalid, root |-> TranslationUnit,
                 kind |-> "TRANSLATION_UNIT", order |-> 0]
<1>2. t.kind = "TRANSLATION_UNIT"
  OBVIOUS
<1>3. EmptyGraph.scopes = <<t>> /\ EmptyGraph.declarations = << >>
  BY DEF EmptyGraph
<1> HIDE DEF t
<1>4. /\ <<t>>[1] = t /\ DOMAIN <<t>> = 1 .. 1 /\ DOMAIN << >> = {}
  OBVIOUS
<1>5. ScopeLaw(<<t>>)
  BY <1>2, <1>4 DEF ScopeLaw, TranslationUnit
<1>6. DeclLaw(<< >>) /\ VisibleNames(<< >>) = {}
  BY <1>4 DEF DeclLaw, LinkedOutside, TagsApart, LinkedLast, AliasesMean,
              OneEntity, VisibleNames
<1>7. NamesInv
  BY <1>1, <1>3, <1>5, <1>6 DEF NamesInv, Lawful, InFunction, InTransaction,
                                Resolving
<1> QED BY <1>1, <1>7 DEF LookupInv, AnswersInv

----------------------------------------
(* The actions keep it. *)

LEMMA ResetLocalsLaw ==
  ASSUME NEW g, Good(g), Lawful(g)
  PROVE  /\ Lawful(ResetLocals(g)) /\ Inside(ResetLocals(g))
         /\ ResetLocals(g).declarations = g.declarations
<1> DEFINE l == LeaveAllScopes(g)
<1>1. /\ Lawful(l) /\ l.declarations = g.declarations
      /\ l.current = TranslationUnit /\ Good(l)
  BY LeaveLaw, LeaveAllScopesGood
<1>2. "FUNCTION" \in ScopeKind
  BY DEF ScopeKind
<1> HIDE DEF l
<1>3. LET h == EnterScope(l, "FUNCTION")
      IN Lawful(h) /\ h.declarations = l.declarations /\ Inside(h)
  BY <1>1, <1>2, EnterScopeLaw
<1> QED BY <1>1, <1>3 DEF ResetLocals, l

LEMMA TopLevelNames ==
  ASSUME IInv, LookupInv, Good(graph'),
         \/ ParseFunction \/ RecoverFromSyntaxError
         \/ CommitFunction \/ CommitInitializer \/ BeginStream
  PROVE  LookupInv'
<1>1. /\ Good(graph) /\ Lawful(graph)
      /\ at_file_scope = VisibleNames(graph.declarations)
      /\ phase \notin Resolving => captured = {}
  BY DEF IInv, LookupInv, NamesInv, AnswersInv
<1>2. CASE ParseFunction
  BY <1>1, <1>2, ResetLocalsLaw, OutsideStep DEF ParseFunction
<1>3. CASE RecoverFromSyntaxError
  <2>1. captured' = {}
    BY <1>1, <1>3 DEF RecoverFromSyntaxError, Resolving
  <2> QED BY <1>1, <1>3, <2>1, ResetLocalsLaw, OutsideStep
          DEF RecoverFromSyntaxError
<1>4. CASE CommitFunction
  BY <1>1, <1>4, LeaveLaw, OutsideStep DEF CommitFunction
<1>5. CASE CommitInitializer
  <2>1. captured' = {}
    BY <1>1, <1>5 DEF CommitInitializer, Resolving
  <2> QED BY <1>1, <1>5, <2>1, OutsideStep DEF CommitInitializer
<1>6. CASE BeginStream
  <2> DEFINE l   == LeaveAllScopes(graph)
             ids == {d \in DOMAIN graph.declarations :
                       graph.declarations[d].kind = "FUNCTION"}
             h   == Forget(l, ids)
             n   == Len(graph.declarations)
             u   == graph.declarations
             v   == h.declarations
  <2>1. graph' = h /\ phase' = "toplevel" /\ captured' = {}
        /\ at_file_scope' = at_file_scope \ {u[d].name : d \in ids}
    BY <1>6 DEF BeginStream
  <2>2. Good(l) /\ Lawful(l) /\ l.declarations = u
    BY <1>1, LeaveLaw, LeaveAllScopesGood
  <2> HIDE DEF l
  <2>3. /\ DOMAIN v = 1 .. n
        /\ \A d \in 1 .. n :
             /\ d \notin ids => v[d] = u[d]
             /\ d \in ids => v[d].kind = "UNKNOWN"
             /\ v[d].scope = u[d].scope /\ v[d].space = u[d].space
             /\ v[d].name = u[d].name
        /\ h.scopes = l.scopes
    BY <2>2, ForgetEffect
  <2> HIDE DEF h
  <2>4. n \in Nat /\ DOMAIN u = 1 .. n
    BY <1>1, GraphParts
  <2>5. Forgets(v, u, n, ids)
    BY <2>3, <2>4 DEF Forgets
  <2>6. DeclLaw(u)
    BY <1>1 DEF Lawful
  <2> HIDE DEF n, u, v, ids
  <2>7. DeclLaw(v) /\ VisibleNames(v) = VisibleNames(u) \ {u[d].name : d \in ids}
    BY <2>5, <2>6, ForgetLaw
  <2>8. Lawful(h)
    BY <2>2, <2>3, <2>7 DEF Lawful, v
  <2>9. Lawful(graph') /\ at_file_scope' = VisibleNames(graph'.declarations)
    BY <1>1, <2>1, <2>7, <2>8 DEF u, v
  <2> QED BY <2>1, <2>9, OutsideStep
<1> QED BY <1>2, <1>3, <1>4, <1>5, <1>6

LEMMA BeginNames ==
  ASSUME IInv, LookupInv, BeginFunction \/ BeginInitializer
  PROVE  LookupInv'
<1>1. /\ saved' = <<graph>> /\ graph' = graph /\ captured' = captured
      /\ at_file_scope' = at_file_scope
      /\ \/ phase = "body" /\ phase' = "header"
         \/ phase = "toplevel" /\ phase' = "initializer"
  BY DEF BeginFunction, BeginInitializer, Begin, AtItem
<1>2. /\ Lawful(graph) /\ InFunction => Inside(graph)
      /\ at_file_scope = VisibleNames(graph.declarations)
      /\ captured = {}
  BY <1>1 DEF LookupInv, NamesInv, AnswersInv, Resolving
<1>3. saved'[1] = graph
  BY <1>1
<1>4. NamesInv'
  <2>1. Lawful(saved'[1]) /\ VisibleNames(saved'[1].declarations) = at_file_scope'
    BY <1>1, <1>2, <1>3 DEF LookupInv, NamesInv
  <2>2. InFunction' => Inside(graph')
    BY <1>1 DEF LookupInv, NamesInv, InFunction
  <2>3. Lawful(graph') /\ at_file_scope' = VisibleNames(graph'.declarations)
    BY <1>1 DEF LookupInv, NamesInv
  <2> QED BY <2>1, <2>2, <2>3 DEF NamesInv
<1>5. AnswersInv'
  BY <1>1, <1>2 DEF AnswersInv
<1> QED BY <1>4, <1>5 DEF LookupInv

LEMMA RollbackNames ==
  ASSUME IInv, LookupInv, Rollback
  PROVE  LookupInv'
<1> DEFINE o == saved[1]
           w == o.declarations
<1>1. graph' = o
  BY RollbackStep
<1>2. InTransaction
  BY DEF Rollback, InTransaction
<1>3. Lawful(o) /\ VisibleNames(w) \subseteq at_file_scope
      /\ at_file_scope = VisibleNames(graph.declarations)
  BY <1>2 DEF LookupInv, NamesInv
<1>4. at_file_scope' = {m \in at_file_scope :
                          \E d \in DOMAIN w : FileScopeName(w[d], m)}
  BY DEF Rollback, FileScopeName, Shown
<1>5. at_file_scope' = VisibleNames(w)
  BY <1>3, <1>4 DEF VisibleNames
<1>6. phase' \in {"toplevel", "stopped"} /\ captured' = {}
  BY DEF Rollback
<1> HIDE DEF o
<1> QED BY <1>1, <1>3, <1>5, <1>6, OutsideStep

LEMMA DeclareAtFileScopeNames ==
  ASSUME IInv, LookupInv, Good(graph'),
         NEW kind \in Linked, NEW name \in SourceName,
         DeclareAtFileScope(kind, name)
  PROVE  LookupInv'
<1> DEFINE top == TopName(name)
           h   == FileScopeLinked(kind, name)
<1>1. /\ Good(graph) /\ Lawful(graph)
      /\ at_file_scope = VisibleNames(graph.declarations)
  BY DEF IInv, LookupInv, NamesInv
<1>2. FileScopeTop(graph, top, kind, name)
  BY <1>1, TopIs DEF DeclareAtFileScope, TopName
<1>5. h = IF top = Invalid
          THEN DeclareAt(graph, TranslationUnit, "ORDINARY", kind, name)
          ELSE SetHidden(graph, top, FALSE)
  BY Zenon DEF FileScopeLinked
<1> HIDE DEF top, h
<1>3. /\ Lawful(h) /\ (Inside(graph) => Inside(h))
      /\ VisibleNames(h.declarations) = VisibleNames(graph.declarations) \cup {name}
  <2>1. /\ top = Invalid =>
             Enters(DeclareAt(graph, TranslationUnit, "ORDINARY", kind, name),
                    graph, name)
        /\ top # Invalid => Enters(SetHidden(graph, top, FALSE), graph, name)
    BY <1>1, <1>2, FileScopeLinkedLaw
  <2>2. Enters(h, graph, name)
    BY <1>5, <2>1, Zenon
  <2> QED BY <2>2 DEF Enters
<1>4. /\ graph' = h /\ phase' = phase /\ saved' = saved /\ captured' = {}
      /\ at_file_scope' = at_file_scope \cup {name}
  BY DEF DeclareAtFileScope, Step, h
<1> QED BY <1>1, <1>3, <1>4, OpenStep

LEMMA DeclareNames ==
  ASSUME IInv, LookupInv, Good(graph'),
         \/ \E kind \in {"OBJECT", "TYPEDEF", "ENUM_CONSTANT"},
               name \in SourceName : DeclareHere(kind, name)
         \/ DeclareLiteral
         \/ \E name \in SourceName : DeclareLabel(name)
  PROVE  LookupInv'
<1>1. /\ Good(graph) /\ Lawful(graph)
      /\ at_file_scope = VisibleNames(graph.declarations)
      /\ InFunction => Inside(graph)
      /\ phase \notin Resolving => captured = {}
      /\ graph.current \in 1 .. Len(graph.scopes)
      /\ TranslationUnit \in 1 .. Len(graph.scopes)
  BY GraphParts DEF IInv, LookupInv, NamesInv, AnswersInv, TranslationUnit
<1>2. CASE \E kind \in {"OBJECT", "TYPEDEF", "ENUM_CONSTANT"},
              name \in SourceName : DeclareHere(kind, name)
  <2>1. PICK kind \in {"OBJECT", "TYPEDEF", "ENUM_CONSTANT"},
             name \in SourceName : DeclareHere(kind, name)
    BY <1>2
  <2> DEFINE h == DeclareAt(graph, graph.current, "ORDINARY", kind, name)
  <2>2. graph' = h /\ phase' = phase /\ saved' = saved
        /\ at_file_scope' = at_file_scope
        /\ phase \in Resolving \cup {"toplevel"}
        /\ captured' = IF phase = "toplevel" THEN {} ELSE captured
    BY <2>1 DEF DeclareHere, Step, Declare
  <2>3. \A d \in 1 .. Len(graph.declarations) :
          ~Taken(graph.declarations[d], graph.current, "ORDINARY", name)
    BY <1>1, <2>1, NoneTaken DEF DeclareHere
  <2>4. /\ kind \in DeclKind /\ kind # "LINKAGE_ALIAS" /\ kind # "TAG"
        /\ kind \notin Linked /\ name \in Name /\ "ORDINARY" \in NameSpace
    BY DEF DeclKind, Linked, NameSpace, SourceName
  <2>5. MayDeclareAt(graph, graph.current, "ORDINARY", kind, name)
    BY <1>1, <2>3, <2>4 DEF MayDeclareAt
  <2>6. Joined(h, graph, graph.current, "ORDINARY", kind, name, 1)
    BY <1>1, <2>5, DeclareLaw
  <2> HIDE DEF h
  <2>7. /\ Lawful(h) /\ (Inside(graph) => Inside(h))
        /\ VisibleNames(h.declarations) = VisibleNames(graph.declarations)
        /\ graph.current # TranslationUnit => Quiet(h, graph)
    BY <2>4, <2>6 DEF Joined
  <2>8. phase \in Resolving => graph.current # TranslationUnit
    BY <1>1, InsideBelow DEF InFunction, Resolving
  <2>9. captured' = {} \/ (captured' = captured
                           /\ (phase \in Resolving => Quiet(graph', graph)))
    BY <2>2, <2>7, <2>8
  <2> QED BY <1>1, <2>2, <2>7, <2>9, OpenStep
<1>3. CASE DeclareLiteral
  <2> DEFINE h == DeclareSyntheticAt(graph, TranslationUnit, "ORDINARY",
                                     "GLOBAL_OBJECT", Anonymous)
  <2>1. graph' = h /\ phase' = phase /\ saved' = saved
        /\ at_file_scope' = at_file_scope /\ captured' = captured
        /\ phase \notin Resolving
    BY <1>3 DEF DeclareLiteral, Step, Resolving
  <2>2. Anonymous \in Name /\ Anonymous \notin SourceName
    BY NameAssumption DEF SourceName
  <2>3. MayDeclareAt(graph, TranslationUnit, "ORDINARY", "GLOBAL_OBJECT",
                   Anonymous)
    BY <1>1, <2>2 DEF MayDeclareAt, NameSpace, DeclKind
  <2>4. Joined(h, graph, TranslationUnit, "ORDINARY", "GLOBAL_OBJECT",
               Anonymous, 0)
    BY <1>1, <2>3, DeclareLaw
  <2> HIDE DEF h
  <2>5. /\ Lawful(h) /\ (Inside(graph) => Inside(h))
        /\ VisibleNames(h.declarations) = VisibleNames(graph.declarations)
    BY <2>2, <2>4 DEF Joined
  <2> QED BY <1>1, <2>1, <2>5, OpenStep
<1>4. CASE \E name \in SourceName : DeclareLabel(name)
  <2>1. PICK name \in SourceName : DeclareLabel(name)
    BY <1>4
  <2> DEFINE s == NearestFunction(graph)
             h == DeclareSyntheticAt(graph, s, "LABEL", "LABEL", name)
  <2>2. /\ s \in DOMAIN graph.scopes /\ graph' = h /\ phase' = phase
        /\ saved' = saved /\ at_file_scope' = at_file_scope
        /\ captured' = captured
        /\ LookupInScope(graph, s, "LABEL", name) = Invalid
    BY <2>1 DEF DeclareLabel, Step
  <2> HIDE DEF s
  <2>3. \A d \in 1 .. Len(graph.declarations) :
          ~Taken(graph.declarations[d], s, "LABEL", name)
    BY <1>1, <2>2, NoneTaken
  <2>4. s \in 1 .. Len(graph.scopes) /\ name \in Name /\ "LABEL" \notin Linked
        /\ "LABEL" \in NameSpace /\ "LABEL" \in DeclKind
    BY <1>1, <2>2, GraphParts DEF SourceName, Linked, NameSpace, DeclKind
  <2>5. MayDeclareAt(graph, s, "LABEL", "LABEL", name)
    BY <2>3, <2>4 DEF MayDeclareAt
  <2>6. Joined(h, graph, s, "LABEL", "LABEL", name, 0)
    BY <1>1, <2>5, DeclareLaw
  <2> HIDE DEF h
  <2>7. /\ Lawful(h) /\ (Inside(graph) => Inside(h)) /\ Quiet(h, graph)
        /\ VisibleNames(h.declarations) = VisibleNames(graph.declarations)
    BY <2>4, <2>6 DEF Joined
  <2> QED BY <1>1, <2>2, <2>7, OpenStep
<1> QED BY <1>2, <1>3, <1>4

LEMMA BlockNames ==
  ASSUME IInv, LookupInv, Good(graph'),
         \/ \E kind \in {"BLOCK", "FUNCTION_PROTOTYPE"} : EnterBlock(kind)
         \/ LeaveBlock
         \/ \E name \in SourceName : LookUp(name)
  PROVE  LookupInv'
<1>1. /\ Good(graph) /\ Lawful(graph)
      /\ at_file_scope = VisibleNames(graph.declarations)
  BY DEF IInv, LookupInv, NamesInv
<1>2. CASE \E kind \in {"BLOCK", "FUNCTION_PROTOTYPE"} : EnterBlock(kind)
  <2>1. PICK kind \in {"BLOCK", "FUNCTION_PROTOTYPE"} : EnterBlock(kind)
    BY <1>2
  <2> DEFINE h == EnterScope(graph, kind)
  <2>2. kind \in ScopeKind /\ kind # "FUNCTION"
    BY DEF ScopeKind
  <2>3. /\ graph' = h /\ phase' = phase /\ saved' = saved
        /\ at_file_scope' = at_file_scope /\ captured' = captured
        /\ kind = "BLOCK" =>
             graph.scopes[graph.current].kind \in {"FUNCTION", "BLOCK"}
    BY <2>1 DEF EnterBlock, Step
  <2>4. /\ Lawful(h) /\ h.declarations = graph.declarations
        /\ Quiet(h, graph) /\ (Inside(graph) => Inside(h))
    BY <1>1, <2>2, <2>3, EnterScopeLaw
  <2> HIDE DEF h
  <2> QED BY <1>1, <2>3, <2>4, OpenStep
<1>3. CASE LeaveBlock
  <2> DEFINE h == LeaveScope(graph)
  <2>1. /\ graph' = h /\ phase' = phase /\ saved' = saved
        /\ at_file_scope' = at_file_scope /\ captured' = captured
        /\ graph.scopes[graph.current].kind # "FUNCTION"
    BY <1>3 DEF LeaveBlock, Step
  <2>2. /\ Lawful(h) /\ h.declarations = graph.declarations
        /\ Quiet(h, graph) /\ (Inside(graph) => Inside(h))
    BY <1>1, <2>1, LeaveLaw
  <2> HIDE DEF h
  <2> QED BY <1>1, <2>1, <2>2, OpenStep
<1>4. CASE \E name \in SourceName : LookUp(name)
  <2>1. PICK name \in SourceName : LookUp(name)
    BY <1>4
  <2> DEFINE p == LookupPoint(graph)
             c == [name |-> name, point |-> p,
                   answer |-> Lookup(graph, "ORDINARY", name, p)]
  <2>2. /\ graph' = graph /\ phase' = phase /\ saved' = saved
        /\ at_file_scope' = at_file_scope /\ captured' = captured \cup {c}
        /\ phase \in Resolving
    BY <2>1 DEF LookUp
  <2>3. /\ p.scope = graph.current
        /\ p.order = graph.scopes[Root(graph, graph.current)].order
    BY DEF LookupPoint
  <2>4. c.name = name /\ c.point = p
        /\ c.answer = Lookup(graph, "ORDINARY", name, p)
    OBVIOUS
  <2> HIDE DEF c, p
  <2>5. /\ graph.current \in 1 .. Len(graph.scopes)
        /\ graph.scopes[Root(graph, graph.current)].order \in Nat
    BY <1>1, GraphParts, ScopeParts
  <2>6. PointLive(c, graph)
    BY <2>3, <2>4, <2>5 DEF PointLive
  <2>7. Stands(c, graph)
    BY <2>4 DEF Stands
  <2>8. NamesInv'
    BY <2>2 DEF LookupInv, NamesInv, InFunction, InTransaction
  <2>9. \A x \in captured' : PointLive(x, graph') /\ Stands(x, graph')
    BY <2>2, <2>6, <2>7 DEF LookupInv, AnswersInv
  <2>10. AnswersInv'
    BY <2>2, <2>9 DEF AnswersInv, PointLive, Stands
  <2> QED BY <2>8, <2>10 DEF LookupInv
<1> QED BY <1>2, <1>3, <1>4

LEMMA DeclareStaticLocalNames ==
  ASSUME IInv, LookupInv, Good(graph'), NEW name \in SourceName,
         NEW promoted \in SUBSET DOMAIN graph.declarations,
         DeclareStaticLocal(name, promoted)
  PROVE  LookupInv'
<1> DEFINE moved == Rehome(graph, promoted, TranslationUnit)
           made  == DeclareSyntheticAt(moved, TranslationUnit, "ORDINARY",
                                       "GLOBAL_OBJECT", Anonymous)
           h     == DeclareAt(made, made.current, "ORDINARY", "OBJECT", name)
           n     == Len(graph.declarations)
           u     == graph.declarations
           b     == graph.current
<1>1. /\ phase \in Resolving /\ graph' = h /\ phase' = phase
      /\ saved' = saved /\ captured' = captured
      /\ at_file_scope' = at_file_scope
      /\ \A d \in promoted : u[d].kind = "TAG" /\ u[d].name = Anonymous
      /\ LookupInScope(graph, b, "ORDINARY", name) = Invalid
  BY DEF DeclareStaticLocal, Resolving, Step, Declare
<1>2. /\ Good(graph) /\ Lawful(graph) /\ Inside(graph)
      /\ at_file_scope = VisibleNames(u)
  BY <1>1 DEF IInv, LookupInv, NamesInv, InFunction, Resolving
<1>3. /\ TranslationUnit \in 1 .. Len(graph.scopes) /\ n \in Nat
      /\ promoted \subseteq 1 .. n /\ DOMAIN u = 1 .. n
  BY <1>2, GraphParts DEF TranslationUnit
<1>4. Anonymous \in Name /\ Anonymous \notin SourceName /\ name # Anonymous
      /\ name \in Name
  BY NameAssumption DEF SourceName
<1>5. /\ Lawful(moved) /\ Inside(moved)
      /\ VisibleNames(moved.declarations) = VisibleNames(u)
      /\ Quiet(moved, graph)
  <2>1. \A d \in promoted : u[d].kind \in {"TAG", "ENUM_CONSTANT"}
    BY <1>1
  <2>2. \A d \in promoted : u[d].name \notin SourceName /\ u[d].kind = "TAG"
    BY <1>1, <1>4
  <2> QED BY <1>2, <1>3, <2>1, <2>2, RehomeLaw
<1>6. /\ Good(moved) /\ Len(moved.declarations) = n
      /\ moved.current = b
      /\ \A d \in 1 .. n :
           /\ d \notin promoted => moved.declarations[d] = u[d]
           /\ moved.declarations[d].space = u[d].space
  BY <1>2, <1>3, RehomeGood, RehomeEffect
<1> HIDE DEF moved
<1>7. TranslationUnit \in 1 .. Len(moved.scopes)
  BY <1>6, GraphParts DEF TranslationUnit
<1>8. MayDeclareAt(moved, TranslationUnit, "ORDINARY", "GLOBAL_OBJECT",
                 Anonymous)
  BY <1>4, <1>7 DEF MayDeclareAt, NameSpace, DeclKind
<1>9. /\ Good(made) /\ Lawful(made) /\ Inside(made)
      /\ VisibleNames(made.declarations) = VisibleNames(u)
      /\ Quiet(made, moved) /\ made.current = b
  <2>1. Joined(made, moved, TranslationUnit, "ORDINARY", "GLOBAL_OBJECT",
               Anonymous, 0)
    BY <1>5, <1>6, <1>8, DeclareLaw
  <2> HIDE DEF made
  <2> QED BY <1>4, <1>5, <1>6, <2>1 DEF Joined
<1>10. \A d \in 1 .. Len(made.declarations) :
         ~Taken(made.declarations[d], b, "ORDINARY", name)
  <2>1. Adds(made.declarations, moved.declarations, TranslationUnit,
             "ORDINARY", "GLOBAL_OBJECT", Anonymous, Invalid)
    BY <1>6, <1>7, AppendEffect DEF DeclareSyntheticAt
  <2>2. \A d \in 1 .. n : ~Taken(u[d], b, "ORDINARY", name)
    BY <1>1, <1>2, NoneTaken
  <2>3. \A d \in promoted : u[d].space = "TAG"
    BY <1>1, <1>2, <1>3 DEF Lawful, DeclLaw, TagsApart
  <2> HIDE DEF made, u
  <2>4. \A d \in 1 .. n : ~Taken(moved.declarations[d], b, "ORDINARY", name)
    BY <1>6, <2>2, <2>3 DEF Taken
  <2>5. Len(made.declarations) = n + 1
        /\ \A d \in 1 .. n : made.declarations[d] = moved.declarations[d]
    BY <1>6, <2>1 DEF Adds
  <2>6. ~Taken(made.declarations[n + 1], b, "ORDINARY", name)
    BY <1>4, <1>6, <2>1 DEF Adds, Taken
  <2>7. \A d \in 1 .. n + 1 : d \in 1 .. n \/ d = n + 1
    BY <1>3
  <2> QED BY <2>4, <2>5, <2>6, <2>7
<1> HIDE DEF made
<1>11. /\ b \in 1 .. Len(made.scopes) /\ b # TranslationUnit
  BY <1>2, <1>9, GraphParts, InsideBelow
<1>12. MayDeclareAt(made, b, "ORDINARY", "OBJECT", name)
  BY <1>4, <1>10, <1>11 DEF MayDeclareAt, NameSpace, DeclKind, Linked
<1>13. Joined(h, made, b, "ORDINARY", "OBJECT", name, 1)
  BY <1>9, <1>12, DeclareLaw
<1> HIDE DEF h
<1>14. /\ Good(h) /\ Lawful(h) /\ Inside(h) /\ Quiet(h, made)
       /\ VisibleNames(h.declarations) = VisibleNames(u)
  BY <1>9, <1>11, <1>13 DEF Joined, Linked
<1>15. Quiet(h, graph)
  <2>1. Quiet(made, graph)
    BY <1>2, <1>5, <1>6, <1>9, QuietTransitive
  <2> QED BY <1>2, <1>9, <1>14, <2>1, QuietTransitive
<1> HIDE DEF u
<1>16. at_file_scope' = VisibleNames(graph'.declarations)
  BY <1>1, <1>2, <1>14
<1> QED BY <1>1, <1>14, <1>15, <1>16, OpenStep

LEMMA DeclareTagNames ==
  ASSUME IInv, LookupInv, Good(graph'),
         NEW name \in Name, NEW members \in MemberLists,
         DeclareTag(name, members)
  PROVE  LookupInv'
<1> DEFINE tagged == DeclareAt(graph, graph.current, "TAG", "TAG", name)
           scoped == CreateScopeAt(tagged, tagged.current, "RECORD")
           s      == Len(scoped.scopes)
           u      == graph.declarations
<1>1. PICK count \in 0 .. Len(members) :
        /\ graph' = RegisterMembers(scoped, s, members, count)
        /\ Accepted(scoped, s, members, count)
        /\ phase' = phase /\ saved' = saved /\ at_file_scope' = at_file_scope
        /\ phase \in Resolving \cup {"toplevel"}
        /\ captured' = IF phase = "toplevel" THEN {} ELSE captured
        /\ \/ name = Anonymous
           \/ LookupInScope(graph, graph.current, "TAG", name) = Invalid
  BY DEF DeclareTag, Step, RecordScope, Declare
<1>2. /\ Good(graph) /\ Lawful(graph) /\ at_file_scope = VisibleNames(u)
      /\ graph.current \in 1 .. Len(graph.scopes)
  BY GraphParts DEF IInv, LookupInv, NamesInv
<1>3. MayDeclareAt(graph, graph.current, "TAG", "TAG", name)
  <2>1. name \in SourceName =>
          \A d \in 1 .. Len(u) : ~Taken(u[d], graph.current, "TAG", name)
    BY <1>1, <1>2, NoneTaken DEF SourceName
  <2> QED BY <1>2, <2>1 DEF MayDeclareAt, NameSpace, DeclKind, Linked
<1>4. /\ Good(tagged) /\ Lawful(tagged) /\ (Inside(graph) => Inside(tagged))
      /\ VisibleNames(tagged.declarations) = VisibleNames(u) /\ Quiet(tagged, graph)
  <2>1. Joined(tagged, graph, graph.current, "TAG", "TAG", name, 1)
    BY <1>2, <1>3, DeclareLaw
  <2> HIDE DEF tagged
  <2> QED BY <2>1 DEF Joined, Linked
<1> HIDE DEF tagged
<1>5. tagged.current \in 1 .. Len(tagged.scopes) /\ "RECORD" \in ScopeKind
  BY <1>4, GraphParts DEF ScopeKind
<1>6. /\ Good(scoped) /\ s = Len(tagged.scopes) + 1
      /\ scoped.declarations = tagged.declarations
      /\ ScopeLaw(scoped.scopes) /\ (Inside(tagged) => Inside(scoped))
      /\ Quiet(scoped, tagged)
  BY <1>4, <1>5, CreateScopeGood, CreateScopeLaw DEF NextScope, Lawful
<1> HIDE DEF scoped
<1>7. Lawful(scoped)
  BY <1>4, <1>6 DEF Lawful
<1>8. s \in 1 .. Len(scoped.scopes)
  BY <1>6, GraphParts
<1>9. \A d \in 1 .. Len(scoped.declarations) : scoped.declarations[d].scope # s
  <2>1. ASSUME NEW d \in 1 .. Len(tagged.declarations)
        PROVE  tagged.declarations[d].scope # s
    <3>1. tagged.declarations[d].scope \in 1 .. Len(tagged.scopes)
      BY <1>4, DeclarationParts
    <3> QED BY <1>6, <3>1, <1>4, GraphParts
  <2> QED BY <1>6, <2>1
<1> HIDE DEF s
<1>10. members \in Seq(Name)
  BY NameAssumption
<1> DEFINE h == RegisterMembers(scoped, s, members, count)
<1>11. /\ Good(h) /\ Lawful(h) /\ (Inside(scoped) => Inside(h))
       /\ VisibleNames(h.declarations) = VisibleNames(scoped.declarations)
       /\ Quiet(h, scoped)
  BY <1>1, <1>6, <1>7, <1>8, <1>9, <1>10, RegisterMembersGood,
     RegisterMembersLaw
<1> HIDE DEF h
<1>12. Quiet(h, graph)
  <2>1. Quiet(scoped, graph)
    BY <1>2, <1>4, <1>6, QuietTransitive
  <2> QED BY <1>2, <1>6, <1>11, <2>1, QuietTransitive
<1>13. graph' = h
  BY <1>1 DEF h
<1>14. at_file_scope' = VisibleNames(graph'.declarations)
  BY <1>1, <1>2, <1>4, <1>6, <1>11, <1>13
<1>15. \/ captured' = {}
       \/ captured' = captured /\ (phase \in Resolving => Quiet(graph', graph))
  BY <1>1, <1>12, <1>13
<1> QED BY <1>1, <1>4, <1>6, <1>11, <1>13, <1>14, <1>15, OpenStep

(* Moving tags and enumerators between inner scopes leaves the file scope. *)
MovesBelow(h, g, ids) ==
  /\ Len(h.declarations) = Len(g.declarations)
  /\ \A d \in 1 .. Len(g.declarations) :
       /\ d \notin ids => h.declarations[d] = g.declarations[d]
       /\ d \in ids => /\ h.declarations[d].scope # TranslationUnit
                       /\ g.declarations[d].scope # TranslationUnit

LEMMA TopKept ==
  ASSUME NEW g, NEW h, NEW ids, NEW top, NEW kind, NEW name,
         FileScopeTop(g, top, kind, name), MovesBelow(h, g, ids)
  PROVE  FileScopeTop(h, top, kind, name)
<1>1. ASSUME NEW d \in 1 .. Len(g.declarations)
      PROVE  /\ Taken(h.declarations[d], TranslationUnit, "ORDINARY", name)
                  <=> Taken(g.declarations[d], TranslationUnit, "ORDINARY",
                            name)
             /\ Taken(g.declarations[d], TranslationUnit, "ORDINARY", name)
                  => h.declarations[d] = g.declarations[d]
  BY DEF Taken, MovesBelow
<1>2. Len(h.declarations) = Len(g.declarations)
  BY DEF MovesBelow
<1> QED BY <1>1, <1>2 DEF FileScopeTop

LEMMA FinishHeaderNames ==
  ASSUME IInv, LookupInv, Good(graph'),
         NEW name \in SourceName, NEW oldStyle \in BOOLEAN,
         FinishHeader(name, oldStyle)
  PROVE  LookupInv'
<1> DEFINE b      == graph.current
           u      == graph.declarations
           n      == Len(u)
           listed == {d \in header + 1 .. LastDeclaration(graph) :
                        /\ graph.declarations[d].scope = b
                        /\ graph.declarations[d].kind
                             \in {"TAG", "ENUM_CONSTANT"}}
           scoped == CreateScopeAt(graph, b, "FUNCTION_PROTOTYPE")
           s      == Len(scoped.scopes)
           moved  == Rehome(scoped, listed, s)
           ready  == IF oldStyle THEN moved ELSE graph
           top    == TopName(name)
<1>1. /\ phase = "header" /\ phase' = "statements"
      /\ at_file_scope' = at_file_scope \cup {name} /\ captured' = {}
      /\ saved' = saved
      /\ ~HasDifferentKind(graph, TranslationUnit, "ORDINARY", "FUNCTION",
                           name)
  BY DEF FinishHeader
<1>2. /\ top = Invalid =>
           graph' = DeclareAt(ready, TranslationUnit, "ORDINARY", "FUNCTION",
                              name)
      /\ top # Invalid => graph' = SetHidden(ready, top, FALSE)
  BY Zenon DEF FinishHeader
<1>3. /\ Good(graph) /\ Lawful(graph) /\ Inside(graph)
      /\ at_file_scope = VisibleNames(u) /\ header \in Nat
  BY <1>1 DEF IInv, TypeOK, LookupInv, NamesInv, InFunction
<1>4. /\ b \in 1 .. Len(graph.scopes) /\ b # TranslationUnit /\ n \in Nat
      /\ Len(graph.scopes) \in Nat \ {0} /\ DOMAIN u = 1 .. n
  BY <1>3, GraphParts, InsideBelow
<1>5. FileScopeTop(graph, top, "FUNCTION", name)
  BY <1>1, <1>3, TopIs DEF TopName, Linked
<1>6. /\ Good(scoped) /\ s = Len(graph.scopes) + 1
      /\ scoped.declarations = u /\ scoped.current = b
      /\ ScopeLaw(scoped.scopes) /\ Inside(scoped)
  <2>1. "FUNCTION_PROTOTYPE" \in ScopeKind
    BY DEF ScopeKind
  <2> QED BY <1>3, <1>4, <2>1, CreateScopeGood, CreateScopeLaw
          DEF NextScope, Lawful
<1>7. /\ listed \subseteq 1 .. n
      /\ \A d \in listed : u[d].scope = b
                           /\ u[d].kind \in {"TAG", "ENUM_CONSTANT"}
  BY <1>3, <1>4 DEF LastDeclaration
<1> HIDE DEF listed, scoped, top
<1>8. Lawful(scoped) /\ s \in 1 .. Len(scoped.scopes) /\ s # TranslationUnit
  BY <1>3, <1>4, <1>6, GraphParts DEF Lawful, TranslationUnit
<1>9. \A d \in 1 .. n : u[d].scope # s
  <2>1. ASSUME NEW d \in 1 .. n
        PROVE  u[d].scope # s
    <3>1. u[d].scope \in 1 .. Len(graph.scopes)
      BY <1>3, DeclarationParts
    <3> QED BY <1>4, <1>6, <3>1
  <2> QED BY <2>1
<1> HIDE DEF s
<1>10. /\ Lawful(moved) /\ Inside(moved)
       /\ VisibleNames(moved.declarations) = VisibleNames(u)
  <2>1. /\ listed \subseteq 1 .. Len(scoped.declarations)
        /\ \A d \in listed : scoped.declarations[d].kind
                               \in {"TAG", "ENUM_CONSTANT"}
        /\ \A d \in 1 .. Len(scoped.declarations) :
             scoped.declarations[d].scope # s
        /\ \A d, e \in listed :
             scoped.declarations[d].scope = scoped.declarations[e].scope
    BY <1>6, <1>7, <1>9
  <2> QED BY <1>6, <1>8, <2>1, RehomeLaw
<1>11. /\ Good(moved) /\ Len(moved.declarations) = n
       /\ \A d \in 1 .. n :
            /\ d \notin listed => moved.declarations[d] = u[d]
            /\ d \in listed => moved.declarations[d].scope = s
  BY <1>6, <1>8, RehomeGood, RehomeEffect
<1> HIDE DEF moved
<1>12. FileScopeTop(moved, top, "FUNCTION", name)
  <2>1. MovesBelow(moved, graph, listed)
    BY <1>4, <1>7, <1>8, <1>11 DEF MovesBelow
  <2> HIDE DEF b, u
  <2> QED BY <1>5, <2>1, TopKept
<1>13. /\ Good(ready) /\ Lawful(ready) /\ Inside(ready)
       /\ VisibleNames(ready.declarations) = VisibleNames(u)
       /\ FileScopeTop(ready, top, "FUNCTION", name)
  BY <1>3, <1>5, <1>10, <1>11, <1>12
<1> HIDE DEF ready
<1>14. /\ top = Invalid =>
            Enters(DeclareAt(ready, TranslationUnit, "ORDINARY", "FUNCTION",
                             name), ready, name)
       /\ top # Invalid => Enters(SetHidden(ready, top, FALSE), ready, name)
  BY <1>13, FileScopeLinkedLaw DEF Linked
<1>15. Enters(graph', ready, name)
  BY <1>2, <1>14, Zenon
<1>16. /\ Lawful(graph') /\ Inside(graph')
       /\ VisibleNames(graph'.declarations) = VisibleNames(u) \cup {name}
  BY <1>13, <1>15 DEF Enters
<1> HIDE DEF u
<1>17. /\ phase \in Resolving /\ phase' \in Resolving
       /\ at_file_scope' = VisibleNames(graph'.declarations)
       /\ at_file_scope \subseteq at_file_scope'
  BY <1>1, <1>3, <1>16 DEF Resolving
<1> QED BY <1>1, <1>16, <1>17, OpenStep

(* What stands in an inner scope under a name with linkage means the last  *)
(* declaration of the name at file scope.                                  *)
LEMMA HereMeansTop ==
  ASSUME NEW g, Good(g), Lawful(g), NEW b, b # TranslationUnit,
         NEW kind \in Linked, NEW name \in SourceName, NEW here, NEW top,
         here = LookupInScope(g, b, "ORDINARY", name),
         top = LookupInScope(g, TranslationUnit, "ORDINARY", name),
         here # Invalid =>
           kind = IF g.declarations[here].kind = "LINKAGE_ALIAS"
                  THEN g.declarations[g.declarations[here].alias].kind
                  ELSE g.declarations[here].kind
  PROVE  \A d \in 1 .. Len(g.declarations) :
           Taken(g.declarations[d], b, "ORDINARY", name) =>
             /\ top # Invalid /\ g.declarations[top].kind = kind
             /\ Shown(g.declarations[d]) => Denoted(g.declarations, d) = top
<1> DEFINE u == g.declarations
           n == Len(u)
           t == u[here].alias
<1> SUFFICES ASSUME NEW d \in 1 .. n, Taken(u[d], b, "ORDINARY", name)
             PROVE  /\ top # Invalid /\ u[top].kind = kind
                    /\ Shown(u[d]) => Denoted(u, d) = top
  OBVIOUS
<1>1. here # Invalid
  BY NoneTaken
<1>2. /\ here \in 1 .. n /\ Taken(u[here], b, "ORDINARY", name)
  BY <1>1, TopTaken
<1>3. DOMAIN u = 1 .. n /\ DeclLaw(u) /\ n \in Nat
  BY GraphParts DEF Lawful
<1>4. u[here].kind = "LINKAGE_ALIAS" /\ u[t].kind = kind
  <2>1. u[here].kind \in Linked => u[here].scope = TranslationUnit
    BY <1>2, <1>3 DEF DeclLaw, LinkedOutside
  <2> QED BY <1>1, <1>2, <2>1 DEF Taken
<1>5. /\ Shown(u[here]) /\ t \in 1 .. n
      /\ Taken(u[t], TranslationUnit, "ORDINARY", name)
  <2>1. Shown(u[here]) /\ t \in 1 .. n /\ MayTarget(u[t], u[here].name)
    BY <1>2, <1>3, <1>4 DEF DeclLaw, AliasesMean
  <2> QED BY <1>2, <1>4, <2>1 DEF MayTarget, Taken, Linked
<1>6. top # Invalid
  BY <1>5, NoneTaken
<1>7. /\ top \in 1 .. n /\ Taken(u[top], TranslationUnit, "ORDINARY", name)
      /\ t <= top
  BY <1>5, <1>6, TopTaken
<1> HIDE DEF n, t
<1>8. t = top
  <2> SUFFICES ASSUME t # top PROVE FALSE
    OBVIOUS
  <2>1. t < top
    BY <1>3, <1>5, <1>7
  <2>2. Twins(u, t, top) /\ u[t].name \in SourceName
        /\ u[t].scope = TranslationUnit /\ u[t].space = "ORDINARY"
    BY <1>5, <1>7 DEF Twins, Taken
  <2>3. u[t].kind \in Weak
    BY <1>3, <1>5, <1>7, <2>1, <2>2 DEF DeclLaw, LinkedLast
  <2> QED BY <1>4, <2>3 DEF Weak, Linked
<1>9. ASSUME Shown(u[d]) PROVE Denoted(u, d) = top
  <2>1. Twins(u, d, here) /\ u[d].name \in SourceName
    BY <1>2 DEF Twins, Taken
  <2>2. Denoted(u, d) = Denoted(u, here)
    BY <1>2, <1>3, <1>5, <1>9, <2>1 DEF DeclLaw, OneEntity
  <2> QED BY <1>4, <1>8, <2>2 DEF Denoted, t
<1> QED BY <1>4, <1>6, <1>8, <1>9

(* A backing declaration that enters the file scope hidden. *)
Backs(h, g, kind, name) ==
  h = SetHidden(DeclareAt(g, TranslationUnit, "ORDINARY", kind, name),
                Len(g.declarations) + 1, TRUE)

LEMMA BackingLaw ==
  ASSUME NEW g, Good(g), Lawful(g), NEW kind \in Linked,
         NEW name \in SourceName, NEW h,
         \A d \in 1 .. Len(g.declarations) :
           Taken(g.declarations[d], TranslationUnit, "ORDINARY", name)
             => g.declarations[d].kind \in Weak,
         Backs(h, g, kind, name)
  PROVE  /\ Good(h) /\ Lawful(h) /\ (Inside(g) => Inside(h))
         /\ VisibleNames(h.declarations) = VisibleNames(g.declarations)
         /\ Quiet(h, g) /\ h.current = g.current
         /\ Len(h.scopes) = Len(g.scopes)
         /\ Adds(h.declarations, g.declarations, TranslationUnit, "ORDINARY",
                 kind, name, Invalid)
<1> DEFINE made == DeclareAt(g, TranslationUnit, "ORDINARY", kind, name)
           n == Len(g.declarations)
           u == g.declarations
           v == h.declarations
           w == made.declarations
<1>1. /\ TranslationUnit \in 1 .. Len(g.scopes)
      /\ n \in Nat /\ DOMAIN u = 1 .. n
      /\ Len(g.scopes) \in Nat
  BY GraphParts DEF TranslationUnit
<1>2. /\ "ORDINARY" \in NameSpace /\ kind \in DeclKind
      /\ kind # "LINKAGE_ALIAS" /\ kind # "TAG" /\ name \in Name
  BY DEF NameSpace, DeclKind, Linked, SourceName
<1>3. /\ Adds(w, u, TranslationUnit, "ORDINARY", kind, name, Invalid)
      /\ Risen(made, g) /\ made.current = g.current
  BY <1>1, AppendEffect DEF DeclareAt
<1>4. Good(made) /\ Len(w) = n + 1
  BY <1>1, <1>2, <1>3, DeclareGood DEF Adds
<1> HIDE DEF made
<1>5. n + 1 \in 1 .. Len(w) /\ DOMAIN w = 1 .. n + 1
  BY <1>1, <1>4, GraphParts
<1>6. /\ Good(h)
      /\ Len(v) = n + 1 /\ DOMAIN v = 1 .. n + 1
      /\ \A e \in 1 .. n + 1 : e # n + 1 => v[e] = w[e]
      /\ SameDeclaration(v[n + 1], w[n + 1])
      /\ h.scopes = made.scopes /\ h.current = made.current
  <2>1. ASSUME NEW m \in BOOLEAN, h = SetHidden(made, n + 1, m)
        PROVE  /\ Good(h)
               /\ Len(v) = n + 1 /\ DOMAIN v = 1 .. n + 1
               /\ \A e \in 1 .. n + 1 : e # n + 1 => v[e] = w[e]
               /\ SameDeclaration(v[n + 1], w[n + 1])
               /\ h.scopes = made.scopes /\ h.current = made.current
    <3>1. Good(SetHidden(made, n + 1, m))
      BY <1>4, <1>5, SetHiddenGood
    <3>2. LET k == SetHidden(made, n + 1, m)
          IN /\ Len(k.declarations) = Len(w)
             /\ DOMAIN k.declarations = 1 .. Len(w)
             /\ \A e \in 1 .. Len(w) : e # n + 1 => k.declarations[e] = w[e]
             /\ SameDeclaration(k.declarations[n + 1], w[n + 1])
             /\ k.scopes = made.scopes /\ k.current = made.current
      BY <1>4, <1>5, SetHiddenEffect
    <3> QED BY <1>4, <2>1, <3>1, <3>2
  <2>2. h = SetHidden(made, n + 1, TRUE)
    BY DEF made, Backs
  <2> QED BY <2>1, <2>2, Zenon
<1>7. ~Shown(v[n + 1])
  <2>1. h = SetHidden(made, n + 1, TRUE)
    BY DEF made, Backs
  <2>2. ~Shown(SetHidden(made, n + 1, TRUE).declarations[n + 1])
    BY <1>4, <1>5, SetHiddenShown, Zenon
  <2> QED BY <2>1, <2>2, Zenon
<1>8. Adds(v, u, TranslationUnit, "ORDINARY", kind, name, Invalid)
  <2>1. ASSUME NEW e \in 1 .. n PROVE v[e] = u[e]
    <3>1. w[e] = u[e]
      BY <1>3 DEF Adds
    <3>2. e \in 1 .. n + 1 /\ e # n + 1
      BY <1>1
    <3>3. v[e] = w[e]
      BY <1>6, <3>2
    <3> QED BY <3>1, <3>3
  <2> QED BY <1>1, <1>3, <1>6, <2>1 DEF Adds, SameDeclaration
<1>9. Risen(h, g) /\ h.current = g.current
  BY <1>3, <1>6 DEF Risen
<1>10. DeclLaw(v)
  <2>1. DeclLaw(u) /\ MayAdd(u, TranslationUnit, "ORDINARY", kind, name,
                             Invalid)
    BY <1>2 DEF Lawful, MayAdd
  <2>2. \A d \in 1 .. n :
          Taken(u[d], TranslationUnit, "ORDINARY", name) =>
            u[d].kind \in Weak
    OBVIOUS
  <2> HIDE DEF u, v
  <2> QED BY <1>2, <1>7, <1>8, <2>1, <2>2, AddLaw DEF u
<1>11. VisibleNames(v) = VisibleNames(u)
  <2> HIDE DEF u, v
  <2> QED BY <1>7, <1>8, AddVisible DEF u
<1>12. ScopeLaw(h.scopes) /\ (Inside(g) => Inside(h))
  BY <1>6, <1>9, RisenLaw DEF Lawful
<1>13. Quiet(h, g)
  <2>1. Unseen(v[n + 1], g)
    BY <1>7 DEF Unseen
  <2> HIDE DEF n
  <2>2. \A d \in n + 1 .. n + 1 : d = n + 1
    BY <1>1
  <2>3. \A d \in n + 1 .. Len(v) : Unseen(v[d], g)
    BY <1>6, <2>1, <2>2
  <2>4. Len(v) = n + 1 /\ \A d \in 1 .. n : v[d] = u[d]
    BY <1>6, <1>8 DEF Adds, n
  <2>5. /\ Len(g.scopes) <= Len(h.scopes) /\ Len(u) <= Len(v)
        /\ \A t \in 1 .. Len(g.scopes) :
             /\ SameScope(h.scopes[t], g.scopes[t])
             /\ g.scopes[t].order <= h.scopes[t].order
    <3>1. n <= Len(v)
      BY <1>1, <2>4
    <3>2. Len(u) <= Len(v)
      BY <3>1 DEF n
    <3>3. Len(g.scopes) <= Len(h.scopes)
      BY <1>1, <1>9 DEF Risen
    <3> QED BY <1>9, <3>2, <3>3 DEF Risen
  <2> QED BY <2>3, <2>4, <2>5 DEF Quiet, n
<1> QED BY <1>6, <1>8, <1>9, <1>10, <1>11, <1>12, <1>13 DEF Lawful, Risen

LEMMA DeclareInBlockNames ==
  ASSUME IInv, LookupInv, Good(graph'),
         NEW kind \in Linked, NEW name \in SourceName,
         DeclareInBlock(kind, name)
  PROVE  LookupInv'
<1> DEFINE b       == graph.current
           u       == graph.declarations
           n       == Len(u)
           here    == LookupInScope(graph, b, "ORDINARY", name)
           top     == TopName(name)
           new     == \/ top = Invalid
                      \/ u[top].kind \in {"TYPEDEF", "ENUM_CONSTANT"}
           made    == DeclareAt(graph, TranslationUnit, "ORDINARY", kind,
                                name)
           backed  == IF new THEN SetHidden(made, LastDeclaration(made), TRUE)
                      ELSE graph
           backing == IF new THEN LastDeclaration(made) ELSE top
           w       == backed.declarations
           h       == DeclareLinkageAlias(backed, b, name, backing)
<1>1. /\ phase = "statements" /\ phase' = phase /\ saved' = saved
      /\ captured' = captured /\ at_file_scope' = at_file_scope
      /\ here # Invalid =>
           kind = IF u[here].kind = "LINKAGE_ALIAS"
                  THEN u[u[here].alias].kind ELSE u[here].kind
  BY DEF DeclareInBlock, Step
<1>2. MayAlias(backed, name, backing) /\ graph' = h
  BY Zenon DEF DeclareInBlock, Step
<1>3. /\ Good(graph) /\ Lawful(graph) /\ Inside(graph)
      /\ at_file_scope = VisibleNames(u)
  BY <1>1 DEF IInv, LookupInv, NamesInv, InFunction
<1>4. /\ b \in 1 .. Len(graph.scopes) /\ b # TranslationUnit /\ n \in Nat
      /\ TranslationUnit \in 1 .. Len(graph.scopes)
      /\ DOMAIN u = 1 .. n
  BY <1>3, GraphParts, InsideBelow DEF TranslationUnit
<1>5. \A d \in 1 .. n :
        Taken(u[d], b, "ORDINARY", name) =>
          /\ top # Invalid /\ u[top].kind = kind
          /\ Shown(u[d]) => Denoted(u, d) = top
  <2> HIDE DEF b
  <2> QED BY <1>1, <1>3, <1>4, HereMeansTop DEF TopName
<1>6. LastDeclaration(made) = n + 1
  <2>1. /\ "ORDINARY" \in NameSpace /\ kind \in DeclKind
        /\ kind # "LINKAGE_ALIAS" /\ name \in Name
    BY DEF NameSpace, DeclKind, Linked, SourceName
  <2> QED BY <1>3, <1>4, <2>1, DeclareGood DEF LastDeclaration
<1>7. new => Backs(backed, graph, kind, name)
  BY <1>6, Zenon DEF Backs
<1>8. ~new => backed = graph /\ backing = top
  BY Zenon
<1>9. new => backing = n + 1
  BY <1>6, Zenon
<1> HIDE DEF backed, backing, made
<1>10. ASSUME new, NEW d \in 1 .. n,
              Taken(u[d], TranslationUnit, "ORDINARY", name)
       PROVE  u[d].kind \in Weak
  <2>1. top # Invalid
    BY <1>3, <1>10, NoneTaken DEF TopName
  <2>2. /\ top \in 1 .. n /\ d <= top
        /\ Taken(u[top], TranslationUnit, "ORDINARY", name)
    BY <1>3, <1>10, <2>1, TopTaken DEF TopName
  <2> HIDE DEF top, n
  <2>3. u[top].kind \in Weak
    BY <1>10, <2>1 DEF Weak
  <2>4. CASE d = top
    BY <2>3, <2>4
  <2>5. CASE d # top
    <3>1. d < top
      BY <1>4, <2>2, <2>5
    <3>2. Twins(u, d, top) /\ u[d].name \in SourceName
          /\ u[d].scope = TranslationUnit /\ u[d].space = "ORDINARY"
      BY <1>10, <2>2 DEF Twins, Taken
    <3> QED BY <1>3, <1>4, <2>2, <3>1, <3>2 DEF Lawful, DeclLaw, LinkedLast
  <2> QED BY <2>4, <2>5
<1>11. /\ Good(backed) /\ Lawful(backed) /\ Inside(backed)
       /\ VisibleNames(w) = VisibleNames(u) /\ Quiet(backed, graph)
       /\ Len(backed.scopes) = Len(graph.scopes)
       /\ new => Adds(w, u, TranslationUnit, "ORDINARY", kind, name, Invalid)
  <2>1. CASE new
    <3>1. Backs(backed, graph, kind, name)
      BY <1>7, <2>1
    <3>2. \A d \in 1 .. n :
            Taken(u[d], TranslationUnit, "ORDINARY", name) =>
              u[d].kind \in Weak
      BY <1>10, <2>1
    <3> QED BY <1>3, <3>1, <3>2, BackingLaw
  <2>2. CASE ~new
    <3>1. backed = graph /\ Quiet(graph, graph)
      BY <1>3, <1>8, <2>2, QuietReflexive
    <3> QED BY <1>3, <2>2, <3>1
  <2> QED BY <2>1, <2>2
<1>12. /\ backing \in 1 .. Len(w) /\ backing \in Nat
       /\ MayTarget(w[backing], name)
  BY <1>2, <1>11, GraphParts DEF MayAlias, MayTarget
<1>13. MayAdd(w, b, "ORDINARY", "LINKAGE_ALIAS", name, backing)
  BY <1>12 DEF MayAdd, Linked
<1>14. ASSUME NEW d \in 1 .. Len(w), Taken(w[d], b, "ORDINARY", name),
              Shown(w[d])
       PROVE  Denoted(w, d) = backing
  <2>1. CASE ~new
    BY <1>5, <1>8, <1>14, <2>1
  <2>2. CASE new
    <3>1. Adds(w, u, TranslationUnit, "ORDINARY", kind, name, Invalid)
      BY <1>11, <2>2
    <3>2. /\ Len(w) = n + 1 /\ w[n + 1].scope = TranslationUnit
          /\ \A e \in 1 .. n : w[e] = u[e]
      BY <3>1 DEF Adds
    <3>3. d # n + 1
      BY <1>4, <1>14, <3>2 DEF Taken
    <3>4. d \in 1 .. n
      <4>1. n \in Nat /\ d \in 1 .. n + 1
        BY <1>4, <3>2
      <4> HIDE DEF n
      <4> QED BY <3>3, <4>1
    <3>5. top # Invalid /\ u[top].kind = kind
      BY <1>5, <1>14, <3>2, <3>4
    <3>6. kind \notin {"TYPEDEF", "ENUM_CONSTANT"}
      BY DEF Linked
    <3> QED BY <2>2, <3>5, <3>6
  <2> QED BY <2>1, <2>2
<1>15. MayJoin(w, b, "ORDINARY", "LINKAGE_ALIAS", name, backing)
  BY <1>4, <1>14 DEF MayJoin
<1>16. Joined(h, backed, b, "ORDINARY", "LINKAGE_ALIAS", name, 1)
  <2>1. /\ b \in 1 .. Len(backed.scopes) /\ "ORDINARY" \in NameSpace
        /\ "LINKAGE_ALIAS" \in DeclKind /\ name \in Name
    BY <1>4, <1>11 DEF NameSpace, DeclKind, SourceName
  <2> HIDE DEF b
  <2>2. Joined(AppendDeclaration(backed, b, "ORDINARY", "LINKAGE_ALIAS", name,
                                 backing, 1),
               backed, b, "ORDINARY", "LINKAGE_ALIAS", name, 1)
    BY <1>11, <1>12, <1>13, <1>15, <2>1, AppendLaw
  <2> QED BY <2>2 DEF DeclareLinkageAlias
<1> HIDE DEF h, new, top
<1>17. /\ Good(h) /\ Lawful(h) /\ Inside(h)
       /\ VisibleNames(h.declarations) = VisibleNames(w)
       /\ Quiet(h, backed)
  BY <1>4, <1>11, <1>16 DEF Joined, Linked
<1>18. Quiet(h, graph)
  BY <1>3, <1>11, <1>17, QuietTransitive
<1>19. graph' = h
  BY <1>2
<1> HIDE DEF u
<1>20. at_file_scope' = VisibleNames(graph'.declarations)
  BY <1>1, <1>3, <1>11, <1>17, <1>19
<1> QED BY <1>1, <1>17, <1>18, <1>19, <1>20, OpenStep

LEMMA NextLookupInv == IInv /\ LookupInv /\ [Next]_vars => LookupInv'
<1> SUFFICES ASSUME IInv, LookupInv, [Next]_vars
             PROVE  LookupInv'
  OBVIOUS
<1>1. Good(graph')
  BY NextIInv DEF IInv
<1>2. CASE \/ ParseFunction \/ RecoverFromSyntaxError
           \/ CommitFunction \/ CommitInitializer \/ BeginStream
  BY <1>1, <1>2, TopLevelNames
<1>3. CASE BeginFunction \/ BeginInitializer
  BY <1>3, BeginNames
<1>4. CASE Rollback
  BY <1>4, RollbackNames
<1>5. CASE \E kind \in Linked, name \in SourceName :
             DeclareAtFileScope(kind, name) \/ DeclareInBlock(kind, name)
  BY <1>1, <1>5, DeclareAtFileScopeNames, DeclareInBlockNames
<1>6. CASE \/ \E kind \in {"OBJECT", "TYPEDEF", "ENUM_CONSTANT"},
                 name \in SourceName : DeclareHere(kind, name)
           \/ DeclareLiteral
           \/ \E name \in SourceName : DeclareLabel(name)
  BY <1>1, <1>6, DeclareNames
<1>7. CASE \E name \in SourceName,
              promoted \in SUBSET DOMAIN graph.declarations :
             Cardinality(promoted) <= 1 /\ DeclareStaticLocal(name, promoted)
  BY <1>1, <1>7, DeclareStaticLocalNames
<1>8. CASE \E name \in Name, members \in MemberLists :
             DeclareTag(name, members)
  BY <1>1, <1>8, DeclareTagNames
<1>9. CASE \E name \in SourceName, oldStyle \in BOOLEAN :
             FinishHeader(name, oldStyle)
  BY <1>1, <1>9, FinishHeaderNames
<1>10. CASE \/ \E kind \in {"BLOCK", "FUNCTION_PROTOTYPE"} : EnterBlock(kind)
            \/ LeaveBlock
            \/ \E name \in SourceName : LookUp(name)
  BY <1>1, <1>10, BlockNames
<1>11. CASE UNCHANGED vars
  BY <1>11 DEF vars, LookupInv, NamesInv, AnswersInv, InFunction,
              InTransaction, PointLive, Stands
<1> QED BY <1>2, <1>3, <1>4, <1>5, <1>6, <1>7, <1>8, <1>9, <1>10, <1>11
        DEF Next

BothInv == IInv /\ LookupInv

LEMMA AlwaysBothInv == Spec => []BothInv
<1>1. Init => BothInv
  BY InitIInv, InitLookupInv DEF BothInv
<1>2. BothInv /\ [Next]_vars => BothInv'
  BY NextIInv, NextLookupInv DEF BothInv
<1> QED BY <1>1, <1>2, PTL DEF Spec

----------------------------------------
(* The theorems about lookups. *)

(* An extern declaration in a block, hidden backing declarations, moved    *)
(* tags and everything the function declares later leave each answer that  *)
(* lookup gave at a point of the function as it was.                       *)
THEOREM AnswersAlwaysStand == Spec => []AnswersStand
<1>1. BothInv => AnswersStand
  BY DEF BothInv, LookupInv, AnswersInv, Stands, AnswersStand
<1> QED BY <1>1, AlwaysBothInv, PTL

(* The duplicate checks see all that lookup sees: two shown declarations   *)
(* of a source name in one scope and name space are one entity.            *)
THEOREM AlwaysOneMeaning == Spec => []OneMeaning
<1>1. BothInv => OneMeaning
  <2> SUFFICES ASSUME BothInv PROVE OneMeaning
    OBVIOUS
  <2>1. OneEntity(graph.declarations)
    BY DEF BothInv, LookupInv, NamesInv, Lawful, DeclLaw
  <2> QED BY <2>1 DEF OneMeaning, OneEntity, Twins, Shown, Denoted
<1> QED BY <1>1, AlwaysBothInv, PTL

(* A name with linkage is shown at file scope exactly when it was declared *)
(* there, through the hidden declarations of blocks and every rollback.    *)
THEOREM FileScopeAlwaysVisible == Spec => []FileScopeVisible
<1>1. BothInv => FileScopeVisible
  BY DEF BothInv, LookupInv, NamesInv, VisibleNames, FileScopeName, Shown,
         FileScopeVisible
<1> QED BY <1>1, AlwaysBothInv, PTL

----------------------------------------
(* The names of NameResolution.  The parser numbers the places of a text as  *)
(* it reads it; q[i] holds what it knows before construct i, and the last   *)
(* element what it knows at the end: the path of the scopes that are open,  *)
(* the next scope it would number, and its count of declarations.  The      *)
(* resolver comes by the same places later.                                 *)

IsSeq(t) == \E S : t \in Seq(S)

LEMMA SeqParts ==
  ASSUME NEW t, IsSeq(t)
  PROVE  Len(t) \in Nat /\ DOMAIN t = 1 .. Len(t)
BY DEF IsSeq

LEMMA Longer ==
  ASSUME NEW t, IsSeq(t), NEW x
  PROVE  /\ IsSeq(Append(t, x)) /\ Len(t) \in Nat /\ Len(Append(t, x)) = Len(t) + 1
         /\ Append(t, x)[Len(t) + 1] = x
         /\ \A k \in 1 .. Len(t) : Append(t, x)[k] = t[k]
<1>1. PICK S : t \in Seq(S)
  BY DEF IsSeq
<1>2. t \in Seq(S \cup {x}) /\ x \in S \cup {x}
  BY <1>1
<1>3. Append(t, x) \in Seq(S \cup {x})
  BY <1>2
<1>4. /\ Len(t) \in Nat /\ Len(Append(t, x)) = Len(t) + 1
      /\ Append(t, x)[Len(t) + 1] = x
      /\ \A k \in 1 .. Len(t) : Append(t, x)[k] = t[k]
  BY <1>2
<1> QED BY <1>3, <1>4 DEF IsSeq

Lev(q, i) == Len(q[i].path)
At(q, i) == q[i].path[Lev(q, i)]

(* The scopes that are open at a are open at b. *)
Kept(q, a, b) == \A k \in a .. b : Lev(q, a) <= Lev(q, k)

(* The scopes of a path are numbered upwards, below the next number. *)
Path(p, n) ==
  /\ p \in Seq(Nat) /\ Len(p) \in Nat \ {0}
  /\ \A m \in 1 .. Len(p) : p[m] \in Nat /\ 2 <= p[m] /\ p[m] < n
  /\ \A l, m \in 1 .. Len(p) : l < m => p[l] < p[m]

Place(r) == r.next \in Nat /\ r.order \in Nat /\ Path(r.path, r.next)

(* The innermost scope of a is on the path of b if it is still open there. *)
Meet(q, a, b) ==
  \A m \in 1 .. Lev(q, b) :
    q[b].path[m] = At(q, a) <=> Kept(q, a, b) /\ m = Lev(q, a)

Places(q) ==
  /\ IsSeq(q) /\ Len(q) \in Nat \ {0} /\ q[1].path = <<2>> /\ q[1].next = 3
  /\ \A i \in 1 .. Len(q) : Place(q[i])
  /\ \A a, b \in 1 .. Len(q) : a <= b => q[a].next <= q[b].next
  /\ \A a, b \in 1 .. Len(q) : a <= b => Meet(q, a, b)

(* A path is entered, left or stays. *)
Shifts(r, s) ==
  \/ s.path = Append(r.path, r.next) /\ r.next < s.next
  \/ Len(r.path) > 1 /\ s.path = SubSeq(r.path, 1, Len(r.path) - 1)
  \/ s.path = r.path

LEMMA PathStep ==
  ASSUME NEW r, Place(r), NEW s, r.next <= s.next, s.next \in Nat, Shifts(r, s)
  PROVE  /\ Path(s.path, s.next)
         /\ \A m \in 1 .. Len(s.path) : m \in 1 .. Len(r.path) => s.path[m] = r.path[m]
         /\ \A m \in 1 .. Len(s.path) : m \notin 1 .. Len(r.path) => s.path[m] = r.next
<1>1. PICK p, a, b, N : p = r.path /\ a = r.next /\ b = s.next /\ N = Len(p)
  OBVIOUS
<1>2. p \in Seq(Nat) /\ N \in Nat /\ 1 <= N /\ a \in Nat /\ b \in Nat /\ a <= b
  BY <1>1 DEF Place, Path
<1>3. /\ \A m \in 1 .. N : p[m] \in Nat /\ 2 <= p[m] /\ p[m] < a
      /\ \A l, m \in 1 .. N : l < m => p[l] < p[m]
  BY <1>1 DEF Place, Path
<1>4. PICK u, K : u = s.path /\ K = Len(u)
  OBVIOUS
<1>5. /\ u \in Seq(Nat) /\ K \in Nat /\ 1 <= K /\ K <= N + 1
      /\ \A m \in 1 .. K : m <= N => u[m] = p[m]
      /\ K = N + 1 => u[K] = a /\ a < b
  <2>1. CASE s.path = Append(r.path, r.next) /\ r.next < s.next
    <3>1. u = Append(p, a) /\ a < b
      BY <1>1, <1>4, <2>1
    <3>2. u \in Seq(Nat) /\ Len(u) = N + 1 /\ u[N + 1] = a /\ \A m \in 1 .. N : u[m] = p[m]
      BY <1>1, <1>2, <3>1
    <3>3. \A m \in 1 .. K : m <= N => m \in 1 .. N
      BY <1>2, <1>4, <3>2
    <3> QED BY <1>2, <1>4, <3>1, <3>2, <3>3, SMTT(30)
  <2>2. CASE Len(r.path) > 1 /\ s.path = SubSeq(r.path, 1, Len(r.path) - 1)
    <3>1. u = SubSeq(p, 1, N - 1) /\ N > 1
      BY <1>1, <1>4, <2>2
    <3>2. u \in Seq(Nat) /\ Len(u) = N - 1 /\ \A m \in 1 .. N - 1 : u[m] = p[m]
      BY <1>1, <1>2, <3>1
    <3> QED BY <1>2, <1>4, <3>1, <3>2
  <2>3. CASE s.path = r.path
    BY <1>1, <1>2, <1>4, <2>3
  <2> QED BY <2>1, <2>2, <2>3 DEF Shifts
<1>6. \A m \in 1 .. K : m \in 1 .. N \/ (m = N + 1 /\ m = K /\ ~(m <= N))
  BY <1>2, <1>5
<1>7. 2 <= a
  BY <1>2, <1>3
<1>8. \A m \in 1 .. K : u[m] \in Nat /\ 2 <= u[m] /\ u[m] < b
  <2> SUFFICES ASSUME NEW m \in 1 .. K
               PROVE  u[m] \in Nat /\ 2 <= u[m] /\ u[m] < b
    OBVIOUS
  <2>1. CASE m \in 1 .. N
    <3>1. u[m] = p[m] /\ p[m] \in Nat /\ 2 <= p[m] /\ p[m] < a
      BY <1>3, <1>5, <2>1
    <3> QED BY <1>2, <3>1
  <2> QED BY <1>2, <1>5, <1>6, <1>7, <2>1
<1>9. ASSUME NEW l \in 1 .. K, NEW m \in 1 .. K, l < m
      PROVE  u[l] < u[m]
  <2>1. l \in 1 .. N /\ u[l] = p[l] /\ p[l] < a
    <3>1. l \in 1 .. N
      BY <1>2, <1>5, <1>9
    <3> QED BY <1>3, <1>5, <3>1
  <2>2. CASE m \in 1 .. N
    BY <1>3, <1>5, <1>9, <2>1, <2>2
  <2>3. CASE m \notin 1 .. N
    BY <1>5, <1>6, <2>1, <2>3
  <2> QED BY <2>2, <2>3
<1>10. Path(u, b)
  BY <1>4, <1>5, <1>8, <1>9 DEF Path
<1>11. \A m \in 1 .. K : (m \in 1 .. N => u[m] = p[m]) /\ (m \notin 1 .. N => u[m] = a)
  BY <1>5, <1>6
<1> QED BY <1>1, <1>4, <1>10, <1>11

LEMMA PlacesStep ==
  ASSUME NEW q, Places(q), NEW s, s.order \in Nat, s.next \in Nat,
         q[Len(q)].next <= s.next, Shifts(q[Len(q)], s)
  PROVE  Places(Append(q, s))
<1> DEFINE n == Len(q)
<1>1. PICK u : u = Append(q, s)
  OBVIOUS
<1>2. /\ IsSeq(u) /\ n \in Nat \ {0} /\ Len(u) = n + 1 /\ u[n + 1] = s
      /\ \A k \in 1 .. n : u[k] = q[k]
  BY <1>1, Longer DEF Places
<1>3. PICK r : r = q[n]
  OBVIOUS
<1>4. Place(r) /\ r.next <= s.next /\ Shifts(r, s) /\ u[n] = r
  BY <1>2, <1>3 DEF Places
<1>5. /\ Path(s.path, s.next)
      /\ \A m \in 1 .. Len(s.path) : m \in 1 .. Len(r.path) => s.path[m] = r.path[m]
      /\ \A m \in 1 .. Len(s.path) : m \notin 1 .. Len(r.path) => s.path[m] = r.next
  BY <1>4, PathStep
<1>6. \A i \in 1 .. n + 1 : Place(u[i])
  <2>1. \A i \in 1 .. n + 1 : i \in 1 .. n \/ i = n + 1
    BY <1>2
  <2> QED BY <1>2, <1>5, <2>1 DEF Place, Places
<1>7. \A a, b \in 1 .. n + 1 : a <= b => u[a].next <= u[b].next
  <2>1. \A i \in 1 .. n + 1 : (i \in 1 .. n \/ i = n + 1) /\ u[i].next \in Nat
    BY <1>2, <1>6 DEF Place
  <2>2. \A a \in 1 .. n : u[a].next <= r.next
    BY <1>2, <1>3 DEF Places
  <2>3. r.next \in Nat /\ u[n + 1].next = s.next
    BY <1>2, <1>4 DEF Place
  <2>4. \A a, b \in 1 .. n : a <= b => u[a].next <= u[b].next
    BY <1>2 DEF Places
  <2> QED BY <1>2, <1>4, <2>1, <2>2, <2>3, <2>4
<1>8. \A k \in 1 .. n : Lev(u, k) = Lev(q, k) /\ At(u, k) = At(q, k) /\ Lev(u, k) \in Nat
  BY <1>2, <1>6 DEF Lev, At, Place, Path
<1>9. ASSUME NEW a \in 1 .. n
      PROVE  Meet(u, a, n + 1)
  <2>1. PICK L : L = Lev(u, a) /\ L \in Nat
    BY <1>8
  <2>2. PICK N : N = Len(r.path) /\ N \in Nat /\ N = Lev(u, n) /\ N = Lev(q, n)
    BY <1>3, <1>4 DEF Place, Path, Lev
  <2>3. PICK M : M = Len(s.path) /\ M \in Nat \ {0} /\ M = Lev(u, n + 1)
    BY <1>2, <1>5 DEF Path, Lev
  <2>4. Kept(u, a, n + 1) <=> Kept(q, a, n) /\ L <= M
    <3>1. \A k \in a .. n + 1 : k \in a .. n \/ k = n + 1
      BY <1>2
    <3>2. \A k \in a .. n : k \in 1 .. n /\ k \in a .. n + 1
      BY <1>2
    <3>3. n + 1 \in a .. n + 1
      BY <1>2
    <3> QED BY <1>8, <2>1, <2>3, <3>1, <3>2, <3>3 DEF Kept
  <2>5. Kept(q, a, n) => L <= N
    <3>1. n \in a .. n
      BY <1>2
    <3> QED BY <1>2, <1>8, <2>1, <2>2, <3>1 DEF Kept
  <2>6. \A m \in 1 .. N : r.path[m] = At(u, a) <=> Kept(q, a, n) /\ m = L
    BY <1>2, <1>3, <1>8, <2>1, <2>2 DEF Places, Meet
  <2>7. At(u, a) < r.next /\ At(u, a) \in Nat
    <3>1. u[a].next <= r.next /\ r.next \in Nat /\ u[a].next \in Nat
      BY <1>2, <1>4, <1>6, <1>7 DEF Place
    <3>2. PICK p, k : p = u[a].path /\ k = u[a].next
      OBVIOUS
    <3>3. Path(p, k) /\ k \in Nat
      <4>1. a \in 1 .. n + 1
        BY <1>2
      <4> QED BY <1>6, <3>2, <4>1 DEF Place
    <3>4. Len(p) \in 1 .. Len(p)
      BY <3>3 DEF Path
    <3>5. p[Len(p)] \in Nat /\ p[Len(p)] < k
      BY <3>3, <3>4 DEF Path
    <3>6. At(u, a) = p[Len(p)]
      BY <3>2 DEF At, Lev
    <3>7. PICK x, y : x = At(u, a) /\ y = r.next
      OBVIOUS
    <3>8. x \in Nat /\ k \in Nat /\ y \in Nat /\ x < k /\ k <= y
      BY <3>1, <3>2, <3>3, <3>5, <3>6, <3>7
    <3>9. x < y
      BY ONLY <3>8
    <3> QED BY <3>7, <3>8, <3>9
  <2>8. /\ \A m \in 1 .. M : m <= N => s.path[m] = r.path[m]
        /\ \A m \in 1 .. M : N < m => s.path[m] = r.next
    BY <1>5, <2>2, <2>3
  <2>9. ASSUME NEW m \in 1 .. M
        PROVE  s.path[m] = At(u, a) <=> Kept(u, a, n + 1) /\ m = L
    <3>1. CASE m <= N
      <4>1. m \in 1 .. N /\ s.path[m] = r.path[m]
        BY <2>2, <2>3, <2>8, <3>1
      <4>2. s.path[m] = At(u, a) <=> Kept(q, a, n) /\ m = L
        BY <2>6, <4>1
      <4>3. m = L => L <= M
        BY <2>1, <2>3
      <4> QED BY <2>4, <4>2, <4>3
    <3>2. CASE N < m
      BY <2>1, <2>2, <2>3, <2>4, <2>5, <2>7, <2>8, <3>2
    <3> QED BY <2>2, <2>3, <3>1, <3>2
  <2> QED BY <1>2, <2>1, <2>3, <2>9 DEF Meet
<1>10. Meet(u, n + 1, n + 1)
  <2>1. PICK M : M = Len(s.path) /\ M \in Nat \ {0} /\ M = Lev(u, n + 1)
    BY <1>2, <1>5 DEF Path, Lev
  <2>2. Kept(u, n + 1, n + 1)
    <3>1. \A k \in n + 1 .. n + 1 : k = n + 1
      BY <1>2
    <3> QED BY <2>1, <3>1 DEF Kept
  <2>3. \A m \in 1 .. M : s.path[m] = s.path[M] <=> m = M
    <3>1. PICK y : y = s.path
      OBVIOUS
    <3>2. /\ \A m \in 1 .. M : y[m] \in Nat
          /\ \A l, m \in 1 .. M : l < m => y[l] < y[m]
      BY <1>5, <2>1, <3>1 DEF Path
    <3>3. M \in 1 .. M /\ \A m \in 1 .. M : m # M => m < M
      BY <2>1
    <3>4. \A m \in 1 .. M : m # M => y[m] < y[M]
      BY <3>2, <3>3
    <3>5. \A m \in 1 .. M : m # M => y[m] # y[M]
      BY <3>2, <3>3, <3>4
    <3> QED BY <3>1, <3>5
  <2> QED BY <1>2, <2>1, <2>2, <2>3 DEF Meet, At
<1>11. ASSUME NEW a \in 1 .. n, NEW b \in 1 .. n, a <= b
       PROVE  Meet(u, a, b)
  <2>1. Meet(q, a, b)
    BY <1>11 DEF Places
  <2>2. Kept(u, a, b) <=> Kept(q, a, b)
    <3>1. \A k \in a .. b : k \in 1 .. n
      BY <1>2
    <3> QED BY <1>8, <3>1 DEF Kept
  <2> QED BY <1>2, <1>8, <2>1, <2>2 DEF Meet
<1>12. \A a, b \in 1 .. n + 1 : a <= b => Meet(u, a, b)
  <2>1. \A i \in 1 .. n + 1 : i \in 1 .. n \/ i = n + 1
    BY <1>2
  <2> QED BY <1>2, <1>9, <1>10, <1>11, <2>1
<1>13. u[1].path = <<2>> /\ u[1].next = 3 /\ 1 \in 1 .. n
  BY <1>2 DEF Places
<1> QED BY <1>1, <1>2, <1>6, <1>7, <1>12, <1>13 DEF Places

----------------------------------------
(* Texts.  What a construct takes of the scopes and of the order of the     *)
(* function.                                                                *)

Heads == {"return", "parameter"}
Naming == {"parameter", "object", "typedef"}
Kinds == Heads \cup Naming \cup {"enter", "leave", "use", "type_name", "cast"}

Scopes(s) == IF s.tag = "record" THEN IF s.callback THEN 2 ELSE 1 ELSE 0
Orders(s) == IF s.tag = "none" THEN 0 ELSE IF s.tag = "enum" THEN 2 ELSE 1
ScopesOf(ps) == IF ps = << >> THEN 0 ELSE 1 + Scopes(ps[1])

ItemScopes(x) ==
  Scopes(x.spec) + ScopesOf(x.parameters) + IF x.kind = "enter" THEN 1 ELSE 0
ItemOrders(x) == Orders(x.spec) + IF x.kind \in Naming THEN 1 ELSE 0

(* The parameter list of a declarator declares nothing in the function. *)
MayTake(ps) == ps = << >> \/ \E s \in Specifier : ps = <<s>> /\ s.tag # "enum"

Fine(x) ==
  /\ x.kind \in Kinds /\ x.spec \in Specifier
  /\ MayTake(x.parameters)
  /\ x.kind \in Naming \cup {"use"} => x.name \in Ident
  /\ x.kind = "return" => x.spec.tag = "none"
  /\ x.kind \in {"enter", "leave", "use"} =>
       x.spec.tag \in {"none", "reference"} /\ x.parameters = << >>
  /\ x.kind \in {"type_name", "cast"} => x.parameters = << >>

Readable(t) == IsSeq(t) /\ \A i \in 1 .. Len(t) : Fine(t[i])

LEMMA SpecifierCases ==
  ASSUME NEW s \in Specifier
  PROVE  /\ s.tag \in {"none", "reference", "record", "enum"}
         /\ s.tag = "record" => s.callback \in BOOLEAN
         /\ s.tag = "enum" => s.enumerator \in Ident
         /\ Scopes(s) \in Nat /\ Orders(s) \in Nat
<1>1. \/ s = NoTag \/ s = Reference \/ s = Record \/ s = RecordOfCallback
      \/ \E n \in Ident : s = Enum(n)
  BY DEF Specifier
<1>2. /\ s.tag \in {"none", "reference", "record", "enum"}
      /\ s.tag = "record" => s.callback \in BOOLEAN
      /\ s.tag = "enum" => s.enumerator \in Ident
  <2>1. CASE s = NoTag \/ s = Reference
    BY <2>1 DEF NoTag, Reference
  <2>2. CASE s = Record \/ s = RecordOfCallback
    <3>1. s.tag = "record" /\ (s.callback = TRUE \/ s.callback = FALSE)
      BY <2>2 DEF Record, RecordOfCallback
    <3> QED BY <3>1
  <2>3. CASE \E n \in Ident : s = Enum(n)
    BY <2>3 DEF Enum
  <2> QED BY <1>1, <2>1, <2>2, <2>3
<1> QED BY <1>2 DEF Scopes, Orders

LEMMA FineParts ==
  ASSUME NEW x, Fine(x)
  PROVE  /\ x.spec \in Specifier /\ Scopes(x.spec) \in Nat /\ Orders(x.spec) \in Nat
         /\ ScopesOf(x.parameters) \in Nat
         /\ ItemScopes(x) \in Nat /\ ItemOrders(x) \in Nat
         /\ x.kind = "enter" => ItemScopes(x) = 1
         /\ x.kind \in {"leave", "use"} => ItemScopes(x) = 0
         /\ x.kind \in {"enter", "leave", "use"} => Declares(x) = {}
         /\ Declares(x) \subseteq Ident
<1>1. x.spec \in Specifier /\ Scopes(x.spec) \in Nat /\ Orders(x.spec) \in Nat
  BY SpecifierCases DEF Fine
<1>2. ScopesOf(x.parameters) \in Nat
  <2>1. CASE x.parameters = << >>
    BY <2>1 DEF ScopesOf
  <2>2. ASSUME NEW s \in Specifier, x.parameters = <<s>>
        PROVE  ScopesOf(x.parameters) \in Nat
    BY <2>2, SpecifierCases DEF ScopesOf
  <2> QED BY <2>1, <2>2 DEF Fine, MayTake
<1>3. ItemScopes(x) \in Nat /\ ItemOrders(x) \in Nat
  BY <1>1, <1>2 DEF ItemScopes, ItemOrders
<1>4. x.kind \in {"enter", "leave", "use"} =>
        /\ Scopes(x.spec) = 0 /\ ScopesOf(x.parameters) = 0
        /\ Enumerators(x.spec) = {}
  BY DEF Fine, Scopes, ScopesOf, Enumerators
<1>5. x.kind \in {"enter", "leave", "use"} => Declares(x) = {}
  BY <1>4 DEF Declares
<1>6. Declares(x) \subseteq Ident
  <2>1. Enumerators(x.spec) \subseteq Ident
    BY <1>1, SpecifierCases DEF Enumerators
  <2> QED BY <2>1 DEF Declares, Fine, Naming
<1> QED BY <1>1, <1>2, <1>3, <1>4, <1>5, <1>6 DEF ItemScopes

(* The blocks that are open behind construct k of t. *)
Occurs(t, k, kind) == {j \in 1 .. k : t[j].kind = kind}
DepthOf(t, k) == Cardinality(Occurs(t, k, "enter")) - Cardinality(Occurs(t, k, "leave"))

LEMMA CountStep ==
  ASSUME NEW t, NEW k \in Nat, NEW kind
  PROVE  /\ Cardinality(Occurs(t, k, kind)) \in Nat
         /\ Cardinality(Occurs(t, k + 1, kind)) =
              Cardinality(Occurs(t, k, kind)) + IF t[k + 1].kind = kind THEN 1 ELSE 0
<1>1. IsFiniteSet(Occurs(t, k, kind))
  <2>1. IsFiniteSet(1 .. k) /\ Occurs(t, k, kind) \subseteq 1 .. k
    BY FS_Interval DEF Occurs
  <2> QED BY <2>1, FS_Subset, Zenon
<1>2. Cardinality(Occurs(t, k, kind)) \in Nat
  BY <1>1, FS_CardinalityType
<1>3. CASE t[k + 1].kind = kind
  <2>1. Occurs(t, k + 1, kind) = Occurs(t, k, kind) \cup {k + 1} /\ k + 1 \notin Occurs(t, k, kind)
    BY <1>3 DEF Occurs
  <2>2. Cardinality(Occurs(t, k, kind) \cup {k + 1}) = Cardinality(Occurs(t, k, kind)) + 1
    BY <1>1, <2>1, FS_AddElement, Zenon
  <2> QED BY <1>2, <1>3, <2>1, <2>2
<1>4. CASE t[k + 1].kind # kind
  <2>1. Occurs(t, k + 1, kind) = Occurs(t, k, kind)
    BY <1>4 DEF Occurs
  <2> QED BY <1>2, <1>4, <2>1
<1> QED BY <1>2, <1>3, <1>4

LEMMA DepthStep ==
  ASSUME NEW t, NEW k \in Nat
  PROVE  /\ DepthOf(t, 0) = 0 /\ DepthOf(t, k) \in Int
         /\ DepthOf(t, k + 1) = DepthOf(t, k) + (IF t[k + 1].kind = "enter" THEN 1 ELSE 0)
                                  - (IF t[k + 1].kind = "leave" THEN 1 ELSE 0)
<1>1. DepthOf(t, 0) = 0
  <2>1. Occurs(t, 0, "enter") = {} /\ Occurs(t, 0, "leave") = {}
    BY DEF Occurs
  <2>2. Cardinality({}) = 0
    BY FS_EmptySet
  <2> QED BY <2>1, <2>2 DEF DepthOf
<1>2. \A kind : /\ Cardinality(Occurs(t, k, kind)) \in Nat
                /\ Cardinality(Occurs(t, k + 1, kind)) =
                     Cardinality(Occurs(t, k, kind)) + IF t[k + 1].kind = kind THEN 1 ELSE 0
  BY CountStep
<1> QED BY <1>1, <1>2 DEF DepthOf

LEMMA DepthSame ==
  ASSUME NEW t, IsSeq(t), NEW x, NEW k \in 0 .. Len(t)
  PROVE  DepthOf(Append(t, x), k) = DepthOf(t, k)
<1>1. PICK u : u = Append(t, x)
  OBVIOUS
<1>2. \A j \in 1 .. k : u[j] = t[j]
  BY <1>1, Longer
<1>3. \A kind : Occurs(u, k, kind) = Occurs(t, k, kind)
  BY <1>2 DEF Occurs
<1> QED BY <1>1, <1>3 DEF DepthOf

----------------------------------------
(* The places of a text. *)

Follows(r, s, x) ==
  /\ s.next = r.next + ItemScopes(x) /\ r.order + ItemOrders(x) <= s.order
  /\ x.kind = "enter" => s.path = Append(r.path, r.next)
  /\ x.kind = "leave" => Len(r.path) > 1 /\ s.path = SubSeq(r.path, 1, Len(r.path) - 1)
  /\ x.kind \notin {"enter", "leave"} => s.path = r.path

Noted(t, q, i) ==
  t[i].kind \notin Heads =>
    /\ t[i].point.scope = At(q, i) /\ t[i].point.order = q[i].order
    /\ t[i].next = q[i].next

Numbered(t, q) ==
  /\ Readable(t) /\ Places(q) /\ Len(q) = Len(t) + 1
  /\ \A i \in 1 .. Len(t) : Follows(q[i], q[i + 1], t[i]) /\ Noted(t, q, i)
  /\ \A k \in 0 .. Len(t) : DepthOf(t, k) = Lev(q, k + 1) - 1

LEMMA FollowsMoves ==
  ASSUME NEW r, Place(r), NEW s, s.order \in Nat, NEW x, Fine(x), Follows(r, s, x)
  PROVE  /\ s.next \in Nat /\ r.next <= s.next /\ Shifts(r, s)
         /\ Len(s.path) = Len(r.path) + (IF x.kind = "enter" THEN 1 ELSE 0)
                            - (IF x.kind = "leave" THEN 1 ELSE 0)
<1>1. r.next \in Nat /\ r.path \in Seq(Nat) /\ Len(r.path) \in Nat
  BY DEF Place, Path
<1>2. ItemScopes(x) \in Nat /\ (x.kind = "enter" => ItemScopes(x) = 1)
  BY FineParts
<1>3. PICK K : K = Len(r.path) /\ K \in Nat
  BY <1>1
<1>4. s.next = r.next + ItemScopes(x)
  BY DEF Follows
<1>5. s.next \in Nat /\ r.next <= s.next
  BY <1>1, <1>2, <1>4
<1>6. CASE x.kind = "enter"
  <2>1. s.path = Append(r.path, r.next) /\ x.kind # "leave"
    BY <1>6 DEF Follows
  <2>2. r.next < s.next
    BY <1>1, <1>2, <1>4, <1>6
  <2>3. Len(s.path) = K + 1
    BY <1>1, <1>3, <2>1
  <2>4. K + 1 = K + 1 - 0
    BY <1>3
  <2> QED BY <1>3, <1>5, <1>6, <2>1, <2>2, <2>3, <2>4 DEF Shifts
<1>7. CASE x.kind = "leave"
  <2>1. K > 1 /\ s.path = SubSeq(r.path, 1, K - 1) /\ x.kind # "enter"
    BY <1>3, <1>7 DEF Follows
  <2>2. Len(s.path) = K - 1
    BY <1>1, <1>3, <2>1
  <2>3. K - 1 = K + 0 - 1
    BY <1>3
  <2> QED BY <1>3, <1>5, <1>7, <2>1, <2>2, <2>3 DEF Shifts
<1>8. CASE x.kind \notin {"enter", "leave"}
  <2>1. s.path = r.path /\ x.kind # "enter" /\ x.kind # "leave"
    BY <1>8 DEF Follows
  <2>2. K = K + 0 - 0
    BY <1>3
  <2> QED BY <1>3, <1>5, <2>1, <2>2 DEF Shifts
<1> QED BY <1>6, <1>7, <1>8

LEMMA NumberedStep ==
  ASSUME NEW t, NEW q, Numbered(t, q), NEW x, Fine(x), NEW s, s.order \in Nat,
         Follows(q[Len(q)], s, x),
         x.kind \notin Heads =>
           /\ x.point.scope = At(q, Len(q)) /\ x.point.order = q[Len(q)].order
           /\ x.next = q[Len(q)].next
  PROVE  /\ Numbered(Append(t, x), Append(q, s))
         /\ Readable(Append(t, x)) /\ Len(Append(t, x)) = Len(t) + 1
         /\ Append(t, x)[Len(t) + 1] = x /\ \A k \in 1 .. Len(t) : Append(t, x)[k] = t[k]
         /\ Len(Append(q, s)) = Len(t) + 2 /\ Append(q, s)[Len(t) + 2] = s
         /\ \A k \in 1 .. Len(t) + 1 : Append(q, s)[k] = q[k]
<1> DEFINE n == Len(t)
<1>1. PICK u, w : u = Append(t, x) /\ w = Append(q, s)
  OBVIOUS
<1>2. IsSeq(t) /\ n \in Nat /\ IsSeq(q) /\ Len(q) = n + 1 /\ Places(q)
  BY SeqParts DEF Numbered, Readable, Places
<1>3. /\ IsSeq(u) /\ Len(u) = n + 1 /\ u[n + 1] = x /\ \A k \in 1 .. n : u[k] = t[k]
  BY <1>1, <1>2, Longer
<1>4. /\ Len(w) = n + 2 /\ w[n + 2] = s /\ \A k \in 1 .. n + 1 : w[k] = q[k]
  <2>1. Len(w) = Len(q) + 1 /\ w[Len(q) + 1] = s /\ \A k \in 1 .. Len(q) : w[k] = q[k]
    BY <1>1, <1>2, Longer
  <2> QED BY <1>2, <2>1
<1>5. Readable(u)
  <2>1. \A k \in 1 .. n + 1 : k \in 1 .. n \/ k = n + 1
    BY <1>2
  <2> QED BY <1>3, <2>1 DEF Readable, Numbered
<1>6. PICK r : r = q[n + 1] /\ Place(r) /\ Follows(r, s, x)
  BY <1>2 DEF Places
<1>7. /\ s.next \in Nat /\ r.next <= s.next /\ Shifts(r, s)
      /\ Len(s.path) = Len(r.path) + (IF x.kind = "enter" THEN 1 ELSE 0)
                         - (IF x.kind = "leave" THEN 1 ELSE 0)
  BY <1>6, FollowsMoves
<1>8. Places(w)
  BY <1>1, <1>2, <1>6, <1>7, PlacesStep
<1>9. ASSUME NEW i \in 1 .. n + 1
      PROVE  Follows(w[i], w[i + 1], u[i]) /\ Noted(u, w, i)
  <2>1. CASE i \in 1 .. n
    <3>1. w[i] = q[i] /\ w[i + 1] = q[i + 1] /\ u[i] = t[i]
      BY <1>2, <1>3, <1>4, <2>1
    <3> QED BY <2>1, <3>1 DEF Numbered, Noted, At, Lev
  <2>2. CASE i = n + 1
    <3>1. w[i] = r /\ w[i + 1] = s /\ u[i] = x /\ q[i] = r
      BY <1>2, <1>3, <1>4, <1>6, <2>2
    <3> QED BY <1>2, <1>6, <2>2, <3>1 DEF Noted, At, Lev
  <2> QED BY <1>2, <2>1, <2>2
<1>10. ASSUME NEW k \in 0 .. n + 1
       PROVE  DepthOf(u, k) = Lev(w, k + 1) - 1
  <2>1. \A l \in 0 .. n : DepthOf(u, l) = DepthOf(t, l) /\ Lev(w, l + 1) = Lev(q, l + 1)
    <3>1. \A l \in 0 .. n : l + 1 \in 1 .. n + 1
      BY <1>2
    <3> QED BY <1>1, <1>2, <1>4, <3>1, DepthSame DEF Lev
  <2>2. \A l \in 0 .. n : DepthOf(u, l) = Lev(w, l + 1) - 1
    BY <2>1 DEF Numbered
  <2>3. DepthOf(u, n + 1) = Len(s.path) - 1
    <3>1. n \in 0 .. n /\ DepthOf(u, n) \in Int
      BY <1>2, DepthStep
    <3>2. DepthOf(u, n) = Len(r.path) - 1
      BY <1>4, <1>6, <2>2, <3>1 DEF Lev
    <3>3. DepthOf(u, n + 1) = DepthOf(u, n) + (IF x.kind = "enter" THEN 1 ELSE 0)
                                - (IF x.kind = "leave" THEN 1 ELSE 0)
      BY <1>2, <1>3, DepthStep
    <3>4. Len(r.path) \in Nat
      BY <1>6 DEF Place, Path
    <3>5. PICK K, M, a, b : /\ K = Len(r.path) /\ M = Len(s.path)
                            /\ a = (IF x.kind = "enter" THEN 1 ELSE 0)
                            /\ b = (IF x.kind = "leave" THEN 1 ELSE 0)
      OBVIOUS
    <3>6. a \in Nat /\ b \in Nat
      BY <3>5
    <3>7. DepthOf(u, n + 1) = DepthOf(u, n) + a - b /\ M = K + a - b /\ DepthOf(u, n) = K - 1 /\ K \in Nat
      BY <1>7, <3>2, <3>3, <3>4, <3>5
    <3>8. DepthOf(u, n + 1) = M - 1
      BY ONLY <3>6, <3>7
    <3> QED BY <3>5, <3>8
  <2>4. k = n + 1 => Lev(w, k + 1) = Len(s.path)
    BY <1>2, <1>4 DEF Lev
  <2>5. k \in 0 .. n \/ k = n + 1
    BY <1>2
  <2> QED BY <2>2, <2>3, <2>4, <2>5
<1>11. Numbered(u, w)
  BY <1>2, <1>3, <1>4, <1>5, <1>8, <1>9, <1>10 DEF Numbered
<1> QED BY <1>1, <1>3, <1>4, <1>5, <1>11

----------------------------------------
(* The environment of names.  What it announces for a specifier and a       *)
(* declarator; new holds the entries it pushes.                             *)

Entry == [name : Name, depth : Nat, typedef : BOOLEAN]
Environment ==
  [entries : Seq(Entry), stack : Seq(Nat), current_scope_seq : Nat,
   next_scope_id : Nat, next_declaration_seq : Nat]

Now(e) ==
  [path |-> Append(e.stack, e.current_scope_seq), next |-> e.next_scope_id,
   order |-> e.next_declaration_seq]

Pushed(n, e, typedef) == [name |-> n, depth |-> Len(e.stack), typedef |-> typedef]
PushedBy(s, e) == IF s.tag = "enum" THEN <<Pushed(s.enumerator, e, FALSE)>> ELSE << >>

Announces(v, e, scopes, orders, new) ==
  /\ v \in Environment /\ v.entries = new \o e.entries
  /\ v.stack = e.stack /\ v.current_scope_seq = e.current_scope_seq
  /\ v.next_scope_id = e.next_scope_id + scopes
  /\ e.next_declaration_seq + orders <= v.next_declaration_seq

LEMMA EnvironmentParts ==
  ASSUME NEW e \in Environment
  PROVE  /\ e.entries \in Seq(Entry) /\ e.stack \in Seq(Nat) /\ e.current_scope_seq \in Nat
         /\ e.next_scope_id \in Nat /\ e.next_declaration_seq \in Nat
         /\ Len(e.stack) \in Nat /\ Len(e.entries) \in Nat /\ << >> \o e.entries = e.entries
BY DEF Environment

LEMMA EventAnnounces ==
  ASSUME NEW e \in Environment
  PROVE  Announces(Event(e), e, 0, 1, << >>) /\ Announces(Reserve(e), e, 1, 0, << >>)
<1>1. \A v : v = Event(e) => v = [e EXCEPT !.next_declaration_seq = e.next_declaration_seq + 1]
  BY DEF Event
<1>2. \A v : v = Reserve(e) => v = [e EXCEPT !.next_scope_id = e.next_scope_id + 1]
  BY DEF Reserve
<1>3. /\ Event(e) \in Environment /\ Event(e).entries = e.entries /\ Event(e).stack = e.stack
      /\ Event(e).current_scope_seq = e.current_scope_seq
      /\ Event(e).next_scope_id = e.next_scope_id
      /\ Event(e).next_declaration_seq = e.next_declaration_seq + 1
  BY <1>1 DEF Environment
<1>4. /\ Reserve(e) \in Environment /\ Reserve(e).entries = e.entries /\ Reserve(e).stack = e.stack
      /\ Reserve(e).current_scope_seq = e.current_scope_seq
      /\ Reserve(e).next_scope_id = e.next_scope_id + 1
      /\ Reserve(e).next_declaration_seq = e.next_declaration_seq
  BY <1>2 DEF Environment
<1> QED BY <1>3, <1>4, EnvironmentParts DEF Announces

LEMMA DeclareAnnounces ==
  ASSUME NEW e \in Environment, NEW n \in Ident, NEW typedef \in BOOLEAN
  PROVE  Announces(DeclareName(e, n, typedef), e, 0, 1, <<Pushed(n, e, typedef)>>)
<1>1. PICK x : x = Pushed(n, e, typedef)
  OBVIOUS
<1>2. x \in Entry
  BY <1>1, EnvironmentParts, NamesAssumption DEF Pushed, Entry
<1>3. PICK v : v = [e EXCEPT !.entries = <<x>> \o e.entries]
  OBVIOUS
<1>4. /\ v \in Environment /\ v.entries = <<x>> \o e.entries /\ v.stack = e.stack
      /\ v.current_scope_seq = e.current_scope_seq /\ v.next_scope_id = e.next_scope_id
      /\ v.next_declaration_seq = e.next_declaration_seq
  <2>1. <<x>> \o e.entries \in Seq(Entry)
    BY <1>2, EnvironmentParts
  <2> QED BY <1>3, <2>1 DEF Environment
<1>5. DeclareName(e, n, typedef) = Event(v)
  BY <1>1, <1>3 DEF DeclareName, Pushed
<1>6. Announces(Event(v), v, 0, 1, << >>) /\ << >> \o v.entries = v.entries
  BY <1>4, EventAnnounces, EnvironmentParts
<1> QED BY <1>1, <1>4, <1>5, <1>6 DEF Announces

LEMMA AnnouncesThen ==
  ASSUME NEW e \in Environment, NEW v, NEW k1 \in Nat, NEW o1 \in Nat, NEW new,
         Announces(v, e, k1, o1, new), NEW w, NEW k2 \in Nat, NEW o2 \in Nat
  PROVE  /\ Announces(w, v, k2, o2, << >>) => Announces(w, e, k1 + k2, o1 + o2, new)
         /\ new = << >> => \A y : Announces(w, v, k2, o2, y) =>
                                    Announces(w, e, k1 + k2, o1 + o2, y)
<1>1. v \in Environment
  BY DEF Announces
<1>2. /\ v.next_declaration_seq \in Nat /\ v.next_scope_id \in Nat /\ << >> \o v.entries = v.entries
      /\ e.next_declaration_seq \in Nat /\ e.next_scope_id \in Nat /\ << >> \o e.entries = e.entries
  BY <1>1, EnvironmentParts
<1>3. ASSUME NEW y, Announces(w, v, k2, o2, y)
      PROVE  /\ w \in Environment /\ w.stack = e.stack
             /\ w.current_scope_seq = e.current_scope_seq
             /\ w.next_scope_id = e.next_scope_id + (k1 + k2)
             /\ e.next_declaration_seq + (o1 + o2) <= w.next_declaration_seq
             /\ w.entries = y \o v.entries
  <2>1. /\ w \in Environment /\ w.entries = y \o v.entries
        /\ w.stack = v.stack /\ w.current_scope_seq = v.current_scope_seq
        /\ w.next_scope_id = v.next_scope_id + k2
        /\ v.next_declaration_seq + o2 <= w.next_declaration_seq
    BY <1>3 DEF Announces
  <2>2. /\ v.stack = e.stack /\ v.current_scope_seq = e.current_scope_seq
        /\ v.next_scope_id = e.next_scope_id + k1
        /\ e.next_declaration_seq + o1 <= v.next_declaration_seq
    BY DEF Announces
  <2>3. w.next_declaration_seq \in Nat /\ w.next_scope_id \in Nat
    BY <2>1, EnvironmentParts
  <2>4. \A a, b, d \in Nat : a + o1 <= b /\ b + o2 <= d => a + (o1 + o2) <= d
    BY ONLY o1 \in Nat, o2 \in Nat
  <2>5. \A a, b, d \in Nat : b = a + k1 /\ d = b + k2 => d = a + (k1 + k2)
    BY ONLY k1 \in Nat, k2 \in Nat
  <2>6. w.next_scope_id = e.next_scope_id + (k1 + k2)
    BY ONLY <1>2, <2>1, <2>2, <2>3, <2>5
  <2>7. e.next_declaration_seq + (o1 + o2) <= w.next_declaration_seq
    BY ONLY <1>2, <2>1, <2>2, <2>3, <2>4
  <2> QED BY ONLY <2>1, <2>2, <2>6, <2>7
<1>4. v.entries = new \o e.entries
  BY DEF Announces
<1>5. Announces(w, v, k2, o2, << >>) => Announces(w, e, k1 + k2, o1 + o2, new)
  BY <1>2, <1>3, <1>4 DEF Announces
<1>6. ASSUME new = << >>, NEW y, Announces(w, v, k2, o2, y)
      PROVE  Announces(w, e, k1 + k2, o1 + o2, y)
  <2>1. v.entries = e.entries
    BY <1>2, <1>4, <1>6
  <2> QED BY <1>3, <1>6, <2>1 DEF Announces
<1> QED BY <1>5, <1>6

LEMMA SpecifierAnnounces ==
  ASSUME NEW e \in Environment, NEW s \in Specifier, ~Callback(s)
  PROVE  Announces(ParseSpecifier(e, s), e, Scopes(s), Orders(s), PushedBy(s, e))
<1>1. /\ s.tag \in {"none", "reference", "record", "enum"}
      /\ s.tag = "enum" => s.enumerator \in Ident
      /\ s.tag = "record" => Scopes(s) = 1
  BY SpecifierCases DEF Callback, Scopes
<1>2. Announces(Event(e), e, 0, 1, << >>) /\ Event(e) \in Environment
  BY EventAnnounces DEF Announces
<1>3. CASE s.tag = "none"
  BY <1>3, EnvironmentParts DEF ParseSpecifier, Announces, Scopes, Orders, PushedBy
<1>4. CASE s.tag = "reference"
  BY <1>2, <1>4 DEF ParseSpecifier, Scopes, Orders, PushedBy
<1>5. CASE s.tag = "record"
  <2>1. Announces(Reserve(Event(e)), Event(e), 1, 0, << >>)
    BY <1>2, EventAnnounces
  <2>2. Announces(Reserve(Event(e)), e, 0 + 1, 1 + 0, << >>)
    BY <1>2, <2>1, AnnouncesThen
  <2> QED BY <1>1, <1>5, <2>2 DEF ParseSpecifier, Orders, PushedBy
<1>6. CASE s.tag = "enum"
  <2>1. PICK v, n : v = Event(e) /\ n = s.enumerator
    OBVIOUS
  <2>2. Announces(DeclareName(v, n, FALSE), v, 0, 1, <<Pushed(n, v, FALSE)>>)
    BY <1>1, <1>2, <1>6, <2>1, DeclareAnnounces
  <2>3. Announces(DeclareName(v, n, FALSE), e, 0 + 0, 1 + 1, <<Pushed(n, v, FALSE)>>)
    BY <1>2, <2>1, <2>2, AnnouncesThen
  <2>4. Pushed(n, v, FALSE) = Pushed(n, e, FALSE)
    BY <1>2, <2>1 DEF Pushed, Announces
  <2>5. 0 + 0 = 0 /\ 1 + 1 = 2
    OBVIOUS
  <2>6. ParseSpecifier(e, s) = DeclareName(v, n, FALSE)
    BY <1>6, <2>1 DEF ParseSpecifier
  <2>7. Announces(ParseSpecifier(e, s), e, 0, 2, <<Pushed(n, e, FALSE)>>)
    BY <2>3, <2>4, <2>5, <2>6, Zenon
  <2> QED BY <1>6, <2>1, <2>7 DEF Scopes, Orders, PushedBy
<1> QED BY <1>1, <1>3, <1>4, <1>5, <1>6

LEMMA ReplaySpecifierAnnounces ==
  ASSUME NEW e \in Environment, NEW s \in Specifier
  PROVE  Announces(ReplaySpecifier(e, s), e, Scopes(s), Orders(s), << >>)
<1>1. s.tag \in {"none", "reference", "record", "enum"}
  BY SpecifierCases
<1>2. Announces(Event(e), e, 0, 1, << >>) /\ Event(e) \in Environment
  BY EventAnnounces DEF Announces
<1>3. CASE s.tag = "none"
  BY <1>3, EnvironmentParts DEF ReplaySpecifier, Announces, Scopes, Orders
<1>4. CASE s.tag = "reference"
  BY <1>2, <1>4 DEF ReplaySpecifier, Scopes, Orders
<1>5. CASE s.tag = "enum"
  <2>1. Announces(Event(Event(e)), Event(e), 0, 1, << >>)
    BY <1>2, EventAnnounces
  <2>2. Announces(Event(Event(e)), e, 0 + 0, 1 + 1, << >>)
    BY <1>2, <2>1, AnnouncesThen
  <2> QED BY <1>5, <2>2 DEF ReplaySpecifier, Scopes, Orders
<1>6. PICK v : v = Reserve(Event(e))
  OBVIOUS
<1>7. Announces(v, e, 1, 1, << >>) /\ v \in Environment
  <2>1. Announces(v, Event(e), 1, 0, << >>)
    BY <1>2, <1>6, EventAnnounces
  <2>2. Announces(v, e, 0 + 1, 1 + 0, << >>)
    BY <1>2, <2>1, AnnouncesThen
  <2> QED BY <2>1, <2>2 DEF Announces
<1>8. CASE s.tag = "record" /\ ~s.callback
  BY <1>6, <1>7, <1>8 DEF ReplaySpecifier, Scopes, Orders
<1>9. CASE s.tag = "record" /\ s.callback
  <2>1. PICK w : w = Reserve(v)
    OBVIOUS
  <2>2. Announces(w, v, 1, 0, << >>) /\ w \in Environment
    BY <1>7, <2>1, EventAnnounces DEF Announces
  <2>3. Announces(w, e, 1 + 1, 1 + 0, << >>)
    BY <1>7, <2>2, AnnouncesThen
  <2>4. Announces(Event(w), w, 0, 1, << >>) /\ 1 + 1 \in Nat /\ 1 + 0 \in Nat
    BY <2>2, EventAnnounces
  <2>5. Announces(Event(w), e, (1 + 1) + 0, (1 + 0) + 1, << >>)
    BY <2>3, <2>4, AnnouncesThen
  <2>6. Announces(Event(w), e, 2, 1, << >>)
    BY <2>5, EnvironmentParts DEF Announces
  <2> QED BY <1>6, <1>9, <2>1, <2>6 DEF ReplaySpecifier, Scopes, Orders
<1>10. s.tag = "record" => s.callback \in BOOLEAN
  BY SpecifierCases
<1> QED BY <1>1, <1>3, <1>4, <1>5, <1>8, <1>9, <1>10

LEMMA DeclaratorAnnounces ==
  ASSUME NEW e \in Environment, NEW ps, MayTake(ps)
  PROVE  /\ Announces(ReplayDeclarator(e, ps), e, ScopesOf(ps), 0, << >>)
         /\ (ps # << >> => ~Callback(ps[1])) =>
              Announces(ParseDeclarator(e, ps), e, ScopesOf(ps), 0, << >>)
<1>1. CASE ps = << >>
  BY <1>1, EnvironmentParts DEF ReplayDeclarator, ParseDeclarator, Announces, ScopesOf
<1>2. ASSUME ps # << >>, NEW s \in Specifier, ps = <<s>>, s.tag # "enum"
      PROVE  /\ Announces(ReplayDeclarator(e, ps), e, ScopesOf(ps), 0, << >>)
             /\ ~Callback(s) => Announces(ParseDeclarator(e, ps), e, ScopesOf(ps), 0, << >>)
  <2>1. ps[1] = s /\ ScopesOf(ps) = 1 + Scopes(s) /\ Scopes(s) \in Nat /\ Orders(s) \in Nat
    BY <1>2, SpecifierCases DEF ScopesOf
  <2>2. ASSUME NEW v, Announces(v, e, 1 + Scopes(s), Orders(s), << >>)
        PROVE  Announces(Event(v), e, ScopesOf(ps), 0, << >>)
    <3>1. v \in Environment /\ Announces(Event(v), v, 0, 1, << >>)
      BY <2>2, EventAnnounces DEF Announces
    <3>2. Announces(Event(v), e, (1 + Scopes(s)) + 0, Orders(s) + 1, << >>)
      <4>1. PICK k, o : k = 1 + Scopes(s) /\ o = Orders(s) /\ k \in Nat /\ o \in Nat
        BY <2>1
      <4>2. Announces(v, e, k, o, << >>)
        BY <2>2, <4>1
      <4>3. Announces(Event(v), e, k + 0, o + 1, << >>)
        BY <3>1, <4>1, <4>2, AnnouncesThen
      <4> QED BY <4>1, <4>3
    <3>3. Event(v).next_declaration_seq \in Nat /\ e.next_declaration_seq \in Nat
      BY <3>1, EventAnnounces, EnvironmentParts DEF Announces
    <3> QED BY <2>1, <3>2, <3>3 DEF Announces
  <2>3. Announces(ReplayDeclarator(e, ps), e, ScopesOf(ps), 0, << >>)
    <3>1. PICK v, w : v = Reserve(e) /\ w = ReplaySpecifier(v, s)
      OBVIOUS
    <3>2. Announces(v, e, 1, 0, << >>) /\ v \in Environment
      BY <3>1, EventAnnounces DEF Announces
    <3>3. Announces(w, v, Scopes(s), Orders(s), << >>)
      BY <3>1, <3>2, ReplaySpecifierAnnounces
    <3>4. Announces(w, e, 1 + Scopes(s), 0 + Orders(s), << >>)
      BY <2>1, <3>2, <3>3, AnnouncesThen
    <3>5. 0 + Orders(s) = Orders(s)
      BY <2>1
    <3> QED BY <1>2, <2>1, <2>2, <3>1, <3>4, <3>5 DEF ReplayDeclarator
  <2>4. ASSUME ~Callback(s)
        PROVE  Announces(ParseDeclarator(e, ps), e, ScopesOf(ps), 0, << >>)
    <3>1. PICK v, w : v = ParseSpecifier(e, s) /\ w = Reserve(v)
      OBVIOUS
    <3>2. Announces(v, e, Scopes(s), Orders(s), << >>) /\ v \in Environment
      BY <1>2, <2>4, <3>1, SpecifierAnnounces DEF Announces, PushedBy
    <3>3. Announces(w, v, 1, 0, << >>)
      BY <3>1, <3>2, EventAnnounces
    <3>4. Announces(w, e, Scopes(s) + 1, Orders(s) + 0, << >>)
      BY <2>1, <3>2, <3>3, AnnouncesThen
    <3>5. Scopes(s) + 1 = 1 + Scopes(s) /\ Orders(s) + 0 = Orders(s)
      BY <2>1
    <3> QED BY <1>2, <2>1, <2>2, <3>1, <3>4, <3>5 DEF ParseDeclarator
  <2> QED BY <2>3, <2>4
<1> QED BY <1>1, <1>2 DEF MayTake

----------------------------------------
(* The declarations C sees, and the entries of the environment. *)

Dec(t, q, n, i) == {j \in 1 .. i - 1 : n \in Declares(t[j]) /\ Kept(q, j, i)}
Mean(t, q, n, i) == IF Dec(t, q, n, i) = {} THEN 0 ELSE Innermost(Dec(t, q, n, i))
MeansType(t, j, n) == j = 0 \/ (t[j].kind = "typedef" /\ t[j].name = n)

(* An enumerator of the header has no entry. *)
Unlisted(x, n) == x.kind \in Heads /\ n \in Enumerators(x.spec)

Listed(P, pos, t, q) ==
  /\ pos \in [1 .. Len(P) -> 1 .. Len(t)]
  /\ \A a \in 1 .. Len(P) :
       /\ Kept(q, pos[a], Len(t) + 1) /\ P[a].name \in Declares(t[pos[a]])
       /\ P[a].depth = Lev(q, pos[a]) - 1
       /\ P[a].typedef <=> MeansType(t, pos[a], P[a].name)
  /\ \A a, b \in 1 .. Len(P) : a < b => pos[b] <= pos[a]
  /\ \A j \in 1 .. Len(t) : \A n \in Declares(t[j]) :
       Kept(q, j, Len(t) + 1) =>
         Unlisted(t[j], n) \/ \E a \in 1 .. Len(P) : pos[a] = j /\ P[a].name = n

Lists(P, t, q) == \E pos : Listed(P, pos, t, q)

(* What is pushed for construct x, in the environment e. *)
PushedFor(new, x, e) ==
  /\ new \in Seq(Entry)
  /\ \A a \in 1 .. Len(new) :
       /\ new[a].name \in Declares(x) /\ new[a].depth = Len(e.stack)
       /\ new[a].typedef <=> x.kind = "typedef" /\ x.name = new[a].name
  /\ \A n \in Declares(x) : Unlisted(x, n) \/ \E a \in 1 .. Len(new) : new[a].name = n

LEMMA LevelParts ==
  ASSUME NEW q, Places(q), NEW i \in 1 .. Len(q)
  PROVE  /\ Lev(q, i) \in Nat \ {0} /\ Place(q[i])
         /\ At(q, i) \in Nat /\ 2 <= At(q, i) /\ At(q, i) < q[i].next
BY DEF Places, Place, Path, Lev, At

(* What is open at the end of a text is open behind one more construct,     *)
(* unless that leaves it.                                                   *)
LEMMA KeptStep ==
  ASSUME NEW q, Places(q), NEW s, NEW j \in 1 .. Len(q)
  PROVE  /\ \A k \in j .. Len(q) : Kept(Append(q, s), j, k) <=> Kept(q, j, k)
         /\ Kept(Append(q, s), j, Len(q) + 1) <=>
              Kept(q, j, Len(q)) /\ Lev(q, j) <= Len(s.path)
         /\ \A k \in j .. Len(q) : Kept(q, j, k) => Lev(q, j) <= Lev(q, k)
<1>1. PICK u : u = Append(q, s)
  OBVIOUS
<1>2. /\ Len(q) \in Nat /\ u[Len(q) + 1] = s /\ \A k \in 1 .. Len(q) : u[k] = q[k]
  BY <1>1, Longer DEF Places
<1>3. \A k \in 1 .. Len(q) : Lev(u, k) = Lev(q, k)
  BY <1>2 DEF Lev
<1>4. \A k \in j .. Len(q) : Kept(u, j, k) <=> Kept(q, j, k)
  BY <1>2, <1>3 DEF Kept
<1>5. Kept(u, j, Len(q) + 1) <=> Kept(q, j, Len(q)) /\ Lev(q, j) <= Len(s.path)
  <2>1. \A k : k \in j .. Len(q) + 1 <=> k \in j .. Len(q) \/ k = Len(q) + 1
    BY <1>2
  <2>2. Lev(u, Len(q) + 1) = Len(s.path)
    BY <1>2 DEF Lev
  <2>3. \A k \in j .. Len(q) : k \in 1 .. Len(q)
    BY <1>2
  <2> QED BY <1>3, <2>1, <2>2, <2>3 DEF Kept
<1>6. \A k \in j .. Len(q) : Kept(q, j, k) => Lev(q, j) <= Lev(q, k)
  BY <1>2 DEF Kept
<1> QED BY <1>1, <1>4, <1>5, <1>6

(* A text that goes on within the scopes that are open. *)
LEMMA ListsStep ==
  ASSUME NEW t, NEW q, Numbered(t, q), NEW P, P \in Seq(Entry), Lists(P, t, q),
         NEW x, NEW s, Lev(q, Len(q)) <= Len(s.path), Len(s.path) \in Nat,
         NEW new, NEW e, PushedFor(new, x, e), Len(e.stack) = Lev(q, Len(q)) - 1
  PROVE  Lists(new \o P, Append(t, x), Append(q, s))
<1> DEFINE n == Len(t)
           K == Len(new)
           N == Len(P)
<1>1. PICK u, w : u = Append(t, x) /\ w = Append(q, s)
  OBVIOUS
<1>2. /\ n \in Nat /\ Len(q) = n + 1 /\ Places(q) /\ IsSeq(q) /\ IsSeq(t)
  BY SeqParts DEF Numbered, Readable, Places
<1>3. Len(u) = n + 1 /\ u[n + 1] = x /\ \A k \in 1 .. n : u[k] = t[k]
  BY <1>1, <1>2, Longer
<1>4. \A k \in 1 .. n + 1 : Lev(w, k) = Lev(q, k) /\ Lev(q, k) \in Nat
  BY <1>1, <1>2, Longer, LevelParts DEF Lev
<1>5. \A j \in 1 .. n + 1 : Kept(w, j, n + 2) <=> Kept(q, j, n + 1)
  <2> SUFFICES ASSUME NEW j \in 1 .. n + 1
               PROVE  Kept(w, j, n + 2) <=> Kept(q, j, n + 1)
    OBVIOUS
  <2>1. Kept(w, j, Len(q) + 1) <=> Kept(q, j, Len(q)) /\ Lev(q, j) <= Len(s.path)
    BY <1>1, <1>2, KeptStep
  <2>2. Kept(q, j, Len(q)) => Lev(q, j) <= Lev(q, Len(q))
    BY <1>2, KeptStep
  <2>3. Len(q) + 1 = n + 2 /\ Lev(q, j) \in Nat /\ Lev(q, Len(q)) \in Nat
    BY <1>2, <1>4
  <2> QED BY <1>2, <2>1, <2>2, <2>3
<1>6. PICK pos : Listed(P, pos, t, q)
  BY DEF Lists
<1>7. K \in Nat /\ N \in Nat /\ new \in Seq(Entry)
  BY DEF PushedFor
<1>8. PICK R : R = new \o P
  OBVIOUS
<1>9. /\ Len(R) = K + N /\ \A a \in 1 .. K : R[a] = new[a]
      /\ \A a \in 1 .. N : R[K + a] = P[a]
  BY <1>7, <1>8
<1>10. PICK far : far = [a \in 1 .. K + N |-> IF a <= K THEN n + 1 ELSE pos[a - K]]
  OBVIOUS
<1>11. \A a \in 1 .. N : pos[a] \in 1 .. n
  BY <1>6 DEF Listed
<1>12. /\ far \in [1 .. K + N -> 1 .. n + 1]
       /\ \A a \in 1 .. K : far[a] = n + 1
       /\ \A a \in 1 .. N : far[K + a] = pos[a]
  <2>1. \A a \in 1 .. K + N : a <= K \/ a - K \in 1 .. N
    BY <1>7
  <2>2. \A a \in 1 .. N : K + a \in 1 .. K + N /\ ~(K + a <= K) /\ (K + a) - K = a
    BY <1>7
  <2>3. \A a \in 1 .. K : a \in 1 .. K + N /\ a <= K
    BY <1>7
  <2> QED BY <1>2, <1>10, <1>11, <2>1, <2>2, <2>3
<1>13. \A a \in 1 .. K + N : a \in 1 .. K \/ \E b \in 1 .. N : a = K + b
  <2>1. \A a \in 1 .. K + N : a \in 1 .. K \/ (a - K \in 1 .. N /\ a = K + (a - K))
    BY <1>7
  <2> QED BY <2>1
<1>14. ASSUME NEW a \in 1 .. K + N
       PROVE  /\ Kept(w, far[a], n + 2) /\ R[a].name \in Declares(u[far[a]])
              /\ R[a].depth = Lev(w, far[a]) - 1
              /\ R[a].typedef <=> MeansType(u, far[a], R[a].name)
  <2>1. CASE a \in 1 .. K
    <3>1. far[a] = n + 1 /\ R[a] = new[a] /\ n + 1 # 0
      BY <1>2, <1>9, <1>12, <2>1
    <3>2. Kept(q, n + 1, n + 1)
      <4>1. \A k \in n + 1 .. n + 1 : k = n + 1
        BY <1>2
      <4> QED BY <1>2, <1>4, <4>1 DEF Kept
    <3>3. Kept(w, n + 1, n + 2) /\ n + 1 \in 1 .. n + 1
      BY <1>2, <1>5, <3>2
    <3> QED BY <1>2, <1>3, <1>4, <2>1, <3>1, <3>3 DEF PushedFor, MeansType
  <2>2. ASSUME NEW b \in 1 .. N, a = K + b
        PROVE  /\ Kept(w, far[a], n + 2) /\ R[a].name \in Declares(u[far[a]])
               /\ R[a].depth = Lev(w, far[a]) - 1
               /\ R[a].typedef <=> MeansType(u, far[a], R[a].name)
    <3>1. far[a] = pos[b] /\ R[a] = P[b] /\ pos[b] \in 1 .. n /\ pos[b] \in 1 .. n + 1
      BY <1>2, <1>9, <1>11, <1>12, <2>2
    <3>2. u[pos[b]] = t[pos[b]] /\ Lev(w, pos[b]) = Lev(q, pos[b])
      BY <1>3, <1>4, <3>1
    <3>3. Kept(w, pos[b], n + 2)
      BY <1>5, <1>6, <3>1 DEF Listed
    <3> QED BY <1>6, <3>1, <3>2, <3>3 DEF Listed, MeansType
  <2> QED BY <1>13, <2>1, <2>2
<1>15. ASSUME NEW a \in 1 .. K + N, NEW b \in 1 .. K + N, a < b
       PROVE  far[b] <= far[a]
  <2>1. CASE a \in 1 .. K
    BY <1>2, <1>12, <2>1
  <2>2. ASSUME NEW c \in 1 .. N, a = K + c
        PROVE  far[b] <= far[a]
    <3>1. b \notin 1 .. K
      BY <1>7, <1>15, <2>2
    <3>2. PICK d \in 1 .. N : b = K + d
      BY <1>13, <3>1
    <3>3. c < d
      BY <1>7, <1>15, <2>2, <3>2
    <3> QED BY <1>6, <1>12, <2>2, <3>2, <3>3 DEF Listed
  <2> QED BY <1>13, <2>1, <2>2
<1>16. ASSUME NEW j \in 1 .. n + 1, NEW m \in Declares(u[j]), Kept(w, j, n + 2)
       PROVE  Unlisted(u[j], m) \/ \E a \in 1 .. K + N : far[a] = j /\ R[a].name = m
  <2>1. CASE j = n + 1
    <3>1. Unlisted(x, m) \/ \E a \in 1 .. K : new[a].name = m
      BY <1>3, <1>16, <2>1 DEF PushedFor
    <3>2. \A a \in 1 .. K : a \in 1 .. K + N /\ far[a] = j /\ R[a] = new[a]
      BY <1>7, <1>9, <1>12, <2>1
    <3> QED BY <1>3, <2>1, <3>1, <3>2
  <2>2. CASE j \in 1 .. n
    <3>1. u[j] = t[j] /\ Kept(q, j, n + 1)
      BY <1>3, <1>5, <1>16, <2>2
    <3>2. Unlisted(t[j], m) \/ \E a \in 1 .. N : pos[a] = j /\ P[a].name = m
      <4>1. \A k \in 1 .. n : \A y \in Declares(t[k]) :
              Kept(q, k, n + 1) => Unlisted(t[k], y) \/ \E a \in 1 .. N : pos[a] = k /\ P[a].name = y
        BY ONLY <1>6 DEF Listed
      <4>2. m \in Declares(t[j])
        BY <1>16, <3>1
      <4> QED BY ONLY <2>2, <3>1, <4>1, <4>2, Zenon
    <3>3. \A a \in 1 .. N : K + a \in 1 .. K + N /\ far[K + a] = pos[a] /\ R[K + a] = P[a]
      BY <1>7, <1>9, <1>12
    <3> QED BY <3>1, <3>2, <3>3
  <2> QED BY <1>2, <2>1, <2>2
<1>17. Listed(R, far, u, w)
  <2>1. Len(u) + 1 = n + 2
    BY <1>2, <1>3
  <2> QED BY <1>3, <1>9, <1>12, <1>14, <1>15, <1>16, <2>1 DEF Listed
<1> QED BY <1>1, <1>8, <1>17 DEF Lists

LEMMA PoppedIs ==
  ASSUME NEW P, P \in Seq(Entry), NEW D \in Nat,
         \A a, b \in 1 .. Len(P) : a < b => P[b].depth <= P[a].depth
  PROVE  \E f \in 1 .. Len(P) + 1 :
           /\ Popped(P, D) = SubSeq(P, f, Len(P))
           /\ \A a \in 1 .. Len(P) : f <= a <=> P[a].depth < D
<1>1. Len(P) \in Nat /\ \A a \in 1 .. Len(P) : P[a].depth \in Nat
  <2>1. Len(P) \in Nat /\ \A a \in 1 .. Len(P) : P[a] \in Entry
    OBVIOUS
  <2>2. \A z \in Entry : z.depth \in Nat
    BY DEF Entry
  <2> QED BY <2>1, <2>2
<1> DEFINE T == {i \in 1 .. Len(P) + 1 : i <= Len(P) => P[i].depth < D}
           First(i) == /\ \A j \in 1 .. i - 1 : P[j].depth >= D
                       /\ i <= Len(P) => P[i].depth < D
<1>2. Len(P) + 1 \in T /\ T \subseteq Nat
  BY <1>1
<1>3. PICK k \in T : \A y \in T : k <= y
  <2> HIDE DEF T
  <2> QED BY <1>2, LeastOf, Zenon
<1>4. k \in 1 .. Len(P) + 1 /\ First(k)
  <2>1. ASSUME NEW j \in 1 .. k - 1
        PROVE  P[j].depth >= D
    BY <1>1, <1>3
  <2> QED BY <1>3, <2>1
<1> DEFINE f == CHOOSE i \in 1 .. Len(P) + 1 : First(i)
<1>5. f \in 1 .. Len(P) + 1 /\ First(f)
  <2> HIDE DEF First
  <2> QED BY <1>4, Zenon
<1>6. Popped(P, D) = SubSeq(P, f, Len(P))
  BY DEF Popped
<1> HIDE DEF f
<1>7. ASSUME NEW a \in 1 .. Len(P)
      PROVE  f <= a <=> P[a].depth < D
  <2>1. CASE f <= a
    <3>1. f \in 1 .. Len(P) /\ P[f].depth < D
      BY <1>1, <1>5, <2>1
    <3>2. P[a].depth <= P[f].depth
      BY <1>1, <2>1, <3>1
    <3> QED BY <1>1, <2>1, <3>1, <3>2
  <2>2. CASE ~(f <= a)
    <3>1. a \in 1 .. f - 1
      BY <1>1, <1>5, <2>2
    <3> QED BY <1>1, <1>5, <2>2, <3>1
  <2> QED BY <2>1, <2>2
<1> QED BY <1>5, <1>6, <1>7

LEMMA ListsLeave ==
  ASSUME NEW t, NEW q, Numbered(t, q), NEW P, P \in Seq(Entry), Lists(P, t, q),
         NEW x, Declares(x) = {}, NEW s, Len(s.path) = Lev(q, Len(q)) - 1
  PROVE  /\ Popped(P, Len(s.path)) \in Seq(Entry)
         /\ Lists(Popped(P, Len(s.path)), Append(t, x), Append(q, s))
<1> DEFINE n == Len(t)
           N == Len(P)
<1>1. PICK u, w : u = Append(t, x) /\ w = Append(q, s)
  OBVIOUS
<1>2. /\ n \in Nat /\ Len(q) = n + 1 /\ Places(q) /\ IsSeq(q) /\ IsSeq(t) /\ N \in Nat
  BY SeqParts DEF Numbered, Readable, Places
<1>3. Len(u) = n + 1 /\ u[n + 1] = x /\ \A k \in 1 .. n : u[k] = t[k]
  BY <1>1, <1>2, Longer
<1>4. \A k \in 1 .. n + 1 : Lev(w, k) = Lev(q, k) /\ Lev(q, k) \in Nat \ {0}
  BY <1>1, <1>2, Longer, LevelParts DEF Lev
<1>5. PICK D \in Nat : D = Len(s.path) /\ D = Lev(q, n + 1) - 1
  BY <1>2, <1>4
<1>6. ASSUME NEW j \in 1 .. n
      PROVE  Kept(w, j, n + 2) <=> Kept(q, j, n + 1) /\ Lev(q, j) - 1 < D
  <2>1. Kept(w, j, Len(q) + 1) <=> Kept(q, j, Len(q)) /\ Lev(q, j) <= Len(s.path)
    <3>1. j \in 1 .. Len(q) /\ Places(q)
      BY <1>2
    <3> QED BY <1>1, <3>1, KeptStep
  <2>2. Len(q) + 1 = n + 2 /\ Lev(q, j) \in Nat
    BY <1>2, <1>4
  <2> QED BY <1>2, <1>5, <2>1, <2>2
<1>7. PICK pos : Listed(P, pos, t, q)
  BY DEF Lists
<1>8. \A a \in 1 .. N : pos[a] \in 1 .. n /\ P[a].depth = Lev(q, pos[a]) - 1
  BY <1>7 DEF Listed
<1>9. ASSUME NEW a \in 1 .. N, NEW b \in 1 .. N, a < b
      PROVE  P[b].depth <= P[a].depth
  <2>1. pos[b] <= pos[a] /\ Kept(q, pos[b], n + 1) /\ pos[a] \in pos[b] .. n + 1
    BY <1>2, <1>7, <1>8, <1>9 DEF Listed
  <2>2. Lev(q, pos[b]) <= Lev(q, pos[a])
    BY <2>1 DEF Kept
  <2>3. \A c \in 1 .. N : Lev(q, pos[c]) \in Nat
    BY <1>2, <1>4, <1>8
  <2> QED BY <1>8, <2>2, <2>3
<1>10. PICK f \in 1 .. N + 1 :
         /\ Popped(P, D) = SubSeq(P, f, N)
         /\ \A a \in 1 .. N : f <= a <=> P[a].depth < D
  BY <1>9, PoppedIs
<1>11. PICK R, M : R = SubSeq(P, f, N) /\ M = N - f + 1
  OBVIOUS
<1>12. /\ R \in Seq(Entry) /\ M \in Nat /\ Len(R) = M
       /\ \A a \in 1 .. M : R[a] = P[f - 1 + a] /\ f - 1 + a \in 1 .. N /\ f <= f - 1 + a
  <2>1. \A a \in 1 .. M : f - 1 + a \in 1 .. N /\ f <= f - 1 + a
    BY <1>2, <1>11
  <2>2. /\ R \in Seq(Entry) /\ Len(R) = N - f + 1
        /\ \A a \in 1 .. N - f + 1 : R[a] = P[f + a - 1]
    BY <1>2, <1>11, SubSeqProperties
  <2>3. M \in Nat /\ \A a \in 1 .. M : f + a - 1 = f - 1 + a
    BY <1>2, <1>11
  <2> QED BY <1>11, <2>1, <2>2, <2>3
<1>13. PICK far : far = [a \in 1 .. M |-> pos[f - 1 + a]]
  OBVIOUS
<1>14. far \in [1 .. M -> 1 .. n + 1] /\ \A a \in 1 .. M : far[a] = pos[f - 1 + a] /\ far[a] \in 1 .. n
  BY <1>2, <1>8, <1>12, <1>13
<1>15. ASSUME NEW a \in 1 .. M
       PROVE  /\ Kept(w, far[a], n + 2) /\ R[a].name \in Declares(u[far[a]])
              /\ R[a].depth = Lev(w, far[a]) - 1
              /\ R[a].typedef <=> MeansType(u, far[a], R[a].name)
  <2>1. PICK b \in 1 .. N : b = f - 1 + a /\ f <= b /\ R[a] = P[b] /\ far[a] = pos[b]
    BY <1>12, <1>14
  <2>2. P[b].depth < D /\ pos[b] \in 1 .. n
    BY <1>8, <1>10, <2>1
  <2>3. Kept(w, pos[b], n + 2)
    BY <1>6, <1>7, <1>8, <2>2 DEF Listed
  <2>4. u[pos[b]] = t[pos[b]] /\ Lev(w, pos[b]) = Lev(q, pos[b])
    BY <1>2, <1>3, <1>4, <2>2
  <2> QED BY <1>7, <2>1, <2>3, <2>4 DEF Listed, MeansType
<1>16. ASSUME NEW a \in 1 .. M, NEW b \in 1 .. M, a < b
       PROVE  far[b] <= far[a]
  <2>1. f - 1 + a < f - 1 + b
    BY <1>12, <1>16
  <2> QED BY <1>7, <1>12, <1>14, <2>1, ZenonT(30) DEF Listed
<1>17. ASSUME NEW j \in 1 .. n + 1, NEW m \in Declares(u[j]), Kept(w, j, n + 2)
       PROVE  Unlisted(u[j], m) \/ \E a \in 1 .. M : far[a] = j /\ R[a].name = m
  <2>1. j \in 1 .. n /\ u[j] = t[j]
    <3>1. j \in 1 .. n \/ j = n + 1
      BY <1>2
    <3> QED BY <1>3, <3>1
  <2>2. Kept(q, j, n + 1) /\ Lev(q, j) - 1 < D
    BY <1>6, <1>17, <2>1
  <2>3. Unlisted(t[j], m) \/ \E b \in 1 .. N : pos[b] = j /\ P[b].name = m
    BY <1>7, <1>17, <2>1, <2>2, ZenonT(30) DEF Listed
  <2>4. ASSUME NEW b \in 1 .. N, pos[b] = j, P[b].name = m
        PROVE  \E a \in 1 .. M : far[a] = j /\ R[a].name = m
    <3>1. f <= b
      BY <1>8, <1>10, <2>2, <2>4
    <3>2. b - f + 1 \in 1 .. M /\ f - 1 + (b - f + 1) = b
      BY <1>2, <1>11, <3>1
    <3> QED BY <1>12, <1>14, <2>4, <3>2
  <2> QED BY <2>1, <2>3, <2>4
<1>18. Listed(R, far, u, w)
  <2>1. Len(u) + 1 = n + 2
    BY <1>2, <1>3
  <2> QED BY <1>3, <1>12, <1>14, <1>15, <1>16, <1>17, <2>1, SMTT(30) DEF Listed
<1> QED BY <1>1, <1>5, <1>10, <1>11, <1>12, <1>18 DEF Lists

----------------------------------------
(* The names of the file, without the enumerators of the header. *)
OuterLaw(t, out, F) ==
  \A n : n \in out <=>
    n \in F /\ \A j \in 1 .. Len(t) : ~Unlisted(t[j], n)

HeadsFirst(t) ==
  \A j, k \in 1 .. Len(t) : j <= k /\ t[k].kind \in Heads => t[j].kind \in Heads

(* The environment takes a name for the name of a type if it is one. *)
LEMMA TypedefNameMeans ==
  ASSUME NEW t, NEW q, Numbered(t, q), HeadsFirst(t), NEW F, OuterLaw(t, outer, F),
         NEW e \in Environment, Lists(e.entries, t, q), NEW n,
         Dec(t, q, n, Len(t) + 1) # {} \/ n \in F
  PROVE  IsTypedefName(e, n) <=> MeansType(t, Mean(t, q, n, Len(t) + 1), n)
<1> DEFINE P == e.entries
           D == Dec(t, q, n, Len(t) + 1)
           H == {i \in DOMAIN P : P[i].name = n}
<1>1. Len(t) \in Nat /\ P \in Seq(Entry) /\ Len(P) \in Nat /\ DOMAIN P = 1 .. Len(P)
  BY SeqParts DEF Numbered, Readable, Environment
<1>2. PICK pos : Listed(P, pos, t, q)
  BY DEF Lists
<1>3. D \subseteq 1 .. Len(t)
  BY <1>1 DEF Dec
<1>4. \A a \in H : a \in 1 .. Len(P) /\ pos[a] \in D
  BY <1>1, <1>2 DEF Listed, Dec
<1>5. IsTypedefName(e, n) <=>
        IF H = {} THEN n \in outer
        ELSE \E i \in H : (\A j \in H : i <= j) /\ P[i].typedef
  BY DEF IsTypedefName
<1>6. \A j \in D : Unlisted(t[j], n) \/ \E a \in H : pos[a] = j
  <2> SUFFICES ASSUME NEW j \in D
               PROVE  Unlisted(t[j], n) \/ \E a \in H : pos[a] = j
    OBVIOUS
  <2>1. j \in 1 .. Len(t) /\ n \in Declares(t[j]) /\ Kept(q, j, Len(t) + 1)
    BY <1>3 DEF Dec
  <2>2. Unlisted(t[j], n) \/ \E a \in 1 .. Len(P) : pos[a] = j /\ P[a].name = n
    BY <1>2, <2>1 DEF Listed
  <2> QED BY <1>1, <2>2
<1>7. D # {} => /\ Mean(t, q, n, Len(t) + 1) \in D
                /\ \A j \in D : j <= Mean(t, q, n, Len(t) + 1)
  BY <1>1, <1>3, InnermostIn DEF Mean
<1>8. ASSUME NEW j \in D, Unlisted(t[j], n)
      PROVE  n \notin outer /\ ~MeansType(t, j, n)
  BY <1>3, <1>8 DEF OuterLaw, Unlisted, Heads, MeansType
<1>9. CASE D = {}
  <2>1. H = {}
    BY <1>4, <1>9
  <2>2. \A j \in 1 .. Len(t) : ~Unlisted(t[j], n)
    <3> SUFFICES ASSUME NEW j \in 1 .. Len(t), Unlisted(t[j], n)
                 PROVE  j \in D
      BY <1>9
    <3>1. n \in Declares(t[j])
      BY DEF Unlisted, Declares
    <3>2. Kept(q, j, Len(t) + 1)
      <4>1. Places(q) /\ Len(q) = Len(t) + 1 /\ j \in 1 .. Len(q)
        BY <1>1 DEF Numbered
      <4>2. Lev(q, j) = 1
        <5>1. \A k \in 0 .. Len(t) : k < j => Lev(q, k + 1) = 1
          <6> DEFINE B == {k \in 0 .. Len(t) : k < j /\ Lev(q, k + 1) # 1}
          <6> SUFFICES ASSUME B # {}
                       PROVE  FALSE
            OBVIOUS
          <6>1. B \subseteq Nat
            OBVIOUS
          <6>2. PICK k \in B : \A y \in B : k <= y
            <7> HIDE DEF B
            <7> QED BY <6>1, LeastOf
          <6>3. k \in 0 .. Len(t) /\ k < j /\ Lev(q, k + 1) # 1
            OBVIOUS
          <6>4. k # 0
            <7>1. Lev(q, 1) = 1
              BY <4>1 DEF Places, Lev
            <7> QED BY <6>3, <7>1
          <6>5. k - 1 \in 0 .. Len(t) /\ k - 1 < j /\ k - 1 \notin B /\ (k - 1) + 1 = k
            <7>1. k - 1 \in 0 .. Len(t) /\ k - 1 < j /\ (k - 1) + 1 = k /\ ~(k <= k - 1)
              BY <1>1, <6>3, <6>4
            <7>2. k - 1 \notin B
              <8> HIDE DEF B
              <8> QED BY <6>2, <7>1
            <7> QED BY <7>1, <7>2
          <6>6. Lev(q, k) = 1
            BY <6>5
          <6>7. k \in 1 .. Len(t) /\ t[k].kind \in Heads
            BY <1>1, <6>3, <6>4 DEF HeadsFirst, Unlisted
          <6>8. q[k + 1].path = q[k].path
            BY <6>7 DEF Numbered, Follows, Heads
          <6> QED BY <6>3, <6>6, <6>8 DEF Lev
        <5>2. j - 1 \in 0 .. Len(t) /\ j - 1 < j /\ (j - 1) + 1 = j
          BY <1>1
        <5> QED BY <5>1, <5>2
      <4>3. \A k \in j .. Len(t) + 1 : Lev(q, k) \in Nat \ {0}
        BY <1>1, <4>1, LevelParts
      <4> QED BY <4>2, <4>3 DEF Kept
    <3> QED BY <1>1, <3>1, <3>2 DEF Dec
  <2>3. n \in outer
    BY <1>9, <2>2 DEF OuterLaw
  <2> QED BY <1>5, <1>9, <2>1, <2>3 DEF Mean, MeansType
<1>10. CASE D # {} /\ H = {}
  <2>1. PICK k : k = Mean(t, q, n, Len(t) + 1) /\ k \in D
    BY <1>7, <1>10
  <2>2. Unlisted(t[k], n)
    BY <1>6, <1>10, <2>1
  <2> QED BY <1>5, <1>8, <1>10, <2>1, <2>2
<1>11. CASE D # {} /\ H # {}
  <2>1. PICK k : k = Mean(t, q, n, Len(t) + 1) /\ k \in D /\ \A j \in D : j <= k
    BY <1>7, <1>11
  <2>2. PICK a \in H : \A b \in H : a <= b
    <3>1. H \subseteq Nat
      BY <1>1
    <3> HIDE DEF H
    <3> QED BY <1>11, <3>1, LeastOf
  <2>3. IsTypedefName(e, n) <=> P[a].typedef
    <3>1. \A i \in H : (\A j \in H : i <= j) <=> i = a
      <4>1. \A i \in H : i \in Nat
        BY <1>1
      <4> HIDE DEF H
      <4> QED BY <2>2, <4>1
    <3> HIDE DEF H, P
    <3> QED BY <1>5, <1>11, <2>2, <3>1
  <2>4. P[a].typedef <=> MeansType(t, pos[a], n)
    BY <1>1, <1>2, <2>2 DEF Listed
  <2>5. pos[a] <= k /\ pos[a] \in 1 .. Len(t) /\ k \in 1 .. Len(t)
    BY <1>3, <1>4, <2>1, <2>2
  <2>6. CASE \E b \in H : pos[b] = k
    <3>1. PICK b \in H : pos[b] = k
      BY <2>6
    <3>2. a <= b /\ a \in 1 .. Len(P) /\ b \in 1 .. Len(P)
      BY <1>4, <2>2
    <3>3. k <= pos[a]
      <4>1. a < b => pos[b] <= pos[a]
        BY <1>2, <3>2 DEF Listed
      <4> QED BY <2>5, <3>1, <3>2, <4>1
    <3>4. pos[a] = k
      BY <2>5, <3>3
    <3> QED BY <2>1, <2>3, <2>4, <3>4
  <2>7. CASE Unlisted(t[k], n)
    <3>1. t[pos[a]].kind \in Heads
      BY <2>5, <2>7 DEF HeadsFirst, Unlisted
    <3>2. ~MeansType(t, pos[a], n)
      BY <2>5, <3>1 DEF MeansType, Heads
    <3> QED BY <1>8, <2>1, <2>3, <2>4, <2>7, <3>2
  <2> QED BY <1>6, <2>1, <2>6, <2>7
<1> QED BY <1>9, <1>10, <1>11

----------------------------------------
(* What the parser knows behind a text, and one more construct of the body. *)

UsesKnown(t, q, F) ==
  \A i \in 1 .. Len(t) :
    t[i].kind = "use" =>
      /\ Dec(t, q, t[i].name, i) # {} \/ t[i].name \in F
      /\ t[i].typedef <=> MeansType(t, Mean(t, q, t[i].name, i), t[i].name)

Parsed(t, e, q, out, F) ==
  /\ e \in Environment /\ Numbered(t, q) /\ q[Len(q)] = Now(e)
  /\ Lists(e.entries, t, q) /\ OuterLaw(t, out, F) /\ HeadsFirst(t)
  /\ UsesKnown(t, q, F)

LEMMA MeanSame ==
  ASSUME NEW t, NEW q, Numbered(t, q), NEW x, NEW s, NEW n, NEW i \in 1 .. Len(t) + 1
  PROVE  /\ Dec(Append(t, x), Append(q, s), n, i) = Dec(t, q, n, i)
         /\ Mean(Append(t, x), Append(q, s), n, i) = Mean(t, q, n, i)
         /\ Mean(t, q, n, i) \in 0 .. Len(t)
         /\ MeansType(Append(t, x), Mean(t, q, n, i), n) <=> MeansType(t, Mean(t, q, n, i), n)
<1>1. PICK u, w : u = Append(t, x) /\ w = Append(q, s)
  OBVIOUS
<1>2. /\ Len(t) \in Nat /\ Len(q) = Len(t) + 1 /\ Places(q) /\ IsSeq(t)
  BY SeqParts DEF Numbered, Readable
<1>3. \A k \in 1 .. Len(t) : u[k] = t[k]
  BY <1>1, <1>2, Longer
<1>4. \A j \in 1 .. i - 1 : j \in 1 .. Len(t) /\ j \in 1 .. Len(q) /\ i \in j .. Len(q)
  BY <1>2
<1>5. \A j \in 1 .. i - 1 : Kept(w, j, i) <=> Kept(q, j, i)
  BY <1>1, <1>2, <1>4, KeptStep
<1>6. Dec(u, w, n, i) = Dec(t, q, n, i)
  BY <1>3, <1>4, <1>5 DEF Dec
<1>7. Mean(u, w, n, i) = Mean(t, q, n, i)
  BY <1>6 DEF Mean
<1>8. Mean(t, q, n, i) \in 0 .. Len(t)
  <2>1. Dec(t, q, n, i) \subseteq 1 .. Len(t)
    BY <1>4 DEF Dec
  <2>2. CASE Dec(t, q, n, i) = {}
    BY <1>2, <2>2 DEF Mean
  <2>3. CASE Dec(t, q, n, i) # {}
    <3>1. Innermost(Dec(t, q, n, i)) \in Dec(t, q, n, i)
      BY <1>2, <2>1, <2>3, InnermostIn
    <3> QED BY <1>2, <2>1, <2>3, <3>1 DEF Mean
  <2> QED BY <2>2, <2>3
<1>9. \A j \in 0 .. Len(t) : MeansType(u, j, n) <=> MeansType(t, j, n)
  <2>1. \A j \in 0 .. Len(t) : j = 0 \/ j \in 1 .. Len(t)
    BY <1>2
  <2> QED BY <1>3, <2>1 DEF MeansType
<1> QED BY <1>1, <1>6, <1>7, <1>8, <1>9

ReadHere(x, e, t, q, F) ==
  /\ Fine(x) /\ x.kind \notin Heads /\ x.point = NotedPoint(e) /\ x.next = e.next_scope_id
  /\ x.kind = "use" =>
       /\ x.typedef <=> IsTypedefName(e, x.name)
       /\ Dec(t, q, x.name, Len(t) + 1) # {} \/ x.name \in F

LEMMA ParsedStep ==
  ASSUME NEW t, NEW e, NEW q, NEW F, Parsed(t, e, q, outer, F), NEW x,
         ReadHere(x, e, t, q, F), NEW v, v \in Environment, Follows(Now(e), Now(v), x),
         Lists(v.entries, Append(t, x), Append(q, Now(v)))
  PROVE  Parsed(Append(t, x), v, Append(q, Now(v)), outer, F)
<1> DEFINE n == Len(t)
<1>1. PICK u, w : u = Append(t, x) /\ w = Append(q, Now(v))
  OBVIOUS
<1>2. n \in Nat /\ Len(q) = n + 1 /\ Numbered(t, q) /\ Places(q) /\ q[n + 1] = Now(e)
  BY SeqParts DEF Parsed, Numbered, Readable
<1>3. /\ e.stack \in Seq(Nat) /\ e.current_scope_seq \in Nat
      /\ v.next_declaration_seq \in Nat
  BY EnvironmentParts DEF Parsed
<1>4. At(q, n + 1) = e.current_scope_seq
  <2>1. PICK p : p = Append(e.stack, e.current_scope_seq)
    OBVIOUS
  <2>2. p[Len(p)] = e.current_scope_seq
    BY <1>3, <2>1
  <2> QED BY <1>2, <2>1, <2>2 DEF At, Lev, Now
<1>5. /\ x.point.scope = At(q, Len(q)) /\ x.point.order = q[Len(q)].order
      /\ x.next = q[Len(q)].next
  BY <1>2, <1>4 DEF ReadHere, NotedPoint, Now
<1>6. Now(v).order \in Nat /\ Fine(x)
  BY <1>3 DEF Now, ReadHere
<1>7. /\ Numbered(u, w) /\ Len(u) = n + 1 /\ u[n + 1] = x /\ \A k \in 1 .. n : u[k] = t[k]
      /\ Len(w) = n + 2 /\ w[n + 2] = Now(v)
  <2>1. Follows(q[Len(q)], Now(v), x)
    BY <1>2
  <2> QED BY <1>1, <1>2, <1>5, <1>6, <2>1, NumberedStep
<1>8. \A k \in 1 .. n + 1 : k \in 1 .. n \/ k = n + 1
  BY <1>2
<1>9. \A m : ~Unlisted(x, m)
  BY DEF Unlisted, ReadHere
<1>10. OuterLaw(u, outer, F)
  <2>1. OuterLaw(t, outer, F)
    BY DEF Parsed
  <2>2. \A m : (\A j \in 1 .. n + 1 : ~Unlisted(u[j], m)) <=> \A j \in 1 .. n : ~Unlisted(t[j], m)
    <3>1. \A j \in 1 .. n : j \in 1 .. n + 1
      BY <1>2
    <3> QED BY <1>7, <1>8, <1>9, <3>1
  <2> QED BY <1>7, <2>1, <2>2 DEF OuterLaw
<1>11. HeadsFirst(u)
  <2>1. HeadsFirst(t) /\ x.kind \notin Heads
    BY DEF Parsed, ReadHere
  <2>2. \A j, k \in 1 .. n + 1 : j <= k /\ k \in 1 .. n => j \in 1 .. n
    BY <1>2
  <2> QED BY <1>7, <1>8, <2>1, <2>2 DEF HeadsFirst
<1>12. \A m : \A i \in 1 .. n + 1 :
         /\ Dec(u, w, m, i) = Dec(t, q, m, i) /\ Mean(u, w, m, i) = Mean(t, q, m, i)
         /\ MeansType(u, Mean(t, q, m, i), m) <=> MeansType(t, Mean(t, q, m, i), m)
  BY <1>1, <1>2, MeanSame
<1>13. UsesKnown(u, w, F)
  <2> SUFFICES ASSUME NEW i \in 1 .. n + 1, u[i].kind = "use"
               PROVE  /\ Dec(u, w, u[i].name, i) # {} \/ u[i].name \in F
                      /\ u[i].typedef <=> MeansType(u, Mean(u, w, u[i].name, i), u[i].name)
    BY <1>7 DEF UsesKnown
  <2>1. PICK m : m = u[i].name
    OBVIOUS
  <2>2. CASE i \in 1 .. n
    <3>1. u[i] = t[i] /\ UsesKnown(t, q, F)
      BY <1>7, <2>2 DEF Parsed
    <3>2. /\ Dec(t, q, m, i) # {} \/ m \in F
          /\ u[i].typedef <=> MeansType(t, Mean(t, q, m, i), m)
      BY <2>1, <2>2, <3>1 DEF UsesKnown
    <3> QED BY <1>12, <2>1, <3>2
  <2>3. CASE i = n + 1
    <3>1. /\ u[i] = x
          /\ u[i].typedef <=> IsTypedefName(e, m)
          /\ Dec(t, q, m, n + 1) # {} \/ m \in F
      BY <1>7, <2>1, <2>3 DEF ReadHere
    <3>2. /\ HeadsFirst(t) /\ OuterLaw(t, outer, F) /\ e \in Environment /\ Lists(e.entries, t, q)
      BY DEF Parsed
    <3>3. IsTypedefName(e, m) <=> MeansType(t, Mean(t, q, m, n + 1), m)
      BY <1>2, <3>1, <3>2, TypedefNameMeans
    <3>4. n + 1 \in 1 .. n + 1
      BY <1>2
    <3>5. /\ Dec(u, w, m, n + 1) = Dec(t, q, m, n + 1) /\ Mean(u, w, m, n + 1) = Mean(t, q, m, n + 1)
          /\ MeansType(u, Mean(t, q, m, n + 1), m) <=> MeansType(t, Mean(t, q, m, n + 1), m)
      BY <1>12, <3>4
    <3>6. Dec(u, w, m, n + 1) # {} \/ m \in F
      BY <3>1, <3>5
    <3>7. Mean(u, w, m, i) = Mean(t, q, m, n + 1) /\ Dec(u, w, m, i) = Dec(u, w, m, n + 1)
      BY <2>3, <3>5
    <3>8. u[i].typedef <=> MeansType(u, Mean(t, q, m, n + 1), m)
      <4>1. MeansType(u, Mean(t, q, m, n + 1), m) <=> MeansType(t, Mean(t, q, m, n + 1), m)
        BY <3>5, Zenon
      <4>2. u[i].typedef <=> IsTypedefName(e, m)
        BY <3>1, Zenon
      <4> HIDE DEF n
      <4> QED BY <3>3, <4>1, <4>2, Zenon
    <3> QED BY <2>1, <3>6, <3>7, <3>8, Zenon
  <2> QED BY <1>8, <2>2, <2>3
<1> QED BY <1>1, <1>2, <1>7, <1>10, <1>11, <1>13 DEF Parsed

(* A construct that neither enters nor leaves. *)
LEMMA PlainParsed ==
  ASSUME NEW t, NEW e, NEW q, NEW F, Parsed(t, e, q, outer, F), NEW x,
         ReadHere(x, e, t, q, F), x.kind \notin {"enter", "leave"},
         NEW v, NEW new, Announces(v, e, ItemScopes(x), ItemOrders(x), new),
         PushedFor(new, x, e)
  PROVE  \E w : Parsed(Append(t, x), v, w, outer, F)
<1>1. v \in Environment /\ e \in Environment /\ v.entries = new \o e.entries
  BY DEF Announces, Parsed
<1>2. Now(v).path = Now(e).path /\ Follows(Now(e), Now(v), x)
  BY DEF Announces, Follows, Now
<1>3. /\ Numbered(t, q) /\ q[Len(q)] = Now(e) /\ Lists(e.entries, t, q)
      /\ Places(q) /\ Len(q) \in 1 .. Len(q)
  BY DEF Parsed, Numbered, Places
<1>4. e.entries \in Seq(Entry) /\ e.stack \in Seq(Nat) /\ e.current_scope_seq \in Nat
  BY <1>1, EnvironmentParts
<1>5. Len(Now(e).path) = Len(e.stack) + 1 /\ Len(e.stack) \in Nat
  BY <1>4 DEF Now
<1>6. Lev(q, Len(q)) = Len(Now(v).path) /\ Len(e.stack) = Lev(q, Len(q)) - 1 /\ Len(Now(v).path) \in Nat
  BY <1>2, <1>3, <1>5 DEF Lev
<1>7. Lists(new \o e.entries, Append(t, x), Append(q, Now(v)))
  <2>1. Lev(q, Len(q)) <= Len(Now(v).path)
    BY <1>6
  <2> HIDE DEF Announces, Parsed
  <2> QED BY <1>3, <1>4, <1>6, <2>1, ListsStep
<1> QED BY <1>1, <1>2, <1>7, ParsedStep

LEMMA EnterParsed ==
  ASSUME NEW t, NEW e, NEW q, NEW F, Parsed(t, e, q, outer, F), NEW x,
         ReadHere(x, e, t, q, F), x.kind = "enter",
         NEW s \in Specifier, x.spec = s
  PROVE  \E w : Parsed(Append(t, x), ParseSpecifier(EnterNames(e), s), w, outer, F)
<1>1. e \in Environment /\ Fine(x)
  BY DEF Parsed, ReadHere
<1>2. /\ e.stack \in Seq(Nat) /\ e.current_scope_seq \in Nat /\ e.next_scope_id \in Nat
      /\ e.entries \in Seq(Entry) /\ e.next_declaration_seq \in Nat
  BY <1>1, EnvironmentParts
<1>3. PICK y : y = EnterNames(e)
  OBVIOUS
<1>4. /\ y \in Environment /\ y.entries = e.entries /\ y.stack = Append(e.stack, e.current_scope_seq)
      /\ y.current_scope_seq = e.next_scope_id /\ y.next_scope_id = e.next_scope_id + 1
      /\ y.next_declaration_seq = e.next_declaration_seq
  <2>1. PICK b : b = Append(e.stack, e.current_scope_seq)
    OBVIOUS
  <2>2. b \in Seq(Nat) /\ e.next_scope_id + 1 \in Nat
    BY <1>2, <2>1
  <2>3. y = [e EXCEPT !.stack = b, !.current_scope_seq = e.next_scope_id,
                      !.next_scope_id = e.next_scope_id + 1]
    BY <1>3, <2>1 DEF EnterNames
  <2>4. /\ y.entries = e.entries /\ y.stack = b /\ y.current_scope_seq = e.next_scope_id
        /\ y.next_scope_id = e.next_scope_id + 1
        /\ y.next_declaration_seq = e.next_declaration_seq
    BY <1>1, <2>3 DEF Environment
  <2>5. y \in Environment
    BY <1>1, <1>2, <2>2, <2>3 DEF Environment
  <2> QED BY <2>1, <2>4, <2>5
<1>5. PICK v : v = ParseSpecifier(y, s)
  OBVIOUS
<1>6. /\ s.tag \in {"none", "reference"} /\ ItemScopes(x) = 1
      /\ ItemOrders(x) = Orders(s) /\ Declares(x) = {}
  BY <1>1, FineParts DEF Fine, ItemOrders, Naming, Orders
<1>7. Announces(v, y, 0, Orders(s), << >>)
  <2>1. ~Callback(s) /\ Scopes(s) = 0 /\ PushedBy(s, y) = << >>
    BY <1>6 DEF Callback, Scopes, PushedBy
  <2> QED BY <1>4, <1>5, <2>1, SpecifierAnnounces
<1>8. v \in Environment /\ v.entries = e.entries
  <2>1. << >> \o y.entries = y.entries
    BY <1>4, EnvironmentParts
  <2> QED BY <1>4, <1>7, <2>1 DEF Announces
<1>9. Now(v).path = Append(Now(e).path, Now(e).next)
  BY <1>4, <1>7 DEF Announces, Now
<1>10. Follows(Now(e), Now(v), x)
  <2>1. Now(v).next = Now(e).next + 1 /\ Now(e).order + Orders(s) <= Now(v).order
    BY <1>2, <1>4, <1>7 DEF Announces, Now
  <2> QED BY <1>6, <1>9, <2>1 DEF Follows
<1>11. /\ Numbered(t, q) /\ q[Len(q)] = Now(e) /\ Lists(e.entries, t, q)
  BY DEF Parsed
<1>12. Len(Now(e).path) = Len(e.stack) + 1 /\ Len(Now(v).path) = Len(e.stack) + 2
  BY <1>2, <1>9 DEF Now
<1>13. Lists(e.entries, Append(t, x), Append(q, Now(v)))
  <2>1. /\ Lev(q, Len(q)) <= Len(Now(v).path) /\ Len(Now(v).path) \in Nat
        /\ Len(e.stack) = Lev(q, Len(q)) - 1
    BY <1>2, <1>11, <1>12 DEF Lev
  <2>2. PushedFor(<< >>, x, e)
    BY <1>6 DEF PushedFor
  <2>3. Lists(<< >> \o e.entries, Append(t, x), Append(q, Now(v)))
    BY <1>2, <1>11, <2>1, <2>2, ListsStep
  <2>4. << >> \o e.entries = e.entries
    BY <1>1, EnvironmentParts
  <2> QED BY <2>3, <2>4
<1> QED BY <1>3, <1>5, <1>8, <1>10, <1>13, ParsedStep

LEMMA LeaveParsed ==
  ASSUME NEW t, NEW e, NEW q, NEW F, Parsed(t, e, q, outer, F), NEW x,
         ReadHere(x, e, t, q, F), x.kind = "leave", x.spec = NoTag, e.stack # << >>
  PROVE  \E w : Parsed(Append(t, x), LeaveNames(e), w, outer, F)
<1>1. e \in Environment /\ Fine(x)
  BY DEF Parsed, ReadHere
<1>2. /\ e.stack \in Seq(Nat) /\ e.current_scope_seq \in Nat /\ e.next_scope_id \in Nat
      /\ e.entries \in Seq(Entry) /\ e.next_declaration_seq \in Nat
  BY <1>1, EnvironmentParts
<1>3. PICK L, k : L = Len(e.stack) /\ k = e.stack
  OBVIOUS
<1>4. L \in Nat \ {0} /\ k \in Seq(Nat) /\ Len(k) = L
  BY <1>2, <1>3
<1>5. PICK v, R : v = LeaveNames(e) /\ R = Popped(e.entries, L)
  OBVIOUS
<1>6. PICK b, p : b = SubSeq(k, 1, L - 1) /\ p = Append(k, e.current_scope_seq)
  OBVIOUS
<1>7. /\ b \in Seq(Nat) /\ Len(b) = L - 1 /\ \A m \in 1 .. L - 1 : b[m] = k[m]
      /\ p \in Seq(Nat) /\ Len(p) = L + 1 /\ \A m \in 1 .. L : p[m] = k[m]
      /\ k[L] \in Nat
  BY <1>2, <1>4, <1>6
<1>8. v = [e EXCEPT !.entries = R, !.stack = b, !.current_scope_seq = k[L]]
  BY <1>3, <1>5, <1>6 DEF LeaveNames
<1>9. /\ v.entries = R /\ v.stack = b /\ v.current_scope_seq = k[L]
      /\ v.next_scope_id = e.next_scope_id /\ v.next_declaration_seq = e.next_declaration_seq
  BY <1>1, <1>8 DEF Environment
<1>10. Now(e).path = p /\ Now(v).path = Append(b, k[L])
  BY <1>3, <1>6, <1>9 DEF Now
<1>11. Append(b, k[L]) = SubSeq(p, 1, L)
  <2>1. PICK y, z : y = Append(b, k[L]) /\ z = SubSeq(p, 1, L)
    OBVIOUS
  <2>2. /\ y \in Seq(Nat) /\ Len(y) = L /\ y[L] = k[L] /\ \A m \in 1 .. L - 1 : y[m] = k[m]
    BY <1>4, <1>7, <2>1
  <2>3. z \in Seq(Nat) /\ Len(z) = L /\ \A m \in 1 .. L : z[m] = k[m]
    <3>1. /\ 1 \in 1 .. Len(p) + 1 /\ L \in 0 .. Len(p) /\ L - 1 + 1 = L
          /\ \A m \in 1 .. L : 1 + m - 1 = m
      BY <1>4, <1>7
    <3>2. \A m \in 1 .. Len(p) : p[m] \in Nat
      BY <1>7, ElementOfSeq
    <3>3. z = SubSeq(p, 1, L) /\ p \in Seq(Nat) /\ Len(p) = L + 1 /\ L \in Nat
      BY <1>4, <1>7, <2>1
    <3>4. z \in Seq(Nat) /\ Len(z) = L /\ \A m \in 1 .. L : z[m] = p[m]
      BY ONLY <3>2, <3>3
    <3> QED BY <1>7, <3>4
  <2>4. \A m \in 1 .. L : m \in 1 .. L - 1 \/ m = L
    BY <1>4
  <2>5. \A m \in 1 .. L : y[m] = z[m]
    BY <2>2, <2>3, <2>4
  <2>6. y = z
    BY <1>4, <2>2, <2>3, <2>5
  <2> QED BY <2>1, <2>6
<1>12. Follows(Now(e), Now(v), x)
  <2>1. ItemScopes(x) = 0 /\ ItemOrders(x) = 0
    BY <1>1, FineParts DEF ItemOrders, Orders, NoTag, Naming
  <2>2. Now(v).next = Now(e).next /\ Now(v).order = Now(e).order /\ Now(e).next \in Nat /\ Now(e).order \in Nat
    BY <1>2, <1>9 DEF Now
  <2>3. Len(Now(e).path) = L + 1 /\ Now(v).path = SubSeq(Now(e).path, 1, Len(Now(e).path) - 1)
    BY <1>4, <1>7, <1>10, <1>11
  <2> QED BY <1>4, <2>1, <2>2, <2>3 DEF Follows
<1>13. Len(Now(v).path) = L
  BY <1>4, <1>7, <1>10
<1>14. /\ Numbered(t, q) /\ q[Len(q)] = Now(e) /\ Lists(e.entries, t, q)
  BY DEF Parsed
<1>15. R \in Seq(Entry) /\ Lists(R, Append(t, x), Append(q, Now(v)))
  <2>1. Len(Now(v).path) = Lev(q, Len(q)) - 1
    BY <1>4, <1>7, <1>10, <1>13, <1>14 DEF Lev
  <2>2. Declares(x) = {}
    BY <1>1, FineParts
  <2>3. /\ Popped(e.entries, Len(Now(v).path)) \in Seq(Entry)
        /\ Lists(Popped(e.entries, Len(Now(v).path)), Append(t, x), Append(q, Now(v)))
    BY <1>2, <1>14, <2>1, <2>2, ListsLeave
  <2> QED BY <1>5, <1>13, <2>3
<1>16. v \in Environment
  BY <1>1, <1>7, <1>8, <1>15 DEF Environment
<1> QED BY <1>5, <1>9, <1>12, <1>15, <1>16, ParsedStep

LEMMA SameBy ==
  ASSUME NEW S, NEW a \in Seq(S), NEW b \in Seq(S), Len(a) = Len(b),
         \A i \in 1 .. Len(a) : a[i] = b[i]
  PROVE  a = b
OBVIOUS

LEMMA OneTuple ==
  ASSUME NEW S, NEW y \in S, NEW P \in Seq(S)
  PROVE  /\ << >> \in Seq(S) /\ << >> \o P = P /\ P \o << >> = P /\ Len(<< >>) = 0
         /\ <<y>> \in Seq(S) /\ Len(<<y>>) = 1 /\ <<y>>[1] = y
OBVIOUS

LEMMA TwoTuple ==
  ASSUME NEW S, NEW y \in S, NEW z \in S
  PROVE  /\ <<y, z>> \in Seq(S) /\ Len(<<y, z>>) = 2 /\ <<y, z>>[1] = y /\ <<y, z>>[2] = z
         /\ <<y>> \o <<z>> = <<y, z>>
<1>1. <<y>> \in Seq(S) /\ <<z>> \in Seq(S)
  OBVIOUS
<1>2. PICK a : a = <<y>> \o <<z>>
  OBVIOUS
<1>3. a \in Seq(S) /\ Len(a) = 2 /\ a[1] = y /\ a[2] = z
  BY <1>1, <1>2
<1>4. PICK b : b = <<y, z>>
  OBVIOUS
<1>5. b \in Seq(S) /\ Len(b) = 2 /\ b[1] = y /\ b[2] = z
  BY <1>4
<1>6. \A i \in 1 .. 2 : i = 1 \/ i = 2
  OBVIOUS
<1>7. \A i \in 1 .. 2 : a[i] = b[i]
  BY <1>3, <1>5, <1>6
<1>8. a = b
  BY <1>3, <1>5, <1>7, SameBy
<1> QED BY <1>2, <1>4, <1>5, <1>8

LEMMA JoinThree ==
  ASSUME NEW S, NEW a \in Seq(S), NEW b \in Seq(S), NEW c \in Seq(S)
  PROVE  (a \o b) \o c = a \o (b \o c) /\ a \o b \in Seq(S)
BY ConcatAssociative

(* The parser's text against what C says of it. *)
LEMMA DecIs ==
  ASSUME NEW q, Numbered(text, q), NEW n, NEW i \in 1 .. Len(text) + 1
  PROVE  Declaring(n, i) = Dec(text, q, n, i) /\ Meaning(n, i) = Mean(text, q, n, i)
<1>1. /\ Len(text) \in Nat /\ Len(q) = Len(text) + 1 /\ Places(q)
      /\ \A k \in 1 .. Len(text) : Fine(text[k]) /\ Follows(q[k], q[k + 1], text[k])
  BY SeqParts DEF Numbered, Readable
<1>2. \A k \in 0 .. Len(text) : Depth(k) = Lev(q, k + 1) - 1
  BY DEF Numbered, Depth, DepthOf, Occurs
<1>3. \A k \in 1 .. Len(text) + 1 : Lev(q, k) \in Nat
  BY <1>1, LevelParts
<1>4. ASSUME NEW j \in 1 .. i - 1, n \in Declares(text[j])
      PROVE  StillOpen(j, i) <=> Kept(q, j, i)
  <2>1. j \in 1 .. Len(text) /\ j + 1 \in 1 .. Len(text) + 1
    BY <1>1
  <2>2. text[j].kind \notin {"enter", "leave"}
    BY <1>1, <1>4, <2>1, FineParts
  <2>3. Lev(q, j + 1) = Lev(q, j)
    BY <1>1, <2>1, <2>2 DEF Follows, Lev
  <2>4. ASSUME StillOpen(j, i), NEW m \in j .. i
        PROVE  Lev(q, j) <= Lev(q, m)
    <3>1. CASE m = j
      BY <1>1, <1>3, <2>1, <3>1
    <3>2. CASE m # j
      <4>1. m - 1 \in j .. i - 1 /\ m - 1 \in 0 .. Len(text) /\ j \in 0 .. Len(text) /\ (m - 1) + 1 = m
        BY <1>1, <2>1, <3>2
      <4>2. Depth(m - 1) >= Depth(j)
        BY <2>4, <4>1 DEF StillOpen
      <4>3. Depth(m - 1) = Lev(q, m) - 1 /\ Depth(j) = Lev(q, j) - 1
        BY <1>2, <2>3, <4>1
      <4>4. Lev(q, m) \in Nat /\ Lev(q, j) \in Nat
        BY <1>1, <1>3, <2>1
      <4> QED BY <4>2, <4>3, <4>4
    <3> QED BY <3>1, <3>2
  <2>5. ASSUME Kept(q, j, i), NEW k \in j .. i - 1
        PROVE  Depth(k) >= Depth(j)
    <3>1. k \in 0 .. Len(text) /\ k + 1 \in j .. i /\ j \in 0 .. Len(text)
      BY <1>1, <2>1
    <3>2. Lev(q, j) <= Lev(q, k + 1)
      BY <2>5, <3>1 DEF Kept
    <3>3. Depth(k) = Lev(q, k + 1) - 1 /\ Depth(j) = Lev(q, j) - 1
      BY <1>2, <2>3, <3>1
    <3>4. Lev(q, k + 1) \in Nat /\ Lev(q, j) \in Nat
      BY <1>1, <1>3, <2>1, <3>1
    <3> QED BY <3>2, <3>3, <3>4
  <2> QED BY <2>4, <2>5 DEF StillOpen, Kept
<1>5. Declaring(n, i) = Dec(text, q, n, i)
  BY <1>4 DEF Declaring, Dec
<1> QED BY <1>5 DEF Meaning, Mean

LEMMA ShapeFine ==
  ASSUME NEW x \in Shape, \A p \in DOMAIN x.parameters : x.parameters[p].tag # "enum"
  PROVE  /\ x.spec \in Specifier /\ MayTake(x.parameters)
         /\ x.parameters # << >> => x.parameters[1] \in Specifier /\ 1 \in DOMAIN x.parameters
<1>1. CASE \E s \in Specifier : x = Plain(s)
  BY <1>1 DEF Plain, MayTake
<1>2. ASSUME NEW s \in Specifier, NEW t \in Specifier, x = FunctionOf(s, t)
      PROVE  /\ x.spec \in Specifier /\ MayTake(x.parameters)
             /\ x.parameters # << >> => x.parameters[1] \in Specifier /\ 1 \in DOMAIN x.parameters
  <2>1. x.spec = s /\ x.parameters = <<t>>
    BY <1>2 DEF FunctionOf
  <2>2. 1 \in DOMAIN x.parameters /\ x.parameters[1] = t
    BY <2>1
  <2>3. t.tag # "enum"
    BY <2>2
  <2> QED BY <2>1, <2>2, <2>3 DEF MayTake
<1> QED BY <1>1, <1>2 DEF Shape

LEMMA ItemParts ==
  ASSUME NEW kind, NEW n, NEW x
  PROVE  /\ Item(kind, n, x).kind = kind /\ Item(kind, n, x).name = n
         /\ Item(kind, n, x).spec = x.spec /\ Item(kind, n, x).parameters = x.parameters
         /\ Item(kind, n, x).typedef = IsTypedefName(env, n)
         /\ Item(kind, n, x).point = NotedPoint(env)
         /\ Item(kind, n, x).next = env.next_scope_id
BY DEF Item

LEMMA PlainFine ==
  ASSUME NEW kind, NEW n, NEW s, s \in Specifier
  PROVE  /\ kind \in {"type_name", "cast"} => Fine(Item(kind, n, Plain(s)))
         /\ kind \in {"enter", "leave"} /\ s.tag \in {"none", "reference"} =>
              Fine(Item(kind, n, Plain(s)))
         /\ kind = "use" /\ n \in Ident /\ s.tag = "none" => Fine(Item(kind, n, Plain(s)))
<1>1. PICK x : x = Item(kind, n, Plain(s))
  OBVIOUS
<1>2. x.kind = kind /\ x.name = n /\ x.spec = s /\ x.parameters = << >>
  BY <1>1, ItemParts DEF Plain
<1>3. MayTake(x.parameters)
  BY <1>2 DEF MayTake
<1> QED BY <1>1, <1>2, <1>3 DEF Fine, Kinds, Heads, Naming

LEMMA PushedEntry ==
  ASSUME NEW e \in Environment, NEW n \in Ident, NEW typedef \in BOOLEAN
  PROVE  Pushed(n, e, typedef) \in Entry
BY EnvironmentParts, NamesAssumption DEF Pushed, Entry

(* Two steps that announce one after the other. *)
LEMMA AnnouncesOn ==
  ASSUME NEW e \in Environment, NEW v, NEW k1 \in Nat, NEW o1 \in Nat, NEW P1, P1 \in Seq(Entry),
         Announces(v, e, k1, o1, P1), NEW w, NEW k2 \in Nat, NEW o2 \in Nat,
         NEW P2, P2 \in Seq(Entry), Announces(w, v, k2, o2, P2)
  PROVE  Announces(w, e, k1 + k2, o1 + o2, P2 \o P1)
<1>1. v \in Environment /\ w \in Environment
  BY DEF Announces
<1>2. /\ v.next_declaration_seq \in Nat /\ v.next_scope_id \in Nat
      /\ w.next_declaration_seq \in Nat /\ w.next_scope_id \in Nat
      /\ e.next_declaration_seq \in Nat /\ e.next_scope_id \in Nat /\ e.entries \in Seq(Entry)
  BY <1>1, EnvironmentParts
<1>3. PICK a, b, c : a = e.entries /\ b = P1 \o a /\ c = P2 \o P1
  OBVIOUS
<1>4. c \o a = P2 \o b
  <2>1. (P2 \o P1) \o a = P2 \o (P1 \o a)
    <3>1. a \in Seq(Entry)
      BY <1>2, <1>3
    <3> QED BY <3>1, JoinThree
  <2> QED BY <1>3, <2>1, Zenon
<1>5. v.entries = b /\ w.entries = P2 \o v.entries
  BY <1>3 DEF Announces
<1>6. w.entries = c \o e.entries
  BY <1>3, <1>4, <1>5
<1>7. /\ v.stack = e.stack /\ v.current_scope_seq = e.current_scope_seq
      /\ v.next_scope_id = e.next_scope_id + k1
      /\ e.next_declaration_seq + o1 <= v.next_declaration_seq
      /\ w.stack = v.stack /\ w.current_scope_seq = v.current_scope_seq
      /\ w.next_scope_id = v.next_scope_id + k2
      /\ v.next_declaration_seq + o2 <= w.next_declaration_seq
  BY DEF Announces
<1>8. /\ w.next_scope_id = e.next_scope_id + (k1 + k2)
      /\ e.next_declaration_seq + (o1 + o2) <= w.next_declaration_seq
  <2>1. PICK ns, es, vs, nd, ed, vd :
          /\ ns = w.next_scope_id /\ es = e.next_scope_id /\ vs = v.next_scope_id
          /\ nd = w.next_declaration_seq /\ ed = e.next_declaration_seq
          /\ vd = v.next_declaration_seq
    OBVIOUS
  <2>2. /\ ns \in Nat /\ es \in Nat /\ vs \in Nat /\ nd \in Nat /\ ed \in Nat /\ vd \in Nat
        /\ k1 \in Nat /\ k2 \in Nat /\ o1 \in Nat /\ o2 \in Nat
        /\ vs = es + k1 /\ ed + o1 <= vd /\ ns = vs + k2 /\ vd + o2 <= nd
    BY <1>2, <1>7, <2>1
  <2>3. ns = es + (k1 + k2) /\ ed + (o1 + o2) <= nd
    BY ONLY <2>2
  <2> QED BY <2>1, <2>3
<1> QED BY <1>1, <1>3, <1>6, <1>7, <1>8 DEF Announces

LEMMA PushedByFor ==
  ASSUME NEW e \in Environment, NEW s \in Specifier
  PROVE  /\ PushedBy(s, e) \in Seq(Entry)
         /\ s.tag # "enum" => PushedBy(s, e) = << >>
         /\ s.tag = "enum" => /\ s.enumerator \in Ident
                              /\ PushedBy(s, e) = <<Pushed(s.enumerator, e, FALSE)>>
<1>1. s.tag = "enum" => s.enumerator \in Ident
  BY SpecifierCases
<1>2. CASE s.tag # "enum"
  <2>1. PushedBy(s, e) = << >> /\ << >> \in Seq(Entry)
    BY <1>2 DEF PushedBy
  <2> QED BY <1>2, <2>1
<1>3. CASE s.tag = "enum"
  <2>1. PICK y : y = Pushed(s.enumerator, e, FALSE)
    OBVIOUS
  <2>2. y \in Entry
    BY <1>1, <1>3, <2>1, PushedEntry
  <2>3. <<y>> \in Seq(Entry)
    BY <2>2
  <2>4. PushedBy(s, e) = <<Pushed(s.enumerator, e, FALSE)>>
    BY <1>3, Zenon DEF PushedBy
  <2>5. PushedBy(s, e) = <<y>>
    BY <2>1, <2>4, Zenon
  <2> QED BY <1>1, <1>3, <2>3, <2>4, <2>5, Zenon
<1> QED BY <1>2, <1>3

(* A local declaration. *)
LEMMA LocalParsed ==
  ASSUME NEW q, NEW F, Parsed(text, env, q, outer, F), NEW x,
         ReadHere(x, env, text, q, F), x.kind \in {"object", "typedef"},
         x.name \notin Enumerators(x.spec), ~Callback(x.spec),
         x.parameters # << >> => ~Callback(x.parameters[1]),
         NEW v, v = DeclareName(ParseDeclarator(ParseSpecifier(env, x.spec), x.parameters),
                                x.name, x.kind = "typedef")
  PROVE  \E w : Parsed(Append(text, x), v, w, outer, F)
<1> DEFINE n == x.name
           s == x.spec
<1>0. PICK typedef \in BOOLEAN : typedef = (x.kind = "typedef")
  OBVIOUS
<1>1. /\ s \in Specifier /\ MayTake(x.parameters) /\ n \in Ident /\ env \in Environment
      /\ Scopes(s) \in Nat /\ Orders(s) \in Nat /\ ScopesOf(x.parameters) \in Nat
      /\ x.kind \notin {"enter", "leave"} /\ x.kind \in Naming
  BY FineParts DEF ReadHere, Fine, Parsed, Naming
<1>2. PICK v1, v2 : v1 = ParseSpecifier(env, s) /\ v2 = ParseDeclarator(v1, x.parameters)
  OBVIOUS
<1>3. Announces(v1, env, Scopes(s), Orders(s), PushedBy(s, env)) /\ v1 \in Environment
  BY <1>1, <1>2, SpecifierAnnounces DEF Announces
<1>4. Announces(v2, v1, ScopesOf(x.parameters), 0, << >>) /\ v2 \in Environment
  BY <1>1, <1>2, <1>3, DeclaratorAnnounces DEF Announces
<1>5. PICK P1 : P1 = PushedBy(s, env)
  OBVIOUS
<1>6. P1 \in Seq(Entry) /\ << >> \in Seq(Entry) /\ << >> \o P1 = P1
  <2>1. P1 \in Seq(Entry)
    BY <1>1, <1>5, PushedByFor
  <2> QED BY <2>1, EmptySeq, ConcatEmptySeq
<1>7. Announces(v2, env, Scopes(s) + ScopesOf(x.parameters), Orders(s) + 0, P1)
  <2>1. Announces(v2, env, Scopes(s) + ScopesOf(x.parameters), Orders(s) + 0, << >> \o P1)
    <3>1. PICK E : E = << >>
      OBVIOUS
    <3>2. E \in Seq(Entry) /\ Announces(v2, v1, ScopesOf(x.parameters), 0, E)
      BY <1>4, <1>6, <3>1
    <3> QED BY <1>1, <1>3, <1>5, <1>6, <3>1, <3>2, AnnouncesOn
  <2> QED BY <1>6, <2>1
<1>8. PICK y : y = Pushed(n, env, typedef)
  OBVIOUS
<1>9. y \in Entry /\ <<y>> \in Seq(Entry) /\ Len(<<y>>) = 1 /\ <<y>>[1] = y
      /\ <<y>> \o << >> = <<y>>
  <2>1. y \in Entry
    BY <1>0, <1>1, <1>8, PushedEntry
  <2>2. <<y>> \in Seq(Entry)
    BY <2>1
  <2> QED BY <2>1, <2>2, OneTuple
<1>10. Announces(v, v2, 0, 1, <<y>>)
  <2>1. Announces(v, v2, 0, 1, <<Pushed(n, v2, typedef)>>)
    BY <1>0, <1>1, <1>2, <1>4, DeclareAnnounces
  <2>2. Pushed(n, v2, typedef) = y
    BY <1>7, <1>8 DEF Pushed, Announces
  <2> QED BY <2>1, <2>2
<1>11. PICK k, o : k = Scopes(s) + ScopesOf(x.parameters) /\ o = Orders(s) + 0
  OBVIOUS
<1>12. Announces(v, env, k + 0, o + 1, <<y>> \o P1)
  <2>1. k \in Nat /\ o \in Nat
    BY <1>1, <1>11
  <2>2. Announces(v2, env, k, o, P1)
    BY <1>7, <1>11
  <2>3. PICK y1 : y1 = <<y>>
    OBVIOUS
  <2>4. Announces(v, env, k + 0, o + 1, y1 \o P1)
    BY <1>1, <1>6, <1>9, <1>10, <2>1, <2>2, <2>3, AnnouncesOn
  <2> QED BY <2>3, <2>4
<1>13. k + 0 = ItemScopes(x) /\ o + 1 = ItemOrders(x)
  BY <1>1, <1>11 DEF ItemScopes, ItemOrders
<1>14. PushedFor(<<y>> \o P1, x, env)
  <2>1. /\ y.name = n /\ y.depth = Len(env.stack) /\ y.typedef = typedef
    BY <1>8 DEF Pushed
  <2>2. Declares(x) = Enumerators(s) \cup {n}
    BY <1>1 DEF Declares, Naming
  <2>3. CASE s.tag # "enum"
    <3>1. P1 = << >> /\ <<y>> \o P1 = <<y>> /\ Declares(x) = {n}
      BY <1>1, <1>5, <1>9, <2>2, <2>3, PushedByFor DEF Enumerators
    <3>2. PushedFor(<<y>>, x, env)
      <4>1. \A a \in 1 .. 1 : a = 1
        OBVIOUS
      <4>2. PICK P : P = <<y>>
        OBVIOUS
      <4>3. P \in Seq(Entry) /\ Len(P) = 1 /\ P[1] = y /\ 1 \in 1 .. 1
        BY <1>9, <4>2
      <4>4. \A a \in 1 .. Len(P) :
              /\ P[a].name \in Declares(x) /\ P[a].depth = Len(env.stack)
              /\ P[a].typedef <=> x.kind = "typedef" /\ x.name = P[a].name
        BY <1>0, <2>1, <3>1, <4>1, <4>3
      <4>5. \A m \in Declares(x) : \E a \in 1 .. Len(P) : P[a].name = m
        BY <2>1, <3>1, <4>3
      <4>6. PushedFor(P, x, env)
        BY <4>3, <4>4, <4>5 DEF PushedFor
      <4> QED BY <4>2, <4>6
    <3> QED BY <3>1, <3>2
  <2>4. CASE s.tag = "enum"
    <3>1. PICK z : z = Pushed(s.enumerator, env, FALSE)
      OBVIOUS
    <3>2. /\ z \in Entry /\ z.name = s.enumerator /\ z.depth = Len(env.stack) /\ z.typedef = FALSE
          /\ P1 = <<z>> /\ Declares(x) = {s.enumerator, n} /\ s.enumerator # n
      <4>1. s.enumerator \in Ident /\ P1 = <<z>>
        BY <1>1, <1>5, <2>4, <3>1, PushedByFor
      <4>2. z \in Entry
        BY <1>1, <3>1, <4>1, PushedEntry
      <4>3. Enumerators(s) = {s.enumerator}
        BY <2>4 DEF Enumerators
      <4> QED BY <2>2, <3>1, <4>1, <4>2, <4>3 DEF Pushed
    <3>3. <<y>> \o P1 = <<y, z>> /\ <<y, z>> \in Seq(Entry)
      BY <1>9, <3>2, TwoTuple
    <3>4. PushedFor(<<y, z>>, x, env)
      <4>1. Len(<<y, z>>) = 2 /\ <<y, z>>[1] = y /\ <<y, z>>[2] = z
        BY <1>9, <3>2, TwoTuple
      <4>2. \A a \in 1 .. 2 : a = 1 \/ a = 2
        OBVIOUS
      <4>3. 1 \in 1 .. 2 /\ 2 \in 1 .. 2
        OBVIOUS
      <4>4. PICK P : P = <<y, z>>
        OBVIOUS
      <4>5. /\ P \in Seq(Entry) /\ Len(P) = 2 /\ P[1] = y /\ P[2] = z
        BY <3>3, <4>1, <4>4
      <4>6. \A a \in 1 .. Len(P) :
              /\ P[a].name \in Declares(x) /\ P[a].depth = Len(env.stack)
              /\ P[a].typedef <=> x.kind = "typedef" /\ x.name = P[a].name
        BY <1>0, <2>1, <3>2, <4>2, <4>5
      <4>7. \A m \in Declares(x) : \E a \in 1 .. Len(P) : P[a].name = m
        BY <2>1, <3>2, <4>3, <4>5
      <4>8. PushedFor(P, x, env)
        BY <4>5, <4>6, <4>7 DEF PushedFor
      <4> QED BY <4>4, <4>8
    <3> QED BY <3>3, <3>4
  <2> QED BY <2>3, <2>4
<1>15. PICK P : P = <<y>> \o P1
  OBVIOUS
<1>16. Announces(v, env, ItemScopes(x), ItemOrders(x), P) /\ PushedFor(P, x, env)
  BY <1>12, <1>13, <1>14, <1>15
<1> QED BY <1>1, <1>16, PlainParsed

(* A type name, which is read twice in parentheses. *)
LEMMA TypeNameParsed ==
  ASSUME NEW q, NEW F, Parsed(text, env, q, outer, F), NEW x,
         ReadHere(x, env, text, q, F), x.kind \in {"type_name", "cast"}, ~Callback(x.spec),
         NEW v, \/ v = ParseSpecifier(env, x.spec)
                \/ x.spec.tag # "record" /\ v = ParseSpecifier(ParseSpecifier(env, x.spec), x.spec)
  PROVE  \E w : Parsed(Append(text, x), v, w, outer, F)
<1> DEFINE s == x.spec
<1>1. /\ s \in Specifier /\ env \in Environment /\ Scopes(s) \in Nat /\ Orders(s) \in Nat
      /\ ItemScopes(x) = Scopes(s) /\ ItemOrders(x) = Orders(s)
      /\ Declares(x) = Enumerators(s) /\ x.kind \notin {"enter", "leave", "typedef"}
  BY SpecifierCases DEF ReadHere, Fine, Parsed, ItemScopes, ItemOrders, ScopesOf, Naming, Declares
<1>2. PICK v1, P1 : v1 = ParseSpecifier(env, s) /\ P1 = PushedBy(s, env)
  OBVIOUS
<1>3. Announces(v1, env, Scopes(s), Orders(s), P1) /\ v1 \in Environment
  BY <1>1, <1>2, SpecifierAnnounces DEF Announces
<1>4. P1 \in Seq(Entry)
  BY <1>1, <1>2, PushedByFor
<1>5. \A P : P = P1 \/ P = P1 \o P1 => PushedFor(P, x, env)
  <2>1. CASE s.tag # "enum"
    <3>1. P1 = << >> /\ Declares(x) = {}
      BY <1>1, <1>2, <2>1, PushedByFor DEF Enumerators
    <3>2. P1 \o P1 = P1 /\ Len(P1) = 0
      BY <1>4, <3>1, ConcatEmptySeq
    <3>3. PushedFor(P1, x, env)
      BY <1>4, <3>1, <3>2 DEF PushedFor
    <3> QED BY <3>2, <3>3
  <2>2. CASE s.tag = "enum"
    <3>1. PICK z : z = Pushed(s.enumerator, env, FALSE)
      OBVIOUS
    <3>2. s.enumerator \in Ident /\ P1 = <<z>>
      BY <1>1, <1>2, <2>2, <3>1, PushedByFor
    <3>3. /\ z \in Entry /\ z.name = s.enumerator /\ z.depth = Len(env.stack) /\ z.typedef = FALSE
      BY <1>1, <3>1, <3>2, PushedEntry DEF Pushed
    <3>4. Declares(x) = {s.enumerator}
      BY <1>1, <2>2 DEF Enumerators
    <3>5. PushedFor(P1, x, env)
      <4>1. \A a \in 1 .. 1 : a = 1
        OBVIOUS
      <4>2. Len(P1) = 1 /\ P1[1] = z /\ 1 \in 1 .. 1
        BY <3>2
      <4>3. x.kind # "typedef"
        BY <1>1
      <4> QED BY <1>4, <3>3, <3>4, <4>1, <4>2, <4>3 DEF PushedFor
    <3>6. PICK P : P = P1 \o P1
      OBVIOUS
    <3>7. /\ P \in Seq(Entry) /\ Len(P) = 2 /\ P[1] = z /\ P[2] = z
      BY <3>2, <3>3, <3>6, TwoTuple
    <3>8. PushedFor(P, x, env)
      <4>1. \A a \in 1 .. 2 : a = 1 \/ a = 2
        OBVIOUS
      <4>2. 1 \in 1 .. 2 /\ x.kind # "typedef"
        BY <1>1
      <4> QED BY <3>3, <3>4, <3>7, <4>1, <4>2 DEF PushedFor
    <3> QED BY <3>5, <3>6, <3>8
  <2> QED BY <2>1, <2>2
<1>6. \E P : Announces(v, env, ItemScopes(x), ItemOrders(x), P) /\ PushedFor(P, x, env)
  <2>1. CASE v = v1
    BY <1>1, <1>3, <1>5, <2>1
  <2>2. CASE s.tag # "record" /\ v = ParseSpecifier(v1, s)
    <3>1. Announces(v, v1, Scopes(s), Orders(s), PushedBy(s, v1))
      BY <1>1, <1>3, <2>2, SpecifierAnnounces
    <3>2. PushedBy(s, v1) = P1
      BY <1>2, <1>3 DEF PushedBy, Pushed, Announces
    <3>3. Announces(v, env, Scopes(s) + Scopes(s), Orders(s) + Orders(s), P1 \o P1)
      BY <1>1, <1>3, <1>4, <3>1, <3>2, AnnouncesOn
    <3>4. Scopes(s) = 0
      BY <2>2 DEF Scopes
    <3>5. v.next_declaration_seq \in Nat /\ env.next_declaration_seq \in Nat
      BY <1>1, <3>1, EnvironmentParts DEF Announces
    <3>6. Announces(v, env, Scopes(s), Orders(s), P1 \o P1)
      BY <1>1, <3>3, <3>4, <3>5 DEF Announces
    <3> QED BY <1>1, <1>5, <3>6
  <2> QED BY <1>2, <2>1, <2>2
<1> QED BY <1>1, <1>6, PlainParsed

FileNames(g, o, F) == \A d \in DOMAIN g.declarations : o[d] = 0 => g.declarations[d].name \in F

ReadOn(F) == (\E w : Parsed(text', env', w, outer', F)) /\ UNCHANGED <<pc, built, at, found, origin>>

LEMMA BodyStep ==
  ASSUME Announced, NEW F, FileNames(built, origin, F), NEW q, Parsed(text, env, q, outer, F),
         Local \/ Enter \/ Leave \/ Use \/ TypeName \/ Cast
  PROVE  ReadOn(F)
<1>1. ASSUME NEW item, NEW after, ParseBody(item, after),
             \E w : Parsed(Append(text, item), after, w, outer, F)
      PROVE  ReadOn(F)
  BY <1>1 DEF ParseBody, Parse, ReadOn
<1>2. ASSUME NEW kind, NEW n, NEW x, Fine(Item(kind, n, x)), kind \notin Heads, kind # "use"
      PROVE  ReadHere(Item(kind, n, x), env, text, q, F)
  BY <1>2, ItemParts DEF ReadHere
<1>3. NoTag \in Specifier /\ NoTag.tag = "none"
  BY DEF NoTag, Specifier
<1>4. ASSUME NEW n \in Ident, NEW kind, NEW x, x \in Objects \cup Typedefs,
             kind \in {"object", "typedef"}, LocalDeclaration(Item(kind, n, x))
      PROVE  ReadOn(F)
  <2>1. PICK i : i = Item(kind, n, x)
    OBVIOUS
  <2>2. /\ i.kind = kind /\ i.name = n /\ i.spec = x.spec /\ i.parameters = x.parameters
    BY <2>1, ItemParts
  <2>3. x \in Shape
    BY <1>4, NamesAssumption
  <2>4. /\ ~Callback(x.spec)
        /\ \A p \in DOMAIN x.parameters : x.parameters[p].tag # "enum" /\ ~Callback(x.parameters[p])
    BY <1>4 DEF Announced
  <2>5. /\ x.spec \in Specifier /\ MayTake(x.parameters)
        /\ x.parameters # << >> => x.parameters[1] \in Specifier /\ 1 \in DOMAIN x.parameters
    BY <2>3, <2>4, ShapeFine
  <2>6. Fine(i) /\ i.kind \notin Heads /\ i.kind # "use"
    BY <1>4, <2>2, <2>5 DEF Fine, Kinds, Heads, Naming
  <2>7. ReadHere(i, env, text, q, F)
    BY <1>2, <2>1, <2>2, <2>6
  <2>8. i.name \notin Enumerators(i.spec)
    BY <1>4, <2>1 DEF LocalDeclaration, MayAppear
  <2>9. PICK v : v = DeclareName(ParseDeclarator(ParseSpecifier(env, i.spec), i.parameters),
                                 i.name, i.kind = "typedef")
    OBVIOUS
  <2>10. ParseBody(i, v)
    BY <1>4, <2>1, <2>9 DEF LocalDeclaration
  <2>11. /\ i.kind \in {"object", "typedef"} /\ ~Callback(i.spec)
         /\ i.parameters # << >> => ~Callback(i.parameters[1])
    BY <1>4, <2>2, <2>4, <2>5
  <2>12. \E w : Parsed(Append(text, i), v, w, outer, F)
    BY <2>7, <2>8, <2>9, <2>11, LocalParsed
  <2> QED BY <1>1, <2>10, <2>12
<1>5. CASE Local
  BY <1>4, <1>5 DEF Local
<1>6. CASE Enter
  <2>1. PICK s \in Steps : ParseBody(Item("enter", Generated, Plain(s)),
                                     ParseSpecifier(EnterNames(env), s))
    BY <1>6 DEF Enter
  <2>2. s \in Specifier /\ s.tag \in {"none", "reference"}
    BY <2>1, NamesAssumption DEF Announced
  <2>3. PICK i : i = Item("enter", Generated, Plain(s))
    OBVIOUS
  <2>4. i.kind = "enter" /\ i.spec = s /\ Fine(i)
    BY <2>2, <2>3, ItemParts, PlainFine DEF Plain
  <2>5. ReadHere(i, env, text, q, F)
    BY <1>2, <2>3, <2>4 DEF Heads
  <2>6. \E w : Parsed(Append(text, i), ParseSpecifier(EnterNames(env), s), w, outer, F)
    BY <2>2, <2>4, <2>5, EnterParsed
  <2> QED BY <1>1, <2>1, <2>3, <2>6
<1>7. CASE Leave
  <2>1. PICK i : i = Item("leave", Generated, Plain(NoTag))
    OBVIOUS
  <2>2. i.kind = "leave" /\ i.spec = NoTag /\ Fine(i)
    BY <1>3, <2>1, ItemParts, PlainFine DEF Plain
  <2>3. ReadHere(i, env, text, q, F)
    BY <1>2, <2>1, <2>2 DEF Heads
  <2>4. env.stack # << >> /\ ParseBody(i, LeaveNames(env))
    BY <1>7, <2>1 DEF Leave
  <2>5. \E w : Parsed(Append(text, i), LeaveNames(env), w, outer, F)
    BY <2>2, <2>3, <2>4, LeaveParsed
  <2> QED BY <1>1, <2>4, <2>5
<1>8. CASE Use
  <2>1. PICK n \in Ident : Visible(n) /\ ParseBody(Item("use", n, Plain(NoTag)), env)
    BY <1>8 DEF Use
  <2>2. PICK i : i = Item("use", n, Plain(NoTag))
    OBVIOUS
  <2>3. /\ i.kind = "use" /\ i.name = n /\ Fine(i) /\ i.spec = NoTag /\ i.parameters = << >>
        /\ i.point = NotedPoint(env) /\ i.next = env.next_scope_id
        /\ i.typedef <=> IsTypedefName(env, n)
    BY <1>3, <2>2, ItemParts, PlainFine DEF Plain
  <2>4. Dec(text, q, n, Len(text) + 1) # {} \/ n \in F
    <3>1. CASE Meaning(n, End) # 0
      <4>1. Declaring(n, End) # {}
        BY <3>1 DEF Meaning
      <4>2. Numbered(text, q) /\ Len(text) + 1 \in 1 .. Len(text) + 1
        BY SeqParts DEF Parsed, Numbered, Readable
      <4>3. Declaring(n, Len(text) + 1) = Dec(text, q, n, Len(text) + 1)
        BY <4>2, DecIs
      <4> QED BY <4>1, <4>3 DEF End
    <3>2. CASE \E d \in DOMAIN built.declarations :
                 origin[d] = 0 /\ built.declarations[d].name = n
      BY <3>2 DEF FileNames
    <3> QED BY <2>1, <3>1, <3>2 DEF Visible
  <2>5. ReadHere(i, env, text, q, F)
    BY <2>3, <2>4 DEF ReadHere, Heads
  <2>6. Announces(env, env, ItemScopes(i), ItemOrders(i), << >>) /\ PushedFor(<< >>, i, env)
    <3>1. env \in Environment
      BY DEF Parsed
    <3>2. ItemScopes(i) = 0 /\ ItemOrders(i) = 0 /\ Declares(i) = {}
      BY <2>3, FineParts DEF ItemOrders, Orders, NoTag, Naming
    <3> QED BY <3>1, <3>2, EnvironmentParts DEF Announces, PushedFor
  <2>7. \E w : Parsed(Append(text, i), env, w, outer, F)
    BY <2>3, <2>5, <2>6, PlainParsed
  <2> QED BY <1>1, <2>1, <2>2, <2>7
<1>9. ASSUME NEW s, s \in TypeNames \cup Casts, NEW kind, kind \in {"type_name", "cast"},
             ~Callback(s), NEW v, ParseBody(Item(kind, Generated, Plain(s)), v),
             \/ v = ParseSpecifier(env, s)
             \/ s.tag # "record" /\ v = ParseSpecifier(ParseSpecifier(env, s), s)
      PROVE  ReadOn(F)
  <2>1. PICK i : i = Item(kind, Generated, Plain(s))
    OBVIOUS
  <2>2. s \in Specifier
    BY <1>9, NamesAssumption
  <2>3. i.kind = kind /\ i.spec = s /\ Fine(i)
    BY <1>9, <2>1, <2>2, ItemParts, PlainFine DEF Plain
  <2>4. ReadHere(i, env, text, q, F)
    BY <1>2, <1>9, <2>1, <2>3 DEF Heads
  <2>5. \E w : Parsed(Append(text, i), v, w, outer, F)
    BY <1>9, <2>3, <2>4, TypeNameParsed
  <2> QED BY <1>1, <1>9, <2>1, <2>5
<1>10. CASE TypeName
  <2>1. PICK s \in TypeNames : ParseBody(Item("type_name", Generated, Plain(s)), ParseSpecifier(env, s))
    BY <1>10 DEF TypeName
  <2>2. ~Callback(s)
    BY <2>1 DEF Announced
  <2> QED BY <1>9, <2>1, <2>2
<1>11. CASE Cast
  <2>1. PICK s \in Casts : ParseBody(Item("cast", Generated, Plain(s)),
                                     ParseSpecifier(ParseSpecifier(env, s), s))
    BY <1>11 DEF Cast
  <2>2. ~Callback(s) /\ s.tag # "record"
    BY <2>1 DEF Announced, Callback
  <2> QED BY <1>9, <2>1, <2>2
<1> QED BY <1>5, <1>6, <1>7, <1>8, <1>10, <1>11

----------------------------------------
(* The resolver.  h is g after steps that make k scopes, advance the order  *)
(* of the function by at most o, and declare the names S, in the scope c.   *)

NewDeclaration(D, c, S) ==
  /\ Shown(D) /\ D.kind \notin {"UNKNOWN", "LINKAGE_ALIAS"}
  /\ D.space = "ORDINARY" /\ D.name \in Ident => D.name \in S /\ D.scope = c

Declared(h, a, b, S) ==
  \A m \in S : \E d \in a + 1 .. b :
    h.declarations[d].space = "ORDINARY" /\ h.declarations[d].name = m

Grown(h, g, c, k, o, S) ==
  /\ Good(g) /\ Good(h) /\ 2 <= Len(g.scopes) /\ Len(h.scopes) = Len(g.scopes) + k
  /\ \A s \in 1 .. Len(g.scopes) : SameScope(h.scopes[s], g.scopes[s])
  /\ h.scopes[2].order <= g.scopes[2].order + o
  /\ Len(g.declarations) <= Len(h.declarations)
  /\ \A d \in 1 .. Len(g.declarations) : h.declarations[d] = g.declarations[d]
  /\ \A d \in Len(g.declarations) + 1 .. Len(h.declarations) :
       NewDeclaration(h.declarations[d], c, S)
  /\ Declared(h, Len(g.declarations), Len(h.declarations), S)

(* A declaration in scope s counts for the function if that is its root. *)
Cost(g, s, o) == IF Root(g, s) = 2 THEN o ELSE 0

LEMMA GrownParts ==
  ASSUME NEW g, NEW h, NEW c, NEW k \in Nat, NEW o \in Nat, NEW S, Grown(h, g, c, k, o, S)
  PROVE  /\ Len(g.scopes) \in Nat /\ Len(h.scopes) \in Nat /\ Len(g.declarations) \in Nat
         /\ Len(h.declarations) \in Nat /\ 2 \in 1 .. Len(g.scopes) /\ 2 \in 1 .. Len(h.scopes)
         /\ g.scopes[2].order \in Nat /\ h.scopes[2].order \in Nat
         /\ \A s \in 1 .. Len(g.scopes) :
              s \in 1 .. Len(h.scopes) /\ Root(h, s) = Root(g, s) /\ h.scopes[s].parent = g.scopes[s].parent
<1>1. Good(g) /\ Good(h) /\ 2 <= Len(g.scopes) /\ Len(h.scopes) = Len(g.scopes) + k
  BY DEF Grown
<1>2. /\ Len(g.scopes) \in Nat /\ Len(h.scopes) \in Nat /\ Len(g.declarations) \in Nat
      /\ Len(h.declarations) \in Nat
  BY <1>1, GraphParts
<1>3. 2 \in 1 .. Len(g.scopes) /\ 2 \in 1 .. Len(h.scopes)
  BY <1>1, <1>2
<1>4. g.scopes[2].order \in Nat /\ h.scopes[2].order \in Nat
  BY <1>1, <1>3, ScopeParts
<1>5. \A s \in 1 .. Len(g.scopes) : s \in 1 .. Len(h.scopes)
  BY <1>1, <1>2
<1>6. \A s \in 1 .. Len(g.scopes) : Root(h, s) = Root(g, s) /\ h.scopes[s].parent = g.scopes[s].parent
  BY DEF Grown, SameScope, Root
<1> QED BY <1>2, <1>3, <1>4, <1>5, <1>6

LEMMA GrownThen ==
  ASSUME NEW g, NEW h, NEW c, NEW k1 \in Nat, NEW o1 \in Nat, NEW S1, Grown(h, g, c, k1, o1, S1),
         NEW j, NEW k2 \in Nat, NEW o2 \in Nat, NEW S2, Grown(j, h, c, k2, o2, S2)
  PROVE  Grown(j, g, c, k1 + k2, o1 + o2, S1 \cup S2)
<1>1. /\ Len(g.scopes) \in Nat /\ Len(h.scopes) \in Nat /\ Len(j.scopes) \in Nat
      /\ Len(g.declarations) \in Nat /\ Len(h.declarations) \in Nat /\ Len(j.declarations) \in Nat
      /\ g.scopes[2].order \in Nat /\ h.scopes[2].order \in Nat /\ j.scopes[2].order \in Nat
  BY GrownParts
<1>2. /\ Good(g) /\ Good(j) /\ 2 <= Len(g.scopes) /\ Len(j.scopes) = Len(g.scopes) + (k1 + k2)
      /\ j.scopes[2].order <= g.scopes[2].order + (o1 + o2)
      /\ Len(g.declarations) <= Len(h.declarations) /\ Len(h.declarations) <= Len(j.declarations)
      /\ Len(g.declarations) <= Len(j.declarations)
  <2>1. /\ Good(g) /\ Good(j) /\ 2 <= Len(g.scopes) /\ Len(h.scopes) = Len(g.scopes) + k1
        /\ Len(j.scopes) = Len(h.scopes) + k2 /\ h.scopes[2].order <= g.scopes[2].order + o1
        /\ j.scopes[2].order <= h.scopes[2].order + o2
        /\ Len(g.declarations) <= Len(h.declarations) /\ Len(h.declarations) <= Len(j.declarations)
    BY DEF Grown
  <2>2. PICK ng, nh, nj, og, oh, oj, dg, dh, dj :
          /\ ng = Len(g.scopes) /\ nh = Len(h.scopes) /\ nj = Len(j.scopes)
          /\ og = g.scopes[2].order /\ oh = h.scopes[2].order /\ oj = j.scopes[2].order
          /\ dg = Len(g.declarations) /\ dh = Len(h.declarations) /\ dj = Len(j.declarations)
    OBVIOUS
  <2>3. /\ ng \in Nat /\ nh \in Nat /\ nj \in Nat /\ og \in Nat /\ oh \in Nat /\ oj \in Nat
        /\ dg \in Nat /\ dh \in Nat /\ dj \in Nat
        /\ k1 \in Nat /\ k2 \in Nat /\ o1 \in Nat /\ o2 \in Nat
        /\ nh = ng + k1 /\ nj = nh + k2 /\ oh <= og + o1 /\ oj <= oh + o2 /\ dg <= dh /\ dh <= dj
    BY <1>1, <2>1, <2>2
  <2>4. nj = ng + (k1 + k2) /\ oj <= og + (o1 + o2) /\ dg <= dj
    BY ONLY <2>3
  <2> QED BY <2>1, <2>2, <2>4
<1>3. \A s \in 1 .. Len(g.scopes) : SameScope(j.scopes[s], g.scopes[s])
  <2>1. \A s \in 1 .. Len(g.scopes) : s \in 1 .. Len(h.scopes)
    BY GrownParts
  <2> QED BY <2>1 DEF Grown, SameScope
<1>4. \A d \in 1 .. Len(g.declarations) : j.declarations[d] = g.declarations[d]
  <2>1. \A d \in 1 .. Len(g.declarations) : d \in 1 .. Len(h.declarations)
    BY <1>1, <1>2
  <2> QED BY <2>1 DEF Grown
<1>5. \A d \in Len(g.declarations) + 1 .. Len(h.declarations) :
        /\ d \in 1 .. Len(h.declarations) /\ d \in Len(g.declarations) + 1 .. Len(j.declarations)
        /\ j.declarations[d] = h.declarations[d]
  <2>1. \A d \in Len(g.declarations) + 1 .. Len(h.declarations) :
          d \in 1 .. Len(h.declarations) /\ d \in Len(g.declarations) + 1 .. Len(j.declarations)
    BY <1>1, <1>2
  <2> QED BY <2>1 DEF Grown
<1>6. \A d \in Len(g.declarations) + 1 .. Len(j.declarations) :
        NewDeclaration(j.declarations[d], c, S1 \cup S2)
  <2>1. \A d \in Len(g.declarations) + 1 .. Len(j.declarations) :
          \/ d \in Len(g.declarations) + 1 .. Len(h.declarations)
          \/ d \in Len(h.declarations) + 1 .. Len(j.declarations)
    BY <1>1, <1>2
  <2>2. \A D : NewDeclaration(D, c, S1) \/ NewDeclaration(D, c, S2) => NewDeclaration(D, c, S1 \cup S2)
    BY DEF NewDeclaration
  <2>3. \A d \in Len(g.declarations) + 1 .. Len(h.declarations) : NewDeclaration(h.declarations[d], c, S1)
    BY DEF Grown
  <2>4. \A d \in Len(h.declarations) + 1 .. Len(j.declarations) : NewDeclaration(j.declarations[d], c, S2)
    BY DEF Grown
  <2> QED BY <1>5, <2>1, <2>2, <2>3, <2>4
<1>7. Declared(j, Len(g.declarations), Len(j.declarations), S1 \cup S2)
  <2>1. ASSUME NEW m \in S1
        PROVE  \E d \in Len(g.declarations) + 1 .. Len(j.declarations) :
                 j.declarations[d].space = "ORDINARY" /\ j.declarations[d].name = m
    <3>1. PICK d \in Len(g.declarations) + 1 .. Len(h.declarations) :
            h.declarations[d].space = "ORDINARY" /\ h.declarations[d].name = m
      BY DEF Grown, Declared
    <3> QED BY <1>5, <3>1
  <2>2. ASSUME NEW m \in S2
        PROVE  \E d \in Len(g.declarations) + 1 .. Len(j.declarations) :
                 j.declarations[d].space = "ORDINARY" /\ j.declarations[d].name = m
    <3>1. PICK d \in Len(h.declarations) + 1 .. Len(j.declarations) :
            j.declarations[d].space = "ORDINARY" /\ j.declarations[d].name = m
      BY DEF Grown, Declared
    <3>2. d \in Len(g.declarations) + 1 .. Len(j.declarations)
      BY <1>1, <1>2
    <3> QED BY <3>1, <3>2
  <2> QED BY <2>1, <2>2 DEF Declared
<1> QED BY <1>2, <1>3, <1>4, <1>6, <1>7 DEF Grown

(* Without names the scope does not matter, and less is no more. *)
LEMMA GrownWeaker ==
  ASSUME NEW g, NEW h, NEW c, NEW k \in Nat, NEW o \in Nat, Grown(h, g, c, k, o, {}),
         NEW b, NEW p \in Nat, o <= p
  PROVE  Grown(h, g, b, k, p, {})
<1>1. g.scopes[2].order \in Nat /\ h.scopes[2].order \in Nat
  BY GrownParts
<1>2. h.scopes[2].order <= g.scopes[2].order + o
  BY DEF Grown
<1>3. h.scopes[2].order <= g.scopes[2].order + p
  BY <1>1, <1>2
<1>4. \A D : NewDeclaration(D, c, {}) => NewDeclaration(D, b, {})
  BY DEF NewDeclaration
<1> QED BY <1>3, <1>4 DEF Grown

LEMMA GrownSame ==
  ASSUME NEW g, Good(g), 2 <= Len(g.scopes), NEW h, Good(h), h.declarations = g.declarations,
         h.scopes = g.scopes, NEW c, NEW o \in Nat
  PROVE  Grown(h, g, c, 0, o, {})
<1>1. Len(g.scopes) \in Nat /\ Len(g.declarations) \in Nat
  BY GraphParts
<1>2. 2 \in 1 .. Len(g.scopes)
  BY <1>1
<1>3. g.scopes[2].order \in Nat
  BY <1>2, ScopeParts
<1>4. Len(h.scopes) = Len(g.scopes) + 0 /\ g.scopes[2].order <= g.scopes[2].order + o
  BY <1>1, <1>3
<1>5. \A d \in Len(g.declarations) + 1 .. Len(h.declarations) : FALSE
  BY <1>1
<1>6. \A s \in 1 .. Len(g.scopes) : SameScope(g.scopes[s], g.scopes[s])
  BY DEF SameScope
<1>7. Declared(h, Len(g.declarations), Len(h.declarations), {})
  BY DEF Declared
<1> QED BY <1>1, <1>4, <1>5, <1>6, <1>7 DEF Grown

LEMMA GrownScope ==
  ASSUME NEW g, NEW h, NEW c, NEW k \in Nat, NEW o \in Nat, NEW S, Grown(h, g, c, k, o, S),
         NEW s \in 1 .. Len(g.scopes)
  PROVE  /\ Good(h) /\ 2 <= Len(h.scopes) /\ Len(h.scopes) \in Nat /\ Len(h.scopes) = Len(g.scopes) + k
         /\ s \in 1 .. Len(h.scopes) /\ Root(h, s) = Root(g, s)
         /\ h.scopes[s].parent = g.scopes[s].parent
<1>1. Good(h) /\ Len(h.scopes) = Len(g.scopes) + k
  BY DEF Grown
<1>2. 2 \in 1 .. Len(h.scopes) /\ Len(h.scopes) \in Nat
  BY GrownParts
<1>3. \A t \in 1 .. Len(g.scopes) :
        t \in 1 .. Len(h.scopes) /\ Root(h, t) = Root(g, t) /\ h.scopes[t].parent = g.scopes[t].parent
  BY GrownParts
<1> QED BY <1>1, <1>2, <1>3

NamesOf(space, name) == IF space = "ORDINARY" /\ name \in Ident THEN {name} ELSE {}

Declarable(space, kind, name) ==
  /\ space \in NameSpace /\ kind \in DeclKind \ {"UNKNOWN", "LINKAGE_ALIAS"} /\ name \in Name

LEMMA KnownNames ==
  /\ Declarable("ORDINARY", "OBJECT", Generated) /\ NamesOf("ORDINARY", Generated) = {}
  /\ Declarable("TAG", "TAG", Generated) /\ NamesOf("TAG", Generated) = {}
  /\ Declarable("TAG", "TAG", Tag) /\ NamesOf("TAG", Tag) = {}
  /\ Declarable("MEMBER", "MEMBER", Generated) /\ NamesOf("MEMBER", Generated) = {}
  /\ \A n \in Ident : NamesOf("ORDINARY", n) = {n}
  /\ \A n \in Ident : \A kind \in {"ENUM_CONSTANT", "OBJECT", "TYPEDEF"} :
       Declarable("ORDINARY", kind, n)
<1>1. Ident \subseteq Name /\ Tag \in Name /\ Generated \in Name \ Ident
  BY NamesAssumption
<1> QED BY <1>1 DEF Declarable, NamesOf, NameSpace, DeclKind

LEMMA DeclareGrown ==
  ASSUME NEW g, Good(g), 2 <= Len(g.scopes), NEW s \in 1 .. Len(g.scopes),
         NEW space, NEW kind, NEW name, Declarable(space, kind, name)
  PROVE  /\ Grown(DeclareAt(g, s, space, kind, name), g, s, 0, Cost(g, s, 1), NamesOf(space, name))
         /\ DeclareAt(g, s, space, kind, name).current = g.current
<1>0. space \in NameSpace /\ kind \in DeclKind /\ kind \notin {"UNKNOWN", "LINKAGE_ALIAS"} /\ name \in Name
  BY DEF Declarable
<1>1. PICK h : h = DeclareAt(g, s, space, kind, name)
  OBVIOUS
<1>2. Good(h) /\ Len(h.scopes) = Len(g.scopes) /\ h.current = g.current
  BY <1>0, <1>1, DeclareGood
<1>3. PICK n : n = Len(g.declarations) + 1
  OBVIOUS
<1>4. /\ Adds(h.declarations, g.declarations, s, space, kind, name, Invalid)
      /\ Shown(h.declarations[n]) /\ Risen(h, g)
  BY <1>0, <1>1, <1>3, AppendEffect DEF DeclareAt
<1>5. Len(g.declarations) \in Nat /\ Len(g.scopes) \in Nat
  BY GraphParts
<1>6. /\ Len(h.declarations) = n /\ \A d \in 1 .. Len(g.declarations) : h.declarations[d] = g.declarations[d]
      /\ h.declarations[n].scope = s /\ h.declarations[n].space = space
      /\ h.declarations[n].kind = kind /\ h.declarations[n].name = name
  BY <1>3, <1>4 DEF Adds
<1>7. \A d \in Len(g.declarations) + 1 .. Len(h.declarations) : d = n
  BY <1>3, <1>5, <1>6
<1>8. n \in Len(g.declarations) + 1 .. Len(h.declarations) /\ Len(g.declarations) <= Len(h.declarations)
  BY <1>3, <1>5, <1>6
<1>9. NewDeclaration(h.declarations[n], s, NamesOf(space, name))
  BY <1>0, <1>4, <1>6 DEF NewDeclaration, NamesOf
<1>10. Declared(h, Len(g.declarations), Len(h.declarations), NamesOf(space, name))
  BY <1>6, <1>8 DEF Declared, NamesOf
<1>11. \A t \in 1 .. Len(g.scopes) : SameScope(h.scopes[t], g.scopes[t])
  BY <1>4 DEF Risen
<1>12. h.scopes[2].order <= g.scopes[2].order + Cost(g, s, 1)
  <2>1. PICK r, x : r = Root(g, s) /\ x = g.scopes[Root(g, s)].order + 1
    OBVIOUS
  <2>2. r \in 1 .. Len(g.scopes) /\ 2 \in 1 .. Len(g.scopes)
    BY <1>5, <2>1, ScopeParts
  <2>3. g.scopes[2].order \in Nat /\ g.scopes \in Seq(Scope)
    BY <2>2, ScopeParts, GraphParts
  <2>4. h.scopes = [g.scopes EXCEPT ![r].order = x]
    <3>1. g \in Graph
      BY GraphParts
    <3> QED BY <1>1, <2>1, <3>1 DEF DeclareAt, AppendDeclaration, Graph
  <2>5. h.scopes[2].order = IF r = 2 THEN x ELSE g.scopes[2].order
    <3>1. CASE r # 2
      <4>1. h.scopes[2] = g.scopes[2]
        BY <2>2, <2>3, <2>4, <3>1
      <4> QED BY <3>1, <4>1
    <3>2. CASE r = 2
      <4>1. h.scopes[2] = [g.scopes[2] EXCEPT !.order = x]
        BY <2>2, <2>3, <2>4, <3>2
      <4>2. g.scopes[2] \in Scope
        BY <2>2, <2>3
      <4>3. h.scopes[2].order = x
        BY <4>1, <4>2 DEF Scope
      <4> QED BY <3>2, <4>3
    <3> QED BY <3>1, <3>2
  <2> QED BY <2>1, <2>3, <2>5 DEF Cost
<1>13. Grown(h, g, s, 0, Cost(g, s, 1), NamesOf(space, name))
  <2>1. Len(h.scopes) = Len(g.scopes) + 0
    BY <1>2, <1>5
  <2> QED BY <1>2, <1>6, <1>7, <1>8, <1>9, <1>10, <1>11, <1>12, <2>1 DEF Grown
<1> QED BY <1>1, <1>2, <1>13

LEMMA CreateGrown ==
  ASSUME NEW g, Good(g), 2 <= Len(g.scopes), NEW p \in 1 .. Len(g.scopes), NEW kind \in ScopeKind, NEW c
  PROVE  LET h == CreateScopeAt(g, p, kind)
             n == Len(g.scopes) + 1
         IN /\ Grown(h, g, c, 1, 0, {}) /\ h.current = g.current /\ Len(h.scopes) = n
            /\ h.scopes[n].parent = p
            /\ Root(h, n) = IF kind \in OrderRoot THEN n ELSE Root(g, p)
<1>1. PICK h, n : h = CreateScopeAt(g, p, kind) /\ n = Len(g.scopes) + 1
  OBVIOUS
<1>2. /\ Good(h) /\ h.declarations = g.declarations /\ h.current = g.current
  BY <1>1, CreateScopeGood
<1>3. /\ Len(h.scopes) = n /\ \A s \in 1 .. Len(g.scopes) : h.scopes[s] = g.scopes[s]
      /\ h.scopes[n].parent = p
  BY <1>1, CreateScopeEffect
<1>4. Len(g.scopes) \in Nat /\ Len(g.declarations) \in Nat /\ g \in Graph /\ g.scopes \in Seq(Scope)
  BY GraphParts
<1>5. 2 \in 1 .. Len(g.scopes)
  BY <1>4
<1>6. g.scopes[2].order \in Nat
  BY <1>5, ScopeParts
<1>7. h.scopes[2].order <= g.scopes[2].order + 0
  BY <1>3, <1>5, <1>6
<1>8. \A s \in 1 .. Len(g.scopes) : SameScope(h.scopes[s], g.scopes[s])
  BY <1>3 DEF SameScope
<1>9. \A d \in Len(g.declarations) + 1 .. Len(h.declarations) : FALSE
  BY <1>2, <1>4
<1>10. Declared(h, Len(g.declarations), Len(h.declarations), {})
  BY DEF Declared
<1>11. Grown(h, g, c, 1, 0, {})
  BY <1>1, <1>2, <1>3, <1>4, <1>7, <1>8, <1>9, <1>10 DEF Grown
<1>12. Root(h, n) = IF kind \in OrderRoot THEN n ELSE Root(g, p)
  <2>1. PICK x : x = [parent |-> p, root |-> IF kind \in OrderRoot THEN n ELSE Root(g, p),
                      kind |-> kind, order |-> 0]
    OBVIOUS
  <2>2. h = [g EXCEPT !.scopes = Append(g.scopes, x)]
    BY <1>1, <2>1 DEF CreateScopeAt, NextScope
  <2>3. PICK ss : ss = Append(g.scopes, x)
    OBVIOUS
  <2>4. h.scopes = ss
    BY <1>4, <2>2, <2>3, ExceptParts
  <2>5. ss[n] = x
    BY <1>1, <1>4, <2>3, Longer DEF IsSeq
  <2> QED BY <2>1, <2>4, <2>5 DEF Root
<1> QED BY <1>1, <1>2, <1>3, <1>11, <1>12

LEMMA EnterGrown ==
  ASSUME NEW g, Good(g), 2 <= Len(g.scopes), NEW kind \in ScopeKind, NEW c
  PROVE  LET h == EnterScope(g, kind)
             n == Len(g.scopes) + 1
         IN /\ Grown(h, g, c, 1, 0, {}) /\ h.current = n /\ Len(h.scopes) = n
            /\ h.scopes[n].parent = g.current
            /\ Root(h, n) = IF kind \in OrderRoot THEN n ELSE Root(g, g.current)
<1>1. PICK f, h, n : f = CreateScopeAt(g, g.current, kind) /\ h = EnterScope(g, kind) /\ n = Len(g.scopes) + 1
  OBVIOUS
<1>2. g.current \in 1 .. Len(g.scopes)
  BY GraphParts
<1>3. /\ Grown(f, g, c, 1, 0, {}) /\ f.current = g.current /\ Len(f.scopes) = n
      /\ f.scopes[n].parent = g.current
      /\ Root(f, n) = IF kind \in OrderRoot THEN n ELSE Root(g, g.current)
  BY <1>1, <1>2, CreateGrown
<1>4. Good(f)
  BY <1>3 DEF Grown
<1>5. h = [f EXCEPT !.current = n]
  BY <1>1 DEF EnterScope, NextScope
<1>6. h.scopes = f.scopes /\ h.declarations = f.declarations /\ h.current = n
  BY <1>4, <1>5, ExceptParts, GraphParts
<1>7. Good(h)
  BY <1>1, EnterScopeGood
<1> QED BY <1>1, <1>3, <1>6, <1>7 DEF Grown, Root, Declared

(* What is made in a prototype is nothing to the function. *)
LEMMA InPrototype ==
  ASSUME NEW g, Good(g), 2 <= Len(g.scopes), NEW h, h = EnterScope(g, "FUNCTION_PROTOTYPE"),
         NEW j, NEW k \in Nat, Grown(j, h, h.current, k, 0, {}), j.current = h.current, NEW c
  PROVE  /\ Grown(LeaveScope(j), g, c, 1 + k, 0, {})
         /\ LeaveScope(j).current = g.current
<1>1. PICK n : n = Len(g.scopes) + 1
  OBVIOUS
<1>2. /\ Grown(h, g, c, 1, 0, {}) /\ h.current = n /\ Len(h.scopes) = n
      /\ h.scopes[n].parent = g.current
  BY <1>1, EnterGrown DEF ScopeKind
<1>3. Len(g.scopes) \in Nat /\ g.current \in 1 .. Len(g.scopes)
  BY GraphParts
<1>4. Grown(j, g, c, 1 + k, 0, {})
  <2>1. Grown(j, h, c, k, 0, {})
    BY GrownWeaker
  <2>2. Grown(j, g, c, 1 + k, 0 + 0, {} \cup {})
    BY <1>2, <2>1, GrownThen
  <2> QED BY <2>2
<1>5. Good(j) /\ n \in 1 .. Len(j.scopes)
  BY <1>1, <1>2, <1>3, GrownParts DEF Grown
<1>6. j.scopes[n].parent = g.current
  <2>1. n \in 1 .. Len(h.scopes)
    BY <1>1, <1>2, <1>3
  <2> QED BY <1>2, <2>1, GrownScope
<1>7. LeaveScope(j) = [j EXCEPT !.current = g.current]
  BY <1>1, <1>2, <1>3, <1>6 DEF LeaveScope, TranslationUnit
<1>8. /\ LeaveScope(j).current = g.current /\ LeaveScope(j).scopes = j.scopes
      /\ LeaveScope(j).declarations = j.declarations
  BY <1>5, <1>7, ExceptParts, GraphParts
<1>9. Good(LeaveScope(j))
  BY <1>5, LeaveScopeGood
<1> QED BY <1>4, <1>8, <1>9 DEF Grown, Declared

LEMMA CallbackGrown ==
  ASSUME NEW g, Good(g), 2 <= Len(g.scopes), NEW c
  PROVE  Grown(ApplyCallback(g), g, c, 1, 0, {}) /\ ApplyCallback(g).current = g.current
<1>1. PICK h, j, n : /\ h = EnterScope(g, "FUNCTION_PROTOTYPE") /\ n = Len(g.scopes) + 1
                     /\ j = Declare(h, "ORDINARY", "OBJECT", Generated)
  OBVIOUS
<1>2. Grown(h, g, c, 1, 0, {}) /\ h.current = n /\ Len(h.scopes) = n /\ Root(h, n) = n
  BY <1>1, EnterGrown DEF ScopeKind, OrderRoot
<1>3. Good(h) /\ 2 <= Len(h.scopes) /\ n \in 1 .. Len(h.scopes) /\ n # 2
  BY <1>1, <1>2, GraphParts DEF Grown
<1>4. Grown(j, h, n, 0, 0, {}) /\ j.current = h.current
  <2>1. j = DeclareAt(h, n, "ORDINARY", "OBJECT", Generated)
    BY <1>1, <1>2 DEF Declare
  <2>2. Cost(h, n, 1) = 0 /\ NamesOf("ORDINARY", Generated) = {}
    BY <1>2, <1>3, NamesAssumption DEF Cost, NamesOf
  <2>3. Declarable("ORDINARY", "OBJECT", Generated)
    BY KnownNames
  <2>4. /\ Grown(DeclareAt(h, n, "ORDINARY", "OBJECT", Generated), h, n, 0, Cost(h, n, 1),
                 NamesOf("ORDINARY", Generated))
        /\ DeclareAt(h, n, "ORDINARY", "OBJECT", Generated).current = h.current
    BY <1>3, <2>3, DeclareGrown
  <2> QED BY <2>1, <2>2, <2>4
<1>5. /\ Grown(LeaveScope(j), g, c, 1 + 0, 0, {})
      /\ LeaveScope(j).current = g.current
  BY <1>1, <1>2, <1>4, InPrototype
<1> QED BY <1>1, <1>5 DEF ApplyCallback

LEMMA RecordGrown ==
  ASSUME NEW g, Good(g), 2 <= Len(g.scopes), NEW callback \in BOOLEAN
  PROVE  /\ Grown(DefineRecord(g, callback), g, g.current, IF callback THEN 2 ELSE 1,
                  Cost(g, g.current, 1), {})
         /\ DefineRecord(g, callback).current = g.current
<1>1. PICK c : c = g.current
  OBVIOUS
<1>2. PICK f, tagged : /\ f = Declare(g, "TAG", "TAG", Generated)
                       /\ tagged = CreateScopeAt(f, c, "RECORD")
  OBVIOUS
<1>3. c \in 1 .. Len(g.scopes) /\ Cost(g, c, 1) \in {0, 1}
  BY <1>1, GraphParts DEF Cost
<1>4. Grown(f, g, c, 0, Cost(g, c, 1), {}) /\ f.current = c
  <2>1. f = DeclareAt(g, c, "TAG", "TAG", Generated) /\ NamesOf("TAG", Generated) = {}
    BY <1>1, <1>2 DEF Declare, NamesOf
  <2>2. Declarable("TAG", "TAG", Generated)
    BY KnownNames
  <2>3. /\ Grown(DeclareAt(g, c, "TAG", "TAG", Generated), g, c, 0, Cost(g, c, 1),
                 NamesOf("TAG", Generated))
        /\ DeclareAt(g, c, "TAG", "TAG", Generated).current = g.current
    BY <1>3, <2>2, DeclareGrown
  <2> QED BY <1>1, <2>1, <2>3
<1>5. Good(f) /\ 2 <= Len(f.scopes) /\ c \in 1 .. Len(f.scopes) /\ Len(f.scopes) \in Nat
  BY <1>3, <1>4, GraphParts DEF Grown
<1>6. PICK n : n = Len(f.scopes) + 1
  OBVIOUS
<1>7. Grown(tagged, f, c, 1, 0, {}) /\ tagged.current = c /\ Len(tagged.scopes) = n /\ Root(tagged, n) = n
  BY <1>2, <1>4, <1>5, <1>6, CreateGrown DEF ScopeKind, OrderRoot
<1>8. Good(tagged) /\ 2 <= Len(tagged.scopes) /\ n \in 1 .. Len(tagged.scopes) /\ n # 2
  BY <1>5, <1>6, <1>7 DEF Grown
<1>9. PICK typed, m : typed = (IF callback THEN ApplyCallback(tagged) ELSE tagged)
                      /\ m = (IF callback THEN 1 ELSE 0)
  OBVIOUS
<1>10. Grown(typed, tagged, c, m, 0, {}) /\ typed.current = c /\ m \in Nat
  BY <1>7, <1>8, <1>9, CallbackGrown, GrownSame
<1>11. Good(typed) /\ 2 <= Len(typed.scopes) /\ n \in 1 .. Len(typed.scopes) /\ Root(typed, n) = n
  <2>1. PICK z : z = 0 /\ z \in Nat
    OBVIOUS
  <2>2. /\ Good(typed) /\ 2 <= Len(typed.scopes) /\ n \in 1 .. Len(typed.scopes)
        /\ Root(typed, n) = Root(tagged, n)
    <3>1. Grown(typed, tagged, c, m, z, {}) /\ m \in Nat /\ n \in 1 .. Len(tagged.scopes)
      BY <1>8, <1>10, <2>1
    <3>2. Good(typed) /\ 2 <= Len(typed.scopes)
      BY <2>1, <3>1, GrownScope
    <3>3. n \in 1 .. Len(typed.scopes)
      BY <2>1, <3>1, GrownScope
    <3>4. Root(typed, n) = Root(tagged, n)
      BY <2>1, <3>1, GrownScope
    <3> QED BY <3>2, <3>3, <3>4
  <2> QED BY <1>7, <2>2
<1>12. PICK h : h = DeclareAt(typed, n, "MEMBER", "MEMBER", Generated)
  OBVIOUS
<1>13. Grown(h, typed, c, 0, 0, {}) /\ h.current = c
  <2>1. Cost(typed, n, 1) = 0 /\ NamesOf("MEMBER", Generated) = {}
    BY <1>8, <1>11 DEF Cost, NamesOf
  <2>2. Grown(h, typed, n, 0, 0, {}) /\ h.current = typed.current
  <3>1. Declarable("MEMBER", "MEMBER", Generated)
      BY KnownNames
    <3>2. /\ Grown(DeclareAt(typed, n, "MEMBER", "MEMBER", Generated), typed, n, 0, Cost(typed, n, 1),
                   NamesOf("MEMBER", Generated))
          /\ DeclareAt(typed, n, "MEMBER", "MEMBER", Generated).current = typed.current
      BY <1>11, <3>1, DeclareGrown
    <3> QED BY <1>12, <2>1, <3>2
  <2> QED BY <1>10, <2>2, GrownWeaker
<1>14. h = DefineRecord(g, callback)
  BY <1>1, <1>2, <1>7, <1>9, <1>12 DEF DefineRecord
<1>15. PICK o : o = Cost(g, c, 1) /\ o \in Nat
  BY <1>3
<1>16. Grown(tagged, g, c, 1, o, {})
  <2>1. Grown(tagged, g, c, 0 + 1, o + 0, {} \cup {})
    BY <1>4, <1>7, <1>15, GrownThen
  <2> QED BY <1>15, <2>1
<1>17. Grown(typed, g, c, 1 + m, o, {})
  <2>1. Grown(typed, g, c, 1 + m, o + 0, {} \cup {})
    <3>1. 1 \in Nat /\ 0 \in Nat /\ o \in Nat /\ m \in Nat
      BY <1>10, <1>15
    <3> QED BY <1>10, <1>16, <3>1, GrownThen
  <2> QED BY <1>15, <2>1
<1>18. Grown(h, g, c, 1 + m, o, {})
  <2>1. Grown(h, g, c, (1 + m) + 0, o + 0, {} \cup {}) /\ 1 + m \in Nat
    <3>1. PICK y, z : y = 1 + m /\ z = 0 /\ y \in Nat /\ z \in Nat
      BY <1>10
    <3>2. Grown(typed, g, c, y, o, {}) /\ Grown(h, typed, c, z, z, {})
      BY <1>13, <1>17, <3>1
    <3>3. Grown(h, g, c, y + z, o + z, {} \cup {})
      BY <1>15, <3>1, <3>2, GrownThen
    <3> QED BY <3>1, <3>3
  <2> QED BY <1>10, <1>15, <2>1
<1>19. 1 + m = IF callback THEN 2 ELSE 1
  BY <1>9
<1> QED BY <1>1, <1>13, <1>14, <1>15, <1>18, <1>19

LEMMA SpecifierGrown ==
  ASSUME NEW g, Good(g), 2 <= Len(g.scopes), NEW s \in Specifier
  PROVE  /\ Grown(ApplySpecifier(g, s), g, g.current, Scopes(s), Cost(g, g.current, Orders(s)),
                  Enumerators(s))
         /\ ApplySpecifier(g, s).current = g.current
<1>1. PICK c, h : c = g.current /\ h = ApplySpecifier(g, s)
  OBVIOUS
<1>2. /\ s.tag \in {"none", "reference", "record", "enum"}
      /\ s.tag = "record" => s.callback \in BOOLEAN
      /\ s.tag = "enum" => s.enumerator \in Ident
  BY SpecifierCases
<1>3. c \in 1 .. Len(g.scopes)
  BY <1>1, GraphParts
<1>4. CASE s.tag = "none"
  <2>1. /\ h = g /\ Scopes(s) = 0 /\ Enumerators(s) = {} /\ Cost(g, c, Orders(s)) = 0
    BY <1>1, <1>4 DEF ApplySpecifier, Scopes, Enumerators, Cost, Orders
  <2> QED BY <1>1, <2>1, GrownSame
<1>5. CASE s.tag = "reference"
  <2>1. /\ h = ReferTag(g) /\ Scopes(s) = 0 /\ Enumerators(s) = {} /\ Orders(s) = 1
    BY <1>1, <1>5 DEF ApplySpecifier, Scopes, Enumerators, Orders
  <2>2. Cost(g, c, 1) \in Nat
    BY DEF Cost
  <2>3. CASE h = g
    BY <1>1, <2>1, <2>2, <2>3, GrownSame
  <2>4. CASE h = DeclareAt(g, c, "TAG", "TAG", Tag)
    <3>1. NamesOf("TAG", Tag) = {}
      BY DEF NamesOf
    <3>2. Declarable("TAG", "TAG", Tag)
      BY KnownNames
    <3>3. /\ Grown(DeclareAt(g, c, "TAG", "TAG", Tag), g, c, 0, Cost(g, c, 1),
                   NamesOf("TAG", Tag))
          /\ DeclareAt(g, c, "TAG", "TAG", Tag).current = g.current
      BY <1>3, <3>2, DeclareGrown
    <3> QED BY <1>1, <2>1, <2>4, <3>1, <3>3
  <2> QED BY <1>1, <2>1, <2>3, <2>4 DEF ReferTag, Declare
<1>6. CASE s.tag = "record"
  <2>1. /\ h = DefineRecord(g, s.callback) /\ Scopes(s) = (IF s.callback THEN 2 ELSE 1)
        /\ Enumerators(s) = {} /\ Orders(s) = 1
    BY <1>1, <1>6 DEF ApplySpecifier, Scopes, Enumerators, Orders
  <2> QED BY <1>1, <1>2, <1>6, <2>1, RecordGrown
<1>7. CASE s.tag = "enum"
  <2>1. PICK f, n : f = DeclareAt(g, c, "TAG", "TAG", Generated) /\ n = s.enumerator
    OBVIOUS
  <2>2. Grown(f, g, c, 0, Cost(g, c, 1), {}) /\ f.current = c
    <3>1. NamesOf("TAG", Generated) = {}
      BY DEF NamesOf
    <3>2. Declarable("TAG", "TAG", Generated)
      BY KnownNames
    <3>3. /\ Grown(DeclareAt(g, c, "TAG", "TAG", Generated), g, c, 0, Cost(g, c, 1),
                   NamesOf("TAG", Generated))
          /\ DeclareAt(g, c, "TAG", "TAG", Generated).current = g.current
      BY <1>3, <3>2, DeclareGrown
    <3> QED BY <1>1, <2>1, <3>1, <3>3
  <2>3. Good(f) /\ 2 <= Len(f.scopes) /\ c \in 1 .. Len(f.scopes) /\ Root(f, c) = Root(g, c)
    <3>1. Cost(g, c, 1) \in Nat
      BY DEF Cost
    <3>2. Good(f) /\ 2 <= Len(f.scopes)
      BY <2>2, GraphParts DEF Grown
    <3>3. PICK o : o = Cost(g, c, 1) /\ o \in Nat
      BY <3>1
    <3>4. PICK z : z = 0 /\ z \in Nat
      OBVIOUS
    <3>5. Grown(f, g, c, z, o, {})
      BY <2>2, <3>3, <3>4
    <3>6. c \in 1 .. Len(f.scopes)
      BY <1>3, <3>3, <3>4, <3>5, GrownScope
    <3>7. Root(f, c) = Root(g, c)
      BY <1>3, <3>3, <3>4, <3>5, GrownScope
    <3> QED BY <3>2, <3>6, <3>7
  <2>4. h = DeclareAt(f, c, "ORDINARY", "ENUM_CONSTANT", n)
    BY <1>1, <1>7, <2>1, <2>2 DEF ApplySpecifier, Declare
  <2>5. Grown(h, f, c, 0, Cost(f, c, 1), {n}) /\ h.current = c
    <3>1. NamesOf("ORDINARY", n) = {n} /\ n \in Name
      BY <1>2, <1>7, <2>1, NamesAssumption DEF NamesOf
    <3>2. n \in Ident
      BY <1>2, <1>7, <2>1
    <3>3. Declarable("ORDINARY", "ENUM_CONSTANT", n)
      BY <3>2, KnownNames
    <3>4. /\ Grown(DeclareAt(f, c, "ORDINARY", "ENUM_CONSTANT", n), f, c, 0, Cost(f, c, 1),
                   NamesOf("ORDINARY", n))
          /\ DeclareAt(f, c, "ORDINARY", "ENUM_CONSTANT", n).current = f.current
      BY <2>3, <3>3, DeclareGrown
    <3> QED BY <2>2, <2>4, <3>1, <3>4
  <2>6. Cost(f, c, 1) = Cost(g, c, 1) /\ Cost(g, c, 1) \in Nat /\ Cost(g, c, 2) = Cost(g, c, 1) + Cost(g, c, 1)
    BY <2>3 DEF Cost
  <2>7. Grown(h, g, c, 0 + 0, Cost(g, c, 1) + Cost(g, c, 1), {} \cup {n})
    BY <2>2, <2>5, <2>6, GrownThen
  <2>8. Scopes(s) = 0 /\ Enumerators(s) = {n} /\ Orders(s) = 2
    BY <1>7, <2>1 DEF Scopes, Enumerators, Orders
  <2> QED BY <1>1, <2>5, <2>6, <2>7, <2>8
<1> QED BY <1>2, <1>4, <1>5, <1>6, <1>7

LEMMA DeclaratorGrown ==
  ASSUME NEW g, Good(g), 2 <= Len(g.scopes), NEW ps, MayTake(ps), NEW c
  PROVE  /\ Grown(ApplyDeclarator(g, ps), g, c, ScopesOf(ps), 0, {})
         /\ ApplyDeclarator(g, ps).current = g.current
<1>1. CASE ps = << >>
  <2>1. ApplyDeclarator(g, ps) = g /\ ScopesOf(ps) = 0
    BY <1>1 DEF ApplyDeclarator, ScopesOf
  <2> QED BY <2>1, GrownSame
<1>2. ASSUME ps # << >>, NEW s \in Specifier, ps = <<s>>, s.tag # "enum"
      PROVE  /\ Grown(ApplyDeclarator(g, ps), g, c, ScopesOf(ps), 0, {})
             /\ ApplyDeclarator(g, ps).current = g.current
  <2>1. PICK h, n, k : h = EnterScope(g, "FUNCTION_PROTOTYPE") /\ n = Len(g.scopes) + 1 /\ k = Scopes(s)
    OBVIOUS
  <2>2. PICK f, j : f = ApplySpecifier(h, s) /\ j = Declare(f, "ORDINARY", "OBJECT", Generated)
    OBVIOUS
  <2>3. ps[1] = s /\ ScopesOf(ps) = 1 + k /\ k \in Nat /\ Enumerators(s) = {} /\ Orders(s) \in Nat
    BY <1>2, <2>1, SpecifierCases DEF ScopesOf, Enumerators
  <2>4. Grown(h, g, c, 1, 0, {}) /\ h.current = n /\ Len(h.scopes) = n /\ Root(h, n) = n
    BY <2>1, EnterGrown DEF ScopeKind, OrderRoot
  <2>5. Good(h) /\ 2 <= Len(h.scopes) /\ n \in 1 .. Len(h.scopes) /\ n # 2
    BY <2>1, <2>4, GraphParts DEF Grown
  <2>6. Grown(f, h, n, k, 0, {}) /\ f.current = n
    <3>1. Cost(h, n, Orders(s)) = 0
      BY <2>4, <2>5 DEF Cost
    <3> QED BY <2>1, <2>2, <2>3, <2>4, <2>5, <3>1, SpecifierGrown
  <2>7. Good(f) /\ 2 <= Len(f.scopes) /\ n \in 1 .. Len(f.scopes) /\ Root(f, n) = n
    <3>1. 0 \in Nat /\ k \in Nat
      BY <2>3
    <3>2. /\ Good(f) /\ 2 <= Len(f.scopes) /\ n \in 1 .. Len(f.scopes) /\ Root(f, n) = Root(h, n)
      BY <2>5, <2>6, <3>1, GrownScope
    <3> QED BY <2>4, <3>2
  <2>8. Grown(j, f, n, 0, 0, {}) /\ j.current = n
    <3>1. j = DeclareAt(f, n, "ORDINARY", "OBJECT", Generated)
      BY <2>2, <2>6 DEF Declare
    <3>2. Cost(f, n, 1) = 0 /\ NamesOf("ORDINARY", Generated) = {}
      BY <2>5, <2>7, NamesAssumption DEF Cost, NamesOf
    <3>3. Declarable("ORDINARY", "OBJECT", Generated)
      BY KnownNames
    <3>4. /\ Grown(DeclareAt(f, n, "ORDINARY", "OBJECT", Generated), f, n, 0, Cost(f, n, 1),
                   NamesOf("ORDINARY", Generated))
          /\ DeclareAt(f, n, "ORDINARY", "OBJECT", Generated).current = f.current
      BY <2>7, <3>3, DeclareGrown
    <3> QED BY <2>6, <3>1, <3>2, <3>4
  <2>9. Grown(j, h, h.current, k, 0, {}) /\ j.current = h.current
    <3>1. Grown(j, h, n, k + 0, 0 + 0, {} \cup {})
      BY <2>3, <2>6, <2>8, GrownThen
    <3> QED BY <2>3, <2>4, <2>8, <3>1
  <2>10. /\ Grown(LeaveScope(j), g, c, 1 + k, 0, {}) /\ LeaveScope(j).current = g.current
    BY <2>1, <2>3, <2>9, InPrototype
  <2> QED BY <1>2, <2>1, <2>2, <2>3, <2>10 DEF ApplyDeclarator
<1> QED BY <1>1, <1>2 DEF MayTake

LEMMA DeclarationGrown ==
  ASSUME NEW g, Good(g), 2 <= Len(g.scopes), NEW x, Fine(x), x.kind \in Naming,
         Root(g, g.current) = 2
  PROVE  /\ Grown(ResolveDeclaration(g, x), g, g.current, ItemScopes(x), ItemOrders(x), Declares(x))
         /\ ResolveDeclaration(g, x).current = g.current
<1>1. PICK c, f, j, kind, h :
        /\ c = g.current /\ f = ApplySpecifier(g, x.spec) /\ j = ApplyDeclarator(f, x.parameters)
        /\ kind = (IF x.kind = "typedef" THEN "TYPEDEF" ELSE "OBJECT")
        /\ h = DeclareAt(j, c, "ORDINARY", kind, x.name)
  OBVIOUS
<1>2. PICK S, o, k1, k2 : S = Enumerators(x.spec) /\ o = Orders(x.spec) /\ k1 = Scopes(x.spec)
                          /\ k2 = ScopesOf(x.parameters)
  OBVIOUS
<1>3. /\ x.spec \in Specifier /\ MayTake(x.parameters) /\ x.name \in Ident /\ o \in Nat /\ k1 \in Nat /\ k2 \in Nat
      /\ ItemScopes(x) = k1 + k2 /\ ItemOrders(x) = o + 1 /\ Declares(x) = S \cup {x.name}
  BY <1>2, FineParts, SMTT(30) DEF Fine, ItemScopes, ItemOrders, Naming, Declares
<1>4. Grown(f, g, c, k1, o, S) /\ f.current = c
  <2>1. Cost(g, c, o) = o
    BY <1>1 DEF Cost
  <2> QED BY <1>1, <1>2, <1>3, <2>1, SpecifierGrown
<1>5. Good(f) /\ 2 <= Len(f.scopes) /\ c \in 1 .. Len(f.scopes) /\ Root(f, c) = 2
  <2>1. c \in 1 .. Len(g.scopes)
    BY <1>1, GraphParts
  <2>2. Good(f) /\ 2 <= Len(f.scopes) /\ c \in 1 .. Len(f.scopes) /\ Root(f, c) = Root(g, c)
    BY <1>3, <1>4, <2>1, GrownScope
  <2> QED BY <1>1, <2>2
<1>6. Grown(j, f, c, k2, 0, {}) /\ j.current = c
  BY <1>1, <1>2, <1>3, <1>4, <1>5, DeclaratorGrown
<1>7. Good(j) /\ 2 <= Len(j.scopes) /\ c \in 1 .. Len(j.scopes) /\ Root(j, c) = 2
  <2>1. 0 \in Nat
    OBVIOUS
  <2>2. Good(j) /\ 2 <= Len(j.scopes) /\ c \in 1 .. Len(j.scopes) /\ Root(j, c) = Root(f, c)
    BY <1>3, <1>5, <1>6, <2>1, GrownScope
  <2> QED BY <1>5, <2>2
<1>8. Grown(h, j, c, 0, 1, {x.name}) /\ h.current = c
  <2>1. Cost(j, c, 1) = 1 /\ NamesOf("ORDINARY", x.name) = {x.name} /\ x.name \in Name
    BY <1>3, <1>7, NamesAssumption DEF Cost, NamesOf
  <2>2. Declarable("ORDINARY", kind, x.name)
    BY <1>1, <1>3, KnownNames
  <2>3. /\ Grown(DeclareAt(j, c, "ORDINARY", kind, x.name), j, c, 0, Cost(j, c, 1),
                 NamesOf("ORDINARY", x.name))
        /\ DeclareAt(j, c, "ORDINARY", kind, x.name).current = j.current
    BY <1>7, <2>2, DeclareGrown
  <2> QED BY <1>1, <1>6, <2>1, <2>3
<1>9. h = ResolveDeclaration(g, x)
  BY <1>1, <1>6 DEF ResolveDeclaration, Declare
<1>10. Grown(j, g, c, k1 + k2, o + 0, S \cup {})
  BY <1>3, <1>4, <1>6, GrownThen
<1>11. Grown(h, g, c, (k1 + k2) + 0, (o + 0) + 1, (S \cup {}) \cup {x.name})
  <2>1. k1 + k2 \in Nat /\ o + 0 \in Nat
    BY <1>3
  <2> QED BY <1>8, <1>10, <2>1, GrownThen
<1>12. (k1 + k2) + 0 = ItemScopes(x) /\ (o + 0) + 1 = ItemOrders(x) /\ (S \cup {}) \cup {x.name} = Declares(x)
  BY <1>3
<1> QED BY <1>1, <1>8, <1>9, <1>11, <1>12

LEMMA TypeNameGrown ==
  ASSUME NEW g, Good(g), 2 <= Len(g.scopes), NEW x, Fine(x), x.kind \in {"type_name", "cast"},
         Root(g, g.current) = 2
  PROVE  /\ Grown(ApplyTypeName(g, x.spec), g, g.current, ItemScopes(x), ItemOrders(x), Declares(x))
         /\ ApplyTypeName(g, x.spec).current = g.current
<1>1. /\ x.spec \in Specifier /\ x.parameters = << >> /\ x.kind \notin Naming /\ x.kind # "enter"
      /\ Scopes(x.spec) \in Nat /\ Orders(x.spec) \in Nat
  BY FineParts DEF Fine, Naming
<1>2. ItemScopes(x) = Scopes(x.spec) /\ ItemOrders(x) = Orders(x.spec) /\ Declares(x) = Enumerators(x.spec)
  BY <1>1 DEF ItemScopes, ItemOrders, ScopesOf, Declares, Naming
<1>3. CASE x.spec.tag = "reference"
  <2>1. Enumerators(x.spec) = {} /\ Scopes(x.spec) = 0 /\ ApplyTypeName(g, x.spec) = g
    BY <1>3 DEF Enumerators, Scopes, ApplyTypeName
  <2> QED BY <1>1, <1>2, <2>1, GrownSame
<1>4. CASE x.spec.tag # "reference"
  <2>1. ApplyTypeName(g, x.spec) = ApplySpecifier(g, x.spec) /\ Cost(g, g.current, Orders(x.spec)) = Orders(x.spec)
    BY <1>4 DEF ApplyTypeName, Cost
  <2> QED BY <1>1, <1>2, <2>1, SpecifierGrown
<1> QED BY <1>3, <1>4

LEMMA ReturnGrown ==
  ASSUME NEW g, Good(g), 2 <= Len(g.scopes), NEW x, Fine(x), x.kind = "return"
  PROVE  LET h == ApplyDeclarator(ApplySpecifier(g, x.spec), x.parameters)
         IN /\ Grown(h, g, g.current, ItemScopes(x), ItemOrders(x), Declares(x))
            /\ h.current = g.current
<1>1. x.spec \in Specifier /\ x.spec.tag = "none" /\ MayTake(x.parameters) /\ x.kind \notin Naming
  BY DEF Fine, Naming
<1>2. ApplySpecifier(g, x.spec) = g
  BY <1>1 DEF ApplySpecifier
<1>3. ScopesOf(x.parameters) \in Nat
  BY FineParts
<1>4. ItemScopes(x) = ScopesOf(x.parameters) /\ ItemOrders(x) = 0 /\ Declares(x) = {}
  BY <1>1, <1>3 DEF ItemScopes, ItemOrders, Scopes, Orders, Declares, Enumerators, Naming
<1> QED BY <1>1, <1>2, <1>4, DeclaratorGrown

----------------------------------------
(* The resolver stands where the parser predicted. *)

OnPath(p, g) ==
  \A m \in 1 .. Len(p) :
    /\ p[m] \in 1 .. Len(g.scopes) /\ Root(g, p[m]) = 2
    /\ Enclosing(g, p[m]) = {1} \cup {p[l] : l \in 1 .. m}
    /\ m > 1 => g.scopes[p[m]].parent = p[m - 1]

Placed(q, g, i) ==
  /\ Good(g) /\ 2 <= Len(g.scopes) /\ Len(g.scopes) + 1 = q[i].next
  /\ g.current = At(q, i) /\ g.scopes[2].order <= q[i].order /\ OnPath(q[i].path, g)

LEMMA EnclosingStep ==
  ASSUME NEW g, Good(g), NEW s \in 1 .. Len(g.scopes), s # 1, NEW p, p = g.scopes[s].parent
  PROVE  p \in 1 .. Len(g.scopes) /\ Enclosing(g, s) = {s} \cup Enclosing(g, p)
<1>1. p \in 1 .. s - 1 /\ s \in Nat
  BY ScopeParts, GraphParts
<1>2. p \in 1 .. Len(g.scopes) /\ p \in 1 .. s /\ p \in Nat
  BY <1>1, GraphParts
<1>3. PICK f : IsChain(g, f, s) /\ Enclosing(g, s) = f[s]
  BY EnclosingIs
<1>4. PICK k : IsChain(g, k, p) /\ Enclosing(g, p) = k[p]
  BY <1>2, EnclosingIs
<1>5. f[s] = {s} \cup f[p]
  BY <1>1, <1>3, ChainLaw
<1> DEFINE T == {t \in 1 .. p : f[t] # k[t]}
<1>6. T = {}
  <2> SUFFICES ASSUME T # {}
               PROVE  FALSE
    OBVIOUS
  <2>1. T \subseteq Nat
    OBVIOUS
  <2>2. PICK t \in T : \A y \in T : t <= y
    <3> HIDE DEF T
    <3> QED BY <2>1, LeastOf
  <2>3. t \in 1 .. p /\ t \in 1 .. s /\ t \in 1 .. Len(g.scopes)
    BY <1>1, <1>2
  <2>4. /\ t = 1 => f[t] = {t} /\ k[t] = {t}
        /\ t # 1 => f[t] = {t} \cup f[g.scopes[t].parent] /\ k[t] = {t} \cup k[g.scopes[t].parent]
    BY <1>1, <1>2, <1>3, <1>4, <2>3, ChainLaw
  <2>5. t # 1 => g.scopes[t].parent \in 1 .. t - 1
    BY <2>3, ScopeParts
  <2>6. t # 1 => g.scopes[t].parent \in 1 .. p /\ g.scopes[t].parent < t
    BY <1>2, <2>3, <2>5
  <2>7. t # 1 => f[g.scopes[t].parent] = k[g.scopes[t].parent]
    BY <2>2, <2>3, <2>6
  <2> QED BY <2>4, <2>7
<1>7. f[p] = k[p]
  BY <1>1, <1>6
<1> QED BY <1>2, <1>3, <1>4, <1>5, <1>7

LEMMA OnPathGrown ==
  ASSUME NEW p, NEW g, NEW h, NEW c, NEW k \in Nat, NEW o \in Nat, NEW S, Grown(h, g, c, k, o, S),
         OnPath(p, g)
  PROVE  OnPath(p, h)
<1>1. Good(g) /\ Good(h) /\ Len(g.scopes) <= Len(h.scopes)
  BY GrownParts DEF Grown
<1>2. \A t \in 1 .. Len(g.scopes) : SameScope(h.scopes[t], g.scopes[t])
  BY DEF Grown
<1>3. \A t \in 1 .. Len(g.scopes) :
        /\ Enclosing(h, t) = Enclosing(g, t) /\ t \in 1 .. Len(h.scopes) /\ Root(h, t) = Root(g, t)
        /\ h.scopes[t].parent = g.scopes[t].parent
  BY <1>1, <1>2, EnclosingSame, GrownParts
<1> QED BY <1>3 DEF OnPath

LEMMA PathTop ==
  ASSUME NEW q, Places(q), NEW i \in 1 .. Len(q), NEW g, Placed(q, g, i)
  PROVE  /\ Root(g, g.current) = 2 /\ g.current \in 1 .. Len(g.scopes)
         /\ Enclosing(g, g.current) = {1} \cup {q[i].path[l] : l \in 1 .. Lev(q, i)}
<1>1. Lev(q, i) \in 1 .. Len(q[i].path)
  BY LevelParts DEF Lev
<1> QED BY <1>1 DEF Placed, OnPath, At

LEMMA PlacedPlain ==
  ASSUME NEW t, NEW q, Numbered(t, q), NEW i \in 1 .. Len(t), t[i].kind \notin {"enter", "leave"},
         NEW g, Placed(q, g, i), NEW h, NEW c, NEW S,
         Grown(h, g, c, ItemScopes(t[i]), ItemOrders(t[i]), S), h.current = g.current
  PROVE  Placed(q, h, i + 1)
<1>1. /\ Len(q) = Len(t) + 1 /\ Places(q) /\ Fine(t[i]) /\ Follows(q[i], q[i + 1], t[i])
      /\ Len(t) \in Nat /\ i \in 1 .. Len(q) /\ i + 1 \in 1 .. Len(q)
  BY SeqParts DEF Numbered, Readable
<1>2. PICK k, o : k = ItemScopes(t[i]) /\ o = ItemOrders(t[i]) /\ k \in Nat /\ o \in Nat
  BY <1>1, FineParts
<1>3. Grown(h, g, c, k, o, S)
  BY <1>2
<1>4. Place(q[i]) /\ Place(q[i + 1])
  BY <1>1 DEF Places
<1>5. /\ q[i].next \in Nat /\ q[i].order \in Nat /\ q[i + 1].order \in Nat
      /\ q[i + 1].next = q[i].next + k /\ q[i].order + o <= q[i + 1].order /\ q[i + 1].path = q[i].path
  BY <1>1, <1>2, <1>4 DEF Place, Follows
<1>6. /\ Len(g.scopes) + 1 = q[i].next /\ g.scopes[2].order <= q[i].order /\ OnPath(q[i].path, g)
      /\ g.current = At(q, i) /\ 2 <= Len(g.scopes)
  BY DEF Placed
<1>7. /\ Len(g.scopes) \in Nat /\ g.scopes[2].order \in Nat /\ h.scopes[2].order \in Nat
  BY <1>2, <1>3, GrownParts
<1>8. Good(h) /\ Len(h.scopes) = Len(g.scopes) + k /\ h.scopes[2].order <= g.scopes[2].order + o
  BY <1>3 DEF Grown
<1>9. OnPath(q[i + 1].path, h)
  BY <1>2, <1>3, <1>5, <1>6, OnPathGrown
<1>10. h.current = At(q, i + 1)
  BY <1>5, <1>6 DEF At, Lev
<1>11. 2 <= Len(h.scopes) /\ Len(h.scopes) + 1 = q[i + 1].next /\ h.scopes[2].order <= q[i + 1].order
  <2>1. PICK ng, nh, og, oh, qn, qm, qo, qp :
          /\ ng = Len(g.scopes) /\ nh = Len(h.scopes) /\ og = g.scopes[2].order /\ oh = h.scopes[2].order
          /\ qn = q[i].next /\ qm = q[i + 1].next /\ qo = q[i].order /\ qp = q[i + 1].order
    OBVIOUS
  <2>2. /\ ng \in Nat /\ og \in Nat /\ oh \in Nat /\ qn \in Nat /\ qo \in Nat /\ qp \in Nat
        /\ k \in Nat /\ o \in Nat /\ nh = ng + k /\ oh <= og + o /\ qm = qn + k /\ qo + o <= qp
        /\ ng + 1 = qn /\ og <= qo /\ 2 <= ng
    BY <1>2, <1>5, <1>6, <1>7, <1>8, <2>1
  <2>3. 2 <= nh /\ nh + 1 = qm /\ oh <= qp
    BY ONLY <2>2
  <2> QED BY <2>1, <2>3
<1> QED BY <1>8, <1>9, <1>10, <1>11 DEF Placed

LEMMA PlacedEnter ==
  ASSUME NEW t, NEW q, Numbered(t, q), NEW i \in 1 .. Len(t), t[i].kind = "enter",
         NEW g, Placed(q, g, i), NEW h, h = EnterScope(g, "BLOCK")
  PROVE  Placed(q, h, i + 1) /\ \A c : Grown(h, g, c, 1, 0, {})
<1>1. /\ Len(q) = Len(t) + 1 /\ Places(q) /\ Fine(t[i]) /\ Follows(q[i], q[i + 1], t[i])
      /\ Len(t) \in Nat /\ i \in 1 .. Len(q) /\ i + 1 \in 1 .. Len(q)
  BY SeqParts DEF Numbered, Readable
<1>2. PICK p, n : p = q[i].path /\ n = q[i].next
  OBVIOUS
<1>3. PICK L : L = Len(p) /\ L = Lev(q, i)
  BY <1>2 DEF Lev
<1>4. L \in Nat \ {0} /\ p \in Seq(Nat) /\ n \in Nat /\ q[i].order \in Nat /\ q[i + 1].order \in Nat
  BY <1>1, <1>2, <1>3 DEF Places, Place, Path
<1>5. /\ Good(g) /\ 2 <= Len(g.scopes) /\ Len(g.scopes) + 1 = n /\ g.current = p[L]
      /\ g.scopes[2].order <= q[i].order /\ OnPath(p, g)
  BY <1>2, <1>3 DEF Placed, At
<1>6. /\ \A c : Grown(h, g, c, 1, 0, {})
      /\ h.current = n /\ Len(h.scopes) = n /\ h.scopes[n].parent = g.current
      /\ Root(h, n) = Root(g, g.current)
  BY <1>5, EnterGrown DEF ScopeKind, OrderRoot
<1>7. Grown(h, g, n, 1, 0, {}) /\ Good(h)
  BY <1>6 DEF Grown
<1>8. PICK u : u = Append(p, n)
  OBVIOUS
<1>9. /\ Len(u) = L + 1 /\ u[L + 1] = n /\ \A m \in 1 .. L : u[m] = p[m]
  <2>1. p \in Seq(Nat) /\ Len(p) = L /\ L \in Nat /\ u = Append(p, n) /\ n \in Nat
    BY <1>3, <1>4, <1>8
  <2> QED BY ONLY <2>1
<1>10. q[i + 1].path = u /\ q[i + 1].next = n + 1
  <2>1. ItemScopes(t[i]) = 1
    BY <1>1, FineParts
  <2> QED BY <1>1, <1>2, <1>8, <2>1 DEF Follows
<1>11. OnPath(p, h)
  BY <1>5, <1>7, OnPathGrown
<1>12. L \in 1 .. Len(p)
  BY <1>3, <1>4
<1>13. /\ p[L] \in 1 .. Len(h.scopes) /\ Root(h, p[L]) = 2
       /\ Enclosing(h, p[L]) = {1} \cup {p[l] : l \in 1 .. L}
  BY <1>11, <1>12 DEF OnPath
<1>14. Root(h, n) = 2
  <2>1. Root(g, p[L]) = 2
    BY <1>5, <1>12 DEF OnPath
  <2> QED BY <1>5, <1>6, <2>1
<1>15. Enclosing(h, n) = {1} \cup {u[l] : l \in 1 .. L + 1}
  <2>1. n \in 1 .. Len(h.scopes) /\ n # 1
    <3>1. Len(h.scopes) \in Nat
      BY <1>5, GraphParts
    <3> QED BY <1>4, <1>5, <1>6, <3>1
  <2>2. Enclosing(h, n) = {n} \cup Enclosing(h, p[L])
    BY <1>5, <1>6, <1>7, <2>1, EnclosingStep
  <2>3. \A l \in 1 .. L + 1 : l \in 1 .. L \/ l = L + 1
    BY <1>4
  <2>4. \A l \in 1 .. L : l \in 1 .. L + 1
    BY <1>4
  <2>5. L + 1 \in 1 .. L + 1
    BY <1>4
  <2>6. {u[l] : l \in 1 .. L + 1} = {p[l] : l \in 1 .. L} \cup {n}
    BY <1>9, <2>3, <2>4, <2>5
  <2> QED BY <1>13, <2>2, <2>6
<1>16. OnPath(u, h)
  <2> SUFFICES ASSUME NEW m \in 1 .. L + 1
               PROVE  /\ u[m] \in 1 .. Len(h.scopes) /\ Root(h, u[m]) = 2
                      /\ Enclosing(h, u[m]) = {1} \cup {u[l] : l \in 1 .. m}
                      /\ m > 1 => h.scopes[u[m]].parent = u[m - 1]
    BY <1>9 DEF OnPath
  <2>1. CASE m \in 1 .. L
    <3>1. \A l \in 1 .. m : l \in 1 .. L
      BY <1>4, <2>1
    <3>2. m > 1 => m - 1 \in 1 .. L
      BY <1>4, <2>1
    <3>3. {u[l] : l \in 1 .. m} = {p[l] : l \in 1 .. m}
      BY <1>9, <3>1
    <3>4. m \in 1 .. Len(p) /\ u[m] = p[m] /\ (m > 1 => u[m - 1] = p[m - 1])
      BY <1>3, <1>9, <2>1, <3>2
    <3> QED BY <1>11, <3>3, <3>4 DEF OnPath
  <2>2. CASE m = L + 1
    <3>1. u[m] = n /\ m - 1 = L /\ L \in 1 .. L
      BY <1>4, <1>9, <2>2
    <3>2. u[m - 1] = p[L]
      BY <1>9, <3>1
    <3>3. n \in 1 .. Len(h.scopes)
      <4>1. Len(h.scopes) \in Nat
        BY <1>5, GraphParts
      <4> QED BY <1>4, <1>5, <1>6, <4>1
    <3> QED BY <1>5, <1>6, <1>14, <1>15, <2>2, <3>1, <3>2, <3>3
  <2> QED BY <1>4, <2>1, <2>2
<1>17. h.current = At(q, i + 1)
  BY <1>6, <1>9, <1>10 DEF At, Lev
<1>18. h.scopes[2].order <= q[i + 1].order
  <2>1. q[i].order + ItemOrders(t[i]) <= q[i + 1].order /\ ItemOrders(t[i]) \in Nat
    BY <1>1, FineParts DEF Follows
  <2>2. h.scopes[2].order <= g.scopes[2].order + 0
    BY <1>7 DEF Grown
  <2>3. h.scopes[2].order \in Nat /\ g.scopes[2].order \in Nat
    BY <1>7, GrownParts
  <2>4. PICK hs, gs, o, qo, qp :
          /\ hs = h.scopes[2].order /\ gs = g.scopes[2].order /\ o = ItemOrders(t[i])
          /\ qo = q[i].order /\ qp = q[i + 1].order
    OBVIOUS
  <2>5. /\ hs \in Nat /\ gs \in Nat /\ o \in Nat /\ qo \in Nat /\ qp \in Nat
        /\ qo + o <= qp /\ hs <= gs + 0 /\ gs <= qo
    BY <1>4, <1>5, <2>1, <2>2, <2>3, <2>4
  <2>6. hs <= qp
    BY ONLY <2>5
  <2> QED BY <2>4, <2>6
<1>19. 2 <= Len(h.scopes) /\ Len(h.scopes) + 1 = q[i + 1].next
  BY <1>4, <1>5, <1>6, <1>10, GraphParts
<1> QED BY <1>6, <1>7, <1>10, <1>16, <1>17, <1>18, <1>19 DEF Placed

LEMMA PlacedLeave ==
  ASSUME NEW t, NEW q, Numbered(t, q), NEW i \in 1 .. Len(t), t[i].kind = "leave",
         NEW g, Placed(q, g, i), NEW h, h = LeaveScope(g)
  PROVE  Placed(q, h, i + 1) /\ \A c : Grown(h, g, c, 0, 0, {})
<1>1. /\ Len(q) = Len(t) + 1 /\ Places(q) /\ Fine(t[i]) /\ Follows(q[i], q[i + 1], t[i])
      /\ Len(t) \in Nat /\ i \in 1 .. Len(q) /\ i + 1 \in 1 .. Len(q)
  BY SeqParts DEF Numbered, Readable
<1>2. PICK p, L : p = q[i].path /\ L = Len(p) /\ L = Lev(q, i)
  BY DEF Lev
<1>3. L \in Nat /\ L > 1 /\ p \in Seq(Nat) /\ q[i].next \in Nat /\ q[i].order \in Nat /\ q[i + 1].order \in Nat
  BY <1>1, <1>2 DEF Places, Place, Path, Follows
<1>4. /\ Good(g) /\ 2 <= Len(g.scopes) /\ Len(g.scopes) + 1 = q[i].next /\ g.current = p[L]
      /\ g.scopes[2].order <= q[i].order /\ OnPath(p, g)
  BY <1>2 DEF Placed, At
<1>5. PICK u : u = SubSeq(p, 1, L - 1)
  OBVIOUS
<1>6. Len(u) = L - 1 /\ \A m \in 1 .. L - 1 : u[m] = p[m]
  BY <1>2, <1>3, <1>5
<1>7. q[i + 1].path = u /\ q[i + 1].next = q[i].next /\ q[i].order <= q[i + 1].order
  <2>1. ItemScopes(t[i]) = 0 /\ ItemOrders(t[i]) \in Nat
    BY <1>1, FineParts
  <2>2. /\ q[i + 1].path = u /\ q[i + 1].next = q[i].next + 0
        /\ q[i].order + ItemOrders(t[i]) <= q[i + 1].order
    BY <1>1, <1>2, <1>5, <2>1 DEF Follows
  <2> QED BY <1>3, <2>1, <2>2
<1>8. L \in 1 .. Len(p) /\ L - 1 \in 1 .. Len(p)
  BY <1>2, <1>3
<1>9. g.scopes[p[L]].parent = p[L - 1] /\ p[L] \in 1 .. Len(g.scopes)
  BY <1>3, <1>4, <1>8 DEF OnPath
<1>10. p[L] # 1
  <2>1. 2 <= p[L] /\ p[L] \in Nat
    BY <1>1, <1>2, <1>8 DEF Places, Place, Path
  <2> QED BY <2>1
<1>11. h = [g EXCEPT !.current = p[L - 1]]
  BY <1>4, <1>9, <1>10 DEF LeaveScope, TranslationUnit
<1>12. h.scopes = g.scopes /\ h.declarations = g.declarations /\ h.current = p[L - 1]
  BY <1>4, <1>11, ExceptParts, GraphParts
<1>13. Good(h)
  BY <1>4, LeaveScopeGood
<1>14. \A c : Grown(h, g, c, 0, 0, {})
  BY <1>4, <1>12, <1>13, GrownSame
<1>15. OnPath(p, h)
  BY <1>4, <1>14, OnPathGrown
<1>16. OnPath(u, h)
  <2> SUFFICES ASSUME NEW m \in 1 .. L - 1
               PROVE  /\ u[m] \in 1 .. Len(h.scopes) /\ Root(h, u[m]) = 2
                      /\ Enclosing(h, u[m]) = {1} \cup {u[l] : l \in 1 .. m}
                      /\ m > 1 => h.scopes[u[m]].parent = u[m - 1]
    BY <1>6 DEF OnPath
  <2>1. \A l \in 1 .. m : l \in 1 .. L - 1
    BY <1>3
  <2>2. m > 1 => m - 1 \in 1 .. L - 1
    BY <1>3
  <2>3. {u[l] : l \in 1 .. m} = {p[l] : l \in 1 .. m}
    BY <1>6, <2>1
  <2>4. m \in 1 .. Len(p) /\ u[m] = p[m] /\ (m > 1 => u[m - 1] = p[m - 1])
    BY <1>2, <1>3, <1>6, <2>2
  <2> QED BY <1>15, <2>3, <2>4 DEF OnPath
<1>17. h.current = At(q, i + 1)
  <2>1. L - 1 \in 1 .. L - 1
    BY <1>3
  <2> QED BY <1>6, <1>7, <1>12, <2>1 DEF At, Lev
<1>18. g.scopes[2].order \in Nat
  BY <1>14, GrownParts
<1>19. h.scopes[2].order <= q[i + 1].order
  <2>1. PICK gs, qo, qp : gs = g.scopes[2].order /\ qo = q[i].order /\ qp = q[i + 1].order
    OBVIOUS
  <2>2. gs \in Nat /\ qo \in Nat /\ qp \in Nat /\ gs <= qo /\ qo <= qp
    BY <1>3, <1>4, <1>7, <1>18, <2>1
  <2>3. gs <= qp
    BY ONLY <2>2
  <2> QED BY <1>12, <2>1, <2>3
<1>20. 2 <= Len(h.scopes) /\ Len(h.scopes) + 1 = q[i + 1].next /\ OnPath(q[i + 1].path, h)
  BY <1>4, <1>7, <1>12, <1>16
<1> QED BY <1>13, <1>14, <1>17, <1>19, <1>20 DEF Placed

----------------------------------------
(* The resolver leaves the scope the innermost enter opened. *)

LEMMA OpenerIs ==
  ASSUME NEW q, Numbered(text, q), NEW i \in 1 .. Len(text), text[i].kind = "leave"
  PROVE  Opener(i) \in 1 .. i - 1 /\ text[Opener(i)].kind = "enter"
<1>1. /\ Len(text) \in Nat /\ Len(q) = Len(text) + 1 /\ Places(q)
      /\ \A k \in 1 .. Len(text) : Fine(text[k]) /\ Follows(q[k], q[k + 1], text[k])
  BY SeqParts DEF Numbered, Readable
<1>2. \A k \in 0 .. Len(text) : Depth(k) = Lev(q, k + 1) - 1
  BY DEF Numbered, Depth, DepthOf, Occurs
<1>3. \A k \in 1 .. Len(text) + 1 : Lev(q, k) \in Nat /\ Place(q[k])
  BY <1>1, LevelParts
<1>4. Lev(q, i) > 1 /\ Lev(q, 1) = 1
  <2>1. Len(q[i].path) > 1
    BY <1>1 DEF Follows
  <2>2. Len(<<2>>) = 1 /\ q[1].path = <<2>>
    BY <1>1 DEF Places
  <2> QED BY <2>1, <2>2 DEF Lev
<1> DEFINE B == {b \in 1 .. i : \A k \in b .. i : Lev(q, i) <= Lev(q, k)}
<1>5. PICK c \in B : \A b \in B : c <= b
  <2>1. i \in B
    <3>1. \A k \in i .. i : k = i
      BY <1>1
    <3>2. Lev(q, i) <= Lev(q, i) /\ i \in 1 .. i
      BY <1>1, <1>3
    <3> QED BY <3>1, <3>2
  <2>2. B \subseteq Nat
    OBVIOUS
  <2> HIDE DEF B
  <2> QED BY <2>1, <2>2, LeastOf
<1>6. /\ c \in 1 .. i /\ c \in Nat /\ i \in Nat
      /\ \A k \in c .. i : Lev(q, i) <= Lev(q, k)
  BY <1>1, <1>5
<1>7. c # 1
  <2>1. c \in c .. i
    BY <1>6
  <2>2. Lev(q, i) <= Lev(q, c)
    BY <1>6, <2>1
  <2>3. Lev(q, i) \in Nat
    BY <1>1, <1>3
  <2> QED BY <1>4, <2>2, <2>3
<1>8. PICK j : j = c - 1 /\ j \in 1 .. i - 1 /\ j + 1 = c /\ j \in 1 .. Len(text) /\ j \in Nat
  BY <1>1, <1>6, <1>7
<1>9. Lev(q, j) < Lev(q, i)
  <2>1. j \notin B
    BY <1>5, <1>6, <1>8
  <2>2. PICK k \in j .. i : ~(Lev(q, i) <= Lev(q, k))
    <3>1. j \in 1 .. i
      BY <1>6, <1>8
    <3> QED BY <2>1, <3>1
  <2>3. k = j
    BY <1>6, <1>8, <2>2
  <2>4. Lev(q, j) \in Nat /\ Lev(q, i) \in Nat
    BY <1>1, <1>3, <1>8
  <2> QED BY <2>2, <2>3, <2>4
<1>10. Lev(q, c) = Lev(q, j) + (IF text[j].kind = "enter" THEN 1 ELSE 0)
                     - (IF text[j].kind = "leave" THEN 1 ELSE 0)
  <2>1. PICK r, s, x : r = q[j] /\ s = q[j + 1] /\ x = text[j]
    OBVIOUS
  <2>2. Place(r) /\ Fine(x) /\ Follows(r, s, x) /\ s.order \in Nat
    <3>1. j \in 1 .. Len(text) + 1 /\ j + 1 \in 1 .. Len(text) + 1
      BY <1>1, <1>8
    <3>2. Place(q[j]) /\ Place(q[j + 1])
      BY <1>3, <3>1
    <3> QED BY <1>1, <1>8, <2>1, <3>2 DEF Place
  <2>3. Len(s.path) = Len(r.path) + (IF x.kind = "enter" THEN 1 ELSE 0)
                        - (IF x.kind = "leave" THEN 1 ELSE 0)
    BY <2>2, FollowsMoves
  <2> QED BY <1>8, <2>1, <2>3 DEF Lev
<1>11. c \in c .. i /\ Lev(q, i) <= Lev(q, c) /\ Lev(q, c) \in Nat /\ Lev(q, j) \in Nat /\ Lev(q, i) \in Nat
  <2>1. c \in c .. i /\ c \in 1 .. Len(text) + 1 /\ j \in 1 .. Len(text) + 1 /\ i \in 1 .. Len(text) + 1
    BY <1>1, <1>6, <1>8
  <2> QED BY <1>3, <1>6, <2>1
<1>12. text[j].kind = "enter" /\ Lev(q, c) <= Lev(q, i)
  BY <1>9, <1>10, <1>11
<1>13. StillOpen(j, i)
  <2> SUFFICES ASSUME NEW k \in j .. i - 1
               PROVE  Depth(k) >= Depth(j)
    BY DEF StillOpen
  <2>1. k + 1 \in c .. i /\ k \in 0 .. Len(text) /\ j \in 0 .. Len(text) /\ k + 1 \in 1 .. Len(text) + 1
    BY <1>1, <1>6, <1>8
  <2>2. Lev(q, i) <= Lev(q, k + 1) /\ Lev(q, k + 1) \in Nat
    BY <1>3, <1>6, <2>1
  <2>3. Depth(k) = Lev(q, k + 1) - 1 /\ Depth(j) = Lev(q, c) - 1
    BY <1>2, <1>8, <2>1
  <2>4. PICK a, b, d : a = Lev(q, i) /\ b = Lev(q, k + 1) /\ d = Lev(q, c)
    OBVIOUS
  <2>5. a \in Nat /\ b \in Nat /\ d \in Nat /\ a <= b /\ d <= a
    BY <1>11, <1>12, <2>2, <2>4
  <2>6. b - 1 >= d - 1
    BY ONLY <2>5
  <2> QED BY <2>3, <2>4, <2>6
<1> DEFINE T == {k \in 1 .. i - 1 : text[k].kind = "enter" /\ StillOpen(k, i)}
<1>14. PICK m : m \in T /\ \A k \in T : k <= m
  <2>1. j \in T
    BY <1>8, <1>12, <1>13
  <2>2. T \subseteq 1 .. i - 1 /\ i - 1 \in Nat
    BY <1>6, <1>8
  <2> HIDE DEF T
  <2>3. PICK n : n = i - 1
    OBVIOUS
  <2> QED BY <2>1, <2>2, <2>3, InnermostIn
<1>15. /\ m \in 1 .. i - 1 /\ text[m].kind = "enter" /\ StillOpen(m, i)
       /\ \A k \in m + 1 .. i - 1 : text[k].kind = "enter" => ~StillOpen(k, i)
  <2>1. m \in 1 .. i - 1 /\ text[m].kind = "enter" /\ StillOpen(m, i)
    BY <1>14
  <2>2. \A k \in m + 1 .. i - 1 : k \in 1 .. i - 1 /\ ~(k <= m)
    BY <1>6, <2>1
  <2>3. \A k \in m + 1 .. i - 1 : k \notin T
    BY <1>14, <2>2
  <2> QED BY <2>1, <2>2, <2>3
<1> HIDE DEF T, B
<1> QED BY <1>15 DEF Opener

----------------------------------------
(* The construct that made each declaration, and what a lookup finds. *)

MadeBy(t, q, d, j, i, F) ==
  /\ j \in 0 .. i - 1
  /\ Shown(d) /\ d.kind \notin {"UNKNOWN", "LINKAGE_ALIAS"}
  /\ d.space = "ORDINARY" /\ d.name \in Ident =>
       \/ j = 0 /\ d.scope = 1 /\ d.name \in F
       \/ j \in 1 .. i - 1 /\ d.scope = At(q, j) /\ d.name \in Declares(t[j])
Makes(g, o, j, n) ==
  \E d \in 1 .. Len(g.declarations) :
    o[d] = j /\ g.declarations[d].space = "ORDINARY" /\ g.declarations[d].name = n
Attributed(t, q, g, o, i, F) ==
  /\ DOMAIN o = 1 .. Len(g.declarations)
  /\ \A d \in 1 .. Len(g.declarations) : MadeBy(t, q, g.declarations[d], o[d], i, F)
  /\ \A d, e \in 1 .. Len(g.declarations) : d < e => o[d] <= o[e]
  /\ \A n \in F : Makes(g, o, 0, n)
  /\ \A j \in 1 .. i - 1 : \A n \in Declares(t[j]) : Makes(g, o, j, n)

(* o attributes the declarations of h beyond those of g to construct j. *)
Origins(o, u, h, g, j) ==
  /\ DOMAIN o = 1 .. Len(h.declarations)
  /\ \A d \in 1 .. Len(g.declarations) : o[d] = u[d]
  /\ \A d \in Len(g.declarations) + 1 .. Len(h.declarations) : o[d] = j

LEMMA AttributedStep ==
  ASSUME NEW t, NEW q, NEW g, NEW u, NEW i \in Nat \ {0}, NEW F, Attributed(t, q, g, u, i, F),
         NEW h, NEW k, NEW m, Grown(h, g, At(q, i), k, m, Declares(t[i])),
         Len(g.declarations) \in Nat, Len(h.declarations) \in Nat,
         NEW o, Origins(o, u, h, g, i)
  PROVE  Attributed(t, q, h, o, i + 1, F)
<1> DEFINE n == Len(g.declarations)
           N == Len(h.declarations)
<1>1. /\ n \in Nat /\ N \in Nat /\ n <= N
      /\ \A d \in 1 .. n : h.declarations[d] = g.declarations[d]
      /\ \A d \in n + 1 .. N : NewDeclaration(h.declarations[d], At(q, i), Declares(t[i]))
      /\ Declared(h, n, N, Declares(t[i]))
  BY DEF Grown
<1>2. /\ DOMAIN o = 1 .. N /\ \A d \in 1 .. n : o[d] = u[d]
      /\ \A d \in n + 1 .. N : o[d] = i
  BY DEF Origins
<1>3. /\ \A d \in 1 .. N : d \in 1 .. n \/ d \in n + 1 .. N
      /\ \A d \in 1 .. n : d \in 1 .. N
      /\ \A d \in n + 1 .. N : d \in 1 .. N
      /\ \A d \in 1 .. n : \A e \in n + 1 .. N : d < e /\ ~(e < d)
  BY <1>1
<1>4. /\ \A j \in 0 .. i - 1 : j \in 0 .. i + 1 - 1 /\ j <= i
      /\ \A j \in 1 .. i - 1 : j \in 1 .. i + 1 - 1
      /\ i \in 1 .. i + 1 - 1 /\ i \in 0 .. i + 1 - 1 /\ i <= i
      /\ \A j \in 1 .. i + 1 - 1 : j \in 1 .. i - 1 \/ j = i
  OBVIOUS
<1> HIDE DEF n, N
<1>5. \A d \in 1 .. n : MadeBy(t, q, g.declarations[d], u[d], i, F) /\ u[d] \in 0 .. i - 1
  BY DEF Attributed, MadeBy, n
<1>6. ASSUME NEW d \in 1 .. N
      PROVE  MadeBy(t, q, h.declarations[d], o[d], i + 1, F)
  <2>1. CASE d \in 1 .. n
    <3>1. h.declarations[d] = g.declarations[d] /\ o[d] = u[d]
      BY <1>1, <1>2, <2>1
    <3> QED BY <1>4, <1>5, <2>1, <3>1 DEF MadeBy
  <2>2. CASE d \in n + 1 .. N
    <3>1. NewDeclaration(h.declarations[d], At(q, i), Declares(t[i])) /\ o[d] = i
      BY <1>1, <1>2, <2>2
    <3> QED BY <1>4, <3>1 DEF NewDeclaration, MadeBy
  <2> QED BY <1>3, <2>1, <2>2
<1>7. \A d, e \in 1 .. N : d < e => o[d] <= o[e]
  <2> SUFFICES ASSUME NEW d \in 1 .. N, NEW e \in 1 .. N, d < e
               PROVE  o[d] <= o[e]
    OBVIOUS
  <2>1. CASE d \in 1 .. n /\ e \in 1 .. n
    <3>1. u[d] <= u[e]
      BY <2>1 DEF Attributed, n
    <3> QED BY <1>2, <2>1, <3>1
  <2>2. CASE d \in 1 .. n /\ e \in n + 1 .. N
    BY <1>2, <1>4, <1>5, <2>2
  <2>3. CASE d \in n + 1 .. N /\ e \in n + 1 .. N
    BY <1>2, <1>4, <2>3
  <2>4. CASE d \in n + 1 .. N /\ e \in 1 .. n
    BY <1>3, <2>4
  <2> QED BY <1>3, <2>1, <2>2, <2>3, <2>4
<1>8. ASSUME NEW j, NEW m1, Makes(g, u, j, m1)
      PROVE  Makes(h, o, j, m1)
  <2>1. PICK d \in 1 .. n : u[d] = j /\ g.declarations[d].space = "ORDINARY" /\ g.declarations[d].name = m1
    BY <1>8 DEF Makes, n
  <2>2. d \in 1 .. N /\ o[d] = j /\ h.declarations[d] = g.declarations[d]
    BY <1>1, <1>2, <1>3, <2>1
  <2> QED BY <2>1, <2>2 DEF Makes, N
<1>9. \A m1 \in Declares(t[i]) : Makes(h, o, i, m1)
  <2> SUFFICES ASSUME NEW m1 \in Declares(t[i])
               PROVE  Makes(h, o, i, m1)
    OBVIOUS
  <2>1. PICK d \in n + 1 .. N : h.declarations[d].space = "ORDINARY" /\ h.declarations[d].name = m1
    BY <1>1 DEF Declared
  <2>2. d \in 1 .. N /\ o[d] = i
    BY <1>2, <1>3, <2>1
  <2> QED BY <2>1, <2>2 DEF Makes, N
<1>10. (\A m1 \in F : Makes(g, u, 0, m1))
       /\ \A j \in 1 .. i - 1 : \A m1 \in Declares(t[j]) : Makes(g, u, j, m1)
  BY DEF Attributed
<1>11. N = Len(h.declarations)
  BY DEF N
<1>12. \A j \in 1 .. i + 1 - 1 : \A m1 \in Declares(t[j]) : Makes(h, o, j, m1)
  BY <1>4, <1>8, <1>9, <1>10
<1> QED BY <1>2, <1>6, <1>7, <1>8, <1>10, <1>11, <1>12 DEF Attributed

LEMMA LookupMeans ==
  ASSUME NEW t, NEW q, Numbered(t, q), NEW i \in 1 .. Len(t), NEW g, Placed(q, g, i),
         NEW o, NEW F, Attributed(t, q, g, o, i, F), NEW n \in Ident,
         Dec(t, q, n, i) # {} \/ n \in F,
         NEW point, point.scope = At(q, i), point.order = q[i].order
  PROVE  /\ point.scope \in DOMAIN g.scopes
         /\ \E d \in 1 .. Len(g.declarations) :
              Lookup(g, "ORDINARY", n, point) = d /\ o[d] = Mean(t, q, n, i)
<1> DEFINE N == Len(g.declarations)
           path == q[i].path
           found1 == {d \in DOMAIN g.declarations :
                        /\ g.declarations[d].scope \in Enclosing(g, point.scope)
                        /\ ~g.declarations[d].hidden
                        /\ Matches(g, d, "ORDINARY", n)
                        /\ DeclaredBefore(g, d, "ORDINARY", point)
                        /\ Targeted(g, d)}
           scopes1 == {g.declarations[d].scope : d \in found1}
           scope == Innermost(scopes1)
           lasts == {d \in found1 : g.declarations[d].scope = scope}
           last == Innermost(lasts)
           D == Dec(t, q, n, i)
<1>1. Places(q) /\ Len(t) \in Nat /\ Len(q) = Len(t) + 1 /\ i \in 1 .. Len(q) /\ i \in Nat
  BY SeqParts DEF Numbered, Readable
<1>2. /\ N \in Nat /\ DOMAIN g.declarations = 1 .. N /\ DOMAIN g.scopes = 1 .. Len(g.scopes)
      /\ Len(g.scopes) \in Nat /\ 1 \in 1 .. Len(g.scopes) /\ Good(g)
  BY GraphParts DEF Placed
<1>3. /\ Root(g, point.scope) = 2 /\ point.scope \in 1 .. Len(g.scopes)
      /\ Enclosing(g, point.scope) = {1} \cup {path[l] : l \in 1 .. Lev(q, i)}
  <2>1. point.scope = g.current
    BY DEF Placed
  <2>2. Root(g, g.current) = 2 /\ g.current \in 1 .. Len(g.scopes)
    BY ONLY <1>1, Placed(q, g, i), PathTop
  <2>3. Enclosing(g, g.current) = {1} \cup {q[i].path[l] : l \in 1 .. Lev(q, i)}
    BY ONLY <1>1, Placed(q, g, i), PathTop, Zenon
  <2> QED BY <2>1, <2>2, <2>3
<1>4. Root(g, 1) = 1
  <2>1. g.scopes[1].root \in 1 .. 1
    BY <1>2, ScopeParts
  <2> QED BY <2>1 DEF Root
<1>5. /\ \A l \in 1 .. Lev(q, i) : path[l] \in Nat /\ Root(g, path[l]) = 2
      /\ \A l, m \in 1 .. Lev(q, i) : l < m => path[l] < path[m]
      /\ g.scopes[2].order <= point.order /\ point.order \in Nat /\ g.scopes[2].order \in Nat
  <2>1. Place(q[i]) /\ OnPath(path, g) /\ g.scopes[2].order <= point.order /\ 2 <= Len(g.scopes)
    BY <1>1 DEF Placed, Places
  <2>2. 2 \in 1 .. Len(g.scopes)
    BY <1>2, <2>1
  <2> QED BY <1>2, <2>1, <2>2, ScopeParts DEF Place, Path, OnPath, Lev
<1>6. /\ \A d \in 1 .. N : MadeBy(t, q, g.declarations[d], o[d], i, F)
      /\ \A d, e \in 1 .. N : d < e => o[d] <= o[e]
      /\ n \in F => Makes(g, o, 0, n)
      /\ \A j \in D : Makes(g, o, j, n)
  BY DEF Attributed, Dec
<1>7. ASSUME NEW j \in 1 .. i - 1
      PROVE  /\ At(q, j) \in Nat /\ 2 <= At(q, j) /\ Lev(q, j) \in Nat \ {0} /\ Lev(q, i) \in Nat
             /\ \A l \in 1 .. Lev(q, i) : path[l] = At(q, j) <=> Kept(q, j, i) /\ l = Lev(q, j)
             /\ \A M \in 1 .. i - 1 : Kept(q, j, i) /\ j <= M => Lev(q, j) <= Lev(q, M)
             /\ Kept(q, j, i) => Lev(q, j) \in 1 .. Lev(q, i)
  <2>1. j \in 1 .. Len(q) /\ j <= i /\ i \in j .. i
    BY <1>1
  <2>2. Lev(q, j) \in Nat \ {0} /\ Lev(q, i) \in Nat \ {0} /\ At(q, j) \in Nat /\ 2 <= At(q, j)
    BY <1>1, <2>1, LevelParts
  <2>3. Meet(q, j, i)
    BY <1>1, <2>1 DEF Places
  <2>4. \A M \in 1 .. i - 1 : j <= M => M \in j .. i
    BY <1>1
  <2> QED BY <2>1, <2>2, <2>3, <2>4 DEF Meet, Kept
<1>8. ASSUME NEW d \in 1 .. N
      PROVE  /\ d \in found1 <=> /\ g.declarations[d].space = "ORDINARY"
                                 /\ g.declarations[d].name = n
                                 /\ o[d] = 0 \/ o[d] \in D
             /\ d \in found1 =>
                  /\ g.declarations[d].kind # "LINKAGE_ALIAS"
                  /\ g.declarations[d].scope \in 1 .. Len(g.scopes)
                  /\ o[d] = 0 => g.declarations[d].scope = 1
                  /\ o[d] \in D => g.declarations[d].scope = At(q, o[d])
  <2> DEFINE x == g.declarations[d]
  <2>1. MadeBy(t, q, x, o[d], i, F)
    BY <1>6
  <2>2. x.scope \in 1 .. Len(g.scopes) /\ x.order \in Nat /\ x.order <= g.scopes[Root(g, x.scope)].order
    BY <1>2, DeclarationParts
  <2>3. D \subseteq 1 .. i - 1 /\ (0 \notin D) /\ \A j \in D : j # 0
    BY <1>1 DEF Dec
  <2>4. ~x.hidden /\ x.kind # "UNKNOWN" /\ Targeted(g, d) /\ x.kind # "LINKAGE_ALIAS"
    BY <2>1 DEF MadeBy, Shown, Targeted
  <2>5. ASSUME x.space = "ORDINARY", x.name = n, o[d] = 0 \/ o[d] \in D
        PROVE  /\ o[d] = 0 => x.scope = 1
               /\ o[d] \in D => x.scope = At(q, o[d])
    BY <2>1, <2>3, <2>5 DEF MadeBy
  <2>6. ASSUME x.space = "ORDINARY", x.name = n, o[d] = 0 \/ o[d] \in D
        PROVE  x.scope \in Enclosing(g, point.scope) /\ DeclaredBefore(g, d, "ORDINARY", point)
    <3>1. CASE o[d] = 0
      <4>1. x.scope = 1
        BY <2>5, <2>6, <3>1
      <4>2. Root(g, x.scope) # Root(g, point.scope)
        BY <1>3, <1>4, <4>1
      <4> QED BY <1>3, <4>1, <4>2 DEF DeclaredBefore
    <3>2. CASE o[d] \in D
      <4>1. x.scope = At(q, o[d]) /\ o[d] \in 1 .. i - 1 /\ Kept(q, o[d], i)
        BY <2>5, <2>6, <3>2 DEF Dec
      <4>2. PICK l \in 1 .. Lev(q, i) : path[l] = At(q, o[d])
        BY <1>7, <4>1
      <4>3. Root(g, x.scope) = 2
        BY <1>5, <4>1, <4>2
      <4>4. x.order <= point.order
        BY <1>5, <2>2, <4>3
      <4> QED BY <1>3, <4>1, <4>2, <4>4, SMTT(30) DEF DeclaredBefore
    <3> QED BY <2>6, <3>1, <3>2
  <2>7. ASSUME x.space = "ORDINARY", x.name = n, x.scope \in Enclosing(g, point.scope)
        PROVE  o[d] = 0 \/ o[d] \in D
    <3>1. CASE /\ o[d] \in 1 .. i - 1 /\ x.scope = At(q, o[d])
               /\ x.name \in Declares(t[o[d]])
      <4>1. x.scope # 1
        BY <1>7, <3>1
      <4>2. PICK l \in 1 .. Lev(q, i) : path[l] = At(q, o[d])
        BY <1>3, <2>7, <3>1, <4>1
      <4>3. Kept(q, o[d], i)
        BY <1>7, <3>1, <4>2
      <4> QED BY <2>7, <3>1, <4>3 DEF Dec
    <3> QED BY <2>1, <2>7, <3>1 DEF MadeBy
  <2>8. d \in found1 <=> /\ x.scope \in Enclosing(g, point.scope) /\ x.space = "ORDINARY"
                         /\ x.name = n /\ DeclaredBefore(g, d, "ORDINARY", point)
    BY <1>2, <2>4 DEF Matches
  <2> HIDE DEF found1
  <2> QED BY <2>2, <2>4, <2>5, <2>6, <2>7, <2>8
<1>9. found1 \subseteq 1 .. N
  BY <1>2
<1>10. Lookup(g, "ORDINARY", n, point) =
         IF found1 = {} THEN Invalid
         ELSE IF g.declarations[last].kind = "LINKAGE_ALIAS" THEN g.declarations[last].alias ELSE last
  BY DEF Lookup
<1> HIDE DEF found1
<1>11. \A j : Makes(g, o, j, n) /\ (j = 0 \/ j \in D) => \E d \in found1 : o[d] = j
  BY <1>8 DEF Makes
<1>12. found1 # {}
  <2>1. CASE D = {}
    BY <1>6, <1>11, <2>1
  <2>2. CASE D # {}
    BY <1>6, <1>11, <2>2
  <2> QED BY <2>1, <2>2
<1>13. scope \in scopes1 /\ \A s \in scopes1 : s <= scope
  <2>1. scopes1 \subseteq 1 .. Len(g.scopes) /\ scopes1 # {}
    BY <1>8, <1>9, <1>12
  <2>2. Len(g.scopes) \in Nat
    BY <1>2
  <2> HIDE DEF scopes1
  <2> QED BY <2>1, <2>2, InnermostIn
<1>14. last \in lasts /\ \A d \in lasts : d <= last
  <2>1. lasts \subseteq 1 .. N /\ lasts # {}
    <3> HIDE DEF scope
    <3> QED BY <1>9, <1>13
  <2>2. N \in Nat
    BY <1>2
  <2> HIDE DEF lasts, N
  <2> QED BY <2>1, <2>2, InnermostIn
<1> HIDE DEF last, scope
<1>15. /\ last \in found1 /\ last \in 1 .. N /\ g.declarations[last].kind # "LINKAGE_ALIAS"
       /\ \A d \in found1 : g.declarations[d].scope <= g.declarations[last].scope
       /\ \A d \in found1 : g.declarations[d].scope = g.declarations[last].scope => d <= last
  BY <1>8, <1>9, <1>13, <1>14
<1>16. o[last] = Mean(t, q, n, i)
  <2>1. CASE D = {}
    BY <1>8, <1>15, <2>1 DEF Mean
  <2>2. CASE D # {}
    <3>1. Innermost(D) \in D /\ \A j \in D : j <= Innermost(D)
      <4>1. D \subseteq 1 .. i - 1 /\ i - 1 \in Nat
        BY <1>1 DEF Dec
      <4>2. PICK z : z = i - 1
        OBVIOUS
      <4> HIDE DEF D
      <4> QED BY <2>2, <4>1, <4>2, InnermostIn
    <3>2. PICK M : M = Innermost(D)
      OBVIOUS
    <3>3. M \in D /\ M \in 1 .. i - 1 /\ Kept(q, M, i) /\ Mean(t, q, n, i) = M
      BY <2>2, <3>1, <3>2 DEF Dec, Mean
    <3>4. PICK e \in found1 : o[e] = M
      BY <1>6, <1>11, <3>3
    <3>5. g.declarations[e].scope = At(q, M) /\ e \in 1 .. N
      BY <1>8, <1>9, <3>3, <3>4
    <3>6. At(q, M) <= g.declarations[last].scope /\ 2 <= At(q, M) /\ At(q, M) \in Nat
      BY <1>7, <1>15, <3>3, <3>4, <3>5
    <3>7. PICK j : j = o[last]
      OBVIOUS
    <3>8. j \in D /\ g.declarations[last].scope = At(q, j) /\ j \in 1 .. i - 1 /\ Kept(q, j, i) /\ j <= M
      <4>1. j = 0 \/ j \in D
        BY <1>8, <1>15, <3>7
      <4>2. j # 0
        BY <1>8, <1>15, <3>6, <3>7
      <4> QED BY <1>8, <1>15, <3>1, <3>2, <3>7, <4>1, <4>2 DEF Dec
    <3>9. At(q, j) <= At(q, M)
      <4>1. PICK a, b : a = Lev(q, j) /\ b = Lev(q, M)
        OBVIOUS
      <4>2. a <= b /\ a \in 1 .. Lev(q, i) /\ b \in 1 .. Lev(q, i)
        BY <1>7, <3>3, <3>8, <4>1
      <4>3. path[a] = At(q, j) /\ path[b] = At(q, M)
        BY <1>7, <3>3, <3>8, <4>1, <4>2
      <4>4. a < b \/ a = b
        BY <1>7, <3>3, <4>2
      <4> QED BY <1>5, <4>2, <4>3, <4>4
    <3>10. At(q, j) \in Nat /\ At(q, j) = At(q, M)
      BY <1>7, <3>6, <3>8, <3>9
    <3>11. e <= last
      BY <1>15, <3>4, <3>5, <3>8, <3>10
    <3>12. M <= j
      <4>1. e < last \/ e = last
        BY <1>2, <1>15, <3>5, <3>11
      <4> QED BY <1>1, <1>6, <1>15, <3>3, <3>4, <3>5, <3>7, <4>1
    <3> QED BY <1>1, <3>3, <3>7, <3>8, <3>12
  <2> QED BY <2>1, <2>2
<1> QED BY <1>2, <1>3, <1>10, <1>12, <1>15, <1>16

(* The answers so far. *)
Answers(t, q, o, fd) ==
  /\ IsSeq(fd)
  /\ \A u \in 1 .. Len(fd) :
       /\ fd[u].use \in 1 .. Len(t) /\ fd[u].decl \in DOMAIN o /\ fd[u].decl # Invalid
       /\ o[fd[u].decl] = Mean(t, q, t[fd[u].use].name, fd[u].use)

----------------------------------------
(* The header, replayed into the environment of the body. *)

BodyStart == ResetAt([scope |-> 2, order |-> 0], 3)

HeaderParsed(t, e, q) ==
  /\ e \in Environment /\ Numbered(t, q) /\ q[Len(q)] = Now(e) /\ Lists(e.entries, t, q)
  /\ \A j \in 1 .. Len(t) : t[j].kind \in Heads

LEMMA HeaderStart == HeaderParsed(<< >>, BodyStart, <<Now(BodyStart)>>)
<1>1. PICK r, q, t : r = Now(BodyStart) /\ q = <<r>> /\ t = << >>
  OBVIOUS
<1>2. /\ r.path = <<2>> /\ r.next = 3 /\ r.order = 0 /\ BodyStart.entries = << >>
      /\ BodyStart \in Environment
  <2>1. /\ << >> \in Seq(Entry) /\ << >> \in Seq(Nat) /\ 2 \in Nat /\ 3 \in Nat /\ 0 \in Nat
        /\ Append(<< >>, 2) = <<2>>
    OBVIOUS
  <2>2. BodyStart = [entries |-> << >>, stack |-> << >>, current_scope_seq |-> 2,
                     next_scope_id |-> 3, next_declaration_seq |-> 0]
    BY DEF BodyStart, ResetAt
  <2> QED BY <1>1, <2>1, <2>2 DEF Now, Environment
<1>3. IsSeq(q) /\ Len(q) = 1 /\ q[1] = r /\ IsSeq(t) /\ Len(t) = 0
  <2>1. r \in {r} /\ << >> \in Seq({}) /\ Len(<< >>) = 0
    OBVIOUS
  <2>2. <<r>> \in Seq({r}) /\ Len(<<r>>) = 1 /\ <<r>>[1] = r
    OBVIOUS
  <2> QED BY <1>1, <2>1, <2>2 DEF IsSeq
<1>4. Place(r) /\ Len(r.path) = 1 /\ r.path[1] = 2
  <2>1. <<2>> \in Seq(Nat) /\ Len(<<2>>) = 1 /\ <<2>>[1] = 2
    OBVIOUS
  <2>2. Path(<<2>>, 3)
    BY <2>1 DEF Path
  <2> QED BY <1>2, <2>1, <2>2 DEF Place
<1>5. Lev(q, 1) = 1 /\ At(q, 1) = 2 /\ Meet(q, 1, 1)
  BY <1>3, <1>4 DEF Lev, At, Meet, Kept
<1>6. Places(q)
  <2>1. \A a \in 1 .. Len(q) : a = 1
    BY <1>3
  <2>2. r.next <= r.next
    BY <1>2
  <2> QED BY <1>2, <1>3, <1>4, <1>5, <2>1, <2>2 DEF Places
<1>7. \A j \in 1 .. Len(t) : FALSE
  BY <1>3
<1>8. Numbered(t, q)
  <2>1. DepthOf(t, 0) = 0
    BY DepthStep
  <2>2. \A k \in 0 .. Len(t) : DepthOf(t, k) = Lev(q, k + 1) - 1
    BY <1>3, <1>5, <2>1
  <2>3. Len(q) = Len(t) + 1
    BY <1>3
  <2> QED BY <1>3, <1>6, <1>7, <2>2, <2>3 DEF Numbered, Readable
<1>9. Lists(t, t, q)
  <2>1. PICK pos : pos \in [1 .. Len(t) -> 1 .. Len(t)]
    <3>1. [k \in 1 .. Len(t) |-> k] \in [1 .. Len(t) -> 1 .. Len(t)]
      OBVIOUS
    <3> QED BY <3>1
  <2>2. Listed(t, pos, t, q)
    BY <1>7, <2>1 DEF Listed
  <2> QED BY <2>2 DEF Lists
<1> QED BY <1>1, <1>2, <1>3, <1>7, <1>8, <1>9 DEF HeaderParsed

LEMMA HeadParsed ==
  ASSUME NEW t, NEW e, NEW q, HeaderParsed(t, e, q), NEW x, Fine(x), x.kind \in Heads,
         NEW v, NEW new, Announces(v, e, ItemScopes(x), ItemOrders(x), new), PushedFor(new, x, e)
  PROVE  HeaderParsed(Append(t, x), v, Append(q, Now(v)))
<1>1. /\ v \in Environment /\ e \in Environment /\ v.entries = new \o e.entries
      /\ Numbered(t, q) /\ q[Len(q)] = Now(e) /\ Lists(e.entries, t, q)
      /\ Places(q) /\ Len(q) \in 1 .. Len(q) /\ Len(q) = Len(t) + 1 /\ Len(t) \in Nat
  BY SeqParts DEF Announces, HeaderParsed, Numbered, Places, Readable
<1>2. Now(v).path = Now(e).path /\ Follows(Now(e), Now(v), x) /\ Now(v).order \in Nat
  <2>1. Now(v).order \in Nat /\ x.kind \notin {"enter", "leave"}
    BY <1>1, EnvironmentParts DEF Now, Heads
  <2> QED BY <2>1 DEF Announces, Follows, Now
<1>3. e.entries \in Seq(Entry) /\ e.stack \in Seq(Nat) /\ e.current_scope_seq \in Nat
  BY <1>1, EnvironmentParts
<1>4. Len(Now(e).path) = Len(e.stack) + 1 /\ Len(e.stack) \in Nat
  BY <1>3 DEF Now
<1>5. /\ Lev(q, Len(q)) = Len(Now(v).path) /\ Len(e.stack) = Lev(q, Len(q)) - 1
      /\ Len(Now(v).path) \in Nat /\ Lev(q, Len(q)) <= Len(Now(v).path)
  BY <1>1, <1>2, <1>4 DEF Lev
<1>6. Lists(new \o e.entries, Append(t, x), Append(q, Now(v)))
  <2> HIDE DEF Announces, HeaderParsed
  <2> QED BY <1>1, <1>3, <1>5, ListsStep
<1>7. PICK u, w : u = Append(t, x) /\ w = Append(q, Now(v))
  OBVIOUS
<1>8. /\ Numbered(u, w) /\ Len(u) = Len(t) + 1 /\ u[Len(t) + 1] = x
      /\ \A k \in 1 .. Len(t) : u[k] = t[k]
      /\ Len(w) = Len(t) + 2 /\ w[Len(t) + 2] = Now(v)
  <2>1. Follows(q[Len(q)], Now(v), x)
    BY <1>1, <1>2
  <2> QED BY <1>1, <1>2, <1>7, <2>1, NumberedStep
<1>9. \A j \in 1 .. Len(u) : u[j].kind \in Heads
  <2>1. \A j \in 1 .. Len(u) : j \in 1 .. Len(t) \/ j = Len(t) + 1
    BY <1>1, <1>8
  <2> QED BY <1>8, <2>1 DEF HeaderParsed
<1>10. Lists(v.entries, u, w)
  BY <1>1, <1>6, <1>7
<1> QED BY <1>1, <1>7, <1>8, <1>9, <1>10 DEF HeaderParsed

(* One construct of the header is replayed. *)
LEMMA ReplayStep ==
  ASSUME NEW t, NEW e, NEW q, HeaderParsed(t, e, q), NEW x, Fine(x), NEW v,
         \/ x.kind = "return" /\ v = ReplayDeclarator(e, x.parameters)
         \/ /\ x.kind = "parameter"
            /\ v = DeclareName(ReplayDeclarator(ReplaySpecifier(e, x.spec), x.parameters),
                               x.name, FALSE)
  PROVE  HeaderParsed(Append(t, x), v, Append(q, Now(v)))
<1> DEFINE s == x.spec
           ps == x.parameters
           n == x.name
<1>1. /\ e \in Environment /\ s \in Specifier /\ MayTake(ps) /\ x.kind \in Heads
      /\ Scopes(s) \in Nat /\ Orders(s) \in Nat /\ ScopesOf(ps) \in Nat
  BY FineParts DEF HeaderParsed, Fine, Heads
<1>2. CASE x.kind = "return" /\ v = ReplayDeclarator(e, ps)
  <2>1. Announces(v, e, ScopesOf(ps), 0, << >>)
    BY <1>1, <1>2, DeclaratorAnnounces
  <2>2. s.tag = "none" /\ Enumerators(s) = {}
    BY <1>2 DEF Fine, Enumerators
  <2>3. ItemScopes(x) = ScopesOf(ps) /\ ItemOrders(x) = 0 /\ Declares(x) = {}
    BY <1>1, <1>2, <2>2 DEF ItemScopes, ItemOrders, Scopes, Orders, Declares, Naming
  <2>4. PushedFor(<< >>, x, e)
    <3>1. << >> \in Seq(Entry) /\ \A a \in 1 .. Len(<< >>) : FALSE
      OBVIOUS
    <3> QED BY <2>3, <3>1 DEF PushedFor
  <2> QED BY <1>1, <2>1, <2>3, <2>4, HeadParsed
<1>3. CASE /\ x.kind = "parameter"
           /\ v = DeclareName(ReplayDeclarator(ReplaySpecifier(e, s), ps), n, FALSE)
  <2>1. PICK v1, v2, k, o : /\ v1 = ReplaySpecifier(e, s) /\ v2 = ReplayDeclarator(v1, ps)
                            /\ k = Scopes(s) + ScopesOf(ps) /\ o = Orders(s) + 0
    OBVIOUS
  <2>2. Announces(v1, e, Scopes(s), Orders(s), << >>) /\ v1 \in Environment
    BY <1>1, <2>1, ReplaySpecifierAnnounces DEF Announces
  <2>3. Announces(v2, v1, ScopesOf(ps), 0, << >>) /\ v2 \in Environment
    BY <1>1, <2>1, <2>2, DeclaratorAnnounces DEF Announces
  <2>4. Announces(v2, e, k, o, << >>)
    <3>1. PICK z : z = 0 /\ z \in Nat
      OBVIOUS
    <3>2. Announces(v2, e, Scopes(s) + ScopesOf(ps), Orders(s) + z, << >>)
      BY <1>1, <2>2, <2>3, <3>1, AnnouncesThen
    <3> QED BY <2>1, <3>1, <3>2
  <2>5. n \in Ident
    BY <1>3 DEF Fine, Naming
  <2>6. PICK typedef \in BOOLEAN : typedef = FALSE
    OBVIOUS
  <2>7. PICK y : y = Pushed(n, e, typedef)
    OBVIOUS
  <2>8. Announces(v, v2, 0, 1, <<y>>)
    <3>1. Announces(v, v2, 0, 1, <<Pushed(n, v2, typedef)>>)
      BY <1>3, <2>1, <2>3, <2>5, <2>6, DeclareAnnounces
    <3>2. Pushed(n, v2, typedef) = y
      BY <2>4, <2>7 DEF Pushed, Announces
    <3> QED BY <3>1, <3>2
  <2>9. k \in Nat /\ o \in Nat
    BY <1>1, <2>1
  <2>10. Announces(v, e, k + 0, o + 1, <<y>>)
    <3>1. PICK z, a, yy : z = 0 /\ z \in Nat /\ a = 1 /\ a \in Nat /\ yy = <<y>>
      OBVIOUS
    <3>2. Announces(v, v2, z, a, yy)
      BY <2>8, <3>1
    <3>3. Announces(v, e, k + z, o + a, yy)
      BY <1>1, <2>4, <2>9, <3>1, <3>2, AnnouncesThen
    <3> QED BY <3>1, <3>3
  <2>11. k + 0 = ItemScopes(x) /\ o + 1 = ItemOrders(x)
    BY <1>1, <1>3, <2>1 DEF ItemScopes, ItemOrders, Naming
  <2>12. PushedFor(<<y>>, x, e)
    <3>1. y \in Entry
      BY <1>1, <2>5, <2>6, <2>7, PushedEntry
    <3>2. <<y>> \in Seq(Entry) /\ Len(<<y>>) = 1 /\ <<y>>[1] = y
      BY <3>1, OneTuple
    <3>3. y.name = n /\ y.depth = Len(e.stack) /\ ~y.typedef
      BY <2>6, <2>7 DEF Pushed
    <3>4. Declares(x) = Enumerators(s) \cup {n}
      BY <1>3 DEF Declares
    <3>5. \A m \in Declares(x) : Unlisted(x, m) \/ m = n
      BY <1>3, <3>4 DEF Unlisted, Heads
    <3>6. \A a \in 1 .. Len(<<y>>) : a = 1
      BY <3>2
    <3>7. 1 \in 1 .. Len(<<y>>) /\ x.kind # "typedef"
      BY <1>3, <3>2
    <3> QED BY <3>2, <3>3, <3>4, <3>5, <3>6, <3>7 DEF PushedFor
  <2>13. Announces(v, e, ItemScopes(x), ItemOrders(x), <<y>>)
    BY <2>10, <2>11
  <2> QED BY <1>1, <2>12, <2>13, HeadParsed
<1> QED BY <1>2, <1>3

ReplayOne(e, x) ==
  DeclareName(ReplayDeclarator(ReplaySpecifier(e, x.spec), x.parameters), x.name, FALSE)
Replayed(f, t) ==
  f = [k \in 1 .. Len(t) |-> IF k = 1 THEN ReplayDeclarator(BodyStart, t[1].parameters)
                             ELSE ReplayOne(f[k - 1], t[k])]
ReplayedTo(f, t, n) ==
  /\ f = [k \in 1 .. n |-> f[k]] /\ f[1] = ReplayDeclarator(BodyStart, t[1].parameters)
  /\ \A k \in 2 .. n : f[k] = ReplayOne(f[k - 1], t[k])

HeaderKnown(t) ==
  t # << >> =>
    /\ \E f : Replayed(f, t)
    /\ \A f : Replayed(f, t) => \E q : HeaderParsed(t, f[Len(t)], q)

LEMMA ReplayedIs ==
  ASSUME NEW f, NEW t, NEW n \in Nat \ {0}, n = Len(t)
  PROVE  Replayed(f, t) <=> ReplayedTo(f, t, n)
<1> DEFINE R(k) == IF k = 1 THEN ReplayDeclarator(BodyStart, t[1].parameters)
                   ELSE ReplayOne(f[k - 1], t[k])
<1>1. Replayed(f, t) <=> f = [k \in 1 .. n |-> R(k)]
  BY DEF Replayed
<1>2. /\ 1 \in 1 .. n /\ \A k \in 2 .. n : k \in 1 .. n /\ k # 1
      /\ \A k \in 1 .. n : k = 1 \/ k \in 2 .. n
  OBVIOUS
<1>3. /\ R(1) = ReplayDeclarator(BodyStart, t[1].parameters)
      /\ \A k \in 2 .. n : R(k) = ReplayOne(f[k - 1], t[k])
  BY <1>2
<1> HIDE DEF R
<1>4. f = [k \in 1 .. n |-> R(k)] <=> f = [k \in 1 .. n |-> f[k]] /\ \A k \in 1 .. n : f[k] = R(k)
  OBVIOUS
<1> QED BY <1>1, <1>2, <1>3, <1>4 DEF ReplayedTo

LEMMA HeaderKnownStep ==
  ASSUME NEW t, IsSeq(t), HeaderKnown(t), NEW x, Fine(x),
         IF t = << >> THEN x.kind = "return" ELSE x.kind = "parameter"
  PROVE  HeaderKnown(Append(t, x))
<1>1. PICK u, n : u = Append(t, x) /\ n = Len(t)
  OBVIOUS
<1>2. /\ n \in Nat /\ Len(u) = n + 1 /\ u[n + 1] = x /\ \A k \in 1 .. n : u[k] = t[k]
      /\ Len(u) \in Nat \ {0}
  BY <1>1, Longer
<1>3. CASE t = << >>
  <2>1. n = 0 /\ Len(u) = 1 /\ u[1] = x /\ \A k \in 2 .. 1 : FALSE
    BY <1>1, <1>2, <1>3
  <2>2. \E f : Replayed(f, u)
    <3>1. PICK f : f = [k \in 1 .. Len(u) |-> ReplayDeclarator(BodyStart, u[1].parameters)]
      OBVIOUS
    <3>2. f[1] = ReplayDeclarator(BodyStart, u[1].parameters) /\ f = [k \in 1 .. Len(u) |-> f[k]]
      BY <2>1, <3>1
    <3>3. ReplayedTo(f, u, Len(u))
      BY <2>1, <3>2 DEF ReplayedTo
    <3> QED BY <1>2, <3>3, ReplayedIs
  <2>3. ASSUME NEW f, Replayed(f, u)
        PROVE  \E q : HeaderParsed(u, f[Len(u)], q)
    <3>1. f[1] = ReplayDeclarator(BodyStart, x.parameters)
      <4>1. ReplayedTo(f, u, Len(u))
        BY <1>2, <2>3, ReplayedIs
      <4> QED BY <2>1, <4>1 DEF ReplayedTo
    <3>2. HeaderParsed(t, BodyStart, <<Now(BodyStart)>>)
      BY <1>3, HeaderStart
    <3>3. HeaderParsed(Append(t, x), f[1], Append(<<Now(BodyStart)>>, Now(f[1])))
      BY <1>3, <3>1, <3>2, ReplayStep
    <3> QED BY <1>1, <2>1, <3>3
  <2> QED BY <1>1, <2>2, <2>3 DEF HeaderKnown
<1>4. CASE t # << >>
  <2>1. n # 0
    <3>1. PICK S : t \in Seq(S)
      BY DEF IsSeq
    <3> QED BY <1>1, <1>4, <3>1
  <2>2. /\ Len(t) \in Nat \ {0} /\ n + 1 \in 2 .. n + 1 /\ n + 1 - 1 = n
        /\ \A k \in 2 .. n + 1 : k = n + 1 \/ k \in 2 .. n
        /\ \A k \in 2 .. n : k \in 1 .. n /\ k - 1 \in 1 .. n /\ k \in 2 .. n + 1
        /\ 1 \in 1 .. n /\ n \in 1 .. n /\ \A k \in 1 .. n : k \in 1 .. n + 1 /\ k # n + 1
        /\ u[1] = t[1] /\ n + 1 \in 1 .. n + 1
    BY <1>1, <1>2, <2>1
  <2>3. ASSUME NEW f
        PROVE  /\ Replayed(f, u) <=>
                    /\ f = [k \in 1 .. n + 1 |-> f[k]]
                    /\ f[1] = ReplayDeclarator(BodyStart, t[1].parameters)
                    /\ \A k \in 2 .. n : f[k] = ReplayOne(f[k - 1], t[k])
                    /\ f[n + 1] = ReplayOne(f[n], x)
               /\ Replayed(f, t) <=> ReplayedTo(f, t, n)
    <3>1. Replayed(f, t) <=> ReplayedTo(f, t, n)
      BY <1>1, <2>2, ReplayedIs
    <3>2. PICK N : N = n + 1 /\ N \in Nat \ {0}
      BY <1>2
    <3>3. Replayed(f, u) <=> ReplayedTo(f, u, N)
      BY <1>2, <3>2, ReplayedIs
    <3>4. (\A k \in 2 .. N : f[k] = ReplayOne(f[k - 1], u[k]))
          <=> (\A k \in 2 .. n : f[k] = ReplayOne(f[k - 1], t[k])) /\ f[n + 1] = ReplayOne(f[n], x)
      <4>1. /\ \A k \in 2 .. n : k \in 2 .. N /\ u[k] = t[k]
            /\ \A k \in 2 .. N : k = N \/ k \in 2 .. n
            /\ N \in 2 .. N /\ u[N] = x /\ N - 1 = n
        <5>1. (\A k \in 2 .. n : k \in 2 .. N) /\ (\A k \in 2 .. N : k = N \/ k \in 2 .. n)
          BY <2>2, <3>2
        <5>2. \A k \in 2 .. n : u[k] = t[k]
          BY <1>2, <2>2
        <5>3. N \in 2 .. N /\ N - 1 = n
          BY ONLY <2>2, <3>2
        <5>4. u[N] = x
          BY <1>2, <3>2
        <5> QED BY <5>1, <5>2, <5>3, <5>4
      <4>2. (\A k \in 2 .. N : f[k] = ReplayOne(f[k - 1], u[k]))
            <=> (\A k \in 2 .. n : f[k] = ReplayOne(f[k - 1], u[k])) /\ f[N] = ReplayOne(f[N - 1], u[N])
        BY ONLY <4>1
      <4>3. (\A k \in 2 .. n : f[k] = ReplayOne(f[k - 1], u[k]))
            <=> \A k \in 2 .. n : f[k] = ReplayOne(f[k - 1], t[k])
        BY ONLY <4>1
      <4> QED BY <3>2, <4>1, <4>2, <4>3
    <3>5. ReplayedTo(f, u, N) <=>
            /\ f = [k \in 1 .. N |-> f[k]]
            /\ f[1] = ReplayDeclarator(BodyStart, t[1].parameters)
            /\ \A k \in 2 .. N : f[k] = ReplayOne(f[k - 1], u[k])
      BY <2>2 DEF ReplayedTo
    <3> QED BY <3>1, <3>2, <3>3, <3>4, <3>5
  <2>4. \E f : Replayed(f, u)
    <3>1. PICK g : Replayed(g, t)
      BY <1>4 DEF HeaderKnown
    <3>2. PICK f : f = [k \in 1 .. n + 1 |-> IF k = n + 1 THEN ReplayOne(g[n], x) ELSE g[k]]
      OBVIOUS
    <3>3. f = [k \in 1 .. n + 1 |-> f[k]] /\ f[n + 1] = ReplayOne(g[n], x) /\ \A k \in 1 .. n : f[k] = g[k]
      BY <2>2, <3>2
    <3>4. /\ g[1] = ReplayDeclarator(BodyStart, t[1].parameters)
          /\ \A k \in 2 .. n : g[k] = ReplayOne(g[k - 1], t[k])
      BY <2>3, <3>1 DEF ReplayedTo
    <3>5. /\ f[1] = ReplayDeclarator(BodyStart, t[1].parameters) /\ f[n + 1] = ReplayOne(f[n], x)
          /\ \A k \in 2 .. n : f[k] = ReplayOne(f[k - 1], t[k])
      <4>1. f[1] = g[1] /\ f[n] = g[n]
        BY <2>2, <3>3
      <4>2. \A k \in 2 .. n : f[k] = g[k] /\ f[k - 1] = g[k - 1]
        BY <2>2, <3>3
      <4> QED BY <3>3, <3>4, <4>1, <4>2
    <3> QED BY <2>3, <3>3, <3>5
  <2>5. ASSUME NEW f, Replayed(f, u)
        PROVE  \E q : HeaderParsed(u, f[Len(u)], q)
    <3>1. PICK g : g = [k \in 1 .. n |-> f[k]]
      OBVIOUS
    <3>2. g = [k \in 1 .. n |-> g[k]] /\ \A k \in 1 .. n : g[k] = f[k]
      BY <3>1
    <3>3. /\ f[1] = ReplayDeclarator(BodyStart, t[1].parameters)
          /\ \A k \in 2 .. n : f[k] = ReplayOne(f[k - 1], t[k])
          /\ f[n + 1] = ReplayOne(f[n], x)
      BY <2>3, <2>5
    <3>4. Replayed(g, t)
      <4>1. g[1] = f[1] /\ \A k \in 2 .. n : g[k] = f[k] /\ g[k - 1] = f[k - 1]
        BY <2>2, <3>2
      <4>2. ReplayedTo(g, t, n)
        BY <3>2, <3>3, <4>1 DEF ReplayedTo
      <4> QED BY <2>3, <4>2
    <3>5. PICK q : HeaderParsed(t, f[n], q)
      BY <1>1, <1>4, <2>2, <3>2, <3>4 DEF HeaderKnown
    <3>6. HeaderParsed(Append(t, x), f[n + 1], Append(q, Now(f[n + 1])))
      BY <1>4, <3>3, <3>5, ReplayStep DEF ReplayOne
    <3> QED BY <1>1, <1>2, <3>6
  <2> QED BY <1>1, <2>4, <2>5 DEF HeaderKnown
<1> QED BY <1>3, <1>4

LEMMA ReplayHeaderParsed ==
  ASSUME NEW t, t # << >>, HeaderKnown(t)
  PROVE  \E q : HeaderParsed(t, ReplayHeader(BodyStart, t), q)
<1> DEFINE f == CHOOSE f : Replayed(f, t)
<1>1. (\E g : Replayed(g, t)) /\ \A g : Replayed(g, t) => \E q : HeaderParsed(t, g[Len(t)], q)
  BY DEF HeaderKnown
<1>2. Replayed(f, t)
  BY <1>1, Zenon
<1>3. ReplayHeader(BodyStart, t) = f[Len(t)]
  BY Zenon DEF ReplayHeader, Replayed, ReplayOne
<1> HIDE DEF f
<1> QED BY <1>1, <1>2, <1>3

----------------------------------------
(* What holds while a function is parsed and resolved. *)

(* The graph when the body is entered: the file's and the function's scope. *)
AtFunction(g) ==
  /\ Good(g) /\ Len(g.scopes) = 2 /\ g.current = 2 /\ g.scopes[2].order = 0
  /\ Root(g, 2) = 2 /\ g.scopes[2].parent = 1

LEMMA FunctionEntered ==
  ASSUME NEW g, Good(g), Len(g.scopes) = 1, NEW h, h = EnterScope(LeaveAllScopes(g), "FUNCTION")
  PROVE  /\ AtFunction(h) /\ h.declarations = g.declarations
         /\ ResetAt(LookupPoint(h), NextScope(h)) = BodyStart
<1>1. PICK f, x, ss, k : /\ f = LeaveAllScopes(g) /\ k = "FUNCTION"
                         /\ x = [parent |-> 1, root |-> 2, kind |-> k, order |-> 0]
                         /\ ss = Append(g.scopes, x)
  OBVIOUS
<1>2. /\ g \in Graph /\ g.scopes \in Seq(Scope) /\ Good(f)
      /\ f.scopes = g.scopes /\ f.declarations = g.declarations /\ f.current = 1
  <2>1. f = [scopes |-> g.scopes, declarations |-> g.declarations, current |-> 1]
    BY <1>1, GraphParts, ExceptParts DEF LeaveAllScopes, TranslationUnit
  <2> QED BY <1>1, <2>1, GraphParts, LeaveAllScopesGood
<1>3. CreateScopeAt(f, 1, k) = [f EXCEPT !.scopes = ss] /\ NextScope(f) = 2
  <2>1. NextScope(f) = 2
    <3>1. NextScope(f) = 1 + 1
      BY <1>2, Zenon DEF NextScope
    <3> QED BY <3>1
  <2> QED BY <1>1, <1>2, <2>1 DEF CreateScopeAt, OrderRoot
<1>4. h = [[f EXCEPT !.scopes = ss] EXCEPT !.current = 2] /\ Good(h)
  <2>1. h = EnterScope(f, k) /\ k \in ScopeKind
    BY <1>1 DEF ScopeKind
  <2>2. h = [CreateScopeAt(f, f.current, k) EXCEPT !.current = NextScope(f)]
    BY <2>1 DEF EnterScope
  <2>3. Good(EnterScope(f, k))
    BY <1>2, <2>1, EnterScopeGood
  <2> QED BY <1>2, <1>3, <2>1, <2>2, <2>3, Zenon
<1>5. h.scopes = ss /\ h.current = 2 /\ h.declarations = g.declarations
  BY <1>2, <1>4, GraphParts DEF Graph
<1>6. Len(ss) = 2 /\ ss[2] = x
  BY <1>1, <1>2, Longer DEF IsSeq
<1>7. Root(h, 2) = 2 /\ h.scopes[2].order = 0 /\ h.scopes[2].parent = 1 /\ Len(h.scopes) = 2
  <2>1. x.root = 2 /\ x.order = 0 /\ x.parent = 1
    BY <1>1
  <2> QED BY <1>5, <1>6, <2>1 DEF Root
<1>8. LookupPoint(h) = [scope |-> 2, order |-> 0] /\ NextScope(h) = 3
  <2>1. LookupPoint(h) = [scope |-> 2, order |-> h.scopes[2].order]
    BY <1>5, <1>7, Zenon DEF LookupPoint
  <2>2. NextScope(h) = 2 + 1
    BY <1>7, Zenon DEF NextScope
  <2> QED BY <1>7, <2>1, <2>2
<1> QED BY <1>4, <1>5, <1>7, <1>8 DEF AtFunction, BodyStart

LEMMA FunctionPlaced ==
  ASSUME NEW g, AtFunction(g), NEW q, Places(q)
  PROVE  Placed(q, g, 1)
<1>1. /\ q[1].path = <<2>> /\ q[1].next = 3 /\ q[1].order \in Nat
      /\ Len(<<2>>) = 1 /\ <<2>>[1] = 2
  BY DEF Places, Place
<1>2. At(q, 1) = 2
  BY <1>1 DEF At, Lev
<1>3. Enclosing(g, 2) = {1, 2}
  <2>1. Enclosing(g, 2) = {2} \cup Enclosing(g, 1)
    BY EnclosingStep DEF AtFunction
  <2>2. PICK f : IsChain(g, f, 1) /\ Enclosing(g, 1) = f[1]
    BY EnclosingIs DEF AtFunction
  <2>3. f[1] = {1}
    BY <2>2, ChainLaw
  <2> QED BY <2>1, <2>2, <2>3
<1>4. OnPath(<<2>>, g)
  <2>1. /\ \A m \in 1 .. Len(<<2>>) : m = 1
        /\ {<<2>>[l] : l \in 1 .. 1} = {2} /\ 2 \in 1 .. Len(g.scopes)
    BY <1>1 DEF AtFunction
  <2> QED BY <1>1, <1>3, <2>1 DEF OnPath, AtFunction
<1> QED BY <1>1, <1>2, <1>4 DEF Placed, AtFunction

FileLaw(g, o, F) ==
  FileNames(g, o, F) /\ \A t, q : Attributed(t, q, g, o, 1, F)

Unread == found = << >> /\ at = 1

HeaderInv(F) ==
  /\ pc = "header" /\ Unread /\ Readable(text) /\ (\A j \in 1 .. Len(text) : text[j].kind \in Heads)
  /\ HeaderKnown(text) /\ OuterLaw(text, outer, F)
  /\ Good(built) /\ Len(built.scopes) = 1 /\ FileLaw(built, origin, F)
BodyInv(F) ==
  /\ pc = "body" /\ Unread /\ (\E q : Parsed(text, env, q, outer, F))
  /\ AtFunction(built) /\ FileLaw(built, origin, F)
ResolveInv(F) ==
  /\ pc = "resolve" /\ at \in 1 .. Len(text) + 1
  /\ \E q : /\ Parsed(text, env, q, outer, F) /\ Placed(q, built, at)
            /\ Attributed(text, q, built, origin, at, F) /\ Answers(text, q, origin, found)
DoneInv(F) ==
  pc = "done" /\ \E q : Parsed(text, env, q, outer, F) /\ Answers(text, q, origin, found)
MeaningInv == \E F : HeaderInv(F) \/ BodyInv(F) \/ ResolveInv(F) \/ DoneInv(F)

LEMMA MeaningInit == NamesInit => \E F : HeaderInv(F)
<1> SUFFICES ASSUME NamesInit
             PROVE  \E F : HeaderInv(F)
  OBVIOUS
<1>1. /\ pc = "header" /\ Unread /\ text = << >> /\ HeaderKnown(text) /\ Len(text) = 0
      /\ origin = [d \in DOMAIN built.declarations |-> 0]
  <2>1. text = << >> /\ Len(<< >>) = 0
    BY DEF NamesInit
  <2> QED BY <2>1 DEF NamesInit, Unread, HeaderKnown
<1>2. Readable(text) /\ (\A j \in 1 .. Len(text) : FALSE) /\ OuterLaw(text, outer, outer)
  <2>1. << >> \in Seq({}) /\ \A j \in 1 .. Len(text) : FALSE
    BY <1>1
  <2>2. IsSeq(text)
    BY <1>1, <2>1 DEF IsSeq
  <2> QED BY <2>1, <2>2 DEF Readable, OuterLaw
<1>3. /\ Good(built) /\ Len(built.scopes) = 1 /\ Len(built.declarations) \in Nat
      /\ DOMAIN built.declarations = 1 .. Len(built.declarations)
      /\ \A d, e \in 1 .. Len(built.declarations) : d = e
      /\ \A d \in 1 .. Len(built.declarations) :
           LET D == built.declarations[d]
           IN /\ Shown(D) /\ D.kind = "TYPEDEF" /\ D.space = "ORDINARY" /\ D.scope = 1
              /\ D.name \in outer
      /\ \A n \in outer : \E d \in 1 .. Len(built.declarations) :
           built.declarations[d].name = n
  <2>1. CASE outer = {}
    <3>1. built = EmptyGraph
      BY <2>1 DEF NamesInit
    <3>2. \A d \in 1 .. Len(built.declarations) : FALSE
      BY <3>1, EmptyGood
    <3> QED BY <2>1, <3>1, <3>2, EmptyGood, GraphParts
  <2>2. CASE outer # {}
    <3>1. PICK n \in Ident : outer = {n}
      BY <2>2 DEF NamesInit
    <3>2. built = Declare(EmptyGraph, "ORDINARY", "TYPEDEF", n)
      <4>1. (CHOOSE m \in outer : TRUE) = n
        BY <3>1
      <4> QED BY <2>2, <4>1 DEF NamesInit
    <3>3. PICK g, z, s, k : /\ g = EmptyGraph /\ z = 1 /\ s = "ORDINARY" /\ k = "TYPEDEF"
                            /\ z \in 1 .. 1
      OBVIOUS
    <3>4. /\ Good(g) /\ Len(g.declarations) = 0 /\ Len(g.scopes) = 1 /\ g.current = z
          /\ s \in NameSpace /\ k \in DeclKind /\ k # "LINKAGE_ALIAS" /\ n \in Name
          /\ z \in 1 .. Len(g.scopes)
      BY <3>3, EmptyGood, NamesAssumption DEF NameSpace, DeclKind
    <3>5. PICK h : h = DeclareAt(g, z, s, k, n)
      OBVIOUS
    <3>6. Good(h) /\ Len(h.scopes) = Len(g.scopes)
      BY <3>4, <3>5, DeclareGood
    <3>7. Adds(h.declarations, g.declarations, z, s, k, n, Invalid) /\ Shown(h.declarations[0 + 1])
      BY <3>4, <3>5, AppendEffect DEF DeclareAt
    <3>11. built = h
      BY <3>2, <3>3, <3>4, <3>5 DEF Declare
    <3>8. Len(built.declarations) = 1 /\ DOMAIN built.declarations = 1 .. 1
      BY <3>4, <3>7, <3>11 DEF Adds
    <3>9. LET D == built.declarations[1]
          IN Shown(D) /\ D.kind = k /\ D.space = s /\ D.scope = z /\ D.name = n
      BY <3>4, <3>7, <3>11 DEF Adds
    <3>10. 1 \in 1 .. 1 /\ \A d \in 1 .. 1 : d = 1
      OBVIOUS
    <3> QED BY <3>1, <3>3, <3>4, <3>6, <3>8, <3>9, <3>10, <3>11
  <2> QED BY <2>1, <2>2
<1>4. FileLaw(built, origin, outer)
  <2>1. \A d \in 1 .. Len(built.declarations) : origin[d] = 0
    BY <1>1, <1>3
  <2>2. FileNames(built, origin, outer)
    BY <1>3 DEF FileNames
  <2>3. ASSUME NEW t, NEW q
        PROVE  Attributed(t, q, built, origin, 1, outer)
    <3>1. \A d \in 1 .. Len(built.declarations) :
            MadeBy(t, q, built.declarations[d], origin[d], 1, outer)
      BY <1>3, <2>1 DEF MadeBy
    <3>2. \A n \in outer : Makes(built, origin, 0, n)
      BY <1>3, <2>1 DEF Makes
    <3>3. (\A j \in 1 .. 1 - 1 : FALSE) /\ DOMAIN origin = 1 .. Len(built.declarations)
      BY <1>1, <1>3
    <3>4. \A d, e \in 1 .. Len(built.declarations) : d < e => origin[d] <= origin[e]
      BY <2>1
    <3> QED BY <3>1, <3>2, <3>3, <3>4 DEF Attributed
  <2> QED BY <2>2, <2>3 DEF FileLaw
<1> QED BY <1>1, <1>2, <1>3, <1>4 DEF HeaderInv

(* A construct of the header is read. *)
LEMMA HeaderStep ==
  ASSUME Announced, NEW F, HeaderInv(F), ReturnType \/ Parameter
  PROVE  HeaderInv(F)'
<1>1. PICK kind, n, y : /\ y \in Returns \cup Parameters /\ ParseHeader(Item(kind, n, y))
                        /\ IF text = << >> THEN kind = "return" /\ y \in Returns
                           ELSE kind = "parameter" /\ n \in Ident
  BY DEF ReturnType, Parameter
<1>2. PICK x : x = Item(kind, n, y)
  OBVIOUS
<1>3. x.kind = kind /\ x.name = n /\ x.spec = y.spec /\ x.parameters = y.parameters
  BY <1>2, ItemParts
<1>4. /\ y \in Shape /\ \A p \in DOMAIN y.parameters : y.parameters[p].tag # "enum"
      /\ y \in Returns => y.spec.tag = "none"
  BY <1>1, NamesAssumption DEF Announced
<1>5. Fine(x) /\ x.kind \in Heads /\ IF text = << >> THEN x.kind = "return" ELSE x.kind = "parameter"
  <2>1. y.spec \in Specifier /\ MayTake(y.parameters)
    BY <1>4, ShapeFine
  <2> QED BY <1>1, <1>3, <1>4, <2>1 DEF Fine, Kinds, Heads, Naming
<1>6. /\ text' = Append(text, x) /\ UNCHANGED <<pc, built, at, found, origin>>
      /\ outer' = outer \ UNION {Enumerators(s) : s \in Specifiers(x)}
  BY <1>1, <1>2 DEF ParseHeader, Parse
<1>7. UNION {Enumerators(s) : s \in Specifiers(x)} = Enumerators(x.spec)
  <2>1. \A p \in DOMAIN x.parameters : Enumerators(x.parameters[p]) = {}
    BY <1>3, <1>4 DEF Enumerators
  <2> QED BY <2>1 DEF Specifiers
<1>8. PICK u, k : u = Append(text, x) /\ k = Len(text)
  OBVIOUS
<1>9. /\ IsSeq(text) /\ IsSeq(u) /\ k \in Nat /\ Len(u) = k + 1 /\ u[k + 1] = x
      /\ \A j \in 1 .. k : u[j] = text[j]
      /\ \A j \in 1 .. Len(u) : j \in 1 .. k \/ j = k + 1
      /\ \A j \in 1 .. k : j \in 1 .. Len(u)
      /\ k + 1 \in 1 .. Len(u)
  <2>1. IsSeq(text)
    BY DEF HeaderInv, Readable
  <2>2. IsSeq(u) /\ k \in Nat /\ Len(u) = k + 1 /\ u[k + 1] = x /\ \A j \in 1 .. k : u[j] = text[j]
    BY <1>8, <2>1, Longer
  <2> QED BY <2>1, <2>2
<1>10. Readable(u) /\ \A j \in 1 .. Len(u) : u[j].kind \in Heads
  BY <1>5, <1>8, <1>9 DEF HeaderInv, Readable
<1>11. HeaderKnown(u)
  BY <1>5, <1>8, <1>9, HeaderKnownStep DEF HeaderInv
<1>12. OuterLaw(u, outer', F)
  <2>1. \A m : m \in outer' <=> m \in outer /\ m \notin Enumerators(x.spec)
    BY <1>6, <1>7
  <2>2. \A m : Unlisted(x, m) <=> m \in Enumerators(x.spec)
    BY <1>5 DEF Unlisted
  <2>3. \A m : m \in outer <=> m \in F /\ \A j \in 1 .. k : ~Unlisted(text[j], m)
    BY <1>8 DEF HeaderInv, OuterLaw
  <2>4. \A m : (\A j \in 1 .. Len(u) : ~Unlisted(u[j], m)) <=>
          (\A j \in 1 .. k : ~Unlisted(text[j], m)) /\ ~Unlisted(x, m)
    BY <1>9
  <2> QED BY <2>1, <2>2, <2>3, <2>4 DEF OuterLaw
<1> QED BY <1>6, <1>8, <1>10, <1>11, <1>12 DEF HeaderInv, Unread

(* The body is entered, with the environment the header leads to. *)
LEMMA StartBodyStep ==
  ASSUME NEW F, HeaderInv(F), StartBody
  PROVE  BodyInv(F)'
<1>1. PICK h : h = EnterScope(LeaveAllScopes(built), "FUNCTION")
  OBVIOUS
<1>2. /\ AtFunction(h) /\ h.declarations = built.declarations
      /\ ResetAt(LookupPoint(h), NextScope(h)) = BodyStart
  BY <1>1, FunctionEntered DEF HeaderInv
<1>3. /\ text # << >> /\ pc' = "body" /\ built' = h /\ env' = ReplayHeader(BodyStart, text)
      /\ UNCHANGED <<text, outer, at, found, origin>>
  BY <1>1, <1>2 DEF StartBody
<1>4. PICK q : HeaderParsed(text, env', q)
  BY <1>3, ReplayHeaderParsed DEF HeaderInv
<1>5. HeadsFirst(text) /\ UsesKnown(text, q, F)
  BY DEF HeaderInv, HeadsFirst, UsesKnown, Heads
<1>6. Parsed(text, env', q, outer, F)
  BY <1>4, <1>5 DEF HeaderParsed, Parsed, HeaderInv
<1>7. FileLaw(h, origin, F)
  <2>1. FileLaw(built, origin, F)
    BY DEF HeaderInv
  <2>2. FileNames(h, origin, F)
    BY <1>2, <2>1 DEF FileLaw, FileNames
  <2>3. ASSUME NEW t, NEW w
        PROVE  Attributed(t, w, h, origin, 1, F)
    <3>1. Attributed(t, w, built, origin, 1, F)
      BY <2>1 DEF FileLaw
    <3>2. \A j, n : Makes(h, origin, j, n) <=> Makes(built, origin, j, n)
      BY <1>2 DEF Makes
    <3> QED BY <1>2, <3>1, <3>2 DEF Attributed
  <2> QED BY <2>2, <2>3 DEF FileLaw
<1> QED BY <1>2, <1>3, <1>6, <1>7 DEF BodyInv, HeaderInv, Unread

LEMMA EndBodyStep ==
  ASSUME NEW F, BodyInv(F), EndBody
  PROVE  ResolveInv(F)'
<1>1. PICK q : Parsed(text, env, q, outer, F)
  BY DEF BodyInv
<1>2. Placed(q, built, 1) /\ Len(text) \in Nat
  BY <1>1, FunctionPlaced, SeqParts DEF BodyInv, Parsed, Numbered, Readable
<1>3. Attributed(text, q, built, origin, 1, F) /\ found = << >> /\ at = 1
  BY DEF BodyInv, FileLaw, Unread
<1>4. Answers(text, q, origin, found)
  <2>1. << >> \in Seq({}) /\ \A u \in 1 .. Len(<< >>) : FALSE
    OBVIOUS
  <2> QED BY <1>3, <2>1 DEF Answers, IsSeq
<1>5. 1 \in 1 .. Len(text) + 1
  BY <1>2
<1>6. pc' = "resolve" /\ UNCHANGED <<text, outer, env, built, at, found, origin>>
  BY DEF EndBody
<1> QED BY <1>1, <1>2, <1>3, <1>4, <1>5, <1>6 DEF ResolveInv

(* The construct the resolver is at has grown the graph to h, on account of *)
(* construct j.                                                             *)
LEMMA ResolvedStep ==
  ASSUME NEW F, pc = "resolve", NEW i \in 1 .. Len(text), i = at,
         NEW q, Parsed(text, env, q, outer, F), Attributed(text, q, built, origin, i, F),
         NEW h, NEW j, Resolved(h, j), Placed(q, h, i + 1),
         NEW k, NEW m, Grown(h, built, At(q, i), k, m, Declares(text[i])),
         j = i \/ h.declarations = built.declarations,
         NEW fd, found' = fd, Answers(text, q, origin, fd)
  PROVE  ResolveInv(F)'
<1>1. PICK o : o = origin'
  OBVIOUS
<1>2. /\ built' = h /\ at' = i + 1 /\ UNCHANGED <<pc, text, outer, env>>
      /\ o = [d \in DOMAIN h.declarations |-> IF d \in DOMAIN origin THEN origin[d] ELSE j]
  BY <1>1 DEF Resolved
<1>3. /\ Len(h.declarations) \in Nat /\ Len(built.declarations) \in Nat
      /\ DOMAIN h.declarations = 1 .. Len(h.declarations)
      /\ DOMAIN origin = 1 .. Len(built.declarations)
      /\ Len(built.declarations) <= Len(h.declarations)
  BY GraphParts DEF Grown, Attributed
<1>4. /\ \A d \in 1 .. Len(built.declarations) : d \in 1 .. Len(h.declarations)
      /\ \A d \in Len(built.declarations) + 1 .. Len(h.declarations) :
           d \in 1 .. Len(h.declarations) /\ d \notin 1 .. Len(built.declarations) /\ j = i
  BY <1>3
<1>5. Origins(o, origin, h, built, i)
  BY <1>2, <1>3, <1>4 DEF Origins
<1>6. i \in Nat \ {0} /\ i + 1 \in 1 .. Len(text) + 1
  BY SeqParts DEF Parsed, Numbered, Readable
<1>7. Attributed(text, q, h, o, i + 1, F)
  BY <1>3, <1>5, <1>6, AttributedStep
<1>8. Answers(text, q, o, fd)
  BY <1>2, <1>3, <1>4 DEF Answers
<1> QED BY <1>1, <1>2, <1>6, <1>7, <1>8 DEF ResolveInv

LEMMA ResolveStep ==
  ASSUME NEW F, ResolveInv(F),
         \/ ResolveHeader \/ ResolveDeclared \/ ResolveTypeName \/ ResolveEnter
         \/ ResolveLeave \/ ResolveUse
  PROVE  ResolveInv(F)'
<1>1. PICK q : /\ Parsed(text, env, q, outer, F) /\ Placed(q, built, at)
               /\ Attributed(text, q, built, origin, at, F) /\ Answers(text, q, origin, found)
  BY DEF ResolveInv
<1>2. PICK i, x : i = at /\ x = text[i]
  OBVIOUS
<1>3. /\ pc = "resolve" /\ i \in 1 .. Len(text) /\ Numbered(text, q) /\ Fine(x)
      /\ Places(q) /\ i \in 1 .. Len(q)
  <2>1. at \in 1 .. Len(text) + 1 /\ at <= Len(text) /\ pc = "resolve"
    BY DEF ResolveInv, ResolveHeader, ResolveDeclared, ResolveTypeName, ResolveEnter,
           ResolveLeave, ResolveUse, Resolves
  <2>2. Numbered(text, q) /\ Len(text) \in Nat /\ Len(q) = Len(text) + 1 /\ Places(q)
    BY <1>1, SeqParts DEF Parsed, Numbered, Readable
  <2>3. i \in 1 .. Len(text) /\ i \in 1 .. Len(q)
    BY <1>2, <2>1, <2>2
  <2> QED BY <1>2, <2>1, <2>2, <2>3 DEF Numbered, Readable
<1>4. /\ Good(built) /\ 2 <= Len(built.scopes) /\ built.current = At(q, i)
      /\ Root(built, built.current) = 2
  <2>1. Root(built, built.current) = 2
    BY <1>1, <1>2, <1>3, PathTop
  <2> QED BY <1>1, <1>2, <2>1 DEF Placed
<1>5. ASSUME NEW h, NEW j, Resolved(h, j), Placed(q, h, i + 1),
             NEW k, NEW m, Grown(h, built, At(q, i), k, m, Declares(x)),
             j = i \/ h.declarations = built.declarations,
             NEW fd, found' = fd, Answers(text, q, origin, fd)
      PROVE  ResolveInv(F)'
  BY <1>1, <1>2, <1>3, <1>5, ResolvedStep
<1>6. ASSUME NEW h, Resolved(h, i), x.kind \notin {"enter", "leave"}, h.current = built.current,
             Grown(h, built, built.current, ItemScopes(x), ItemOrders(x), Declares(x)),
             NEW fd, found' = fd, Answers(text, q, origin, fd)
      PROVE  ResolveInv(F)'
  <2>1. Placed(q, h, i + 1)
    BY <1>1, <1>2, <1>3, <1>6, PlacedPlain
  <2> QED BY <1>4, <1>5, <1>6, <2>1
<1>7. CASE ResolveHeader
  <2>1. PICK h : h = ApplyDeclarator(ApplySpecifier(built, x.spec), x.parameters)
    OBVIOUS
  <2>2. Resolved(h, i) /\ x.kind = "return" /\ found' = found
    BY <1>2, <1>7, <2>1 DEF ResolveHeader, Resolves, Here
  <2>3. /\ Grown(h, built, built.current, ItemScopes(x), ItemOrders(x), Declares(x))
        /\ h.current = built.current
    BY <1>3, <1>4, <2>1, <2>2, ReturnGrown
  <2> QED BY <1>1, <1>6, <2>2, <2>3
<1>8. CASE ResolveDeclared
  <2>1. PICK h : h = ResolveDeclaration(built, x)
    OBVIOUS
  <2>2. Resolved(h, i) /\ x.kind \in Naming /\ x.kind \notin {"enter", "leave"} /\ found' = found
    BY <1>2, <1>8, <2>1 DEF ResolveDeclared, Resolves, Here, Naming
  <2>3. /\ Grown(h, built, built.current, ItemScopes(x), ItemOrders(x), Declares(x))
        /\ h.current = built.current
    BY <1>3, <1>4, <2>1, <2>2, DeclarationGrown
  <2> QED BY <1>1, <1>6, <2>2, <2>3
<1>9. CASE ResolveTypeName
  <2>1. PICK h : h = ApplyTypeName(built, x.spec)
    OBVIOUS
  <2>2. Resolved(h, i) /\ x.kind \in {"type_name", "cast"} /\ found' = found
    BY <1>2, <1>9, <2>1 DEF ResolveTypeName, Resolves, Here
  <2>3. /\ Grown(h, built, built.current, ItemScopes(x), ItemOrders(x), Declares(x))
        /\ h.current = built.current
    BY <1>3, <1>4, <2>1, <2>2, TypeNameGrown
  <2> QED BY <1>1, <1>6, <2>2, <2>3
<1>10. CASE ResolveEnter
  <2>1. PICK h : h = EnterScope(built, "BLOCK")
    OBVIOUS
  <2>2. Resolved(h, i) /\ x.kind = "enter" /\ found' = found
    BY <1>2, <1>10, <2>1 DEF ResolveEnter, Resolves, Here
  <2>3. Placed(q, h, i + 1) /\ (\A c : Grown(h, built, c, 1, 0, {})) /\ Declares(x) = {}
    BY <1>1, <1>2, <1>3, <2>1, <2>2, PlacedEnter, FineParts
  <2> QED BY <1>1, <1>5, <2>2, <2>3
<1>11. CASE ResolveLeave
  <2>1. PICK h, j : h = LeaveScope(built) /\ j = Opener(i)
    OBVIOUS
  <2>2. x.kind = "leave" /\ found' = found /\ Resolved(LeaveScope(ApplyTypeName(built, text[j].spec)), j)
    BY <1>2, <1>11, <2>1 DEF ResolveLeave, Resolves, Here
  <2>3. ApplyTypeName(built, text[j].spec) = built
    <3>1. j \in 1 .. i - 1 /\ text[j].kind = "enter"
      BY <1>2, <1>3, <2>1, <2>2, OpenerIs
    <3>2. j \in 1 .. Len(text)
      BY <1>3, <3>1, SeqParts DEF Numbered, Readable
    <3>3. Fine(text[j])
      BY <1>3, <3>2 DEF Numbered, Readable
    <3>4. text[j].spec.tag \in {"none", "reference"}
      BY <3>1, <3>3 DEF Fine
    <3> QED BY <3>4 DEF ApplyTypeName, ApplySpecifier
  <2>4. Placed(q, h, i + 1) /\ (\A c : Grown(h, built, c, 0, 0, {})) /\ Declares(x) = {}
    BY <1>1, <1>2, <1>3, <2>1, <2>2, PlacedLeave, FineParts
  <2>5. h.declarations = built.declarations
    BY <1>4, <2>1, GraphParts, ExceptParts DEF LeaveScope
  <2> QED BY <1>1, <1>5, <2>1, <2>2, <2>3, <2>4, <2>5
<1>12. CASE ResolveUse
  <2>1. /\ x.kind = "use" /\ Resolved(built, i)
        /\ found' = Append(found, [use |-> i,
             decl |-> IF x.point.scope \in DOMAIN built.scopes
                      THEN Lookup(built, "ORDINARY", x.name, x.point) ELSE Invalid])
    BY <1>2, <1>12 DEF ResolveUse, Resolves, Here
  <2>2. /\ x.point.scope = At(q, i) /\ x.point.order = q[i].order /\ x.name \in Ident
        /\ Dec(text, q, x.name, i) # {} \/ x.name \in F
    BY <1>1, <1>2, <1>3, <2>1 DEF Numbered, Noted, Heads, Fine, Parsed, UsesKnown
  <2>3. PICK n, p : n = x.name /\ p = x.point
    OBVIOUS
  <2>4. /\ p.scope \in DOMAIN built.scopes
        /\ \E d \in 1 .. Len(built.declarations) :
             Lookup(built, "ORDINARY", n, p) = d /\ origin[d] = Mean(text, q, n, i)
    BY <1>1, <1>2, <1>3, <2>2, <2>3, LookupMeans
  <2>5. PICK d \in 1 .. Len(built.declarations) :
          Lookup(built, "ORDINARY", n, p) = d /\ origin[d] = Mean(text, q, n, i)
    BY <2>4
  <2>6. PICK r, fd : r = [use |-> i, decl |-> d] /\ fd = Append(found, r)
    OBVIOUS
  <2>7. found' = fd
    BY <2>1, <2>3, <2>4, <2>5, <2>6
  <2>8. Answers(text, q, origin, fd)
    <3>1. /\ IsSeq(fd) /\ Len(found) \in Nat /\ Len(fd) = Len(found) + 1
          /\ fd[Len(found) + 1] = r /\ \A u \in 1 .. Len(found) : fd[u] = found[u]
      BY <1>1, <2>6, Longer DEF Answers
    <3>2. \A u \in 1 .. Len(fd) : u \in 1 .. Len(found) \/ u = Len(found) + 1
      BY <3>1
    <3>3. r.use = i /\ r.decl = d /\ d \in DOMAIN origin /\ d # Invalid
      BY <1>1, <2>6 DEF Attributed, Invalid
    <3> QED BY <1>1, <1>2, <1>3, <2>3, <2>5, <3>1, <3>2, <3>3 DEF Answers
  <2>9. Grown(built, built, built.current, 0, ItemOrders(x), {}) /\ ItemScopes(x) = 0 /\ Declares(x) = {}
    BY <1>3, <1>4, <2>1, FineParts, GrownSame
  <2> QED BY <1>6, <2>1, <2>7, <2>8, <2>9
<1> QED BY <1>7, <1>8, <1>9, <1>10, <1>11, <1>12

LEMMA MeaningStep ==
  ASSUME Announced, MeaningInv, [NamesNext]_resolution
  PROVE  MeaningInv'
<1>1. PICK F : HeaderInv(F) \/ BodyInv(F) \/ ResolveInv(F) \/ DoneInv(F)
  BY DEF MeaningInv
<1>2. /\ HeaderInv(F) => pc = "header"
      /\ BodyInv(F) => pc = "body"
      /\ ResolveInv(F) => pc = "resolve"
      /\ DoneInv(F) => pc = "done"
  BY DEF HeaderInv, BodyInv, ResolveInv, DoneInv
<1>3. HeaderInv(F)' \/ BodyInv(F)' \/ ResolveInv(F)' \/ DoneInv(F)' => MeaningInv'
  BY DEF MeaningInv
<1>4. CASE UNCHANGED resolution
  BY <1>1, <1>3, <1>4 DEF resolution, HeaderInv, BodyInv, ResolveInv, DoneInv, Unread
<1>5. CASE ReturnType \/ Parameter
  <2>1. pc = "header"
    BY <1>5 DEF ReturnType, Parameter, ParseHeader
  <2> QED BY <1>1, <1>2, <1>3, <1>5, <2>1, HeaderStep
<1>6. CASE StartBody
  <2>1. pc = "header"
    BY <1>6 DEF StartBody
  <2> QED BY <1>1, <1>2, <1>3, <1>6, <2>1, StartBodyStep
<1>7. CASE Local \/ Enter \/ Leave \/ Use \/ TypeName \/ Cast
  <2>1. pc = "body"
    BY <1>7 DEF Local, LocalDeclaration, Enter, Leave, Use, TypeName, Cast, ParseBody
  <2>2. BodyInv(F) /\ FileNames(built, origin, F)
    BY <1>1, <1>2, <2>1 DEF BodyInv, FileLaw
  <2>3. PICK q : Parsed(text, env, q, outer, F)
    BY <2>2 DEF BodyInv
  <2>4. ReadOn(F)
    BY <1>7, <2>2, <2>3, BodyStep
  <2> QED BY <1>3, <2>2, <2>4 DEF ReadOn, BodyInv, Unread
<1>8. CASE EndBody
  <2>1. pc = "body"
    BY <1>8 DEF EndBody
  <2> QED BY <1>1, <1>2, <1>3, <1>8, <2>1, EndBodyStep
<1>9. CASE \/ ResolveHeader \/ ResolveDeclared \/ ResolveTypeName \/ ResolveEnter
           \/ ResolveLeave \/ ResolveUse
  <2>1. pc = "resolve"
    BY <1>9 DEF ResolveHeader, ResolveDeclared, ResolveTypeName, ResolveEnter, ResolveLeave,
                ResolveUse, Resolves
  <2> QED BY <1>1, <1>2, <1>3, <1>9, <2>1, ResolveStep
<1>10. CASE Finish
  BY <1>1, <1>2, <1>3, <1>10 DEF Finish, ResolveInv, DoneInv
<1> QED BY <1>4, <1>5, <1>6, <1>7, <1>8, <1>9, <1>10 DEF NamesNext

LEMMA MeaningAlways == Announced => (NamesSpec => []MeaningInv)
<1> SUFFICES ASSUME Announced
             PROVE  NamesSpec => []MeaningInv
  OBVIOUS
<1>1. NamesInit => MeaningInv
  BY MeaningInit DEF MeaningInv
<1>2. MeaningInv /\ [NamesNext]_resolution => MeaningInv'
  BY MeaningStep
<1> QED BY <1>1, <1>2, PTL DEF NamesSpec

LEMMA MeaningGives == MeaningInv => UsesMean /\ TypedefsKnown /\ NumbersAgree
<1> SUFFICES ASSUME MeaningInv
             PROVE  UsesMean /\ TypedefsKnown /\ NumbersAgree
  OBVIOUS
<1>1. PICK F : HeaderInv(F) \/ BodyInv(F) \/ ResolveInv(F) \/ DoneInv(F)
  BY DEF MeaningInv
<1>2. CASE HeaderInv(F)
  <2>1. found = << >> /\ DOMAIN << >> = {} /\ pc = "header" /\ DOMAIN text = 1 .. Len(text)
    BY <1>2, SeqParts DEF HeaderInv, Unread, Readable
  <2> QED BY <1>2, <2>1 DEF UsesMean, TypedefsKnown, NumbersAgree, HeaderInv, Heads
<1>3. CASE BodyInv(F) \/ ResolveInv(F) \/ DoneInv(F)
  <2>1. PICK q : /\ Parsed(text, env, q, outer, F)
                 /\ found = << >> \/ Answers(text, q, origin, found)
                 /\ pc = "resolve" => Placed(q, built, at) /\ at \in 1 .. Len(text) + 1
    BY <1>3 DEF BodyInv, ResolveInv, DoneInv, Unread
  <2>2. /\ Numbered(text, q) /\ UsesKnown(text, q, F) /\ Places(q) /\ Len(q) = Len(text) + 1
        /\ DOMAIN text = 1 .. Len(text) /\ Len(text) \in Nat
    BY <2>1, SeqParts DEF Parsed, Numbered, Readable
  <2>3. \A n : \A i \in 1 .. Len(text) : Meaning(n, i) = Mean(text, q, n, i)
    <3>1. \A i \in 1 .. Len(text) : i \in 1 .. Len(text) + 1
      BY <2>2
    <3> QED BY <2>2, <3>1, DecIs
  <2>4. UsesMean
    <3>1. CASE found = << >>
      BY <3>1 DEF UsesMean
    <3>2. CASE Answers(text, q, origin, found)
      BY <2>3, <3>2, SeqParts DEF Answers, UsesMean
    <3> QED BY <2>1, <3>1, <3>2
  <2>5. TypedefsKnown
    BY <2>2, <2>3 DEF TypedefsKnown, UsesKnown, MeansTypedef, MeansType
  <2>6. NumbersAgree
    <3> SUFFICES ASSUME pc = "resolve", at <= Len(text), text[at].kind \notin Heads
                 PROVE  /\ text[at].point.scope = built.current
                        /\ text[at].next = NextScope(built)
                        /\ LookupPoint(built).order <= text[at].point.order
      BY DEF NumbersAgree, Here, Heads
    <3>1. Placed(q, built, at) /\ at \in 1 .. Len(text) /\ at \in 1 .. Len(q)
      BY <2>1, <2>2
    <3>2. Root(built, built.current) = 2
      BY <2>2, <3>1, PathTop
    <3>3. Noted(text, q, at)
      BY <2>2, <3>1 DEF Numbered
    <3>4. LookupPoint(built).order = built.scopes[2].order
      BY <3>2 DEF LookupPoint
    <3> QED BY <3>1, <3>3, <3>4 DEF Noted, Placed, NextScope
  <2> QED BY <2>4, <2>5, <2>6
<1> QED BY <1>1, <1>2, <1>3

(* Every use gets the declaration C gives it, for every text of announced   *)
(* constructs: name_environment.c numbers a place as the resolver of        *)
(* scope_graph.c will, so the lookup from there sees what C says it does.   *)
THEOREM UsesAlwaysMean == Announced => (NamesSpec => []UsesMean)
BY MeaningAlways, MeaningGives, PTL

(* The parser takes a name for the name of a type exactly where it is one   *)
(* (the list of names of name_environment.c against C's scopes).            *)
THEOREM TypedefsAlwaysKnown == Announced => (NamesSpec => []TypedefsKnown)
BY MeaningAlways, MeaningGives, PTL

(* Wherever it is in the body, the resolver stands where the parser said it *)
(* would, with the same next number and no more declarations counted.       *)
THEOREM NumbersAlwaysAgree == Announced => (NamesSpec => []NumbersAgree)
BY MeaningAlways, MeaningGives, PTL
=============================================================================
