--------------------------- MODULE NameResolution ---------------------------
(***************************************************************************)
(* How the names in a function get their meaning.  The parser runs ahead of *)
(* the resolver: it reads the whole function before any of its declarations *)
(* exists, so for every name it notes the place where it stands, a scope    *)
(* number and a count of declarations, as it predicts that the resolver     *)
(* will number them (src/src/parser/name_environment.c).  The resolver then *)
(* walks the function, builds the scope graph, and looks every name up from *)
(* the place the parser noted.  Neither sees the other's count: each        *)
(* construct that makes scopes or declarations must be announced to the     *)
(* environment exactly as the resolver will number it.                      *)
(*                                                                         *)
(* A run parses one function, a construct at a time, then resolves it.  The *)
(* constants choose the constructs a text may hold.  Texts are valid C: a   *)
(* scope declares a name once, and a name that is used is declared.  Left   *)
(* out: old-style parameter lists, block scope functions and labels.        *)
(***************************************************************************)
EXTENDS ScopeGraph

CONSTANTS
  Ident,        \* the names the text declares and uses
  Tag,          \* the tag that "struct T *" refers to
  Generated,    \* anonymous tags, members, parameters nothing mentions
  Returns,      \* the specifiers and declarators of a return type,
  Parameters,   \*   of a parameter,
  Objects, Typedefs,   \*   and of a local declaration
  TypeNames,    \* the specifiers in sizeof (type)
  Casts,        \*   in (type) expression and (type) { ... }
  Steps,        \*   and in the third expression of a for
  MaxHeader,    \* bound: the constructs of the header
  MaxItems      \* bound: the constructs of the function

(* A specifier: none of the kinds that name or define a tag, a reference,  *)
(* the definition of a record, with a member that is a pointer to function *)
(* or not, or the definition of an enum with one enumerator.               *)
NoTag == [tag |-> "none"]
Reference == [tag |-> "reference"]
Record == [tag |-> "record", callback |-> FALSE]
RecordOfCallback == [tag |-> "record", callback |-> TRUE]
Enum(n) == [tag |-> "enum", enumerator |-> n]
Specifier == {NoTag, Reference, Record, RecordOfCallback}
               \cup {Enum(n) : n \in Ident}

(* A specifier with a plain declarator, or with that of a function of one  *)
(* parameter.                                                              *)
Plain(s) == [spec |-> s, parameters |-> << >>]
FunctionOf(s, t) == [spec |-> s, parameters |-> <<t>>]
Shape == {Plain(s) : s \in Specifier}
           \cup {FunctionOf(s, t) : s \in Specifier, t \in Specifier}

ASSUME NamesAssumption ==
  /\ Ident \subseteq Name /\ Tag \in Name /\ Generated \in Name \ Ident
  /\ UNION {Returns, Parameters, Objects, Typedefs} \subseteq Shape
  /\ UNION {TypeNames, Casts, Steps} \subseteq Specifier
  /\ MaxHeader \in Nat /\ MaxItems \in Nat

(* The constructs whose scopes and declarations the parser announces as the *)
(* resolver makes them.  Not so: the tag of a return type, an enum in a     *)
(* parameter list, a member that is a pointer to function unless it is in   *)
(* the header, a record in a cast, which is announced twice, and one in the *)
(* third expression of a for, which the resolver comes to after the body.   *)
Callback(s) == s.tag = "record" /\ s.callback
Announced ==
  /\ \A x \in Returns : x.spec.tag = "none"
  /\ \A x \in UNION {Returns, Parameters, Objects, Typedefs} :
       \A p \in DOMAIN x.parameters : x.parameters[p].tag # "enum"
  /\ \A x \in Objects \cup Typedefs :
       ~Callback(x.spec) /\ \A p \in DOMAIN x.parameters : ~Callback(x.parameters[p])
  /\ \A s \in TypeNames : ~Callback(s)
  /\ \A s \in Casts : s.tag # "record"
  /\ \A s \in Steps : s.tag \in {"none", "reference"}

VARIABLES
  pc,       \* "header", "body", "resolve" or "done"
  text,     \* what has been parsed, with the places that were noted
  outer,    \* the names the file's environment takes for typedef names
  env,      \* the environment of the function's body
  built,    \* the scope graph
  at,       \* the construct the resolver is at
  found,    \* what the uses before it were resolved to, 0 if to nothing
  origin    \* ghost: the construct that made each declaration of the graph

resolution == <<pc, text, outer, env, built, at, found, origin>>

-----------------------------------------------------------------------------
(* The parser's environment of names                                       *)

ResetAt(point, next) ==
  [entries |-> << >>, stack |-> << >>, current_scope_seq |-> point.scope,
   next_scope_id |-> next, next_declaration_seq |-> point.order]

Event(e) == [e EXCEPT !.next_declaration_seq = @ + 1]
Reserve(e) == [e EXCEPT !.next_scope_id = @ + 1]

DeclareName(e, n, typedef) ==
  Event([e EXCEPT !.entries =
           <<[name |-> n, depth |-> Len(e.stack), typedef |-> typedef]>> \o @])

EnterNames(e) ==
  [e EXCEPT !.stack = Append(@, e.current_scope_seq),
            !.current_scope_seq = e.next_scope_id,
            !.next_scope_id = @ + 1]

\* mutant: the names of the scope stay
LeaveNames_Keeps(e) ==
  [e EXCEPT !.stack = SubSeq(@, 1, Len(@) - 1),
            !.current_scope_seq = e.stack[Len(e.stack)]]

\* The entries are popped from the head as long as they are of the scope.
Popped(entries, depth) ==
  LET first == CHOOSE i \in 1 .. Len(entries) + 1 :
        /\ \A j \in 1 .. i - 1 : entries[j].depth >= depth
        /\ i <= Len(entries) => entries[i].depth < depth
  IN SubSeq(entries, first, Len(entries))

LeaveNames(e) ==
  [e EXCEPT !.entries = Popped(@, Len(e.stack)),
            !.stack = SubSeq(@, 1, Len(@) - 1),
            !.current_scope_seq = e.stack[Len(e.stack)]]

IsTypedefName(e, n) ==
  LET entries == {i \in DOMAIN e.entries : e.entries[i].name = n}
  IN IF entries = {} THEN n \in outer
     ELSE \E i \in entries : /\ \A j \in entries : i <= j
                             /\ e.entries[i].typedef

NotedPoint(e) ==
  [scope |-> e.current_scope_seq, order |-> e.next_declaration_seq]

(* What the parser announces while it reads a specifier, and a declarator. *)
(* A member that is a pointer to function announces nothing.               *)
ParseSpecifier(e, s) ==
  CASE s.tag = "none"      -> e
    [] s.tag = "reference" -> Event(e)
    [] s.tag = "record"    -> Reserve(Event(e))
    [] s.tag = "enum"      -> DeclareName(Event(e), s.enumerator, FALSE)

\* mutant: the scope of the parameter list is not reserved
ParseDeclarator_NoScope(e, parameters) ==
  IF parameters = << >> THEN e
  ELSE Event(ParseSpecifier(e, parameters[1]))

ParseDeclarator(e, parameters) ==
  IF parameters = << >> THEN e
  ELSE Event(Reserve(ParseSpecifier(e, parameters[1])))

(* The same once more for the header: the tree is walked, and the members   *)
(* are reached.                                                             *)
ReplaySpecifier(e, s) ==
  CASE s.tag = "none"      -> e
    [] s.tag = "reference" -> Event(e)
    [] s.tag = "record"    -> IF s.callback
                              THEN Event(Reserve(Reserve(Event(e))))
                              ELSE Reserve(Event(e))
    [] s.tag = "enum"      -> Event(Event(e))
ReplayDeclarator(e, parameters) ==
  IF parameters = << >> THEN e
  ELSE Event(ReplaySpecifier(Reserve(e), parameters[1]))

(* psx_record_function_definition_declarator_binding_events, over a header: *)
(* the first construct is the return type with what is around the parameter *)
(* list, the others are the parameters.                                     *)
ReplayHeader(e, header) ==
  LET after[k \in 1 .. Len(header)] ==
        IF k = 1 THEN ReplayDeclarator(e, header[1].parameters)
        ELSE DeclareName(
               ReplayDeclarator(ReplaySpecifier(after[k - 1], header[k].spec),
                                header[k].parameters),
               header[k].name, FALSE)
  IN after[Len(header)]

-----------------------------------------------------------------------------
(* What the resolver declares                                              *)

ApplyCallback(h) ==
  LeaveScope(Declare(EnterScope(h, "FUNCTION_PROTOTYPE"),
                     "ORDINARY", "OBJECT", Generated))

(* A definition declares its tag, and a record has a scope for its members. *)
DefineRecord(h, callback) ==
  LET tagged == CreateScopeAt(Declare(h, "TAG", "TAG", Generated),
                              h.current, "RECORD")
      scope  == Len(tagged.scopes)
      typed  == IF callback THEN ApplyCallback(tagged) ELSE tagged
  IN DeclareAt(typed, scope, "MEMBER", "MEMBER", Generated)

ReferTag(h) ==
  IF Lookup(h, "TAG", Tag, LookupPoint(h)) # Invalid THEN h
  ELSE Declare(h, "TAG", "TAG", Tag)

ApplySpecifier(h, s) ==
  CASE s.tag = "none"      -> h
    [] s.tag = "reference" -> ReferTag(h)
    [] s.tag = "record"    -> DefineRecord(h, s.callback)
    [] s.tag = "enum"      ->
         Declare(Declare(h, "TAG", "TAG", Generated),
                 "ORDINARY", "ENUM_CONSTANT", s.enumerator)

(* A tag that a type name refers to is looked up where the parser noted it. *)
ApplyTypeName(h, s) == IF s.tag = "reference" THEN h ELSE ApplySpecifier(h, s)

ApplyDeclarator(h, parameters) ==
  IF parameters = << >> THEN h
  ELSE LeaveScope(
         Declare(ApplySpecifier(EnterScope(h, "FUNCTION_PROTOTYPE"),
                                parameters[1]),
                 "ORDINARY", "OBJECT", Generated))

ResolveDeclaration(h, item) ==
  Declare(ApplyDeclarator(ApplySpecifier(h, item.spec), item.parameters),
          "ORDINARY", IF item.kind = "typedef" THEN "TYPEDEF" ELSE "OBJECT",
          item.name)

-----------------------------------------------------------------------------
(* What C says of a text.  Depth: the blocks open behind a construct.       *)

Depth(k) ==
  Cardinality({j \in 1 .. k : text[j].kind = "enter"})
    - Cardinality({j \in 1 .. k : text[j].kind = "leave"})

(* The scope of construct j is still open before construct i.               *)
StillOpen(j, i) == \A k \in j .. i - 1 : Depth(k) >= Depth(j)

Opener(i) ==
  CHOOSE j \in 1 .. i - 1 :
    /\ text[j].kind = "enter" /\ StillOpen(j, i)
    /\ \A k \in j + 1 .. i - 1 : text[k].kind = "enter" => ~StillOpen(k, i)

Enumerators(s) == IF s.tag = "enum" THEN {s.enumerator} ELSE {}
Declares(item) ==
  Enumerators(item.spec) \cup
    IF item.kind \in {"parameter", "object", "typedef"} THEN {item.name} ELSE {}

Declaring(n, i) == {j \in 1 .. i - 1 : n \in Declares(text[j]) /\ StillOpen(j, i)}

(* The construct whose declaration n means at i; 0 is the file's typedef.   *)
Meaning(n, i) == IF Declaring(n, i) = {} THEN 0 ELSE Innermost(Declaring(n, i))
MeansTypedef(j, n) ==
  j = 0 \/ (text[j].kind = "typedef" /\ text[j].name = n)

End == Len(text) + 1
Visible(n) ==
  \/ Meaning(n, End) # 0
  \/ \E d \in DOMAIN built.declarations :
       origin[d] = 0 /\ built.declarations[d].name = n
FreshHere(n) ==
  \A j \in Declaring(n, End) : Depth(j) # Depth(Len(text))

-----------------------------------------------------------------------------
(* Parsing                                                                 *)

(* The file has declared at most one of the names, as a typedef.            *)
NamesInit ==
  /\ outer \in {{}} \cup {{n} : n \in Ident}
  /\ built = IF outer = {} THEN EmptyGraph
         ELSE Declare(EmptyGraph, "ORDINARY", "TYPEDEF", CHOOSE n \in outer : TRUE)
  /\ origin = [d \in DOMAIN built.declarations |-> 0]
  /\ env = ResetAt(LookupPoint(built), NextScope(built))
  /\ pc = "header" /\ text = << >> /\ at = 1 /\ found = << >>

(* A construct of the text; next is the next scope the parser would number. *)
Item(kind, n, shape) ==
  [kind |-> kind, name |-> n, spec |-> shape.spec,
   parameters |-> shape.parameters, typedef |-> IsTypedefName(env, n),
   point |-> NotedPoint(env), next |-> env.next_scope_id]

Parse(item) ==
  /\ Len(text) < MaxItems
  /\ text' = Append(text, item)
  /\ UNCHANGED <<pc, built, at, found, origin>>

(* The header is read in the file's environment, of which only the typedef  *)
(* names matter here: an enumerator is no longer one.                       *)
Specifiers(item) ==
  {item.spec} \cup {item.parameters[p] : p \in DOMAIN item.parameters}
ParseHeader(item) ==
  /\ pc = "header" /\ Len(text) < MaxHeader
  /\ Parse(item)
  /\ outer' = outer \ UNION {Enumerators(s) : s \in Specifiers(item)}
  /\ UNCHANGED env

MayAppear(item) ==
  /\ \A m \in Declares(item) : FreshHere(m)
  /\ item.name \notin Enumerators(item.spec)

ReturnType ==
  /\ text = << >>
  /\ \E x \in Returns : ParseHeader(Item("return", Generated, x))

Parameter ==
  /\ text # << >>
  /\ \E n \in Ident, x \in Parameters :
       LET item == Item("parameter", n, x)
       IN MayAppear(item) /\ ParseHeader(item)

\* mutant: the header is not replayed
StartBody_NoReplay ==
  /\ pc = "header" /\ text # << >>
  /\ LET function == EnterScope(LeaveAllScopes(built), "FUNCTION")
     IN /\ built' = function
        /\ env' = ResetAt(LookupPoint(function), NextScope(function))
  /\ pc' = "body"
  /\ UNCHANGED <<text, outer, at, found, origin>>

(* The function scope is entered before the body is parsed, and the header  *)
(* is replayed into a fresh environment.                                    *)
StartBody ==
  /\ pc = "header" /\ text # << >>
  /\ LET function == EnterScope(LeaveAllScopes(built), "FUNCTION")
     IN /\ built' = function
        /\ env' = ReplayHeader(ResetAt(LookupPoint(function),
                                         NextScope(function)), text)
  /\ pc' = "body"
  /\ UNCHANGED <<text, outer, at, found, origin>>

ParseBody(item, after) ==
  /\ pc = "body"
  /\ Parse(item)
  /\ env' = after
  /\ UNCHANGED outer

(* A declared name counts after its declarator, before its initializer.     *)
LocalDeclaration(item) ==
  /\ MayAppear(item)
  /\ ParseBody(item,
       DeclareName(ParseDeclarator(ParseSpecifier(env, item.spec),
                                   item.parameters),
                   item.name, item.kind = "typedef"))
Local ==
  \E n \in Ident :
    \/ \E x \in Objects : LocalDeclaration(Item("object", n, x))
    \/ \E x \in Typedefs : LocalDeclaration(Item("typedef", n, x))

(* A block; or a for whose first clause is a declaration, which follows as  *)
(* a construct of its own, and whose third expression is read here.         *)
Enter ==
  \E s \in Steps :
    ParseBody(Item("enter", Generated, Plain(s)),
              ParseSpecifier(EnterNames(env), s))

Leave ==
  /\ env.stack # << >>
  /\ ParseBody(Item("leave", Generated, Plain(NoTag)), LeaveNames(env))

Use ==
  \E n \in Ident :
    /\ Visible(n)
    /\ ParseBody(Item("use", n, Plain(NoTag)), env)

TypeName ==
  \E s \in TypeNames :
    LET item == Item("type_name", Generated, Plain(s))
    IN MayAppear(item) /\ ParseBody(item, ParseSpecifier(env, s))

(* A parenthesised type name is read once to see whether a { follows it,    *)
(* and then again.                                                          *)
Cast ==
  \E s \in Casts :
    LET item == Item("cast", Generated, Plain(s))
    IN /\ MayAppear(item)
       /\ ParseBody(item, ParseSpecifier(ParseSpecifier(env, s), s))

(* The blocks that are still open are closed here, with nothing in between. *)
EndBody ==
  /\ pc = "body"
  /\ pc' = "resolve"
  /\ UNCHANGED <<text, outer, env, built, at, found, origin>>

-----------------------------------------------------------------------------
(* Resolving                                                               *)

Here == text[at]
Resolves(kinds) == pc = "resolve" /\ at <= Len(text) /\ Here.kind \in kinds

(* The graph h holds what construct j declares.                             *)
Resolved(h, j) ==
  /\ built' = h
  /\ origin' = [d \in DOMAIN h.declarations |->
                  IF d \in DOMAIN origin THEN origin[d] ELSE j]
  /\ at' = at + 1
  /\ UNCHANGED <<pc, text, outer, env>>

ResolveHeader ==
  /\ Resolves({"return"})
  /\ Resolved(ApplyDeclarator(ApplySpecifier(built, Here.spec), Here.parameters), at)
  /\ UNCHANGED found

ResolveDeclared ==
  /\ Resolves({"parameter", "object", "typedef"})
  /\ Resolved(ResolveDeclaration(built, Here), at)
  /\ UNCHANGED found

ResolveTypeName ==
  /\ Resolves({"type_name", "cast"})
  /\ Resolved(ApplyTypeName(built, Here.spec), at)
  /\ UNCHANGED found

ResolveEnter ==
  /\ Resolves({"enter"})
  /\ Resolved(EnterScope(built, "BLOCK"), at)
  /\ UNCHANGED found

(* The third expression of a for is resolved after the body.                *)
ResolveLeave ==
  /\ Resolves({"leave"})
  /\ LET j == Opener(at)
     IN Resolved(LeaveScope(ApplyTypeName(built, text[j].spec)), j)
  /\ UNCHANGED found

ResolveUse ==
  /\ Resolves({"use"})
  /\ found' = Append(found,
       [use |-> at,
        decl |-> IF Here.point.scope \in DOMAIN built.scopes
                 THEN Lookup(built, "ORDINARY", Here.name, Here.point)
                 ELSE Invalid])
  /\ Resolved(built, at)

Finish ==
  /\ pc = "resolve" /\ at > Len(text)
  /\ built' = LeaveAllScopes(built)
  /\ pc' = "done"
  /\ UNCHANGED <<text, outer, env, at, found, origin>>

NamesNext ==
  \/ ReturnType \/ Parameter \/ StartBody
  \/ Local \/ Enter \/ Leave \/ Use \/ TypeName \/ Cast \/ EndBody
  \/ ResolveHeader \/ ResolveDeclared \/ ResolveTypeName \/ ResolveEnter
  \/ ResolveLeave \/ ResolveUse \/ Finish

NamesSpec == NamesInit /\ [][NamesNext]_resolution

-----------------------------------------------------------------------------
(* Properties                                                              *)

(* Every use has been resolved to the declaration C gives it: the place the *)
(* parser noted, in a graph that did not exist then, leads the lookup there *)
(* (name_environment.c against scope_graph.c).                              *)
UsesMean ==
  \A u \in DOMAIN found :
    LET i == found[u].use
    IN /\ found[u].decl # Invalid
       /\ origin[found[u].decl] = Meaning(text[i].name, i)

(* The parser, which has only its own list of names, took a name for the    *)
(* name of a type exactly when it is one; otherwise it would have parsed    *)
(* a declaration for an expression, or the reverse.                         *)
TypedefsKnown ==
  \A i \in DOMAIN text :
    text[i].kind = "use"
      => (text[i].typedef <=>
            MeansTypedef(Meaning(text[i].name, i), text[i].name))

(* Wherever the resolver is in the body, it stands in the scope the parser  *)
(* predicted, the next scope it makes has the number the parser predicted,  *)
(* and it has declared no more than the parser had counted: what it will    *)
(* look up there is not yet, or already, hidden by the count.               *)
NumbersAgree ==
  pc = "resolve" /\ at <= Len(text)
      /\ Here.kind \notin {"return", "parameter"}
    => /\ Here.point.scope = built.current
       /\ Here.next = NextScope(built)
       /\ LookupPoint(built).order <= Here.point.order
=============================================================================
