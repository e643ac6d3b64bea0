------------------------ MODULE MCScopeTransactions -------------------------
(***************************************************************************)
(* Instances of ScopeTransactions for TLC.  Two names: a function's own    *)
(* name and a name its blocks declare.  The record Twice declares one      *)
(* member twice, so that its members are given up whichever name it is:    *)
(* the names stay symmetric.                                               *)
(***************************************************************************)
EXTENDS ScopeTransactions, TLC

CONSTANTS a, b, generated

TwoNames == {a, b, generated}
SwapNames == Permutations({a, b})

Twice == {<<a, a>>}

(* A function or an initializer that begins when the bound on declarations  *)
(* is reached can declare nothing: it is begun and not followed.  No third  *)
(* function is followed: what an older one leaves, the second one shows.    *)
Scopes(kind) == {s \in DOMAIN graph.scopes : graph.scopes[s].kind = kind}
Room ==
  /\ phase = "body" => Len(graph.declarations) < MaxDeclarations
  /\ phase \in {"initializer", "header", "statements"} =>
       Len(saved[1].declarations) < MaxDeclarations
  /\ Cardinality(Scopes("FUNCTION")) <= 2
  /\ Cardinality(Scopes("FUNCTION_PROTOTYPE")) <= 1
=============================================================================
