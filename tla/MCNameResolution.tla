-------------------------- MODULE MCNameResolution --------------------------
(* An instance of NameResolution for TLC: the constructs whose scopes and   *)
(* declarations the parser announces.  A return type that has a tag is not  *)
(* among them: it is not announced again for the body.                      *)
EXTENDS NameResolution, TLC

CONSTANTS a, b, tag, generated

AllNames == {a, b, tag, generated}
Idents == {a, b}
SwapIdents == Permutations(Idents)
Enums == {Enum(n) : n \in Idents}

JustTypes == {NoTag}
JustEnums == Enums
SomeTypes == {Reference, Record}
PlainReturns == {Plain(NoTag), FunctionOf(NoTag, Record)}
PlainTypes == {Plain(NoTag)}
SomeParameters ==
  {Plain(s) : s \in {NoTag, Reference, RecordOfCallback} \cup Enums}
    \cup {FunctionOf(NoTag, Reference)}
SomeObjects ==
  {Plain(s) : s \in {NoTag, Reference, Record} \cup Enums}
    \cup {FunctionOf(NoTag, Record)}

ASSUME OnlyAnnounced == Announced
=============================================================================
