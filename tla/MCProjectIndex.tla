--------------------------- MODULE MCProjectIndex ---------------------------
(***************************************************************************)
(* One object, two functions, and texts of at most three items that        *)
(* declare them in a fixed order, with every outcome.  Revision 1 has a    *)
(* source with a fatal diagnostic, 2 and 3 have none, 3 has one definition *)
(* more than the limit, and 4 has a body that is rejected.                 *)
(***************************************************************************)
EXTENDS ProjectIndex

CONSTANTS a, f, g

Of(kind, name, touches, outcomes) ==
  {[kind |-> kind, name |-> name, touches |-> t, outcome |-> o] :
     t \in touches, o \in outcomes}

Functions(name) ==
  Of("function", name, {{a}}, {"resolved", "rejected", "failed", "fatal"})
    \cup Of("function", name, {{}}, {"malformed", "unreadable", "overlimit"})

UpTo(S) == {<<>>} \cup {<<x>> : x \in S}

OneEach(First, Second, Third) ==
  {x \o y \o z : x \in UpTo(First), y \in UpTo(Second), z \in UpTo(Third)}

MCText ==
  OneEach(Of("directive", a, {{}}, {"unreadable"}),
          Of("function", f, {{a}}, {"resolved"}), {})
  \cup OneEach(Of("object", a, {{}}, {"plain", "fatal"})
                 \cup Of("prototype", f, {{}}, {"plain"}),
               Functions(f),
               Of("object", a, {{}}, {"plain", "fatal"})
                 \cup Of("function", g, {{a}}, {"resolved", "failed"}))

Said(kind, name, touches, outcome) ==
  [kind |-> kind, name |-> name, touches |-> touches, outcome |-> outcome]
Object == Said("object", a, {}, "plain")
Prototype == Said("prototype", f, {}, "plain")
Function(name, outcome) == Said("function", name, {a}, outcome)

MCProject ==
  << <<  <<Function(f, "fatal")>>, <<Function(g, "resolved")>> >>,
     << <<Object, Function(f, "resolved")>>, <<Prototype, Function(g, "resolved")>> >>,
     << <<Function(f, "resolved")>>, <<Function(f, "resolved"), Function(g, "resolved")>> >>,
     << <<Function(f, "rejected")>> >> >>

=============================================================================
