-------------------------- MODULE WasmLinkerProofs --------------------------
(***************************************************************************)
(* For every set of well formed links: a call or a pointer is to what its   *)
(* name means; data, heap and stack are apart; an export is the function    *)
(* that was asked for; and no module has a clash, types that disagree or    *)
(* missing data, nor is a link refused for one that it does not have.  The  *)
(* invariants Live and Right describe a link that has not died; each part   *)
(* of them says what one loop of the linker has done for the symbols,       *)
(* segments or relocations it has visited.  A link that dies keeps what it  *)
(* has, and the error it dies of has a cause in the objects.                *)
(***************************************************************************)
EXTENDS WasmLinker, SequenceTheorems, WellFoundedInduction, TLAPS

-----------------------------------------------------------------------------
(* The invariant                                                           *)

(* The objects: those of the link, and from Check on the runtime's.  The    *)
(* runtime has one function of a name, which no object defines, and what it *)
(* calls they do.                                                           *)
NoClash == \A p, q \in Of(link.objects, "function", {"global"}) :
             At(link.objects, p).name = At(link.objects, q).name => p = q

KeptObjects ==
  /\ DOMAIN objs = 1 .. R
  /\ \A o \in DOMAIN link.objects : objs[o] = link.objects[o]

Holds(o, syms, relocs) ==
  /\ "syms" \in DOMAIN o /\ "relocs" \in DOMAIN o
  /\ o.syms = syms /\ o.relocs = relocs
RuntimeFrame ==
  /\ Holds(objs[R], objs[R].syms, objs[R].relocs)
  /\ IsSequence(objs[R].syms) /\ IsSequence(objs[R].relocs)

(* A file asks for the function with that type; a file defines it with it.  *)
Asked(name, wasm) ==
  \E p \in Undefined(link.objects, "function") :
    At(link.objects, p).name = name /\ At(link.objects, p).type.wasm = wasm
DefinedType(name) ==
  At(link.objects, FindDefined(link.objects, "function", name)).type.wasm

RuntimeSymbol(sym) ==
  /\ sym.kind \in {"function", "data"}
  /\ sym.bind \in {"global", "undefined", "nameless"}
  /\ sym.size \in Nat /\ sym.align \in Nat \ {0}
  /\ sym.kind = "data" =>
       sym.bind = "global" /\ sym.name \in RuntimeData /\ link.stdlib
  /\ sym.kind = "function" /\ sym.bind = "global" =>
       /\ Supplied(sym.name) /\ Definitions(link.objects, "function", sym.name) = {}
       /\ Asked(sym.name, sym.type.wasm) /\ sym.type.c = None
  /\ sym.bind = "undefined" =>
       /\ sym.kind = "function"
       /\ Definitions(link.objects, "function", sym.name) # {}
       /\ sym.type.wasm = DefinedType(sym.name) /\ sym.type.c = None
RuntimeSymbols == \A i \in DOMAIN objs[R].syms : RuntimeSymbol(objs[R].syms[i])

RuntimeOnce ==
  \A name : \A i, j \in InRuntime("function", "global", name) : i = j

RuntimeCall(c, syms) ==
  /\ c.kind = "call" /\ c.sym \in DOMAIN syms /\ c.from \in DOMAIN syms
  /\ syms[c.sym].bind = "undefined"
  /\ syms[c.sym].name = Manifest[syms[c.from].name].target
RuntimeCalls ==
  \A r \in DOMAIN objs[R].relocs : RuntimeCall(objs[R].relocs[r], objs[R].syms)

(* What the runtime supplies is there once every symbol has been visited.   *)
Sought ==
  \A p \in Undefined(link.objects, "function") :
    LET name == At(link.objects, p).name
    IN Supplied(name) /\ Definitions(link.objects, "function", name) = {} =>
         \/ phase = "synthesize" /\ p \in todo
         \/ InRuntime("function", "global", name) # {}

Objects == NoClash /\ KeptObjects /\ RuntimeFrame /\ RuntimeSymbols
             /\ RuntimeOnce /\ RuntimeCalls /\ Sought

(* The numbers: every function is among defs once it has been visited.      *)
Collected ==
  /\ IsSequence(defs) /\ IsSequence(imports)
  /\ phase \in {"check", "synthesize"} => defs = << >>
  /\ phase \notin {"check", "synthesize"} =>
       \A p \in Defined(objs, "function") :
         \/ phase = "collect" /\ p \in todo
         \/ \E i \in DOMAIN defs : defs[i] = p

(* The relocations patched so far.                                         *)
Pointed(q, i) == i \in Nat /\ i - 1 \in DOMAIN table /\ table[i - 1] = FuncIndex(q)
Patched ==
  /\ IsSequence(table)
  /\ \A i, j \in DOMAIN table : table[i] = table[j] => i = j
  /\ \A q \in DOMAIN slot : q \in Places(objs) /\ Pointed(q, slot[q])
  /\ \A r \in DOMAIN value :
       /\ r \in Relocations
       /\ RelocAt(r).kind \in {"call", "pointer"} => FuncFault(PlaceOf(r)) = None
       /\ RelocAt(r).kind = "call" => value[r] = FuncIndex(PlaceOf(r))
       /\ RelocAt(r).kind = "pointer" => Pointed(PlaceOf(r), value[r])

Untouched == value = << >> /\ table = << >> /\ slot = << >>

(* The data laid out so far.                                                *)
Laid ==
  /\ mem \in Nat /\ mem >= DataBase
  /\ \A p \in DOMAIN address :
       /\ p \in Defined(objs, "data")
       /\ address[p] \in Nat /\ address[p] >= DataBase
       /\ address[p] % At(objs, p).align = 0
       /\ address[p] + At(objs, p).size <= mem
       /\ \A q \in DOMAIN address \ {p} :
            \/ address[p] + At(objs, p).size <= address[q]
            \/ address[q] + At(objs, q).size <= address[p]

Sized ==
  memory # None =>
       /\ mem <= memory.heap /\ memory.heap <= memory.limit
       /\ memory.limit + link.stack = memory.top
       /\ memory.top <= memory.pages * PageSize /\ memory.top <= AddressLimit
       /\ link.maximum # None => memory.pages <= link.maximum

(* What a phase visits.                                                     *)
Visits ==
  /\ phase = "synthesize" =>
       /\ todo \subseteq Undefined(link.objects, "function")
                           \cup Undefined(link.objects, "data")
       /\ todo # {} => link.stdlib
  /\ phase = "collect" => todo \subseteq Defined(objs, "function")
  /\ phase = "layout" =>
       todo \subseteq Defined(objs, "data") /\ todo \cap DOMAIN address = {}
  /\ phase = "patch" => todo \subseteq Relocations

Phases == {"check", "synthesize", "collect", "import", "layout", "patch",
           "export", "linked"}

Live ==
  /\ phase \in Phases /\ link \in Links
  /\ phase = "check" => objs = link.objects
  /\ phase # "check" => Objects
  /\ Collected /\ Patched
  /\ phase \notin {"patch", "export", "linked"} => Untouched
  /\ Laid /\ Sized
  /\ phase \in {"check", "synthesize", "collect", "import"} => address = << >>
  /\ phase \notin {"export", "linked"} => memory = None
  /\ Visits

Inv == ReferencesMean /\ MemoryApart /\ (phase # "died" => Live)

-----------------------------------------------------------------------------
(* Sequences and pairs                                                     *)

LEMMA Appended ==
  ASSUME NEW s, IsSequence(s), NEW x
  PROVE  LET t == Append(s, x) IN
         /\ IsSequence(t)
         /\ Len(s) \in Nat /\ DOMAIN s = 1 .. Len(s)
         /\ Len(t) = Len(s) + 1 /\ DOMAIN t = 1 .. Len(s) + 1
         /\ \A i \in 1 .. Len(s) : t[i] = s[i]
         /\ t[Len(s) + 1] = x
<1> DEFINE S == {s[i] : i \in DOMAIN s} \cup {x}
           t == Append(s, x)
           T == {t[i] : i \in DOMAIN t}
<1>1. s \in Seq(S)
  <2>1. s \in Seq({s[i] : i \in DOMAIN s})
    BY DEF IsSequence
  <2> QED BY <2>1, SeqDef
<1>2. x \in S
  OBVIOUS
<1> HIDE DEF S
<1>3. /\ t \in Seq(S) /\ Len(s) \in Nat /\ DOMAIN s = 1 .. Len(s)
      /\ Len(t) = Len(s) + 1 /\ DOMAIN t = 1 .. Len(s) + 1
      /\ \A i \in 1 .. Len(s) : t[i] = s[i]
      /\ t[Len(s) + 1] = x
  BY <1>1, <1>2
<1>4. t \in Seq(T)
  <2>1. t \in [1 .. Len(t) -> S]
    <3> HIDE DEF t
    <3> QED BY <1>3, LenProperties
  <2>2. t \in [1 .. Len(t) -> T]
    BY <2>1
  <2>3. Len(t) \in Nat
    BY <1>3
  <2> HIDE DEF t, T
  <2> QED BY <2>2, <2>3, SeqDef
<1> QED BY <1>3, <1>4 DEF IsSequence

LEMMA Empty == IsSequence(<< >>)
BY DEF IsSequence

(* A pair that no pair of a set comes before.                               *)
LEMMA FirstOf ==
  ASSUME NEW S, S # {}, \A p \in S : p = <<p[1], p[2]>> /\ p[1] \in Nat /\ p[2] \in Nat
  PROVE  First(S) \in S /\ \A q \in S : First(S) = q \/ Before(First(S), q)
<1> DEFINE N == {ss \in Nat \X Nat : ss[1] < ss[2]}
           L == LexPairOrdering(N, N, Nat, Nat)
<1>1. IsWellFoundedOn(N, Nat)
  BY NatLessThanWellFounded DEF OpToRel
<1>2. IsWellFoundedOn(L, Nat \X Nat)
  <2> HIDE DEF N
  <2> QED BY <1>1, WFLexPairOrdering
<1>3. S \subseteq Nat \X Nat
  OBVIOUS
<1>4. \A p, q \in S : Before(p, q) => <<p, q>> \in L
  BY <1>3 DEF Before, LexPairOrdering
<1>5. PICK p \in S : \A q \in S : ~(<<q, p>> \in L)
  <2> HIDE DEF L
  <2> QED BY <1>2, <1>3, WFMin
<1>6. \A q \in S : p = q \/ Before(p, q)
  <2> TAKE q \in S
  <2>1. ~Before(q, p)
    BY <1>4, <1>5
  <2> QED BY <2>1 DEF Before
<1> HIDE DEF L
<1> QED BY <1>6 DEF First

-----------------------------------------------------------------------------
(* Symbols                                                                 *)

LEMMA PlacesAre ==
  ASSUME NEW os
  PROVE  /\ \A p \in Places(os) : /\ p = <<p[1], p[2]>> /\ p[1] \in DOMAIN os
                                  /\ p[2] \in DOMAIN os[p[1]].syms
         /\ \A o \in DOMAIN os : \A s \in DOMAIN os[o].syms : <<o, s>> \in Places(os)
BY DEF Places

LEMMA RelocationsAre ==
  /\ \A p \in Relocations : /\ p = <<p[1], p[2]>> /\ p[1] \in DOMAIN objs
                            /\ p[2] \in DOMAIN objs[p[1]].relocs
  /\ \A o \in DOMAIN objs : \A s \in DOMAIN objs[o].relocs : <<o, s>> \in Relocations
BY DEF Relocations

(* The linked objects as given.                                             *)
LEMMA Given ==
  ASSUME link \in Links
  PROVE  /\ IsSequence(link.objects) /\ Len(link.objects) \in Nat /\ R \in Nat \ {0}
         /\ DOMAIN link.objects = 1 .. Len(link.objects)
         /\ R \notin DOMAIN link.objects /\ 1 .. R = DOMAIN link.objects \cup {R}
         /\ \A o \in DOMAIN link.objects :
              /\ IsObject(link.objects[o])
              /\ DOMAIN link.objects[o].syms \subseteq Nat
              /\ DOMAIN link.objects[o].relocs \subseteq Nat
<1>1. IsSequence(link.objects) /\ \A o \in DOMAIN link.objects : IsObject(link.objects[o])
  BY LinksAssumption
<1>2. Len(link.objects) \in Nat /\ DOMAIN link.objects = 1 .. Len(link.objects)
  BY <1>1, Appended
<1>3. \A s : IsSequence(s) => DOMAIN s \subseteq Nat
  BY Appended
<1> QED BY <1>1, <1>2, <1>3 DEF R, IsObject

LEMMA PairsOfNumbers ==
  ASSUME link \in Links, KeptObjects, RuntimeFrame
  PROVE  /\ \A p \in Places(objs) : p = <<p[1], p[2]>> /\ p[1] \in Nat /\ p[2] \in Nat
         /\ \A p \in Places(link.objects) :
              p = <<p[1], p[2]>> /\ p[1] \in Nat /\ p[2] \in Nat /\ p[1] # R
         /\ \A p \in Relocations : p = <<p[1], p[2]>> /\ p[1] \in Nat /\ p[2] \in Nat
<1>1. DOMAIN objs[R].syms \subseteq Nat /\ DOMAIN objs[R].relocs \subseteq Nat
  BY Appended DEF RuntimeFrame
<1>2. \A o \in DOMAIN objs : o = R \/ (o \in DOMAIN link.objects /\ objs[o] = link.objects[o])
  <2>1. DOMAIN objs = DOMAIN link.objects \cup {R}
    BY Given DEF KeptObjects
  <2>2. \A o \in DOMAIN link.objects : objs[o] = link.objects[o]
    BY DEF KeptObjects
  <2> QED BY <2>1, <2>2
<1>3. \A o \in DOMAIN objs : o \in Nat
  BY Given DEF KeptObjects
<1>4. \A o \in DOMAIN objs : DOMAIN objs[o].syms \subseteq Nat /\ DOMAIN objs[o].relocs \subseteq Nat
  BY <1>1, <1>2, Given
<1>5. \A o \in DOMAIN link.objects : o \in Nat /\ o # R /\ DOMAIN link.objects[o].syms \subseteq Nat
  BY Given
<1> QED BY <1>3, <1>4, <1>5, PlacesAre, RelocationsAre

(* The symbols of the link and those of the runtime.                        *)
LEMMA PlacesSplit ==
  ASSUME link \in Links, KeptObjects
  PROVE  /\ \A p \in Places(link.objects) :
              p \in Places(objs) /\ p[1] # R /\ At(objs, p) = At(link.objects, p)
         /\ \A p \in Places(objs) :
              \/ p \in Places(link.objects)
              \/ p = <<R, p[2]>> /\ p[2] \in DOMAIN objs[R].syms
                   /\ At(objs, p) = objs[R].syms[p[2]]
         /\ \A i \in DOMAIN objs[R].syms :
              <<R, i>> \in Places(objs) /\ At(objs, <<R, i>>) = objs[R].syms[i]
<1>1. DOMAIN objs = DOMAIN link.objects \cup {R} /\ R \notin DOMAIN link.objects
  BY Given DEF KeptObjects
<1>2. \A o \in DOMAIN link.objects : objs[o] = link.objects[o]
  BY DEF KeptObjects
<1>3. ASSUME NEW p \in Places(link.objects)
      PROVE  p \in Places(objs) /\ p[1] # R /\ At(objs, p) = At(link.objects, p)
  <2>1. p = <<p[1], p[2]>> /\ p[1] \in DOMAIN link.objects
          /\ p[2] \in DOMAIN link.objects[p[1]].syms
    BY PlacesAre
  <2> QED BY <1>1, <1>2, <2>1, PlacesAre DEF At
<1>4. ASSUME NEW p \in Places(objs)
      PROVE  \/ p \in Places(link.objects)
             \/ p = <<R, p[2]>> /\ p[2] \in DOMAIN objs[R].syms
                  /\ At(objs, p) = objs[R].syms[p[2]]
  <2>1. p = <<p[1], p[2]>> /\ p[1] \in DOMAIN objs /\ p[2] \in DOMAIN objs[p[1]].syms
    BY PlacesAre
  <2>2. CASE p[1] \in DOMAIN link.objects
    BY <1>2, <2>1, <2>2, PlacesAre
  <2>3. CASE p[1] = R
    BY <2>1, <2>3 DEF At
  <2> QED BY <1>1, <2>1, <2>2, <2>3
<1>5. ASSUME NEW i \in DOMAIN objs[R].syms
      PROVE  <<R, i>> \in Places(objs) /\ At(objs, <<R, i>>) = objs[R].syms[i]
  BY <1>1, PlacesAre DEF At
<1> QED BY <1>3, <1>4, <1>5

LEMMA DefinitionsAre ==
  ASSUME NEW os, NEW kind, NEW name
  PROVE  \A p : p \in Definitions(os, kind, name) <=>
           /\ p \in Places(os) /\ At(os, p).kind = kind
           /\ At(os, p).bind = "global" /\ At(os, p).name = name
BY DEF Definitions, Of

LEMMA RuntimeIs ==
  ASSUME NEW kind, NEW bind, NEW name
  PROVE  \A i : i \in InRuntime(kind, bind, name) <=>
           /\ i \in DOMAIN objs[R].syms /\ objs[R].syms[i].kind = kind
           /\ objs[R].syms[i].bind = bind /\ objs[R].syms[i].name = name
BY DEF InRuntime

(* A function has one definition, an object's or the runtime's.             *)
LEMMA OneDefinition ==
  ASSUME link \in Links, NoClash, KeptObjects, RuntimeFrame, RuntimeSymbols,
         RuntimeOnce, NEW name
  PROVE  LET given == Definitions(link.objects, "function", name)
             all == Definitions(objs, "function", name)
         IN /\ given # {} => all = given
            /\ given = {} /\ all # {} => Supplied(name)
            /\ given = {} => \A p \in all : p[1] = R
            /\ \A p, q \in all : p = q
            /\ all # {} => FindDefined(objs, "function", name) \in all
<1> DEFINE given == Definitions(link.objects, "function", name)
           all == Definitions(objs, "function", name)
<1>1. given \subseteq all
  BY DefinitionsAre, PlacesSplit
<1>2. ASSUME NEW p \in all
      PROVE  p \in given \/ (p[1] = R /\ Supplied(name) /\ given = {})
  <2>1. p \in Places(objs) /\ At(objs, p).kind = "function"
          /\ At(objs, p).bind = "global" /\ At(objs, p).name = name
    BY DefinitionsAre
  <2>2. CASE p \in Places(link.objects)
    BY <2>1, <2>2, DefinitionsAre, PlacesSplit
  <2>3. CASE p = <<R, p[2]>> /\ p[2] \in DOMAIN objs[R].syms
               /\ At(objs, p) = objs[R].syms[p[2]]
    <3>1. RuntimeSymbol(objs[R].syms[p[2]])
      BY <2>3 DEF RuntimeSymbols
    <3> QED BY <2>1, <2>3, <3>1 DEF RuntimeSymbol
  <2> QED BY <2>1, <2>2, <2>3, PlacesSplit
<1>3. \A p, q \in given : p = q
  BY DefinitionsAre DEF NoClash, Of
<1>4. \A p, q \in all : p = q
  <2>1. ASSUME NEW p \in all, NEW q \in all, given = {}
        PROVE  p = q
    <3>1. \A r \in all : r = <<R, r[2]>> /\ r[2] \in InRuntime("function", "global", name)
      <4> TAKE r \in all
      <4>1. r \in Places(objs) /\ At(objs, r).kind = "function"
              /\ At(objs, r).bind = "global" /\ At(objs, r).name = name
        BY DefinitionsAre
      <4>2. r \notin Places(link.objects)
        BY <2>1, <4>1, DefinitionsAre, PlacesSplit
      <4> QED BY <4>1, <4>2, RuntimeIs, PlacesSplit
    <3> QED BY <3>1 DEF RuntimeOnce
  <2> QED BY <1>2, <1>3, <2>1
<1>5. all # {} => FindDefined(objs, "function", name) \in all
  <2>1. \A p \in all : p = <<p[1], p[2]>> /\ p[1] \in Nat /\ p[2] \in Nat
    BY DefinitionsAre, PairsOfNumbers
  <2> HIDE DEF all
  <2>2. all # {} => First(all) \in all
    BY <2>1, FirstOf
  <2> QED BY <2>2 DEF FindDefined, all
<1> QED BY <1>1, <1>2, <1>4, <1>5

-----------------------------------------------------------------------------
(* Meaning                                                                 *)

LEMMA Numbered ==
  ASSUME IsSequence(defs), IsSequence(imports), NEW p, \E i \in DOMAIN defs : defs[i] = p
  PROVE  FinalIndex(p) \in Indices /\ Function(FinalIndex(p)) = p
<1>1. PICK i \in DOMAIN defs : defs[i] = p /\ FinalIndex(p) = Len(imports) + i - 1
  BY DEF FinalIndex
<1>2. Len(defs) \in Nat /\ DOMAIN defs = 1 .. Len(defs) /\ Len(imports) \in Nat
  BY Appended
<1>3. ~(FinalIndex(p) < Len(imports)) /\ FinalIndex(p) - Len(imports) + 1 = i
  BY <1>1, <1>2
<1>4. FinalIndex(p) \in Indices
  BY <1>1, <1>2 DEF Indices
<1> HIDE DEF FinalIndex
<1> QED BY <1>1, <1>3, <1>4 DEF Function

ImportIndex(name) == (CHOOSE i \in ImportsOf(name) : TRUE) - 1

LEMMA Imported ==
  ASSUME IsSequence(defs), IsSequence(imports), NEW name, ImportsOf(name) # {}
  PROVE  ImportIndex(name) \in Indices /\ Function(ImportIndex(name)) = <<0, name>>
<1>1. PICK i \in DOMAIN imports : imports[i].name = name /\ ImportIndex(name) = i - 1
  BY DEF ImportIndex, ImportsOf
<1>2. Len(defs) \in Nat /\ Len(imports) \in Nat /\ DOMAIN imports = 1 .. Len(imports)
  BY Appended
<1>3. i - 1 < Len(imports) /\ (i - 1) + 1 = i /\ i - 1 \in Indices
  BY <1>1, <1>2 DEF Indices
<1> QED BY <1>1, <1>3 DEF Function

LEMMA Bound ==
  ASSUME link \in Links, KeptObjects, RuntimeSymbols, NEW p \in Places(objs)
  PROVE  At(objs, p).bind \in {"global", "local", "nameless", "undefined"}
<1>1. CASE p \in Places(link.objects)
  <2>1. p[1] \in DOMAIN link.objects /\ p[2] \in DOMAIN link.objects[p[1]].syms
    BY <1>1, PlacesAre
  <2>2. IsObject(link.objects[p[1]])
    BY <2>1, Given
  <2>3. IsSymbol(At(link.objects, p))
    BY <2>1, <2>2 DEF IsObject, At
  <2>4. At(objs, p) = At(link.objects, p)
    BY <1>1, PlacesSplit
  <2> QED BY <2>3, <2>4 DEF IsSymbol
<1>2. CASE p[2] \in DOMAIN objs[R].syms /\ At(objs, p) = objs[R].syms[p[2]]
  BY <1>2 DEF RuntimeSymbols, RuntimeSymbol
<1> QED BY <1>1, <1>2, PlacesSplit

(* Once everything is numbered, a symbol without a fault stands for the     *)
(* definition that its name means or for an import of its name.             *)
IsDefined(q) ==
  /\ FuncPlace(q) \in Defined(objs, "function") /\ FuncPlace(q)[1] # 0
  /\ Meaning(q) = FuncPlace(q) /\ FuncIndex(q) = FinalIndex(FuncPlace(q))
IsImport(q) ==
  LET name == At(objs, q).name IN
  /\ Meaning(q) = <<0, name>> /\ FuncIndex(q) = ImportIndex(name)
  /\ ImportsOf(name) # {}

LEMMA Resolved ==
  ASSUME link \in Links, Objects, phase # "synthesize",
         NEW q \in Places(objs), At(objs, q).kind = "function", FuncFault(q) = None
  PROVE  IsDefined(q) \/ IsImport(q)
<1> DEFINE name == At(objs, q).name
           given == Definitions(link.objects, "function", name)
           all == Definitions(objs, "function", name)
<1>0. /\ NoClash /\ KeptObjects /\ RuntimeFrame /\ RuntimeSymbols /\ RuntimeOnce
      /\ RuntimeCalls /\ Sought
  BY DEF Objects
<1>1. \A p \in Places(objs) : p[1] \in Nat \ {0}
  BY <1>0, PlacesAre, Given DEF KeptObjects
<1>2. \A p \in all : /\ p \in Places(objs) /\ At(objs, p).kind = "function"
                     /\ At(objs, p).bind = "global"
  BY DefinitionsAre
<1>3. ASSUME At(objs, q).bind # "undefined"
      PROVE  IsDefined(q)
  <2>1. FuncPlace(q) = q /\ Meaning(q) = q /\ FuncIndex(q) = FinalIndex(FuncPlace(q))
    BY <1>3 DEF FuncPlace, Meaning, FuncIndex
  <2>2. q \in Defined(objs, "function")
    BY <1>0, <1>3, Bound DEF Defined, Of
  <2> QED BY <1>1, <2>1, <2>2 DEF IsDefined
<1>4. ASSUME At(objs, q).bind = "undefined", all # {}
      PROVE  IsDefined(q)
  <2>1. FuncPlace(q) = FindDefined(objs, "function", name) /\ FuncPlace(q) \in all
    BY <1>0, <1>4, OneDefinition DEF FuncPlace
  <2>2. FuncPlace(q) \in Defined(objs, "function") /\ FuncPlace(q)[1] # 0
    BY <1>1, <1>2, <2>1 DEF Defined, Of
  <2>3. FuncIndex(q) = FinalIndex(FuncPlace(q))
    BY <1>2, <2>1 DEF FuncIndex
  <2>4. Meaning(q) \in all
    <3>1. CASE given # {}
      <4>1. Meaning(q) = CHOOSE p \in given : TRUE
        BY <1>4, <3>1 DEF Meaning
      <4>2. given = all
        BY <1>0, <3>1, OneDefinition
      <4> QED BY <3>1, <4>1, <4>2
    <3>2. CASE given = {}
      <4>1. Supplied(name) /\ \A p \in all : p[1] = R
        BY <1>0, <1>4, <3>2, OneDefinition
      <4>2. Meaning(q) = CHOOSE p \in all : p[1] = R
        BY <1>4, <3>2, <4>1 DEF Meaning
      <4> HIDE DEF all
      <4> QED BY <1>4, <4>1, <4>2
    <3> QED BY <3>1, <3>2
  <2>5. Meaning(q) = FuncPlace(q)
    BY <1>0, <2>1, <2>4, OneDefinition
  <2> QED BY <2>2, <2>3, <2>5 DEF IsDefined
<1>5. ASSUME At(objs, q).bind = "undefined", all = {}
      PROVE  IsImport(q)
  <2>1. given = {}
    BY <1>0, <1>5, OneDefinition
  <2>2. q \in Undefined(link.objects, "function") /\ At(link.objects, q).name = name
    <3>1. q \in Places(link.objects)
      <4>1. SUFFICES ASSUME q[2] \in DOMAIN objs[R].syms,
                            At(objs, q) = objs[R].syms[q[2]]
                     PROVE  FALSE
        BY <1>0, PlacesSplit
      <4>2. RuntimeSymbol(At(objs, q))
        BY <1>0, <4>1 DEF RuntimeSymbols
      <4> QED BY <1>5, <2>1, <4>2 DEF RuntimeSymbol
    <3>2. At(objs, q) = At(link.objects, q)
      BY <1>0, <3>1, PlacesSplit
    <3> QED BY <1>5, <3>1, <3>2 DEF Undefined, Of
  <2>3. ~Supplied(name)
    <3>1. SUFFICES ASSUME Supplied(name)
                   PROVE  FALSE
      OBVIOUS
    <3>2. PICK i \in InRuntime("function", "global", name) : TRUE
      BY <1>0, <2>1, <2>2, <3>1 DEF Sought
    <3>3. <<R, i>> \in all
      BY <1>0, RuntimeIs, DefinitionsAre, PlacesSplit
    <3> QED BY <1>5, <3>3
  <2>4. Meaning(q) = <<0, name>>
    BY <1>5, <2>1, <2>3 DEF Meaning
  <2>5. FuncPlace(q) = q /\ FuncIndex(q) = ImportIndex(name)
    BY <1>5 DEF FuncPlace, FuncIndex, ImportIndex
  <2>6. ImportsOf(name) # {}
    <3>1. "uncollected function import" # None
      BY NoneAssumption DEF Messages
    <3> QED BY <1>5, <2>5, <3>1 DEF FuncFault
  <2> QED BY <2>4, <2>5, <2>6 DEF IsImport
<1> QED BY <1>3, <1>4, <1>5

(* A relocation is through a symbol of its object.                          *)
LEMMA RelocationPlace ==
  ASSUME link \in Links, Objects, NEW r \in Relocations
  PROVE  /\ PlaceOf(r) \in Places(objs)
         /\ RelocAt(r).kind \in {"call", "pointer"} => At(objs, PlaceOf(r)).kind = "function"
         /\ r[1] = R => RuntimeCall(RelocAt(r), objs[R].syms)
<1>0. KeptObjects /\ RuntimeFrame /\ RuntimeSymbols /\ RuntimeCalls
  BY DEF Objects
<1>1. r = <<r[1], r[2]>> /\ r[1] \in DOMAIN objs /\ r[2] \in DOMAIN objs[r[1]].relocs
  BY RelocationsAre
<1>2. CASE r[1] = R
  <2>1. RuntimeCall(RelocAt(r), objs[R].syms)
    BY <1>0, <1>1, <1>2 DEF RuntimeCalls, RelocAt
  <2>2. RelocAt(r).sym \in DOMAIN objs[R].syms /\ RuntimeSymbol(objs[R].syms[RelocAt(r).sym])
    BY <1>0, <2>1 DEF RuntimeCall, RuntimeSymbols
  <2>3. objs[R].syms[RelocAt(r).sym].kind = "function"
    BY <2>1, <2>2 DEF RuntimeCall, RuntimeSymbol
  <2> QED BY <1>0, <1>2, <2>1, <2>2, <2>3, PlacesSplit DEF PlaceOf
<1>3. CASE r[1] # R
  <2>1. r[1] \in DOMAIN link.objects /\ objs[r[1]] = link.objects[r[1]]
    BY <1>0, <1>1, <1>3, Given DEF KeptObjects
  <2>2. IsRelocation(RelocAt(r), objs[r[1]].syms)
    <3>1. IsObject(link.objects[r[1]])
      BY <2>1, Given
    <3> QED BY <1>1, <2>1, <3>1 DEF IsObject, RelocAt
  <2> QED BY <1>1, <1>3, <2>2, PlacesAre DEF IsRelocation, PlaceOf, At
<1> QED BY <1>2, <1>3

LEMMA LiveReferences ==
  ASSUME Live
  PROVE  ReferencesMean
<1>1. CASE phase \notin {"patch", "export", "linked"}
  <2>1. DOMAIN value = {}
    BY <1>1 DEF Live, Untouched
  <2> QED BY <2>1 DEF ReferencesMean, CallsReach, PointersCompare
<1>2. CASE phase \in {"patch", "export", "linked"}
  <2>0. /\ link \in Links /\ Objects /\ Collected /\ Patched
        /\ phase # "synthesize" /\ IsSequence(defs) /\ IsSequence(imports)
    BY <1>2 DEF Live, Collected
  <2>1. \A p \in Defined(objs, "function") : \E i \in DOMAIN defs : defs[i] = p
    BY <1>2 DEF Live, Collected
  <2>2. ASSUME NEW q \in Places(objs), At(objs, q).kind = "function", FuncFault(q) = None
        PROVE  FuncIndex(q) \in Indices /\ Function(FuncIndex(q)) = Meaning(q)
    <3>1. CASE IsDefined(q)
      BY <2>0, <2>1, <3>1, Numbered DEF IsDefined
    <3>2. CASE IsImport(q)
      BY <2>0, <3>2, Imported DEF IsImport
    <3> QED BY <2>0, <2>2, <3>1, <3>2, Resolved
  <2>3. ASSUME NEW q \in Places(objs), At(objs, q).kind = "function", FuncFault(q) = None,
               NEW s \in Places(objs), At(objs, s).kind = "function", FuncFault(s) = None,
               Meaning(q) = Meaning(s)
        PROVE  FuncIndex(q) = FuncIndex(s)
    <3>1. (IsDefined(q) \/ IsImport(q)) /\ (IsDefined(s) \/ IsImport(s))
      BY <2>0, <2>3, Resolved
    <3>2. \A x, y : <<0, x>> = <<0, y>> => x = y
      OBVIOUS
    <3> QED BY <2>3, <3>1, <3>2 DEF IsDefined, IsImport
  <2>4. ASSUME NEW r \in DOMAIN value, RelocAt(r).kind \in {"call", "pointer"}
        PROVE  /\ PlaceOf(r) \in Places(objs) /\ At(objs, PlaceOf(r)).kind = "function"
               /\ FuncFault(PlaceOf(r)) = None
               /\ RelocAt(r).kind = "call" => value[r] = FuncIndex(PlaceOf(r))
               /\ RelocAt(r).kind = "pointer" => Pointed(PlaceOf(r), value[r])
               /\ r[1] = R => RuntimeCall(RelocAt(r), objs[R].syms)
    <3>1. r \in Relocations
      BY <2>0 DEF Patched
    <3>2. /\ PlaceOf(r) \in Places(objs) /\ At(objs, PlaceOf(r)).kind = "function"
          /\ r[1] = R => RuntimeCall(RelocAt(r), objs[R].syms)
      BY <2>0, <2>4, <3>1, RelocationPlace
    <3> QED BY <2>0, <2>4, <3>2 DEF Patched
  <2>5. CallsReach
    <3> SUFFICES ASSUME NEW r \in DOMAIN value, RelocAt(r).kind = "call"
                 PROVE  /\ value[r] \in Indices /\ Function(value[r]) = Meaning(PlaceOf(r))
                        /\ r[1] = R => Function(value[r]) \in
                             Definitions(link.objects, "function",
                               Manifest[objs[R].syms[RelocAt(r).from].name].target)
      BY DEF CallsReach
    <3>1. value[r] \in Indices /\ Function(value[r]) = Meaning(PlaceOf(r))
      BY <2>2, <2>4
    <3>2. ASSUME r[1] = R
          PROVE  Function(value[r]) \in
                   Definitions(link.objects, "function",
                     Manifest[objs[R].syms[RelocAt(r).from].name].target)
      <4> DEFINE c == RelocAt(r)  sym == objs[R].syms[c.sym]
                 given == Definitions(link.objects, "function", sym.name)
      <4>1. RuntimeCall(c, objs[R].syms)
        BY <2>4, <3>2
      <4>2. At(objs, PlaceOf(r)) = sym
        BY <3>2 DEF PlaceOf, At
      <4>3. RuntimeSymbol(sym)
        BY <2>0, <4>1 DEF RuntimeCall, Objects, RuntimeSymbols
      <4>4. sym.bind = "undefined" /\ given # {}
        BY <4>1, <4>3 DEF RuntimeCall, RuntimeSymbol
      <4>5. Meaning(PlaceOf(r)) \in given
        BY <4>2, <4>4 DEF Meaning
      <4>6. sym.name = Manifest[objs[R].syms[c.from].name].target
        BY <4>1 DEF RuntimeCall
      <4> QED BY <3>1, <4>5, <4>6
    <3> QED BY <3>1, <3>2
  <2>6. PointersCompare
    <3> DEFINE P == {r \in DOMAIN value : RelocAt(r).kind = "pointer"}
    <3>1. \A r \in P : value[r] \in Nat /\ value[r] - 1 \in DOMAIN table
                         /\ table[value[r] - 1] = FuncIndex(PlaceOf(r))
      BY <2>4 DEF Pointed
    <3>2. \A r \in P : Function(table[value[r] - 1]) = Meaning(PlaceOf(r))
      BY <2>2, <2>4, <3>1
    <3>3. ASSUME NEW r \in P, NEW t \in P, Meaning(PlaceOf(r)) = Meaning(PlaceOf(t))
          PROVE  value[r] = value[t]
      <4>1. FuncIndex(PlaceOf(r)) = FuncIndex(PlaceOf(t))
        BY <2>3, <2>4, <3>3
      <4>2. value[r] - 1 = value[t] - 1
        BY <2>0, <3>1, <4>1 DEF Patched
      <4> QED BY <3>1, <4>2
    <3> QED BY <3>1, <3>2, <3>3 DEF PointersCompare
  <2> QED BY <2>5, <2>6 DEF ReferencesMean
<1> QED BY <1>1, <1>2

LEMMA LiveMemory ==
  ASSUME Live
  PROVE  MemoryApart
<1>1. Laid /\ Sized
  BY DEF Live
<1>2. /\ \A p \in DOMAIN address :
           /\ address[p] % At(objs, p).align = 0 /\ address[p] >= DataBase
           /\ address[p] + At(objs, p).size <= mem
           /\ \A q \in DOMAIN address \ {p} :
                \/ address[p] + At(objs, p).size <= address[q]
                \/ address[q] + At(objs, q).size <= address[p]
  BY <1>1 DEF Laid
<1> QED BY <1>1, <1>2 DEF MemoryApart, Sized

-----------------------------------------------------------------------------
(* What an action does not touch stays true                                *)

LEMMA FunctionsStay ==
  ASSUME UNCHANGED <<objs, defs, imports>>
  PROVE  /\ \A q : FuncIndex(q)' = FuncIndex(q)
         /\ \A q : FuncFault(q)' = FuncFault(q)
         /\ \A q : PlaceOf(q)' = PlaceOf(q) /\ RelocAt(q)' = RelocAt(q)
         /\ Relocations' = Relocations
<1>1. \A q : PlaceOf(q)' = PlaceOf(q) /\ RelocAt(q)' = RelocAt(q)
  BY DEF PlaceOf, RelocAt
<1>2. Relocations' = Relocations
  BY DEF Relocations
<1>3. \A q : FuncPlace(q)' = FuncPlace(q)
  BY DEF FuncPlace
<1>4. \A q : FinalIndex(q)' = FinalIndex(q)
  BY DEF FinalIndex
<1>5. \A name : ImportsOf(name)' = ImportsOf(name)
  BY DEF ImportsOf
<1>6. \A q : FuncFault(q)' = FuncFault(q)
  BY <1>3, <1>5 DEF FuncFault
<1>7. \A q : FuncIndex(q)' = FuncIndex(q)
  <2> TAKE q
  <2> DEFINE bound == At(objs, FuncPlace(q)).bind # "undefined"
             final == FinalIndex(FuncPlace(q))
             import == ImportIndex(At(objs, q).name)
  <2>1. bound' <=> bound
    BY <1>3 DEF At
  <2>2. final' = final
    BY <1>3, <1>4 DEF FinalIndex
  <2>3. import' = import
    BY <1>5 DEF At, ImportIndex, ImportsOf
  <2>4. FuncIndex(q) = IF bound THEN final ELSE import
    BY Zenon DEF FuncIndex, ImportIndex
  <2>5. FuncIndex(q)' = IF bound' THEN final' ELSE import'
    BY Zenon DEF FuncIndex, ImportIndex
  <2> HIDE DEF bound, final, import
  <2> QED BY <2>1, <2>2, <2>3, <2>4, <2>5
<1> QED BY <1>1, <1>2, <1>6, <1>7

LEMMA ObjectsStay ==
  ASSUME Objects, UNCHANGED <<link, objs>>, phase # "synthesize"
  PROVE  Objects'
<1>1. \A name : Supplied(name)' = Supplied(name)
  BY DEF Supplied, Sink
<1>2. R' = R
  BY DEF R
<1>3. \A kind, bind, name : InRuntime(kind, bind, name)' = InRuntime(kind, bind, name)
  BY <1>2 DEF InRuntime
<1>4. \A sym : RuntimeSymbol(sym) => RuntimeSymbol(sym)'
  BY <1>1 DEF RuntimeSymbol, Asked, DefinedType
<1>5. NoClash'
  BY DEF Objects, NoClash
<1>6. KeptObjects' /\ RuntimeFrame'
  BY <1>2 DEF Objects, KeptObjects, RuntimeFrame
<1>7. RuntimeSymbols' /\ RuntimeOnce'
  BY <1>2, <1>3, <1>4 DEF Objects, RuntimeSymbols, RuntimeOnce
<1>8. RuntimeCalls'
  BY <1>2 DEF Objects, RuntimeCalls
<1>9. Sought'
  BY <1>1, <1>3 DEF Objects, Sought
<1> QED BY <1>5, <1>6, <1>7, <1>8, <1>9 DEF Objects

LEMMA PatchedStays ==
  ASSUME Patched, UNCHANGED <<objs, defs, imports, table, slot, value>>
  PROVE  Patched'
<1>1. \A q, i : Pointed(q, i) => Pointed(q, i)'
  BY FunctionsStay DEF Pointed
<1>2. \A q \in DOMAIN slot' : (q \in Places(objs) /\ Pointed(q, slot[q]))'
  BY <1>1 DEF Patched
<1>3. ASSUME NEW r \in DOMAIN value'
      PROVE  /\ r \in Relocations'
             /\ RelocAt(r)'.kind \in {"call", "pointer"} => FuncFault(PlaceOf(r))' = None
             /\ RelocAt(r)'.kind = "call" => value'[r] = FuncIndex(PlaceOf(r))'
             /\ RelocAt(r)'.kind = "pointer" => Pointed(PlaceOf(r), value[r])'
  BY <1>1, FunctionsStay DEF Patched
<1> QED BY <1>2, <1>3 DEF Patched

LEMMA LaidStays ==
  ASSUME Laid, UNCHANGED <<objs, address, mem>>
  PROVE  Laid'
BY DEF Laid

LEMMA SizedStays ==
  ASSUME Sized, UNCHANGED <<link, mem, memory>>
  PROVE  Sized'
BY DEF Sized

LEMMA NothingPatched ==
  ASSUME Untouched'
  PROVE  Patched'
<1>1. IsSequence(table)'
  BY Empty DEF Untouched
<1>2. DOMAIN value' = {} /\ DOMAIN table' = {} /\ DOMAIN slot' = {}
  BY DEF Untouched
<1> QED BY <1>1, <1>2 DEF Patched

LEMMA NothingLaid ==
  ASSUME address' = << >>, mem' \in Nat, mem' >= DataBase
  PROVE  Laid'
<1>1. DOMAIN address' = {}
  OBVIOUS
<1> QED BY <1>1 DEF Laid

-----------------------------------------------------------------------------
(* The steps                                                               *)

LEMMA InitLive ==
  ASSUME Init
  PROVE  Live
<1>1. IsSequence(defs) /\ IsSequence(imports) /\ IsSequence(table)
  BY Empty DEF Init
<1>2. Collected
  BY <1>1 DEF Init, Collected
<1>3. Untouched
  BY DEF Init, Untouched
<1>4. Patched
  <2>1. DOMAIN value = {} /\ DOMAIN table = {} /\ DOMAIN slot = {}
    BY <1>3 DEF Untouched
  <2> QED BY <1>1, <2>1 DEF Patched
<1>5. Laid
  <2>1. DOMAIN address = {}
    BY DEF Init
  <2> QED BY <2>1, LayoutAssumption DEF Init, Laid
<1>6. Sized /\ Visits
  BY DEF Init, Sized, Visits
<1> QED BY <1>2, <1>3, <1>4, <1>5, <1>6 DEF Init, Live, Phases

(* What the loop of a phase is to visit are pairs of numbers, so it has a   *)
(* first one.                                                               *)
LEMMA FirstVisited ==
  ASSUME Live, todo # {}, phase \in {"synthesize", "collect", "layout", "patch"}
  PROVE  First(todo) \in todo
<1>1. link \in Links /\ KeptObjects /\ RuntimeFrame /\ Visits
  BY DEF Live, Objects
<1>2. \A kind, p : p \in Undefined(link.objects, kind) => p \in Places(link.objects)
  BY DEF Undefined, Of
<1>3. \A kind, p : p \in Defined(objs, kind) => p \in Places(objs)
  BY DEF Defined, Of
<1>4. \A p \in todo : p = <<p[1], p[2]>> /\ p[1] \in Nat /\ p[2] \in Nat
  BY <1>1, <1>2, <1>3, PairsOfNumbers DEF Visits
<1> QED BY <1>4, FirstOf

LEMMA CollectLive ==
  ASSUME Live, Collect
  PROVE  Live'
<1>1. /\ link' = link /\ objs' = objs /\ phase = "collect" /\ phase' = "collect"
      /\ defs' = Append(defs, First(todo)) /\ todo' = todo \ {First(todo)}
      /\ UNCHANGED <<imports, address, mem, table, slot, value, memory>>
  BY DEF Collect
<1>2. Objects'
  BY <1>1, ObjectsStay DEF Live
<1>3. Collected'
  <2>1. IsSequence(defs) /\ IsSequence(imports)
    BY DEF Live, Collected
  <2>2. /\ IsSequence(defs') /\ DOMAIN defs = 1 .. Len(defs) /\ Len(defs) \in Nat
        /\ DOMAIN defs' = 1 .. Len(defs) + 1
        /\ \A i \in 1 .. Len(defs) : defs'[i] = defs[i]
        /\ defs'[Len(defs) + 1] = First(todo)
    BY <1>1, <2>1, Appended
  <2>3. ASSUME NEW p \in Defined(objs, "function")
        PROVE  p \in todo' \/ \E i \in DOMAIN defs' : defs'[i] = p
    <3>1. CASE \E i \in DOMAIN defs : defs[i] = p
      BY <2>2, <3>1
    <3>2. CASE p = First(todo)
      BY <2>2, <3>2
    <3> QED BY <1>1, <3>1, <3>2 DEF Live, Collected
  <2> QED BY <1>1, <2>1, <2>2, <2>3 DEF Collected
<1>4. Untouched' /\ Patched'
  BY <1>1, NothingPatched DEF Live, Untouched
<1>5. Laid' /\ Sized'
  BY <1>1, LaidStays, SizedStays DEF Live
<1>6. Visits'
  BY <1>1 DEF Live, Visits
<1> QED BY <1>1, <1>2, <1>3, <1>4, <1>5, <1>6 DEF Live, Phases

LEMMA EndCollectLive ==
  ASSUME Live, EndCollect
  PROVE  Live'
<1>1. /\ link' = link /\ objs' = objs /\ phase = "collect" /\ phase' = "import"
      /\ todo = {} /\ UNCHANGED <<defs, imports, address, mem, table, slot, value, memory>>
  BY DEF EndCollect
<1>2. Objects'
  BY <1>1, ObjectsStay DEF Live
<1>3. Collected'
  BY <1>1 DEF Live, Collected
<1>4. Untouched' /\ Patched'
  BY <1>1, NothingPatched DEF Live, Untouched
<1>5. Laid' /\ Sized'
  BY <1>1, LaidStays, SizedStays DEF Live
<1>6. Visits'
  BY <1>1 DEF Visits
<1> QED BY <1>1, <1>2, <1>3, <1>4, <1>5, <1>6 DEF Live, Phases

LEMMA ImportLive ==
  ASSUME Live, Import, phase' # "died"
  PROVE  Live'
<1>1. /\ link' = link /\ objs' = objs /\ phase = "import" /\ phase' = "import"
      /\ \/ imports' = imports
         \/ \E x : imports' = Append(imports, x)
      /\ UNCHANGED <<defs, address, mem, table, slot, value, memory>>
  BY DEF Import, Die
<1>2. Objects'
  BY <1>1, ObjectsStay DEF Live
<1>3. Collected'
  <2>1. IsSequence(imports)
    BY DEF Live, Collected
  <2>2. \A x : IsSequence(Append(imports, x))
    BY <2>1, Appended
  <2>3. IsSequence(imports')
    BY <1>1, <2>1, <2>2
  <2> QED BY <1>1, <2>3 DEF Live, Collected
<1>4. Untouched' /\ Patched'
  BY <1>1, NothingPatched DEF Live, Untouched
<1>5. Laid' /\ Sized'
  BY <1>1, LaidStays, SizedStays DEF Live
<1>6. Visits'
  BY <1>1 DEF Visits
<1> QED BY <1>1, <1>2, <1>3, <1>4, <1>5, <1>6 DEF Live, Phases

LEMMA NumberLive ==
  ASSUME Live, Number, phase' # "died"
  PROVE  Live'
<1>1. /\ link' = link /\ objs' = objs /\ phase = "import" /\ phase' = "layout"
      /\ todo' = Defined(objs, "data")
      /\ UNCHANGED <<defs, imports, address, mem, table, slot, value, memory>>
  BY DEF Number, Die
<1>2. Objects'
  BY <1>1, ObjectsStay DEF Live
<1>3. Collected'
  BY <1>1 DEF Live, Collected
<1>4. Untouched' /\ Patched'
  BY <1>1, NothingPatched DEF Live, Untouched
<1>5. Laid' /\ Sized'
  BY <1>1, LaidStays, SizedStays DEF Live
<1>6. Visits'
  <2>1. DOMAIN address' = {}
    BY <1>1 DEF Live
  <2> QED BY <1>1, <2>1 DEF Visits
<1> QED BY <1>1, <1>2, <1>3, <1>4, <1>5, <1>6 DEF Live, Phases

LEMMA EndLayoutLive ==
  ASSUME Live, EndLayout
  PROVE  Live'
<1>1. /\ link' = link /\ objs' = objs /\ phase = "layout" /\ phase' = "patch"
      /\ todo' = Relocations
      /\ UNCHANGED <<defs, imports, address, mem, table, slot, value, memory>>
  BY DEF EndLayout
<1>2. Objects'
  BY <1>1, ObjectsStay DEF Live
<1>3. Collected'
  BY <1>1 DEF Live, Collected
<1>4. Patched'
  BY <1>1, PatchedStays DEF Live
<1>5. Laid' /\ Sized'
  BY <1>1, LaidStays, SizedStays DEF Live
<1>6. Visits'
  BY <1>1 DEF Visits, Relocations
<1> QED BY <1>1, <1>2, <1>3, <1>4, <1>5, <1>6 DEF Live, Phases

LEMMA ExportLive ==
  ASSUME Live, Export \/ Write, phase' # "died"
  PROVE  Live'
<1>1. /\ link' = link /\ objs' = objs /\ phase = "export"
      /\ phase' \in {"export", "linked"}
      /\ UNCHANGED <<todo, defs, imports, address, mem, table, slot, value, memory>>
  BY DEF Export, Write, Die
<1>2. Objects'
  BY <1>1, ObjectsStay DEF Live
<1>3. Collected'
  BY <1>1 DEF Live, Collected
<1>4. Patched'
  BY <1>1, PatchedStays DEF Live
<1>5. Laid' /\ Sized'
  BY <1>1, LaidStays, SizedStays DEF Live
<1>6. Visits'
  BY <1>1 DEF Visits
<1> QED BY <1>1, <1>2, <1>3, <1>4, <1>5, <1>6 DEF Live, Phases

LEMMA AlignUp ==
  ASSUME NEW v \in Nat, NEW a \in Nat \ {0}
  PROVE  AlignTo(v, a) \in Nat /\ AlignTo(v, a) >= v /\ AlignTo(v, a) % a = 0
<1>1. CASE v % a = 0
  BY <1>1 DEF AlignTo
<1>2. CASE v % a # 0
  <2> DEFINE q == v \div a  r == v % a
  <2>1. q \in Nat /\ r \in 1 .. a - 1 /\ v = a * q + r /\ a \in Nat /\ a > 0
    BY <1>2
  <2>2. AlignTo(v, a) = v + (a - r)
    BY <1>2 DEF AlignTo
  <2> HIDE DEF q, r
  <2>3. AlignTo(v, a) = (q + 1) * a
    <3>1. (q + 1) * a = a * q + a
      BY <2>1
    <3> QED BY <2>1, <2>2, <3>1
  <2>4. ((q + 1) * a) % a = 0
    <3>1. q + 1 \in Nat
      BY <2>1
    <3> HIDE DEF q
    <3> QED BY <2>1, <3>1
  <2> QED BY <2>1, <2>2, <2>3, <2>4
<1> QED BY <1>1, <1>2

LEMMA DataSymbol ==
  ASSUME link \in Links, KeptObjects, RuntimeSymbols, NEW p \in Places(objs)
  PROVE  At(objs, p).size \in Nat /\ At(objs, p).align \in Nat \ {0}
<1>1. CASE p \in Places(link.objects)
  <2>1. p[1] \in DOMAIN link.objects /\ p[2] \in DOMAIN link.objects[p[1]].syms
    BY <1>1, PlacesAre
  <2>2. IsObject(link.objects[p[1]])
    BY <2>1, Given
  <2>3. IsSymbol(At(link.objects, p))
    BY <2>1, <2>2 DEF IsObject, At
  <2>4. At(objs, p) = At(link.objects, p)
    BY <1>1, PlacesSplit
  <2> QED BY <2>3, <2>4 DEF IsSymbol
<1>2. CASE p[2] \in DOMAIN objs[R].syms /\ At(objs, p) = objs[R].syms[p[2]]
  BY <1>2 DEF RuntimeSymbols, RuntimeSymbol
<1> QED BY <1>1, <1>2, PlacesSplit

LEMMA LayoutLive ==
  ASSUME Live, Layout, phase' # "died"
  PROVE  Live'
<1> DEFINE p == First(todo)
           start == AlignTo(mem, At(objs, p).align)
           end == start + At(objs, p).size
<1>1. /\ link' = link /\ objs' = objs /\ phase = "layout" /\ phase' = "layout"
      /\ address' = Put(address, p, start) /\ mem' = end /\ todo' = todo \ {p}
      /\ todo # {} /\ UNCHANGED <<defs, imports, table, slot, value, memory>>
  BY DEF Layout, Die
<1>2. Objects'
  BY <1>1, ObjectsStay DEF Live
<1>3. Collected'
  BY <1>1 DEF Live, Collected
<1>4. Untouched' /\ Patched'
  BY <1>1, NothingPatched DEF Live, Untouched
<1>5. p \in todo /\ p \in Defined(objs, "data") /\ p \notin DOMAIN address
  BY <1>1, FirstVisited DEF Live, Visits
<1>6. mem \in Nat /\ mem >= DataBase /\ DataBase \in Nat /\ Laid
  BY LayoutAssumption DEF Live, Laid
<1>7. \A q \in Defined(objs, "data") :
        At(objs, q).size \in Nat /\ At(objs, q).align \in Nat \ {0}
  BY <1>1, DataSymbol DEF Live, Objects, Defined, Of
<1>8. /\ start \in Nat /\ start >= mem /\ start % At(objs, p).align = 0
      /\ end \in Nat /\ end >= start /\ end = start + At(objs, p).size
  <2>1. At(objs, p).size \in Nat /\ At(objs, p).align \in Nat \ {0}
    BY <1>5, <1>7
  <2> HIDE DEF p
  <2>2. start \in Nat /\ start >= mem /\ start % At(objs, p).align = 0
    BY <1>6, <2>1, AlignUp
  <2> HIDE DEF start
  <2> QED BY <2>1, <2>2
<1>9. /\ DOMAIN address' = DOMAIN address \cup {p} /\ address'[p] = start
      /\ \A q \in DOMAIN address : address'[q] = address[q]
  BY <1>1, <1>5 DEF Put
<1> HIDE DEF p, start, end
<1>10. Laid'
  <2>1. ASSUME NEW x \in DOMAIN address'
        PROVE  /\ x \in Defined(objs, "data")
               /\ address'[x] \in Nat /\ address'[x] >= DataBase
               /\ address'[x] % At(objs, x).align = 0
               /\ address'[x] + At(objs, x).size <= end
               /\ \A q \in DOMAIN address' \ {x} :
                    \/ address'[x] + At(objs, x).size <= address'[q]
                    \/ address'[q] + At(objs, q).size <= address'[x]
    <3>1. \A q \in DOMAIN address :
            /\ q \in Defined(objs, "data") /\ At(objs, q).size \in Nat
            /\ address[q] \in Nat /\ address[q] >= DataBase
            /\ address[q] % At(objs, q).align = 0
            /\ address[q] + At(objs, q).size <= mem
      BY <1>6, <1>7 DEF Laid
    <3>2. CASE x = p
      BY <1>5, <1>6, <1>8, <1>9, <3>1, <3>2
    <3>3. CASE x \in DOMAIN address
      <4>1. \A q \in DOMAIN address \ {x} :
              \/ address[x] + At(objs, x).size <= address[q]
              \/ address[q] + At(objs, q).size <= address[x]
        BY <1>6, <3>3 DEF Laid
      <4>2. address[x] + At(objs, x).size <= start
        BY <1>6, <1>8, <3>1, <3>3
      <4> QED BY <1>6, <1>8, <1>9, <3>1, <3>3, <4>1, <4>2
    <3> QED BY <1>9, <2>1, <3>2, <3>3
  <2>2. end >= DataBase
    BY <1>6, <1>8
  <2> QED BY <1>1, <1>8, <2>1, <2>2 DEF Laid
<1>11. memory' = None /\ Sized'
  BY <1>1 DEF Live, Sized
<1>12. Visits'
  BY <1>1, <1>9 DEF Live, Visits
<1> QED BY <1>1, <1>2, <1>3, <1>4, <1>10, <1>11, <1>12 DEF Live, Phases

LEMMA SizeMemoryLive ==
  ASSUME Live, SizeMemory, phase' # "died"
  PROVE  Live'
<1>1. /\ link' = link /\ objs' = objs /\ phase = "patch" /\ phase' = "export"
      /\ memory' = [pages |-> MemoryPages, heap |-> HeapBase,
                    limit |-> StackTop - link.stack, top |-> StackTop]
      /\ MemoryFault = None
      /\ UNCHANGED <<defs, imports, address, mem, table, slot, value>>
  BY DEF SizeMemory, Die
<1>2. Objects'
  BY <1>1, ObjectsStay DEF Live
<1>3. Collected'
  BY <1>1 DEF Live, Collected
<1>4. Patched'
  BY <1>1, PatchedStays DEF Live
<1>5. Laid'
  BY <1>1, LaidStays DEF Live
<1>6. Sized'
  <2>0. /\ link.stack \in Nat /\ link.initial \in Nat /\ link.maximum \in Nat \cup {None}
        /\ mem \in Nat
    BY LinksAssumption DEF Live, Laid
  <2>1. DataEnd \in Nat /\ DataEnd >= mem
    BY <2>0, LayoutAssumption DEF DataEnd
  <2>2. HeapBase \in Nat /\ HeapBase >= DataEnd
    BY <2>1, AlignUp, LayoutAssumption DEF HeapBase
  <2>3. MemoryPages \in Nat
    <3>1. \A n \in Nat : Pages(n) \in Nat
      BY LayoutAssumption DEF Pages
    <3>2. DataEnd + link.stack \in Nat
      BY <2>0, <2>1
    <3> QED BY <2>0, <3>1, <3>2 DEF MemoryPages
  <2>4. /\ ~(MemoryPages > MaxPages) /\ ~(HeapBase > StackTop - link.stack)
        /\ ~(link.maximum # None /\ MemoryPages > link.maximum)
    BY <1>1, NoneAssumption DEF MemoryFault, Messages
  <2>5. StackTop \in Nat /\ StackTop = MemoryPages * PageSize
    BY <2>3, LayoutAssumption DEF StackTop
  <2>6. StackTop <= AddressLimit
    <3>1. \A m, n, k \in Nat : m <= n => m * k <= n * k
      OBVIOUS
    <3>2. MemoryPages * PageSize <= MaxPages * PageSize
      BY <2>3, <2>4, <3>1, LayoutAssumption
    <3>3. MaxPages * PageSize \in Nat
      BY LayoutAssumption
    <3> QED BY <2>5, <3>2, <3>3, LayoutAssumption
  <2>7. /\ mem <= HeapBase /\ HeapBase <= StackTop - link.stack
        /\ (StackTop - link.stack) + link.stack = StackTop
        /\ link.maximum # None => MemoryPages <= link.maximum
    BY <2>0, <2>1, <2>2, <2>3, <2>4, <2>5
  <2> QED BY <1>1, <2>5, <2>6, <2>7 DEF Sized
<1>7. Visits'
  BY <1>1 DEF Visits
<1> QED BY <1>1, <1>2, <1>3, <1>4, <1>5, <1>6, <1>7 DEF Live, Phases

(* A function and the symbol of its definition have one index.              *)
LEMMA SameFunction ==
  ASSUME link \in Links, Objects, NEW q \in Places(objs)
  PROVE  FuncPlace(q) \in Places(objs) /\ FuncIndex(FuncPlace(q)) = FuncIndex(q)
<1> DEFINE name == At(objs, q).name
           all == Definitions(objs, "function", name)
<1>1. CASE FuncPlace(q) = q
  BY <1>1
<1>2. CASE FuncPlace(q) # q
  <2>1. all # {} /\ FuncPlace(q) = FindDefined(objs, "function", name)
    BY <1>2 DEF FuncPlace
  <2>2. FuncPlace(q) \in all
    BY <2>1, OneDefinition DEF Objects
  <2>3. FuncPlace(q) \in Places(objs) /\ At(objs, FuncPlace(q)).bind # "undefined"
    BY <2>2, DefinitionsAre
  <2>4. FuncPlace(FuncPlace(q)) = FuncPlace(q)
    BY <2>3 DEF FuncPlace
  <2>5. FuncIndex(q) = FinalIndex(FuncPlace(q))
    BY <2>3 DEF FuncIndex
  <2>6. FuncIndex(FuncPlace(q)) = FinalIndex(FuncPlace(q))
    BY <2>3, <2>4 DEF FuncIndex
  <2> QED BY <2>3, <2>5, <2>6
<1> QED BY <1>1, <1>2

LEMMA PatchLive ==
  ASSUME Live, Patch, phase' # "died"
  PROVE  Live'
<1>0. PICK p, q : p = First(todo) /\ q = PlaceOf(p)
  OBVIOUS
<1>1. /\ link' = link /\ objs' = objs /\ phase = "patch" /\ phase' = "patch"
      /\ PatchFault(p) = None
      /\ PatchCall(p) \/ PatchPointer(p) \/ PatchAddress(p) \/ PatchGlobal(p)
      /\ todo # {} /\ todo' = todo \ {p}
      /\ UNCHANGED <<defs, imports, address, mem, memory>>
  BY <1>0 DEF Patch, Die
<1>2. Objects'
  BY <1>1, ObjectsStay DEF Live
<1>3. Collected'
  BY <1>1 DEF Live, Collected
<1>4. p \in Relocations /\ Patched /\ Objects /\ link \in Links
  BY <1>0, <1>1, FirstVisited DEF Live, Visits
<1>5. RelocAt(p).kind \in {"call", "pointer"} => FuncFault(q) = None
  BY <1>0, <1>1 DEF PatchFault
<1>6. q \in Places(objs) /\ FuncPlace(q) \in Places(objs)
        /\ FuncIndex(FuncPlace(q)) = FuncIndex(q)
  BY <1>0, <1>4, RelocationPlace, SameFunction
<1>7. /\ \A x : FuncIndex(x)' = FuncIndex(x) /\ FuncFault(x)' = FuncFault(x)
      /\ \A x : PlaceOf(x)' = PlaceOf(x) /\ RelocAt(x)' = RelocAt(x)
      /\ Relocations' = Relocations /\ Places(objs)' = Places(objs)
  BY <1>1, FunctionsStay
<1>8. IsSequence(table) /\ Len(table) \in Nat /\ DOMAIN table = 1 .. Len(table)
  BY <1>4, Appended DEF Patched
(* One more value, a table that keeps its slots, and slots that point.      *)
<1>9. ASSUME NEW v, value' = Put(value, p, v),
             RelocAt(p).kind = "call" => v = FuncIndex(q),
             RelocAt(p).kind = "pointer" => Pointed(q, v)',
             \A x, i : Pointed(x, i) => Pointed(x, i)'
      PROVE  \A r \in DOMAIN value' :
               /\ r \in Relocations'
               /\ RelocAt(r)'.kind \in {"call", "pointer"} => FuncFault(PlaceOf(r))' = None
               /\ RelocAt(r)'.kind = "call" => value'[r] = FuncIndex(PlaceOf(r))'
               /\ RelocAt(r)'.kind = "pointer" => Pointed(PlaceOf(r), value[r])'
  <2> TAKE r \in DOMAIN value'
  <2>1. CASE r = p
    <3>1. value'[r] = v
      BY <1>9, <2>1 DEF Put
    <3>2. PlaceOf(r) = q
      BY <1>0, <2>1
    <3> QED BY <1>4, <1>5, <1>7, <1>9, <2>1, <3>1, <3>2 DEF Pointed
  <2>2. CASE r \in DOMAIN value /\ r # p
    <3>1. value'[r] = value[r]
      BY <1>9, <2>2 DEF Put
    <3>2. /\ r \in Relocations
          /\ RelocAt(r).kind \in {"call", "pointer"} => FuncFault(PlaceOf(r)) = None
          /\ RelocAt(r).kind = "call" => value[r] = FuncIndex(PlaceOf(r))
          /\ RelocAt(r).kind = "pointer" => Pointed(PlaceOf(r), value[r])
      BY <1>4, <2>2 DEF Patched
    <3>3. PICK x, i : x = PlaceOf(r) /\ i = value[r]
      OBVIOUS
    <3>4. RelocAt(r).kind = "pointer" => Pointed(x, i)'
      BY <1>9, <3>2, <3>3
    <3> QED BY <1>7, <3>1, <3>2, <3>3, <3>4 DEF Pointed
  <2> QED BY <1>9, <2>1, <2>2 DEF Put
<1>10. ASSUME UNCHANGED <<table, slot>>, RelocAt(p).kind # "pointer",
              \E v : value' = Put(value, p, v) /\ (RelocAt(p).kind = "call" => v = FuncIndex(q))
       PROVE  Patched'
  <2>1. \A x, i : Pointed(x, i) => Pointed(x, i)'
    BY <1>7, <1>10 DEF Pointed
  <2>2. \A r \in DOMAIN value' :
          /\ r \in Relocations'
          /\ RelocAt(r)'.kind \in {"call", "pointer"} => FuncFault(PlaceOf(r))' = None
          /\ RelocAt(r)'.kind = "call" => value'[r] = FuncIndex(PlaceOf(r))'
          /\ RelocAt(r)'.kind = "pointer" => Pointed(PlaceOf(r), value[r])'
    BY <1>9, <1>10, <2>1
  <2>3. \A x \in DOMAIN slot' : (x \in Places(objs) /\ Pointed(x, slot[x]))'
    BY <1>4, <1>7, <1>10, <2>1 DEF Patched, Pointed
  <2> QED BY <1>4, <1>10, <2>2, <2>3 DEF Patched
<1>11. ASSUME PatchPointer(p)
       PROVE  Patched'
  <2>0. PICK i, f : i = TableIndex(q) /\ f = FuncPlace(q)
    OBVIOUS
  <2>1. /\ RelocAt(p).kind = "pointer" /\ value' = Put(value, p, i)
        /\ slot' = Put(slot, f, i)
        /\ table' = IF i = Len(table) + 2 THEN Append(table, FuncIndex(q)) ELSE table
    BY <1>0, <1>11, <2>0 DEF PatchPointer
  <2>2. /\ i \in Nat
        /\ \/ table' = table /\ i - 1 \in DOMAIN table /\ table[i - 1] = FuncIndex(q)
           \/ table' = Append(table, FuncIndex(q)) /\ i = Len(table) + 2
                /\ \A k \in DOMAIN table : table[k] # FuncIndex(q)
    <3>1. CASE f \in DOMAIN slot
      <4>1. i = slot[f] /\ Pointed(f, i)
        BY <1>4, <2>0, <3>1 DEF TableIndex, Patched
      <4>2. i \in Nat /\ i - 1 \in DOMAIN table /\ table[i - 1] = FuncIndex(q)
        BY <1>6, <2>0, <4>1 DEF Pointed
      <4>3. i # Len(table) + 2
        BY <1>8, <4>2
      <4>4. table' = table
        BY <2>1, <4>3
      <4> QED BY <4>2, <4>4
    <3>2. CASE f \notin DOMAIN slot /\ InTable(FuncIndex(q)) # {}
      <4>1. PICK k \in InTable(FuncIndex(q)) : i = k + 1
        BY <2>0, <3>2 DEF TableIndex
      <4>2. k \in DOMAIN table /\ table[k] = FuncIndex(q)
        BY DEF InTable
      <4>3. i \in Nat /\ i - 1 = k /\ i # Len(table) + 2
        BY <1>8, <4>1, <4>2
      <4>4. table' = table
        BY <2>1, <4>3
      <4> QED BY <4>2, <4>3, <4>4
    <3>3. CASE f \notin DOMAIN slot /\ InTable(FuncIndex(q)) = {}
      <4>1. i = Len(table) + 2
        BY <2>0, <3>3 DEF TableIndex
      <4>2. \A k \in DOMAIN table : table[k] # FuncIndex(q)
        BY <3>3 DEF InTable
      <4>3. table' = Append(table, FuncIndex(q)) /\ i \in Nat
        BY <1>8, <2>1, <4>1
      <4> QED BY <4>1, <4>2, <4>3
    <3> QED BY <3>1, <3>2, <3>3
  <2>2a. PICK t : t = Append(table, FuncIndex(q))
    OBVIOUS
  <2>3. /\ IsSequence(t) /\ DOMAIN t = 1 .. Len(table) + 1
        /\ \A k \in DOMAIN table : t[k] = table[k]
        /\ t[Len(table) + 1] = FuncIndex(q)
    BY <1>8, <2>2a, Appended
  <2>4. /\ IsSequence(table') /\ DOMAIN table \subseteq DOMAIN table'
        /\ \A k \in DOMAIN table : table'[k] = table[k]
        /\ i - 1 \in DOMAIN table' /\ table'[i - 1] = FuncIndex(q)
    <3>1. CASE table' = table /\ i - 1 \in DOMAIN table /\ table[i - 1] = FuncIndex(q)
      BY <1>8, <3>1
    <3>2. CASE table' = t /\ i = Len(table) + 2
      <4>1. i - 1 = Len(table) + 1 /\ i - 1 \in DOMAIN t
        BY <1>8, <2>3, <3>2
      <4> QED BY <1>8, <2>3, <3>2, <4>1
    <3> QED BY <2>2, <2>2a, <3>1, <3>2
  <2>5. \A k, j \in DOMAIN table' : table'[k] = table'[j] => k = j
    <3>1. \A k, j \in DOMAIN table : table[k] = table[j] => k = j
      BY <1>4 DEF Patched
    <3>2. CASE table' = table
      BY <3>1, <3>2
    <3>3. CASE table' = t /\ \A k \in DOMAIN table : table[k] # FuncIndex(q)
      <4>1. \A k \in DOMAIN t : k \in DOMAIN table \/ k = Len(table) + 1
        BY <1>8, <2>3
      <4> QED BY <2>3, <3>1, <3>3, <4>1
    <3> QED BY <2>2, <2>2a, <3>2, <3>3
  <2>6. \A x, k : Pointed(x, k) => Pointed(x, k)'
    BY <1>7, <2>4 DEF Pointed
  <2>7. Pointed(q, i)' /\ Pointed(f, i)'
    <3>1. FuncIndex(f) = FuncIndex(q)
      BY <1>6, <2>0
    <3> QED BY <1>7, <2>2, <2>4, <3>1 DEF Pointed
  <2>8. \A r \in DOMAIN value' :
          /\ r \in Relocations'
          /\ RelocAt(r)'.kind \in {"call", "pointer"} => FuncFault(PlaceOf(r))' = None
          /\ RelocAt(r)'.kind = "call" => value'[r] = FuncIndex(PlaceOf(r))'
          /\ RelocAt(r)'.kind = "pointer" => Pointed(PlaceOf(r), value[r])'
    BY <1>9, <2>1, <2>6, <2>7
  <2>9. \A x \in DOMAIN slot' : (x \in Places(objs) /\ Pointed(x, slot[x]))'
    <3> TAKE x \in DOMAIN slot'
    <3>1. CASE x = f
      <4>1. slot'[x] = i
        BY <2>1, <3>1 DEF Put
      <4> QED BY <1>6, <1>7, <2>0, <2>7, <3>1, <4>1 DEF Pointed
    <3>2. CASE x \in DOMAIN slot /\ x # f
      <4>1. slot'[x] = slot[x]
        BY <2>1, <3>2 DEF Put
      <4>2. x \in Places(objs) /\ Pointed(x, slot[x])
        BY <1>4, <3>2 DEF Patched
      <4> QED BY <1>7, <2>6, <4>1, <4>2 DEF Pointed
    <3> QED BY <2>1, <3>1, <3>2 DEF Put
  <2> QED BY <2>4, <2>5, <2>8, <2>9 DEF Patched
<1>12. Patched'
  <2>1. CASE PatchCall(p)
    BY <1>0, <1>10, <2>1 DEF PatchCall
  <2>2. CASE PatchAddress(p)
    BY <1>10, <2>2 DEF PatchAddress
  <2>3. CASE PatchGlobal(p)
    BY <1>10, <2>3 DEF PatchGlobal
  <2> QED BY <1>1, <1>11, <2>1, <2>2, <2>3
<1>13. Laid' /\ Sized'
  BY <1>1, LaidStays, SizedStays DEF Live
<1>14. Visits'
  BY <1>1, <1>7 DEF Live, Visits
<1> QED BY <1>1, <1>2, <1>3, <1>12, <1>13, <1>14 DEF Live, Phases

-----------------------------------------------------------------------------
(* The steps that make the runtime object up                               *)

(* Check refuses two definitions of one name.                              *)
LEMMA DuplicatesRefused ==
  ASSUME DuplicateFault = None
  PROVE  \A kind \in {"function", "data"} : \A p, q \in Of(objs, kind, {"global"}) :
           At(objs, p).name = At(objs, q).name => p = q
<1>1. "duplicate symbol" # None /\ "duplicate continuation entry" # None
  BY NoneAssumption DEF Messages
<1> DEFINE entries == \E i, j \in Resumable :
             i # j /\ objs[i].continuation.entry = objs[j].continuation.entry
           clash == \E kind \in {"function", "data"} : \E p, q \in Of(objs, kind, {"global"}) :
                      p # q /\ At(objs, p).name = At(objs, q).name
<1>2. DuplicateFault = IF entries THEN "duplicate continuation entry"
                       ELSE IF clash THEN "duplicate symbol" ELSE None
  BY Zenon DEF DuplicateFault
<1>3. ~clash
  <2> HIDE DEF entries, clash
  <2> QED BY <1>1, <1>2
<1> QED BY <1>3

LEMMA CheckLive ==
  ASSUME Live, Check, phase' # "died"
  PROVE  Live'
<1>1. /\ link' = link /\ phase = "check" /\ phase' = "synthesize" /\ CheckFault = None
      /\ objs' = Append(objs, EmptyObject)
      /\ todo' = IF link.stdlib
                 THEN Undefined(objs, "function") \cup Undefined(objs, "data") ELSE {}
      /\ UNCHANGED <<defs, imports, address, mem, table, slot, value, memory>>
  BY DEF Check, Die
<1>2. link \in Links /\ objs = link.objects
  BY <1>1 DEF Live
<1>3. R' = R
  BY <1>1 DEF R
<1>4. /\ DOMAIN objs' = 1 .. R /\ objs'[R] = EmptyObject
      /\ \A o \in DOMAIN link.objects : objs'[o] = link.objects[o]
  <2>1. PICK e : e = EmptyObject
    OBVIOUS
  <2>2. IsSequence(link.objects)
    BY <1>2, Given
  <2> QED BY <1>1, <1>2, <2>1, <2>2, Appended DEF R
<1>5. NoClash'
  <2>1. DuplicateFault = None
    BY <1>1 DEF CheckFault
  <2> QED BY <1>1, <1>2, <2>1, DuplicatesRefused DEF NoClash
<1>6. KeptObjects'
  BY <1>1, <1>3, <1>4 DEF KeptObjects
<1>7. objs'[R].syms = << >> /\ objs'[R].relocs = << >> /\ RuntimeFrame'
  BY <1>3, <1>4, Empty DEF EmptyObject, RuntimeFrame, Holds
<1>8. DOMAIN objs'[R].syms = {} /\ DOMAIN objs'[R].relocs = {}
  BY <1>7
<1>9. RuntimeSymbols' /\ RuntimeOnce' /\ RuntimeCalls'
  BY <1>3, <1>8 DEF RuntimeSymbols, RuntimeOnce, RuntimeCalls, InRuntime
<1>10. Sought'
  <2>1. \A name : Supplied(name)' => link.stdlib
    BY <1>1 DEF Supplied
  <2> QED BY <1>1, <1>2, <2>1 DEF Sought
<1>11. Objects'
  BY <1>5, <1>6, <1>7, <1>9, <1>10 DEF Objects
<1>12. Untouched' /\ Patched'
  BY <1>1, NothingPatched DEF Live, Untouched
<1>13. Collected'
  BY <1>1 DEF Live, Collected
<1>14. Laid' /\ Sized'
  <2>1. address' = << >> /\ mem' \in Nat /\ mem' >= DataBase /\ memory' = None
    BY <1>1 DEF Live, Laid
  <2> QED BY <2>1, NothingLaid DEF Sized
<1>15. Visits'
  BY <1>1, <1>2 DEF Visits
<1> QED BY <1>1, <1>11, <1>12, <1>13, <1>14, <1>15 DEF Live, Phases

(* The symbols of the runtime object, as its list grows.                    *)
Public(sym, name) == sym.kind = "function" /\ sym.bind = "global" /\ sym.name = name
Datum(sym, name) == sym.kind = "data" /\ sym.bind = "global" /\ sym.name = name
RuntimeList(syms) ==
  /\ IsSequence(syms) /\ \A i \in DOMAIN syms : RuntimeSymbol(syms[i])
  /\ \A name : \A i, j \in DOMAIN syms :
       Public(syms[i], name) /\ Public(syms[j], name) => i = j

LEMMA SymbolAdded ==
  ASSUME NEW syms, RuntimeList(syms), NEW sym, RuntimeSymbol(sym),
         \A name : Public(sym, name) => ~ \E i \in DOMAIN syms : Public(syms[i], name)
  PROVE  LET more == Append(syms, sym) IN
         /\ RuntimeList(more) /\ Len(more) = Len(syms) + 1
         /\ DOMAIN syms \subseteq DOMAIN more /\ Len(syms) + 1 \in DOMAIN more
         /\ \A i \in DOMAIN syms : more[i] = syms[i]
         /\ more[Len(syms) + 1] = sym
         /\ \A i \in DOMAIN more : i \in DOMAIN syms \/ more[i] = sym
         /\ \A c : RuntimeCall(c, syms) => RuntimeCall(c, more)
<1> DEFINE more == Append(syms, sym)
<1>1. /\ IsSequence(more) /\ Len(syms) \in Nat /\ DOMAIN syms = 1 .. Len(syms)
      /\ Len(more) = Len(syms) + 1 /\ DOMAIN more = 1 .. Len(syms) + 1
      /\ \A i \in 1 .. Len(syms) : more[i] = syms[i]
      /\ more[Len(syms) + 1] = sym
  BY Appended DEF RuntimeList
<1> HIDE DEF more
<1>2. \A i \in DOMAIN more : i \in DOMAIN syms \/ i = Len(syms) + 1
  BY <1>1
<1>3. \A i \in DOMAIN more : RuntimeSymbol(more[i])
  BY <1>1, <1>2 DEF RuntimeList
<1>4. \A name : \A i, j \in DOMAIN more :
        Public(more[i], name) /\ Public(more[j], name) => i = j
  BY <1>1, <1>2 DEF RuntimeList
<1>5. \A c : RuntimeCall(c, syms) => RuntimeCall(c, more)
  BY <1>1 DEF RuntimeCall
<1> QED BY <1>1, <1>2, <1>3, <1>4, <1>5 DEF RuntimeList, more

(* An object of which only the runtime's part has grown.                    *)
LEMMA RuntimeGrows ==
  ASSUME link' = link, link \in Links, NoClash, KeptObjects,
         NEW syms, RuntimeList(syms), NEW relocs, IsSequence(relocs),
         \A r \in DOMAIN relocs : RuntimeCall(relocs[r], syms),
         DOMAIN objs' = DOMAIN objs, \A o \in DOMAIN link.objects : objs'[o] = objs[o],
         Holds(objs'[R], syms, relocs)
  PROVE  /\ NoClash' /\ KeptObjects' /\ RuntimeFrame'
         /\ RuntimeSymbols' /\ RuntimeOnce' /\ RuntimeCalls'
<1>1. R' = R
  BY DEF R
<1>2. NoClash'
  BY DEF NoClash
<1>3. KeptObjects'
  BY <1>1 DEF KeptObjects
<1>4. objs'[R'].syms = syms /\ objs'[R'].relocs = relocs
  BY <1>1 DEF Holds
<1>5. RuntimeFrame'
  BY <1>1, <1>4 DEF RuntimeFrame, RuntimeList
<1>6. \A name : Supplied(name)' <=> Supplied(name)
  BY DEF Supplied, Sink
<1>7. \A sym : RuntimeSymbol(sym) => RuntimeSymbol(sym)'
  BY <1>6 DEF RuntimeSymbol, Asked, DefinedType
<1>8. RuntimeSymbols'
  BY <1>4, <1>7 DEF RuntimeSymbols, RuntimeList
<1>9. RuntimeOnce'
  <2>1. \A name : InRuntime("function", "global", name)'
                    = {i \in DOMAIN syms : Public(syms[i], name)}
    BY <1>4 DEF InRuntime, Public
  <2> QED BY <2>1 DEF RuntimeOnce, RuntimeList
<1>10. RuntimeCalls'
  BY <1>4 DEF RuntimeCalls
<1> QED BY <1>2, <1>3, <1>5, <1>8, <1>9, <1>10

LEMMA RuntimeListed ==
  ASSUME Objects
  PROVE  /\ RuntimeList(objs[R].syms) /\ IsSequence(objs[R].relocs)
         /\ \A r \in DOMAIN objs[R].relocs : RuntimeCall(objs[R].relocs[r], objs[R].syms)
         /\ Holds(objs[R], objs[R].syms, objs[R].relocs)
<1>1. \A name : \A i \in DOMAIN objs[R].syms :
        Public(objs[R].syms[i], name) => i \in InRuntime("function", "global", name)
  BY DEF Public, InRuntime
<1>2. RuntimeList(objs[R].syms)
  BY <1>1 DEF Objects, RuntimeFrame, RuntimeSymbols, RuntimeOnce, RuntimeList
<1> QED BY <1>2 DEF Objects, RuntimeFrame, RuntimeCalls

LEMMA Replaced ==
  ASSUME link \in Links, Objects, NEW syms, NEW relocs,
         \/ /\ objs' = [objs EXCEPT ![R].syms = syms]
            /\ relocs = objs[R].relocs
         \/ objs' = [objs EXCEPT ![R].syms = syms, ![R].relocs = relocs]
  PROVE  /\ DOMAIN objs' = DOMAIN objs /\ \A o \in DOMAIN link.objects : objs'[o] = objs[o]
         /\ Holds(objs'[R], syms, relocs)
<1>1. R \in DOMAIN objs /\ R \notin DOMAIN link.objects
  BY Given DEF Objects, KeptObjects
<1>2. "syms" \in DOMAIN objs[R] /\ "relocs" \in DOMAIN objs[R]
  BY RuntimeListed DEF Holds
<1>3. CASE objs' = [objs EXCEPT ![R].syms = syms] /\ relocs = objs[R].relocs
  BY <1>1, <1>2, <1>3 DEF Holds
<1>4. CASE objs' = [objs EXCEPT ![R].syms = syms, ![R].relocs = relocs]
  <2>1. DOMAIN objs' = DOMAIN objs /\ \A o \in DOMAIN link.objects : objs'[o] = objs[o]
    <3>1. DOMAIN objs' = DOMAIN objs
      BY <1>4
    <3>2. \A o \in DOMAIN objs : o # R => objs'[o] = objs[o]
      BY <1>4
    <3>3. DOMAIN link.objects \subseteq DOMAIN objs
      BY Given DEF Objects, KeptObjects
    <3> QED BY <1>1, <3>1, <3>2, <3>3
  <2>2. LET new == [objs EXCEPT ![R].syms = syms, ![R].relocs = relocs] IN
        /\ "syms" \in DOMAIN new[R] /\ "relocs" \in DOMAIN new[R]
        /\ new[R].syms = syms /\ new[R].relocs = relocs
    BY <1>1, <1>2
  <2> QED BY <1>4, <2>1, <2>2 DEF Holds
<1> QED BY <1>3, <1>4

LEMMA WrapLive ==
  ASSUME Live, Wrap, phase' # "died"
  PROVE  Live'
<1>1. /\ link' = link /\ phase = "synthesize" /\ phase' = "collect" /\ todo = {}
      /\ objs' = IF NeedsWrapper THEN [objs EXCEPT ![R].syms = Append(@, Wrapper)] ELSE objs
      /\ todo' = Defined(objs', "function")
      /\ UNCHANGED <<defs, imports, address, mem, table, slot, value, memory>>
  BY DEF Wrap, Die
<1>2. link \in Links /\ Objects /\ NoClash /\ KeptObjects
  BY <1>1 DEF Live, Objects
<1>3. R \in DOMAIN objs /\ R \notin DOMAIN link.objects
  BY <1>2, Given DEF KeptObjects
<1>4. PICK syms, w : syms = Append(objs[R].syms, w) /\ w = Wrapper
  OBVIOUS
<1>5. RuntimeSymbol(w) /\ \A name : ~Public(w, name)
  BY <1>4 DEF Wrapper, Symbol, RuntimeSymbol, Public
<1>6. /\ RuntimeList(syms) /\ DOMAIN objs[R].syms \subseteq DOMAIN syms
      /\ \A i \in DOMAIN objs[R].syms : syms[i] = objs[R].syms[i]
      /\ \A c : RuntimeCall(c, objs[R].syms) => RuntimeCall(c, syms)
  BY <1>2, <1>4, <1>5, RuntimeListed, SymbolAdded
<1>7. /\ NoClash' /\ KeptObjects' /\ RuntimeFrame' /\ RuntimeSymbols' /\ RuntimeOnce'
      /\ RuntimeCalls' /\ DOMAIN objs[R].syms \subseteq DOMAIN objs'[R].syms
      /\ \A i \in DOMAIN objs[R].syms : objs'[R].syms[i] = objs[R].syms[i]
  <2>1. CASE NeedsWrapper
    <3>1. objs' = [objs EXCEPT ![R].syms = syms]
      BY <1>1, <1>4, <2>1
    <3>2. /\ DOMAIN objs' = DOMAIN objs
          /\ \A o \in DOMAIN link.objects : objs'[o] = objs[o]
          /\ Holds(objs'[R], syms, objs[R].relocs)
      BY <1>2, <3>1, Replaced
    <3>4. /\ IsSequence(objs[R].relocs)
          /\ \A r \in DOMAIN objs[R].relocs : RuntimeCall(objs[R].relocs[r], syms)
      BY <1>2, <1>6, RuntimeListed
    <3>5. objs'[R].syms = syms
      BY <3>2 DEF Holds
    <3> QED BY <1>1, <1>2, <1>6, <3>2, <3>4, <3>5, RuntimeGrows
  <2>2. CASE ~NeedsWrapper
    <3>1. objs' = objs
      BY <1>1, <2>2
    <3> QED BY <1>1, <1>2, <3>1, RuntimeListed, RuntimeGrows
  <2> QED BY <2>1, <2>2
<1>8. Sought'
  <2>1. R' = R /\ \A name : Supplied(name)' <=> Supplied(name)
    BY <1>1 DEF R, Supplied, Sink
  <2>2. \A name : InRuntime("function", "global", name)
                    \subseteq InRuntime("function", "global", name)'
    BY <1>7, <2>1 DEF InRuntime
  <2> QED BY <1>1, <1>2, <2>1, <2>2 DEF Objects, Sought
<1>9. Objects'
  BY <1>7, <1>8 DEF Objects
<1>10. Untouched' /\ Patched'
  BY <1>1, NothingPatched DEF Live, Untouched
<1>11. Collected'
  BY <1>1 DEF Live, Collected
<1>12. Laid' /\ Sized'
  <2>1. address' = << >> /\ mem' \in Nat /\ mem' >= DataBase /\ memory' = None
    BY <1>1 DEF Live, Laid
  <2> QED BY <2>1, NothingLaid DEF Sized
<1>13. Visits'
  BY <1>1 DEF Visits
<1> QED BY <1>1, <1>9, <1>10, <1>11, <1>12, <1>13 DEF Live, Phases

(* What Synthesize makes of the runtime object.                            *)
Growth(syms, relocs) ==
  /\ RuntimeList(syms) /\ IsSequence(relocs)
  /\ \A r \in DOMAIN relocs : RuntimeCall(relocs[r], syms)
  /\ DOMAIN objs[R].syms \subseteq DOMAIN syms
  /\ \A i \in DOMAIN objs[R].syms : syms[i] = objs[R].syms[i]
  /\ \A i \in DOMAIN syms : i \in DOMAIN objs[R].syms \/ syms[i].bind # "nameless"
  /\ DOMAIN objs' = DOMAIN objs /\ \A o \in DOMAIN link.objects : objs'[o] = objs[o]
  /\ Holds(objs'[R], syms, relocs)

LEMMA NothingAdded ==
  ASSUME link \in Links, Objects, objs' = objs
  PROVE  Growth(objs[R].syms, objs[R].relocs)
BY RuntimeListed DEF Growth

LEMMA DataAdded ==
  ASSUME link \in Links, Objects, NEW name, AddRuntimeData(name),
         name \in RuntimeData, link.stdlib
  PROVE  \E syms, relocs : /\ Growth(syms, relocs)
                           /\ \E i \in DOMAIN syms : Datum(syms[i], name)
<1>1. CASE objs' = objs
  <2>1. Symbol("data", name, "global", None, 4, 4).name = name
    BY DEF Symbol
  <2>2. CASE InRuntime("data", "global", name) # {}
    <3>1. PICK i \in InRuntime("data", "global", name) : TRUE
      BY <2>2
    <3>2. i \in DOMAIN objs[R].syms /\ Datum(objs[R].syms[i], name)
      BY RuntimeIs DEF Datum
    <3> QED BY <1>1, <3>2, NothingAdded
  <2>3. CASE InRuntime("data", "global", name) = {}
    <3>1. PICK syms : syms = Append(objs[R].syms, Symbol("data", name, "global", None, 4, 4))
      OBVIOUS
    <3>2. objs' = [objs EXCEPT ![R].syms = syms]
      BY <2>3, <3>1 DEF AddRuntimeData
    <3>3. R \in DOMAIN objs /\ "syms" \in DOMAIN objs[R]
      BY Given, RuntimeListed DEF Objects, KeptObjects, Holds
    <3>4. objs[R].syms = syms
      BY <1>1, <3>2, <3>3
    <3>5. Len(syms) = Len(objs[R].syms) + 1 /\ Len(objs[R].syms) \in Nat
      BY <3>1, RuntimeListed, Appended DEF RuntimeList
    <3> QED BY <3>4, <3>5
  <2> QED BY <2>2, <2>3
<1>2. CASE objs' # objs
  <2>1. PICK sym : sym = Symbol("data", name, "global", None, 4, 4)
    OBVIOUS
  <2>2. PICK syms, relocs : syms = Append(objs[R].syms, sym) /\ relocs = objs[R].relocs
    OBVIOUS
  <2>3. objs' = [objs EXCEPT ![R].syms = syms]
    BY <1>2, <2>1, <2>2 DEF AddRuntimeData
  <2>4. /\ RuntimeSymbol(sym) /\ \A n : ~Public(sym, n)
        /\ Datum(sym, name) /\ sym.bind # "nameless"
    BY <2>1 DEF Symbol, RuntimeSymbol, Public, Datum
  <2>5. /\ RuntimeList(syms) /\ DOMAIN objs[R].syms \subseteq DOMAIN syms
        /\ \A i \in DOMAIN objs[R].syms : syms[i] = objs[R].syms[i]
        /\ \A i \in DOMAIN syms : i \in DOMAIN objs[R].syms \/ syms[i].bind # "nameless"
        /\ \E i \in DOMAIN syms : Datum(syms[i], name)
        /\ \A c : RuntimeCall(c, objs[R].syms) => RuntimeCall(c, syms)
    BY <2>2, <2>4, RuntimeListed, SymbolAdded
  <2>7. Growth(syms, relocs)
    BY <2>2, <2>3, <2>5, RuntimeListed, Replaced DEF Growth
  <2> QED BY <2>5, <2>7
<1> QED BY <1>1, <1>2

(* emit_runtime_libc_bridge declares the target once.                       *)
LEMMA TargetDeclared ==
  ASSUME Objects, NEW name, HasTarget(name)
  PROVE  LET syms == WithTarget(name) IN
         /\ RuntimeList(syms)
         /\ DOMAIN objs[R].syms \subseteq DOMAIN syms
         /\ \A i \in DOMAIN objs[R].syms : syms[i] = objs[R].syms[i]
         /\ \A i \in DOMAIN syms : \A n :
              Public(syms[i], n) => i \in DOMAIN objs[R].syms
         /\ \A i \in DOMAIN syms : i \in DOMAIN objs[R].syms \/ syms[i].bind # "nameless"
         /\ \A c : RuntimeCall(c, objs[R].syms) => RuntimeCall(c, syms)
         /\ \E i \in DOMAIN syms :
              syms[i].bind = "undefined" /\ syms[i].name = Manifest[name].target
<1>0. PICK to, sym : /\ to = Manifest[name].target
                     /\ sym = Symbol("function", to, "undefined", TargetType(name), 0, 1)
  OBVIOUS
<1>1. CASE InRuntime("function", "undefined", to) # {}
  <2>1. WithTarget(name) = objs[R].syms
    BY <1>0, <1>1 DEF WithTarget
  <2>2. PICK i \in InRuntime("function", "undefined", to) : TRUE
    BY <1>1
  <2>3. i \in DOMAIN objs[R].syms /\ objs[R].syms[i].bind = "undefined"
          /\ objs[R].syms[i].name = to
    BY RuntimeIs
  <2> QED BY <1>0, <2>1, <2>3, RuntimeListed
<1>2. CASE InRuntime("function", "undefined", to) = {}
  <2>1. WithTarget(name) = Append(objs[R].syms, sym)
    BY <1>0, <1>2 DEF WithTarget
  <2>2. sym.kind = "function" /\ sym.bind = "undefined" /\ sym.name = to
          /\ sym.size = 0 /\ sym.align = 1
          /\ sym.type.wasm = TargetType(name) /\ sym.type.c = None
    BY <1>0 DEF Symbol
  <2>3. RuntimeSymbol(sym) /\ \A n : ~Public(sym, n)
    BY <1>0, <2>2 DEF HasTarget, TargetType, DefinedType, RuntimeSymbol, Public
  <2>4. PICK syms : syms = Append(objs[R].syms, sym)
    OBVIOUS
  <2>5. /\ RuntimeList(syms) /\ DOMAIN objs[R].syms \subseteq DOMAIN syms
        /\ \A i \in DOMAIN objs[R].syms : syms[i] = objs[R].syms[i]
        /\ \A c : RuntimeCall(c, objs[R].syms) => RuntimeCall(c, syms)
        /\ Len(objs[R].syms) + 1 \in DOMAIN syms /\ syms[Len(objs[R].syms) + 1] = sym
        /\ \A i \in DOMAIN syms : i \in DOMAIN objs[R].syms \/ syms[i] = sym
    BY <2>3, <2>4, RuntimeListed, SymbolAdded
  <2>6. \A i \in DOMAIN syms : i \in DOMAIN objs[R].syms \/ i = Len(objs[R].syms) + 1
    BY <2>4, RuntimeListed, Appended DEF RuntimeList
  <2>7. \A i \in DOMAIN syms : \A n : Public(syms[i], n) => i \in DOMAIN objs[R].syms
    BY <2>3, <2>5, <2>6
  <2>8. \E i \in DOMAIN syms :
          syms[i].bind = "undefined" /\ syms[i].name = Manifest[name].target
    BY <1>0, <2>2, <2>5
  <2>9. WithTarget(name) = syms
    BY <2>1, <2>4
  <2> QED BY <2>2, <2>5, <2>7, <2>8, <2>9
<1> QED BY <1>1, <1>2

LEMMA FuncAdded ==
  ASSUME link \in Links, Objects, NEW name, NEW wasm, Supplied(name),
         Definitions(link.objects, "function", name) = {}, Asked(name, wasm),
         AddRuntimeFunc(name, wasm)
  PROVE  \E syms, relocs : /\ Growth(syms, relocs)
                           /\ \E i \in DOMAIN syms : Public(syms[i], name)
<1>0. PICK old, calls, sym :
        /\ old = (IF Bridged(name, wasm) THEN WithTarget(name) ELSE objs[R].syms)
        /\ calls = objs[R].relocs
        /\ sym = Symbol("function", name, "global", wasm, 0, 1)
  OBVIOUS
<1>1. CASE InRuntime("function", "global", name) # {}
  <2>1. objs' = objs
    BY <1>1 DEF AddRuntimeFunc
  <2>2. \E i \in DOMAIN objs[R].syms : Public(objs[R].syms[i], name)
    BY <1>1, RuntimeIs DEF Public
  <2> QED BY <2>1, <2>2, NothingAdded
<1>2. CASE InRuntime("function", "global", name) = {}
  <2>1. /\ RuntimeList(old) /\ DOMAIN objs[R].syms \subseteq DOMAIN old
        /\ \A i \in DOMAIN objs[R].syms : old[i] = objs[R].syms[i]
        /\ \A i \in DOMAIN old : \A n : Public(old[i], n) => i \in DOMAIN objs[R].syms
        /\ \A i \in DOMAIN old : i \in DOMAIN objs[R].syms \/ old[i].bind # "nameless"
        /\ \A c : RuntimeCall(c, objs[R].syms) => RuntimeCall(c, old)
        /\ Bridged(name, wasm) => \E i \in DOMAIN old :
             old[i].bind = "undefined" /\ old[i].name = Manifest[name].target
    <3>1. CASE Bridged(name, wasm)
      BY <1>0, <3>1, TargetDeclared DEF Bridged
    <3>2. CASE ~Bridged(name, wasm)
      BY <1>0, <3>2, RuntimeListed
    <3> QED BY <3>1, <3>2
  <2>2. sym.kind = "function" /\ sym.bind = "global" /\ sym.name = name
          /\ sym.size = 0 /\ sym.align = 1
          /\ sym.type.wasm = wasm /\ sym.type.c = None
    BY <1>0 DEF Symbol
  <2>3. RuntimeSymbol(sym) /\ \A n : Public(sym, n) <=> n = name
    BY <2>2 DEF RuntimeSymbol, Public
  <2>4. \A i \in DOMAIN old : ~Public(old[i], name)
    BY <1>2, <2>1, RuntimeIs DEF Public
  <2>5. PICK syms : syms = Append(old, sym)
    OBVIOUS
  <2>6. /\ RuntimeList(syms) /\ DOMAIN old \subseteq DOMAIN syms
        /\ Len(old) + 1 \in DOMAIN syms /\ syms[Len(old) + 1] = sym
        /\ \A i \in DOMAIN old : syms[i] = old[i]
        /\ \A i \in DOMAIN syms : i \in DOMAIN old \/ syms[i] = sym
        /\ \A c : RuntimeCall(c, old) => RuntimeCall(c, syms)
    BY <2>1, <2>3, <2>4, <2>5, SymbolAdded
  <2>7a. PICK of : of = CHOOSE i \in DOMAIN old :
                    old[i].bind = "undefined" /\ old[i].name = Manifest[name].target
    OBVIOUS
  <2>7. PICK call, relocs :
          /\ call = [kind |-> "call", sym |-> of, from |-> Len(old) + 1, addend |-> 0]
          /\ relocs = IF Bridged(name, wasm) THEN Append(calls, call) ELSE calls
    OBVIOUS
  <2>8. objs' = [objs EXCEPT ![R].syms = syms, ![R].relocs = relocs]
    BY <1>0, <1>2, <2>5, <2>7a, <2>7 DEF AddRuntimeFunc
  <2>10. Bridged(name, wasm) => RuntimeCall(call, syms)
    <3> SUFFICES ASSUME Bridged(name, wasm)
                 PROVE  RuntimeCall(call, syms)
      OBVIOUS
    <3>1. of \in DOMAIN old /\ old[of].bind = "undefined"
            /\ old[of].name = Manifest[name].target
      BY <2>1, <2>7a
    <3> QED BY <2>2, <2>6, <2>7, <3>1 DEF RuntimeCall
  <2>11. IsSequence(relocs) /\ \A r \in DOMAIN relocs : RuntimeCall(relocs[r], syms)
    <3>1. IsSequence(calls) /\ \A r \in DOMAIN calls : RuntimeCall(calls[r], syms)
      BY <1>0, <2>1, <2>6, RuntimeListed
    <3>2. CASE Bridged(name, wasm)
      <4>1. relocs = Append(calls, call)
        BY <2>7, <3>2
      <4>2. /\ IsSequence(relocs) /\ DOMAIN calls = 1 .. Len(calls) /\ Len(calls) \in Nat
            /\ DOMAIN relocs = 1 .. Len(calls) + 1 /\ relocs[Len(calls) + 1] = call
            /\ \A i \in 1 .. Len(calls) : relocs[i] = calls[i]
        BY <3>1, <4>1, Appended
      <4>3. \A r \in DOMAIN relocs : r \in DOMAIN calls \/ r = Len(calls) + 1
        BY <4>2
      <4> QED BY <2>10, <3>1, <3>2, <4>2, <4>3
    <3>3. CASE ~Bridged(name, wasm)
      BY <2>7, <3>1, <3>3
    <3> QED BY <3>2, <3>3
  <2>12. Growth(syms, relocs)
    <3>1. \A i \in DOMAIN syms : i \in DOMAIN objs[R].syms \/ syms[i].bind # "nameless"
      BY <2>1, <2>2, <2>6
    <3> QED BY <2>1, <2>6, <2>8, <2>11, <3>1, Replaced DEF Growth
  <2>13. \E i \in DOMAIN syms : Public(syms[i], name)
    BY <2>3, <2>6
  <2> QED BY <2>12, <2>13
<1> QED BY <1>1, <1>2

(* A symbol of the todo is visited: a function that the runtime supplies,   *)
(* and data it has, is there after it.                                      *)
Visited(p, syms, relocs) ==
  LET sym == At(link.objects, p) IN
  /\ p \in Undefined(link.objects, "function") \cup Undefined(link.objects, "data")
  /\ todo' = todo \ {p} /\ link.stdlib
  /\ Growth(syms, relocs)
  /\ sym.kind = "function" /\ Supplied(sym.name)
       /\ Definitions(link.objects, "function", sym.name) = {}
     => \E i \in DOMAIN syms : Public(syms[i], sym.name)
  /\ sym.kind = "data" /\ sym.name \in RuntimeData
       /\ Definitions(link.objects, "data", sym.name) = {}
     => \E i \in DOMAIN syms : Datum(syms[i], sym.name)

LEMMA Synthesized ==
  ASSUME Live, Synthesize, phase' # "died"
  PROVE  \E p, syms, relocs : Visited(p, syms, relocs)
<1>0. PICK p, sym : p = First(todo) /\ sym = At(objs, p)
  OBVIOUS
<1>1. /\ link' = link /\ phase = "synthesize" /\ todo # {} /\ todo' = todo \ {p}
      /\ IF Definitions(link.objects, sym.kind, sym.name) # {}
         THEN objs' = objs
         ELSE IF sym.kind = "data" /\ sym.name \in RuntimeData
         THEN AddRuntimeData(sym.name)
         ELSE IF sym.kind = "function"
                   /\ (Sink(sym.name) \/ sym.name \in DOMAIN Manifest)
         THEN AddRuntimeFunc(sym.name, sym.type.wasm)
         ELSE objs' = objs
  BY <1>0 DEF Synthesize, Die
<1>2. link \in Links /\ Objects /\ KeptObjects /\ link.stdlib
  BY <1>1 DEF Live, Objects, Visits
<1>3. /\ p \in Undefined(link.objects, "function") \cup Undefined(link.objects, "data")
      /\ sym = At(link.objects, p)
  <2>1. p \in Undefined(link.objects, "function") \cup Undefined(link.objects, "data")
    BY <1>0, <1>1, FirstVisited DEF Live, Visits
  <2>2. p \in Places(link.objects)
    BY <2>1 DEF Undefined, Of
  <2> QED BY <1>0, <1>2, <2>1, <2>2, PlacesSplit
<1>4. \E syms, relocs :
        /\ Growth(syms, relocs)
        /\ sym.kind = "function" /\ Supplied(sym.name)
             /\ Definitions(link.objects, "function", sym.name) = {}
           => \E i \in DOMAIN syms : Public(syms[i], sym.name)
        /\ sym.kind = "data" /\ sym.name \in RuntimeData
             /\ Definitions(link.objects, "data", sym.name) = {}
           => \E i \in DOMAIN syms : Datum(syms[i], sym.name)
  <2>1. CASE Definitions(link.objects, sym.kind, sym.name) # {}
    BY <1>1, <1>2, <2>1, NothingAdded
  <2>2. CASE /\ Definitions(link.objects, sym.kind, sym.name) = {}
             /\ sym.kind = "data" /\ sym.name \in RuntimeData
    BY <1>1, <1>2, <2>2, DataAdded
  <2>3. CASE /\ Definitions(link.objects, sym.kind, sym.name) = {}
             /\ sym.kind = "function"
             /\ Sink(sym.name) \/ sym.name \in DOMAIN Manifest
    <3>1. AddRuntimeFunc(sym.name, sym.type.wasm)
      BY <1>1, <2>3
    <3>2. Supplied(sym.name)
      BY <1>2, <2>3 DEF Supplied
    <3>3. Asked(sym.name, sym.type.wasm)
      BY <1>3, <2>3 DEF Asked, Undefined, Of
    <3> QED BY <1>2, <2>3, <3>1, <3>2, <3>3, FuncAdded
  <2>4. CASE /\ Definitions(link.objects, sym.kind, sym.name) = {}
             /\ ~(sym.kind = "data" /\ sym.name \in RuntimeData)
             /\ ~(sym.kind = "function"
                    /\ (Sink(sym.name) \/ sym.name \in DOMAIN Manifest))
    <3>1. objs' = objs
      BY <1>1, <2>4
    <3>2. ~(sym.kind = "function" /\ Supplied(sym.name))
      BY <2>4 DEF Supplied
    <3> QED BY <1>2, <2>4, <3>1, <3>2, NothingAdded
  <2> QED BY <2>1, <2>2, <2>3, <2>4
<1> QED BY <1>1, <1>2, <1>3, <1>4 DEF Visited

LEMMA SynthesizeLive ==
  ASSUME Live, Synthesize, phase' # "died"
  PROVE  Live'
<1>1. /\ link' = link /\ phase = "synthesize" /\ phase' = "synthesize"
      /\ UNCHANGED <<defs, imports, address, mem, table, slot, value, memory>>
  BY DEF Synthesize, Die
<1>2. link \in Links /\ Objects /\ NoClash /\ KeptObjects
  BY <1>1 DEF Live, Objects
<1>3. PICK p, syms, relocs : Visited(p, syms, relocs)
  BY Synthesized
<1>4. Growth(syms, relocs) /\ link.stdlib /\ todo' = todo \ {p}
  BY <1>3 DEF Visited
<1>6. /\ NoClash' /\ KeptObjects' /\ RuntimeFrame'
      /\ RuntimeSymbols' /\ RuntimeOnce' /\ RuntimeCalls'
  BY <1>1, <1>2, <1>4, RuntimeGrows DEF Growth
<1>7. Sought'
  <2>1. R' = R /\ \A name : Supplied(name)' <=> Supplied(name)
    BY <1>1 DEF R, Supplied, Sink
  <2>2. objs'[R].syms = syms
    BY <1>4 DEF Growth, Holds
  <2>3. \A name : InRuntime("function", "global", name)
                    \subseteq InRuntime("function", "global", name)'
    BY <1>4, <2>1, <2>2 DEF InRuntime, Growth
  <2>4. ASSUME NEW x \in Undefined(link.objects, "function"),
               Supplied(At(link.objects, x).name),
               Definitions(link.objects, "function", At(link.objects, x).name) = {},
               x = p
        PROVE  InRuntime("function", "global", At(link.objects, x).name)' # {}
    <3>1. x \in Places(link.objects) /\ At(link.objects, x).kind = "function"
      BY DEF Undefined, Of
    <3>3. PICK i \in DOMAIN syms : Public(syms[i], At(link.objects, x).name)
      BY <1>3, <2>4, <3>1 DEF Visited
    <3>4. PICK n : n = At(link.objects, x).name
      OBVIOUS
    <3>5. i \in InRuntime("function", "global", n)'
      BY <2>1, <2>2, <3>3, <3>4 DEF InRuntime, Public
    <3> QED BY <1>1, <3>4, <3>5
  <2>5. ASSUME NEW x \in Undefined(link.objects, "function"),
               Supplied(At(link.objects, x).name),
               Definitions(link.objects, "function", At(link.objects, x).name) = {}
        PROVE  x \in todo' \/ InRuntime("function", "global", At(link.objects, x).name)' # {}
    <3>1. x \in todo \/ InRuntime("function", "global", At(link.objects, x).name) # {}
      BY <1>2, <2>5 DEF Objects, Sought
    <3> QED BY <1>1, <1>4, <2>3, <2>4, <2>5, <3>1
  <2> QED BY <1>1, <2>1, <2>5 DEF Sought
<1>8. Objects'
  BY <1>6, <1>7 DEF Objects
<1>9. Untouched' /\ Patched'
  BY <1>1, NothingPatched DEF Live, Untouched
<1>10. Collected'
  BY <1>1 DEF Live, Collected
<1>11. Laid' /\ Sized'
  <2>1. address' = << >> /\ mem' \in Nat /\ mem' >= DataBase /\ memory' = None
    BY <1>1 DEF Live, Laid
  <2> QED BY <2>1, NothingLaid DEF Sized
<1>12. Visits'
  BY <1>1, <1>4 DEF Live, Visits
<1> QED BY <1>1, <1>8, <1>9, <1>10, <1>11, <1>12 DEF Live, Phases

-----------------------------------------------------------------------------
(* Any step                                                                *)

Kept == <<link, objs, defs, imports, target, table, value, address, mem, memory, exported>>

(* A link dies with what it has.                                            *)
LEMMA DyingKeeps ==
  ASSUME Next, phase' = "died"
  PROVE  phase # "died" /\ UNCHANGED Kept
<1>1. CASE Check
  BY <1>1 DEF Check, Die, Kept
<1>2. CASE Synthesize
  BY <1>2 DEF Synthesize, Die, Kept
<1>3. CASE Wrap
  BY <1>3 DEF Wrap, Die, Kept
<1>4. CASE Collect \/ EndCollect
  BY <1>4 DEF Collect, EndCollect
<1>5. CASE Import
  BY <1>5 DEF Import, Die, Kept
<1>6. CASE Number
  BY <1>6 DEF Number, Die, Kept
<1>7. CASE Layout
  BY <1>7 DEF Layout, Die, Kept
<1>8. CASE EndLayout
  BY <1>8 DEF EndLayout
<1>9. CASE Patch
  BY <1>9 DEF Patch, Die, Kept
<1>10. CASE SizeMemory
  BY <1>10 DEF SizeMemory, Die, Kept
<1>11. CASE Export
  BY <1>11 DEF Export, Die, Kept
<1>12. CASE Write
  BY <1>12 DEF Write
<1> QED BY <1>1, <1>2, <1>3, <1>4, <1>5, <1>6, <1>7, <1>8, <1>9, <1>10, <1>11, <1>12
        DEF Next

LEMMA DeadStaysDead ==
  ASSUME Next
  PROVE  phase # "died"
BY DEF Next, Check, Synthesize, Wrap, Collect, EndCollect, Import, Number, Layout,
       EndLayout, Patch, SizeMemory, Export, Write

LEMMA LiveStep ==
  ASSUME Live, Next, phase' # "died"
  PROVE  Live'
BY CheckLive, SynthesizeLive, WrapLive, CollectLive, EndCollectLive, ImportLive,
   NumberLive, LayoutLive, EndLayoutLive, PatchLive, SizeMemoryLive, ExportLive DEF Next

LEMMA StutterLive ==
  ASSUME Live, UNCHANGED vars
  PROVE  Live'
<1>1. R' = R /\ (\A name : Supplied(name)' <=> Supplied(name))
  BY DEF vars, R, Supplied, Sink
<1>2. /\ \A name : InRuntime("function", "global", name)'
                     = InRuntime("function", "global", name)
      /\ \A sym : RuntimeSymbol(sym) => RuntimeSymbol(sym)'
  BY <1>1 DEF vars, InRuntime, RuntimeSymbol, Asked, DefinedType
<1>3. Objects => Objects'
  <2> SUFFICES ASSUME Objects
               PROVE  Objects'
    OBVIOUS
  <2>1. NoClash' /\ KeptObjects' /\ RuntimeFrame' /\ RuntimeSymbols' /\ RuntimeOnce'
    BY <1>1, <1>2 DEF vars, Objects, NoClash, KeptObjects, RuntimeFrame, RuntimeSymbols,
                      RuntimeOnce
  <2>2. RuntimeCalls' /\ Sought'
    BY <1>1, <1>2 DEF vars, Objects, RuntimeCalls, Sought
  <2> QED BY <2>1, <2>2 DEF Objects
<1>4. Collected' /\ Patched' /\ Laid' /\ Sized'
  BY PatchedStays DEF vars, Live, Collected, Laid, Sized
<1>5. Visits'
  BY FunctionsStay DEF vars, Live, Visits
<1> QED BY <1>3, <1>4, <1>5 DEF vars, Live, Untouched

(* What the symbols mean depends on the objects alone.                      *)
LEMMA MeaningStays ==
  ASSUME UNCHANGED Kept
  PROVE  /\ \A q : Meaning(q)' = Meaning(q)
         /\ \A i : Function(i)' = Function(i)
         /\ Indices' = Indices
         /\ \A r : PlaceOf(r)' = PlaceOf(r) /\ RelocAt(r)' = RelocAt(r)
<1>1. /\ \A r : PlaceOf(r)' = PlaceOf(r) /\ RelocAt(r)' = RelocAt(r)
      /\ Indices' = Indices
  BY DEF Kept, PlaceOf, RelocAt, Indices
<1>2. \A i : Function(i)' = Function(i)
  BY DEF Kept, Function
<1>3. \A q : Meaning(q)' = Meaning(q)
  <2> TAKE q
  <2> DEFINE bound == At(objs, q).bind # "undefined"
             given == Definitions(link.objects, "function", At(objs, q).name)
             supplied == Supplied(At(objs, q).name)
             own == CHOOSE p \in Definitions(objs, "function", At(objs, q).name) : p[1] = R
             host == <<0, At(objs, q).name>>
  <2>1. (bound' <=> bound) /\ given' = given /\ (supplied' <=> supplied)
          /\ own' = own /\ host' = host
    BY DEF Kept, Supplied, Sink, R
  <2>2. Meaning(q) = IF bound THEN q ELSE IF given # {} THEN CHOOSE p \in given : TRUE
                     ELSE IF supplied THEN own ELSE host
    BY Zenon DEF Meaning
  <2>3. Meaning(q)' = IF bound' THEN q
                      ELSE IF given' # {} THEN CHOOSE p \in given' : TRUE
                      ELSE IF supplied' THEN own' ELSE host'
    BY Zenon DEF Meaning
  <2> HIDE DEF bound, given, supplied, own, host
  <2> QED BY <2>1, <2>2, <2>3
<1> QED BY <1>1, <1>2, <1>3

LEMMA KeptStays ==
  ASSUME ReferencesMean, MemoryApart, UNCHANGED Kept
  PROVE  ReferencesMean' /\ MemoryApart'
<1>1. CallsReach'
  <2>1. R' = R /\ link' = link /\ objs' = objs /\ value' = value
    BY DEF Kept, R
  <2> SUFFICES ASSUME NEW r \in DOMAIN value', RelocAt(r)'.kind = "call"
               PROVE  (/\ value[r] \in Indices /\ Function(value[r]) = Meaning(PlaceOf(r))
                       /\ r[1] = R => Function(value[r]) \in
                            Definitions(link.objects, "function",
                              Manifest[objs[R].syms[RelocAt(r).from].name].target))'
    BY DEF CallsReach
  <2>2. /\ value[r] \in Indices /\ Function(value[r]) = Meaning(PlaceOf(r))
        /\ r[1] = R => Function(value[r]) \in
             Definitions(link.objects, "function",
               Manifest[objs[R].syms[RelocAt(r).from].name].target)
    BY <2>1, MeaningStays DEF ReferencesMean, CallsReach
  <2> QED BY <2>1, <2>2, MeaningStays
<1>2. PointersCompare'
  BY MeaningStays DEF Kept, ReferencesMean, PointersCompare
<1>3. MemoryApart'
  BY DEF Kept, MemoryApart
<1> QED BY <1>1, <1>2, <1>3 DEF ReferencesMean

LEMMA Always == Spec => []Inv
<1>1. Init => Inv
  BY InitLive, LiveReferences, LiveMemory DEF Inv
<1>2. Live => ReferencesMean /\ MemoryApart
  BY LiveReferences, LiveMemory
<1>3. Inv /\ [Next]_vars => Inv'
  <2> SUFFICES ASSUME Inv, [Next]_vars
               PROVE  Inv'
    OBVIOUS
  <2>1. CASE Next /\ phase' # "died"
    <3>1. Live'
      BY <2>1, DeadStaysDead, LiveStep DEF Inv
    <3>2. ReferencesMean' /\ MemoryApart'
      BY <3>1, <1>2, PTL
    <3> QED BY <3>1, <3>2 DEF Inv
  <2>2. CASE Next /\ phase' = "died"
    BY <2>2, DyingKeeps, KeptStays DEF Inv
  <2>3. CASE UNCHANGED vars
    <3>1. UNCHANGED Kept
      BY <2>3 DEF vars, Kept
    <3>2. phase' = phase /\ (Live => Live')
      BY <2>3, StutterLive DEF vars
    <3> QED BY <3>1, <3>2, KeptStays DEF Inv
  <2> QED BY <2>1, <2>2, <2>3
<1> QED BY <1>1, <1>3, PTL DEF Spec

(* In every link: what the linker writes for a name is what the name means, *)
(* in calls and in pointers to functions.                                   *)
THEOREM ReferencesAlwaysMean == Spec => []ReferencesMean
<1>1. Inv => ReferencesMean
  BY DEF Inv
<1> QED BY <1>1, Always, PTL

(* In every link: data segments are aligned and apart, and the heap is      *)
(* between them and the stack.                                              *)
THEOREM MemoryAlwaysApart == Spec => []MemoryApart
<1>1. Inv => MemoryApart
  BY DEF Inv
<1> QED BY <1>1, Always, PTL

-----------------------------------------------------------------------------
(* Refusals and exports.  The invariant Right says what else the loops have *)
(* seen to: types agree, data is somewhere, main has its wrapper.           *)

Distinct(kind) ==
  \A p, q \in Of(link.objects, kind, {"global"}) :
    At(link.objects, p).name = At(link.objects, q).name => p = q

DataSought ==
  \A p \in Undefined(link.objects, "data") :
    LET name == At(link.objects, p).name
    IN link.stdlib /\ name \in RuntimeData /\ Definitions(link.objects, "data", name) = {} =>
         \/ phase = "synthesize" /\ p \in todo
         \/ InRuntime("data", "global", name) # {}

Unwrapped == \A i \in DOMAIN objs[R].syms : objs[R].syms[i].bind # "nameless"

(* The wrapper is there if main needs it; nothing else has no symbol.       *)
Wrapped ==
  /\ \A p \in Of(objs, "function", {"nameless"}) :
       /\ At(objs, p) = Wrapper /\ p[1] = R
       /\ Definitions(link.objects, "function", Main) # {}
  /\ NeedsWrapper => HasWrapper
  /\ \A i \in DOMAIN link.exports : SignatureHolds(objs, i)

(* An import is of a function some file misses, with the type it gives; and *)
(* what a file misses has been found, with that type, or is imported.       *)
ImportsAre ==
  \A i \in DOMAIN imports :
    \E p \in Undefined(link.objects, "function") :
      At(link.objects, p).name = imports[i].name /\ At(link.objects, p).type = imports[i].type

Satisfied(sym) ==
  IF Definitions(objs, "function", sym.name) # {}
  THEN FuncSignatureMatches(sym.type, At(objs, FindDefined(objs, "function", sym.name)).type)
  ELSE ImportsOf(sym.name) # {}
         /\ \A i \in ImportsOf(sym.name) : imports[i].type.wasm = sym.type.wasm

Answered ==
  /\ phase = "import" => todo \subseteq Undefined(objs, "function")
  /\ \A p \in Undefined(objs, "function") :
       (phase = "import" /\ p \in todo) \/ Satisfied(At(objs, p))

Targeted == HasWrapper => Mains # {} /\ target = FinalIndex(Last(Mains))

DataResolved ==
  \A r \in Relocations :
    \/ phase = "patch" /\ r \in todo
    \/ RelocAt(r).kind = "address" => DataFault(PlaceOf(r)) = None

Served ==
  /\ IsSequence(exported) /\ Len(exported) <= Len(link.exports)
  /\ \A i \in DOMAIN exported :
       LET them == Candidates(link.exports[i].name)
       IN them # {} /\ exported[i] = FinalIndex(Last(them))

Right ==
  /\ why = None
  /\ phase # "check" => Distinct("data") /\ DataSought
  /\ phase = "synthesize" => Unwrapped
  /\ phase \notin {"check", "synthesize"} => Wrapped
  /\ ImportsAre
  /\ phase \notin {"check", "synthesize", "collect"} => Answered
  /\ phase \in {"layout", "patch", "export", "linked"} => Targeted
  /\ phase \in {"patch", "export", "linked"} => DataResolved
  /\ phase \notin {"export", "linked"} => exported = << >>
  /\ Served

(* A set of symbols has a last one: turned around, the first.               *)
LEMMA LastOf ==
  ASSUME NEW n \in Nat, NEW m \in [1 .. n -> Nat], NEW S, S # {},
         \A p \in S : p = <<p[1], p[2]>> /\ p[1] \in 1 .. n /\ p[2] \in 1 .. m[p[1]]
  PROVE  Last(S) \in S /\ \A q \in S : Last(S) = q \/ Before(q, Last(S))
<1> DEFINE Turn(p) == <<n - p[1], m[p[1]] - p[2]>>
           T == {Turn(p) : p \in S}
<1>1. \A p \in S : Turn(p)[1] \in Nat /\ Turn(p)[2] \in Nat
  <2> TAKE p \in S
  <2>1. p[1] \in 1 .. n /\ m[p[1]] \in Nat /\ p[2] \in 1 .. m[p[1]]
    OBVIOUS
  <2> QED BY <2>1
<1>2. \A t \in T : t = <<t[1], t[2]>> /\ t[1] \in Nat /\ t[2] \in Nat
  BY <1>1
<1>3. First(T) \in T /\ \A t \in T : First(T) = t \/ Before(First(T), t)
  <2>1. T # {}
    OBVIOUS
  <2> HIDE DEF T
  <2> QED BY <1>2, <2>1, FirstOf
<1>4. PICK p \in S : First(T) = Turn(p)
  BY <1>3
<1>5. \A q \in S : p = q \/ Before(q, p)
  <2> TAKE q \in S
  <2>1. Turn(q) \in T
    OBVIOUS
  <2>2. Turn(p) = Turn(q) \/ Before(Turn(p), Turn(q))
    <3> HIDE DEF T, Turn
    <3> QED BY <1>3, <1>4, <2>1
  <2>3. /\ p = <<p[1], p[2]>> /\ p[1] \in Nat /\ p[2] \in Nat /\ m[p[1]] \in Nat
        /\ q = <<q[1], q[2]>> /\ q[1] \in Nat /\ q[2] \in Nat /\ m[q[1]] \in Nat
    OBVIOUS
  <2>4. CASE Turn(p) = Turn(q)
    <3>1. n - p[1] = n - q[1] /\ m[p[1]] - p[2] = m[q[1]] - q[2]
      BY <2>4
    <3>2. p[1] = q[1]
      BY <2>3, <3>1
    <3>3. p[2] = q[2]
      BY <2>3, <3>1, <3>2
    <3> QED BY <2>3, <3>2, <3>3
  <2>5. CASE Before(Turn(p), Turn(q))
    <3>1. \/ n - p[1] < n - q[1]
          \/ n - p[1] = n - q[1] /\ m[p[1]] - p[2] < m[q[1]] - q[2]
      BY <2>5 DEF Before
    <3>2. CASE n - p[1] < n - q[1]
      BY <2>3, <3>2 DEF Before
    <3>3. CASE n - p[1] = n - q[1] /\ m[p[1]] - p[2] < m[q[1]] - q[2]
      <4>1. p[1] = q[1]
        BY <2>3, <3>3
      <4>2. q[2] < p[2]
        BY <2>3, <3>3, <4>1
      <4> QED BY <4>1, <4>2 DEF Before
    <3> QED BY <3>1, <3>2, <3>3
  <2> QED BY <2>2, <2>4, <2>5
<1> QED BY <1>5 DEF Last

LEMMA LastPlace ==
  ASSUME link \in Links, KeptObjects, RuntimeFrame, NEW S, S # {}, S \subseteq Places(objs)
  PROVE  Last(S) \in S /\ \A q \in S : Last(S) = q \/ Before(q, Last(S))
<1> DEFINE m == [o \in 1 .. R |-> Len(objs[o].syms)]
<1>1. \A o \in 1 .. R : IsSequence(objs[o].syms)
  <2>1. IsSequence(objs[R].syms)
    BY DEF RuntimeFrame
  <2>2. \A o \in DOMAIN link.objects : IsSequence(objs[o].syms)
    BY Given DEF KeptObjects, IsObject
  <2> QED BY <2>1, <2>2, Given
<1>2. \A o \in 1 .. R : DOMAIN objs[o].syms = 1 .. Len(objs[o].syms) /\ Len(objs[o].syms) \in Nat
  BY <1>1, Appended
<1>3. R \in Nat /\ m \in [1 .. R -> Nat]
  BY <1>2, Given
<1>4. \A p \in S : p = <<p[1], p[2]>> /\ p[1] \in 1 .. R /\ p[2] \in 1 .. m[p[1]]
  BY <1>2, PlacesAre DEF KeptObjects
<1> HIDE DEF m
<1> QED BY <1>3, <1>4, LastOf

LEMMA MainIsTheirs == \A name : Supplied(name) => name # Main
BY ManifestAssumption DEF Supplied, Sink

LEMMA FirstGiven ==
  ASSUME link \in Links, NEW kind, NEW name, Definitions(link.objects, kind, name) # {}
  PROVE  FindDefined(link.objects, kind, name) \in Definitions(link.objects, kind, name)
<1> DEFINE given == Definitions(link.objects, kind, name)
<1>1. \A p \in given : p = <<p[1], p[2]>> /\ p[1] \in Nat /\ p[2] \in Nat
  <2> TAKE p \in given
  <2>1. p \in Places(link.objects)
    BY DefinitionsAre
  <2> QED BY <2>1, PlacesAre, Given
<1> HIDE DEF given
<1>2. given # {} => First(given) \in given
  BY <1>1, FirstOf
<1> QED BY <1>2 DEF FindDefined, given

LEMMA LiveExports ==
  ASSUME Live, Right
  PROVE  ExportsRight
<1> SUFFICES ASSUME NEW i \in DOMAIN exported
             PROVE  LET name == link.exports[i].name
                        f == Function(exported[i])
                        wanted == Definitions(objs, "function", name)
                    IN /\ exported[i] \in Indices /\ f[1] # 0 /\ At(objs, f).name = name
                       /\ ~ (\E p \in Of(objs, "function", {"local"}) :
                               At(objs, p).name = name) =>
                            \/ f \in wanted
                                 /\ ~ (name = Main /\ At(objs, f).type.wasm \in MainWithParams)
                            \/ At(objs, f).bind = "nameless" /\ Function(target) \in wanted
                       /\ link.exports[i].signature # None =>
                            \E p \in wanted : At(objs, p).type.c = link.exports[i].signature
  BY DEF ExportsRight
<1>0. PICK name, f : name = link.exports[i].name /\ f = Last(Candidates(name))
  OBVIOUS
<1>1. phase \in {"export", "linked"}
  <2>1. exported # << >>
    OBVIOUS
  <2> QED BY <2>1 DEF Right, Live, Phases
<1>2. /\ link \in Links /\ Objects /\ NoClash /\ KeptObjects /\ RuntimeFrame
      /\ RuntimeSymbols /\ RuntimeOnce /\ IsSequence(defs) /\ IsSequence(imports)
      /\ Wrapped /\ Targeted /\ Served
  BY <1>1 DEF Live, Right, Objects, Collected
<1>3. \A p \in Defined(objs, "function") :
        /\ FinalIndex(p) \in Indices /\ Function(FinalIndex(p)) = p
        /\ p \in Places(objs) /\ p[1] # 0 /\ p[1] \in 1 .. R
        /\ At(objs, p).kind = "function" /\ At(objs, p).bind \in {"global", "local", "nameless"}
  <2> TAKE p \in Defined(objs, "function")
  <2>1. \E k \in DOMAIN defs : defs[k] = p
    BY <1>1 DEF Live, Collected
  <2>2. p \in Places(objs) /\ At(objs, p).kind = "function"
          /\ At(objs, p).bind \in {"global", "local", "nameless"}
    BY DEF Defined, Of
  <2>3. p[1] \in 1 .. R /\ p[1] # 0
    BY <1>2, <2>2, PlacesAre, Given DEF KeptObjects
  <2> QED BY <1>2, <2>1, <2>2, <2>3, Numbered
<1>4. /\ Candidates(name) \subseteq Defined(objs, "function")
      /\ \A p \in Candidates(name) : At(objs, p).name = name
  BY DEF Candidates
<1>5. /\ f \in Candidates(name) /\ exported[i] = FinalIndex(f)
      /\ \A p \in Candidates(name) : f = p \/ Before(p, f)
  <2>1. Candidates(name) # {} /\ exported[i] = FinalIndex(f)
    BY <1>0, <1>2 DEF Served
  <2>2. Candidates(name) \subseteq Places(objs)
    BY <1>3, <1>4
  <2> QED BY <1>0, <1>2, <2>1, <2>2, LastPlace
<1>6. /\ exported[i] \in Indices /\ Function(exported[i]) = f /\ f[1] # 0
      /\ At(objs, f).name = name /\ f \in Places(objs) /\ At(objs, f).kind = "function"
      /\ At(objs, f).bind \in {"global", "local", "nameless"}
  BY <1>3, <1>4, <1>5
<1>7. i \in DOMAIN link.exports
  <2>1. IsSequence(link.exports)
    BY <1>2, LinksAssumption
  <2>2. DOMAIN link.exports = 1 .. Len(link.exports) /\ Len(link.exports) \in Nat
    BY <2>1, Appended
  <2>3. DOMAIN exported = 1 .. Len(exported) /\ Len(exported) \in Nat
          /\ Len(exported) <= Len(link.exports)
    BY <1>2, Appended DEF Served
  <2> QED BY <2>2, <2>3
<1>8. link.exports[i].signature # None =>
        \E p \in Definitions(objs, "function", name) :
          At(objs, p).type.c = link.exports[i].signature
  <2> SUFFICES ASSUME link.exports[i].signature # None
               PROVE  \E p \in Definitions(objs, "function", name) :
                        At(objs, p).type.c = link.exports[i].signature
    OBVIOUS
  <2>1. PICK given : given = Definitions(objs, "function", name)
    OBVIOUS
  <2>2. given # {} /\ At(objs, First(given)).type.c = link.exports[i].signature
    <3>1. SignatureHolds(objs, i)
      BY <1>2, <1>7 DEF Wrapped
    <3> QED BY <1>0, <2>1, <3>1 DEF SignatureHolds
  <2>3. First(given) \in given
    BY <1>2, <2>1, <2>2, OneDefinition DEF FindDefined
  <2> QED BY <2>1, <2>2, <2>3
<1>9. ASSUME ~ \E p \in Of(objs, "function", {"local"}) : At(objs, p).name = name
      PROVE  \/ /\ f \in Definitions(objs, "function", name)
                /\ ~ (name = Main /\ At(objs, f).type.wasm \in MainWithParams)
             \/ /\ At(objs, f).bind = "nameless"
                /\ Function(target) \in Definitions(objs, "function", name)
  <2>1. \A p \in Places(objs) : At(objs, p).kind = "function" /\ At(objs, p).name = name
          => At(objs, p).bind # "local"
    BY <1>9 DEF Of
  <2>2. CASE At(objs, f).bind = "global"
    <3>1. f \in Definitions(objs, "function", name)
      BY <1>6, <2>2, DefinitionsAre
    <3>2. ASSUME name = Main, At(objs, f).type.wasm \in MainWithParams
          PROVE  FALSE
      <4> DEFINE given == Definitions(link.objects, "function", Main)
                 all == Definitions(objs, "function", Main)
      <4>1. given # {} /\ f \in given
        <5>1. f \in all /\ ~Supplied(Main)
          BY <3>1, <3>2, MainIsTheirs
        <5>2. given # {}
          BY <1>2, <5>1, OneDefinition
        <5>3. all = given
          BY <1>2, <5>2, OneDefinition
        <5> QED BY <5>1, <5>2, <5>3
      <4>2. FindDefined(link.objects, "function", Main) = f
        <5>1. FindDefined(link.objects, "function", Main) \in given
          BY <1>2, <4>1, FirstGiven
        <5>2. given = all
          BY <1>2, <4>1, OneDefinition
        <5> QED BY <1>2, <4>1, <5>1, <5>2, OneDefinition
      <4>3. NeedsWrapper
        BY <1>0, <1>7, <3>2, <4>1, <4>2 DEF NeedsWrapper, Exports
      <4>4. PICK w \in Of(objs, "function", {"nameless"}) : TRUE
        BY <1>2, <4>3 DEF Wrapped, HasWrapper
      <4>5. At(objs, w).name = Main /\ w[1] = R /\ At(objs, w).bind = "nameless"
        BY <1>2 DEF Wrapped, Wrapper, Symbol, Of
      <4>6. w \in Candidates(name)
        BY <3>2, <4>5 DEF Candidates, Defined, Of
      <4>7. Before(w, f)
        BY <1>5, <2>2, <4>5, <4>6
      <4>8. f[1] # R /\ f[1] \in 1 .. R /\ R \in Nat
        <5>1. f \in Places(link.objects)
          BY <4>1, DefinitionsAre
        <5> QED BY <1>2, <1>3, <1>4, <1>5, <5>1, PlacesSplit, Given
      <4> QED BY <4>5, <4>7, <4>8 DEF Before
    <3> QED BY <3>1, <3>2
  <2>3. CASE At(objs, f).bind = "nameless"
    <3>1. f \in Of(objs, "function", {"nameless"})
      BY <1>6, <2>3 DEF Of
    <3>2. name = Main /\ HasWrapper
      BY <1>2, <1>6, <3>1 DEF Wrapped, Wrapper, Symbol, HasWrapper
    <3>3. PICK g : g = Last(Mains)
      OBVIOUS
    <3>4. Mains # {} /\ target = FinalIndex(g)
      BY <1>2, <3>2, <3>3 DEF Targeted
    <3>5. Mains \subseteq Places(objs)
      BY DEF Mains, Defined, Of
    <3>6. g \in Mains
      BY <1>2, <3>3, <3>4, <3>5, LastPlace
    <3>7. g \in Defined(objs, "function") /\ At(objs, g).name = Main
            /\ At(objs, g).bind # "nameless"
      BY <3>6 DEF Mains
    <3>8. Function(target) = g
      BY <1>3, <3>4, <3>7
    <3>9. g \in Definitions(objs, "function", name)
      BY <1>3, <2>1, <3>2, <3>7, DefinitionsAre
    <3> QED BY <2>3, <3>8, <3>9
  <2> QED BY <1>6, <2>1, <2>2, <2>3
<1> QED BY <1>0, <1>6, <1>8, <1>9

(* A symbol that a file gives is the same once the runtime has been added.  *)
LEMMA GivenSymbols ==
  ASSUME link \in Links, KeptObjects
  PROVE  /\ \A p \in Places(link.objects) : At(objs, p) = At(link.objects, p)
         /\ \A kind, binds : Of(link.objects, kind, binds) \subseteq Places(link.objects)
         /\ \A kind, binds : Of(link.objects, kind, binds) \subseteq Of(objs, kind, binds)
BY PlacesSplit DEF Of

(* Functions whose symbols are satisfied agree on their types.              *)
LEMMA SatisfiedAgree ==
  ASSUME link \in Links, Objects,
         \A p \in Undefined(objs, "function") : Satisfied(At(objs, p)), NEW name
  PROVE  ~Disagree(name)
<1> DEFINE given == Definitions(link.objects, "function", name)
           all == Definitions(objs, "function", name)
<1>0. /\ NoClash /\ KeptObjects /\ RuntimeFrame /\ RuntimeSymbols /\ RuntimeOnce
  BY DEF Objects
<1>1. \A p \in Refs(name) : Satisfied(At(objs, p)) /\ At(objs, p).name = name
  BY <1>0, GivenSymbols DEF Refs, Undefined
<1>2. \A p \in Refs(name) : all # {} =>
        FuncSignatureMatches(At(objs, p).type, At(objs, FindDefined(objs, "function", name)).type)
  BY <1>1 DEF Satisfied
<1>3. \A p \in Refs(name) : all = {} =>
        /\ ImportsOf(name) # {}
        /\ \A i \in ImportsOf(name) : imports[i].type.wasm = At(objs, p).type.wasm
  BY <1>1 DEF Satisfied
<1>4. CASE given # {}
  <2>1. all = given /\ FindDefined(objs, "function", name) \in given
          /\ \A p, q \in given : p = q
    BY <1>0, <1>4, OneDefinition
  <2>2. \A s \in TypesOf(Refs(name)), t \in TypesOf(given) : FuncSignatureMatches(s, t)
    BY <1>2, <1>4, <2>1 DEF TypesOf
  <2> QED BY <1>4, <2>2 DEF Disagree
<1>5. CASE given = {}
  <2>1. \A p, q \in Refs(name) : At(objs, p).type.wasm = At(objs, q).type.wasm
    <3>1. CASE all # {}
      BY <1>2, <3>1 DEF FuncSignatureMatches
    <3>2. CASE all = {}
      BY <1>3, <3>2
    <3> QED BY <3>1, <3>2
  <2>2. \A s, t \in TypesOf(Refs(name)) : s.wasm = t.wasm
    BY <2>1 DEF TypesOf
  <2> QED BY <1>5, <2>2 DEF Disagree
<1> QED BY <1>4, <1>5

(* A relocation of a file through data.                                     *)
LEMMA GivenRelocation ==
  ASSUME link \in Links, KeptObjects, NEW o \in DOMAIN link.objects,
         NEW i \in DOMAIN link.objects[o].relocs
  PROVE  LET rel == link.objects[o].relocs[i] IN
         /\ <<o, i>> \in Relocations /\ RelocAt(<<o, i>>) = rel
         /\ PlaceOf(<<o, i>>) = <<o, rel.sym>> /\ <<o, rel.sym>> \in Places(link.objects)
         /\ At(objs, <<o, rel.sym>>) = At(link.objects, <<o, rel.sym>>)
         /\ rel.kind = "address" <=> At(link.objects, <<o, rel.sym>>).kind = "data"
<1> DEFINE rel == link.objects[o].relocs[i]
<1>1. o \in DOMAIN objs /\ objs[o] = link.objects[o]
  BY Given DEF KeptObjects
<1>2. <<o, i>> \in Relocations /\ RelocAt(<<o, i>>) = rel
  BY <1>1, RelocationsAre DEF RelocAt
<1>3. IsRelocation(rel, link.objects[o].syms)
  BY Given DEF IsObject
<1>4. rel.sym \in DOMAIN link.objects[o].syms
  BY <1>3 DEF IsRelocation
<1>5. PlaceOf(<<o, i>>) = <<o, rel.sym>> /\ <<o, rel.sym>> \in Places(link.objects)
  BY <1>2, <1>4, PlacesAre DEF PlaceOf
<1>6. At(objs, <<o, rel.sym>>) = At(link.objects, <<o, rel.sym>>)
  BY <1>5, GivenSymbols
<1>7. rel.kind = "address" <=> link.objects[o].syms[rel.sym].kind = "data"
  <2>1. CASE rel.kind \in {"call", "pointer"}
    BY <1>3, <2>1 DEF IsRelocation
  <2>2. CASE rel.kind = "address"
    BY <1>3, <2>2 DEF IsRelocation
  <2>3. CASE rel.kind = "global"
    BY <1>3, <2>3 DEF IsRelocation
  <2> QED BY <1>3, <2>1, <2>2, <2>3 DEF IsRelocation
<1> QED BY <1>2, <1>5, <1>6, <1>7 DEF At

(* Data of a name is defined by a file or is the runtime's.                 *)
LEMMA DataDefined ==
  ASSUME link \in Links, Objects, NEW name
  PROVE  /\ Definitions(link.objects, "data", name) \subseteq Definitions(objs, "data", name)
         /\ InRuntime("data", "global", name) # {} => Definitions(objs, "data", name) # {}
         /\ Definitions(objs, "data", name) # {} =>
              \/ Definitions(link.objects, "data", name) # {}
              \/ link.stdlib /\ name \in RuntimeData
<1>0. KeptObjects /\ RuntimeSymbols
  BY DEF Objects
<1>1. Definitions(link.objects, "data", name) \subseteq Definitions(objs, "data", name)
  BY <1>0, DefinitionsAre, PlacesSplit
<1>2. ASSUME NEW i \in InRuntime("data", "global", name)
      PROVE  <<R, i>> \in Definitions(objs, "data", name)
  BY <1>0, RuntimeIs, DefinitionsAre, PlacesSplit
<1>3. ASSUME NEW d \in Definitions(objs, "data", name)
      PROVE  \/ Definitions(link.objects, "data", name) # {}
             \/ link.stdlib /\ name \in RuntimeData
  <2>1. d \in Places(objs) /\ At(objs, d).kind = "data" /\ At(objs, d).bind = "global"
          /\ At(objs, d).name = name
    BY DefinitionsAre
  <2>2. CASE d \in Places(link.objects)
    BY <1>0, <2>1, <2>2, DefinitionsAre, PlacesSplit
  <2>3. CASE d[2] \in DOMAIN objs[R].syms /\ At(objs, d) = objs[R].syms[d[2]]
    <3>1. RuntimeSymbol(At(objs, d))
      BY <1>0, <2>3 DEF RuntimeSymbols
    <3> QED BY <2>1, <3>1 DEF RuntimeSymbol
  <2> QED BY <1>0, <2>1, <2>2, <2>3, PlacesSplit
<1> QED BY <1>1, <1>2, <1>3

LEMMA LiveRefusals ==
  ASSUME Live, Right
  PROVE  RefusalsRight
<1>1. /\ why # "duplicate symbol" /\ why # "function signature mismatch"
      /\ why # "unresolved data symbol"
      /\ why \notin {"uncollected function import", "main wrapper"}
  BY NoneAssumption DEF Right, Messages
<1>2. ASSUME phase = "linked"
      PROVE  /\ ~ Clash("function") /\ ~ Clash("data")
             /\ \A p \in Undefined(link.objects, "function") : ~ Disagree(At(objs, p).name)
             /\ \A o \in DOMAIN link.objects : \A i \in DOMAIN link.objects[o].relocs :
                  ~ Unprovided(<<o, i>>)
  <2>0. /\ link \in Links /\ Objects /\ NoClash /\ KeptObjects
        /\ Distinct("data") /\ Answered /\ DataResolved
    BY <1>2 DEF Live, Right, Objects
  <2>1. ~ Clash("function") /\ ~ Clash("data")
    BY <2>0, GivenSymbols DEF Clash, NoClash, Distinct
  <2>2. \A name : ~ Disagree(name)
    BY <1>2, <2>0, SatisfiedAgree DEF Answered
  <2>3. ASSUME NEW o \in DOMAIN link.objects, NEW i \in DOMAIN link.objects[o].relocs,
               Unprovided(<<o, i>>)
        PROVE  FALSE
    <3>0. PICK q : q = <<o, link.objects[o].relocs[i].sym>>
      OBVIOUS
    <3>1. /\ At(link.objects, q).kind = "data" /\ At(link.objects, q).bind = "undefined"
          /\ Definitions(link.objects, "data", At(link.objects, q).name) = {}
          /\ ~ (link.stdlib /\ At(link.objects, q).name \in RuntimeData)
      BY <2>3, <3>0 DEF Unprovided
    <3>2. /\ <<o, i>> \in Relocations /\ PlaceOf(<<o, i>>) = q
          /\ RelocAt(<<o, i>>).kind = "address" /\ At(objs, q) = At(link.objects, q)
      BY <2>0, <3>0, <3>1, GivenRelocation
    <3>3. DataFault(q) = None
      BY <1>2, <2>0, <3>2 DEF DataResolved
    <3>4. "unresolved data symbol" # None
      BY NoneAssumption DEF Messages
    <3>5. Definitions(objs, "data", At(objs, q).name) # {}
      BY <3>1, <3>2, <3>3, <3>4 DEF DataFault
    <3> QED BY <2>0, <3>1, <3>2, <3>5, DataDefined
  <2> QED BY <2>1, <2>2, <2>3
<1> QED BY <1>1, <1>2 DEF RefusalsRight

(* What Right says of the objects stays true with them.                     *)
LEMMA RightParts ==
  ASSUME UNCHANGED <<link, objs>>
  PROVE  /\ Distinct("data") => Distinct("data")'
         /\ DataSought /\ phase # "synthesize" => DataSought'
         /\ Wrapped => Wrapped'
         /\ imports' = imports => (ImportsAre => ImportsAre')
         /\ imports' = imports => \A sym : Satisfied(sym)' <=> Satisfied(sym)
         /\ UNCHANGED <<imports, defs, target>> => (Targeted => Targeted')
         /\ UNCHANGED <<imports, defs, exported>> => (Served => Served')
         /\ \A q : DataFault(q)' = DataFault(q)
<1>1. R' = R /\ \A kind, bind, name : InRuntime(kind, bind, name)' = InRuntime(kind, bind, name)
  BY DEF R, InRuntime
<1>2. Distinct("data") => Distinct("data")'
  BY DEF Distinct
<1>3. DataSought /\ phase # "synthesize" => DataSought'
  BY <1>1 DEF DataSought
<1>4. Wrapped => Wrapped'
  <2>1. (NeedsWrapper' <=> NeedsWrapper) /\ (HasWrapper' <=> HasWrapper)
    BY DEF NeedsWrapper, Exports, HasWrapper
  <2>2. \A i : SignatureHolds(objs, i)' <=> SignatureHolds(objs, i)
    BY DEF SignatureHolds
  <2> QED BY <1>1, <2>1, <2>2 DEF Wrapped
<1>5. imports' = imports => (ImportsAre => ImportsAre')
  BY DEF ImportsAre
<1>6. imports' = imports => \A sym : Satisfied(sym)' <=> Satisfied(sym)
  BY DEF Satisfied, ImportsOf
<1>7. UNCHANGED <<imports, defs>> => \A p : FinalIndex(p)' = FinalIndex(p)
  BY DEF FinalIndex
<1>8. UNCHANGED <<imports, defs, target>> => (Targeted => Targeted')
  <2>1. Mains' = Mains /\ (HasWrapper' <=> HasWrapper)
    BY DEF Mains, HasWrapper
  <2> QED BY <1>7, <2>1 DEF Targeted
<1>9. UNCHANGED <<imports, defs, exported>> => (Served => Served')
  <2>1. \A name : Candidates(name)' = Candidates(name)
    BY DEF Candidates
  <2> QED BY <1>7, <2>1 DEF Served
<1>10. \A q : DataFault(q)' = DataFault(q)
  BY DEF DataFault, DataPlace
<1> QED BY <1>2, <1>3, <1>4, <1>5, <1>6, <1>8, <1>9, <1>10

-----------------------------------------------------------------------------
(* The steps, of a link that goes on                                       *)

LEMMA NothingServed ==
  ASSUME link' \in Links, exported' = << >>
  PROVE  Served'
<1>1. IsSequence(link'.exports)
  BY LinksAssumption
<1>2. Len(link'.exports) \in Nat
  BY <1>1, Appended
<1>3. IsSequence(exported') /\ DOMAIN exported' = {} /\ Len(exported') = 0
  BY Empty
<1> QED BY <1>2, <1>3 DEF Served

LEMMA InitRight ==
  ASSUME Init
  PROVE  Right
<1>1. IsSequence(link.exports)
  BY LinksAssumption DEF Init
<1>2. Len(link.exports) \in Nat
  BY <1>1, Appended
<1>3. exported = << >> /\ DOMAIN exported = {} /\ Len(exported) = 0 /\ imports = << >>
  BY DEF Init
<1>4. Served
  BY <1>2, <1>3, Empty DEF Served
<1>5. ImportsAre
  BY <1>3 DEF ImportsAre
<1> QED BY <1>3, <1>4, <1>5 DEF Init, Right

LEMMA CheckRight ==
  ASSUME Live, Right, Check, phase' # "died"
  PROVE  Right'
<1>1. /\ link' = link /\ phase = "check" /\ phase' = "synthesize" /\ CheckFault = None
      /\ objs' = Append(objs, EmptyObject)
      /\ todo' = IF link.stdlib
                 THEN Undefined(objs, "function") \cup Undefined(objs, "data") ELSE {}
      /\ UNCHANGED <<why, imports, exported>>
  BY DEF Check, Die
<1>2. link \in Links /\ objs = link.objects
  BY <1>1 DEF Live
<1>3. objs'[R] = EmptyObject
  <2>1. PICK e : e = EmptyObject
    OBVIOUS
  <2>2. IsSequence(link.objects)
    BY <1>2, Given
  <2> QED BY <1>1, <1>2, <2>1, <2>2, Appended DEF R
<1>4. Distinct("data")'
  <2>1. DuplicateFault = None
    BY <1>1 DEF CheckFault
  <2> QED BY <1>1, <1>2, <2>1, DuplicatesRefused DEF Distinct
<1>5. DataSought'
  BY <1>1, <1>2 DEF DataSought
<1>6. Unwrapped'
  <2>1. R' = R
    BY <1>1 DEF R
  <2>2. DOMAIN objs'[R].syms = {}
    BY <1>3 DEF EmptyObject
  <2> QED BY <2>1, <2>2 DEF Unwrapped
<1>7. ImportsAre'
  BY <1>1 DEF Right, ImportsAre
<1>8. Served'
  BY <1>1, <1>2, NothingServed DEF Right
<1> QED BY <1>1, <1>4, <1>5, <1>6, <1>7, <1>8 DEF Right

LEMMA SynthesizeRight ==
  ASSUME Live, Right, Synthesize, phase' # "died"
  PROVE  Right'
<1>1. /\ link' = link /\ phase = "synthesize" /\ phase' = "synthesize"
      /\ UNCHANGED <<why, imports, exported>>
  BY DEF Synthesize, Die
<1>2. link \in Links /\ Distinct("data") /\ DataSought /\ Unwrapped
  BY <1>1 DEF Live, Right
<1>3. PICK p, syms, relocs : Visited(p, syms, relocs)
  BY Synthesized
<1>4. Growth(syms, relocs) /\ link.stdlib /\ todo' = todo \ {p}
  BY <1>3 DEF Visited
<1>5. R' = R /\ objs'[R].syms = syms
  BY <1>1, <1>4 DEF R, Growth, Holds
<1>6. Distinct("data")'
  BY <1>1, <1>2 DEF Distinct
<1>7. DataSought'
  <2> SUFFICES ASSUME NEW x \in Undefined(link.objects, "data"), NEW name,
                      name = At(link.objects, x).name, name \in RuntimeData,
                      Definitions(link.objects, "data", name) = {}, x \notin todo'
               PROVE  InRuntime("data", "global", name)' # {}
    BY <1>1 DEF DataSought
  <2>1. CASE x = p
    <3>1. At(link.objects, x).kind = "data"
      BY DEF Undefined, Of
    <3>2. PICK i \in DOMAIN syms : Datum(syms[i], name)
      BY <1>3, <2>1, <3>1 DEF Visited
    <3>3. i \in InRuntime("data", "global", name)'
      BY <1>5, <3>2 DEF InRuntime, Datum
    <3> QED BY <3>3
  <2>2. CASE x # p
    <3>1. PICK i \in InRuntime("data", "global", name) : TRUE
      BY <1>2, <1>4, <2>2 DEF DataSought
    <3>2. i \in InRuntime("data", "global", name)'
      BY <1>4, <1>5 DEF InRuntime, Growth
    <3> QED BY <3>2
  <2> QED BY <2>1, <2>2
<1>8. Unwrapped'
  BY <1>2, <1>4, <1>5 DEF Unwrapped, Growth
<1>9. ImportsAre'
  BY <1>1 DEF Right, ImportsAre
<1>10. Served'
  BY <1>1, <1>2, NothingServed DEF Right
<1> QED BY <1>1, <1>6, <1>7, <1>8, <1>9, <1>10 DEF Right

LEMMA WrapRight ==
  ASSUME Live, Right, Wrap, phase' # "died"
  PROVE  Right'
<1>1. /\ link' = link /\ phase = "synthesize" /\ phase' = "collect" /\ todo = {}
      /\ objs' = IF NeedsWrapper THEN [objs EXCEPT ![R].syms = Append(@, Wrapper)] ELSE objs
      /\ ~ SignatureFault(objs')
      /\ UNCHANGED <<why, imports, exported>>
  BY DEF Wrap, Die
<1>2. /\ link \in Links /\ Objects /\ Distinct("data") /\ DataSought /\ Unwrapped
  BY <1>1 DEF Live, Right
<1>3. R' = R
  BY <1>1 DEF R
<1>4. PICK syms, w : syms = Append(objs[R].syms, w) /\ w = Wrapper
  OBVIOUS
<1>5. /\ RuntimeSymbol(w) /\ \A name : ~Public(w, name)
      /\ w.kind = "function" /\ w.bind = "nameless"
  BY <1>4 DEF Wrapper, Symbol, RuntimeSymbol, Public
<1>6. /\ DOMAIN objs[R].syms \subseteq DOMAIN syms
      /\ \A i \in DOMAIN objs[R].syms : syms[i] = objs[R].syms[i]
      /\ Len(objs[R].syms) + 1 \in DOMAIN syms /\ syms[Len(objs[R].syms) + 1] = w
      /\ \A i \in DOMAIN syms : i \in DOMAIN objs[R].syms \/ syms[i] = w
  BY <1>2, <1>4, <1>5, RuntimeListed, SymbolAdded
<1>7. NeedsWrapper => objs'[R].syms = syms
  <2> SUFFICES ASSUME NeedsWrapper
               PROVE  objs'[R].syms = syms
    OBVIOUS
  <2>1. objs' = [objs EXCEPT ![R].syms = syms]
    BY <1>1, <1>4
  <2> QED BY <1>2, <2>1, Replaced DEF Holds
<1>8. DOMAIN objs' = DOMAIN link.objects \cup {R}
        /\ \A o \in DOMAIN link.objects : objs'[o] = link.objects[o]
  <2>1. DOMAIN objs' = DOMAIN objs /\ \A o \in DOMAIN link.objects : objs'[o] = objs[o]
    <3>1. CASE NeedsWrapper
      <4>1. objs' = [objs EXCEPT ![R].syms = syms]
        BY <1>1, <1>4, <3>1
      <4> QED BY <1>2, <4>1, Replaced
    <3>2. CASE ~NeedsWrapper
      BY <1>1, <3>2
    <3> QED BY <3>1, <3>2
  <2> QED BY <1>2, <2>1, Given DEF Objects, KeptObjects
<1>8a. NeedsWrapper' <=> NeedsWrapper
  <2> DEFINE q == FindDefined(link.objects, "function", Main)
             has == Exports(Main) /\ Definitions(link.objects, "function", Main) # {}
  <2>1. has' <=> has
    BY <1>1 DEF Exports
  <2>2. has => At(objs', q) = At(objs, q)
    <3> SUFFICES ASSUME has
                 PROVE  At(objs', q) = At(objs, q)
      OBVIOUS
    <3>1. q \in Places(link.objects)
      BY <1>2, FirstGiven, DefinitionsAre
    <3>2. q[1] \in DOMAIN link.objects
      BY <3>1, PlacesAre
    <3> HIDE DEF q
    <3> QED BY <1>2, <1>8, <3>2 DEF At, Objects, KeptObjects
  <2>3. q' = q
    BY <1>1
  <2>4. NeedsWrapper <=> has /\ At(objs, q).type.wasm \in MainWithParams
    BY DEF NeedsWrapper
  <2>5. NeedsWrapper' <=> has' /\ At(objs', q').type.wasm \in MainWithParams
    BY DEF NeedsWrapper
  <2> HIDE DEF q, has
  <2> QED BY <2>1, <2>2, <2>3, <2>4, <2>5
<1>9. Distinct("data")'
  BY <1>1, <1>2 DEF Distinct
<1>10. DataSought'
  <2>1. \A i \in DOMAIN objs[R].syms :
          i \in DOMAIN objs'[R].syms /\ objs'[R].syms[i] = objs[R].syms[i]
    <3>1. CASE NeedsWrapper
      BY <1>6, <1>7, <3>1
    <3>2. CASE ~NeedsWrapper
      BY <1>1, <3>2
    <3> QED BY <3>1, <3>2
  <2>2. \A name : InRuntime("data", "global", name) \subseteq InRuntime("data", "global", name)'
    BY <1>3, <2>1 DEF InRuntime
  <2>3. \A x \in Undefined(link.objects, "data") :
          LET name == At(link.objects, x).name
          IN link.stdlib /\ name \in RuntimeData /\ Definitions(link.objects, "data", name) = {}
               => InRuntime("data", "global", name)' # {}
    BY <1>1, <1>2, <2>2 DEF DataSought
  <2> QED BY <1>1, <2>3 DEF DataSought
<1>11. Wrapped'
  <2>1. ASSUME NEW p \in Of(objs', "function", {"nameless"})
        PROVE  /\ At(objs', p) = w /\ p[1] = R
               /\ Definitions(link.objects, "function", Main) # {}
    <3>1. p \in Places(objs') /\ At(objs', p).bind = "nameless"
      BY DEF Of
    <3>2. /\ p[1] \in DOMAIN objs' /\ p[2] \in DOMAIN objs'[p[1]].syms
          /\ At(objs', p) = objs'[p[1]].syms[p[2]]
      BY <3>1, PlacesAre DEF At
    <3>3. p[1] = R
      <4> SUFFICES ASSUME p[1] \in DOMAIN link.objects
                   PROVE  FALSE
        BY <1>8, <3>2
      <4>1. IsSymbol(At(objs', p))
        BY <1>2, <1>8, <3>2, Given DEF IsObject
      <4> QED BY <3>1, <4>1 DEF IsSymbol
    <3>4. NeedsWrapper
      <4> SUFFICES ASSUME ~NeedsWrapper
                   PROVE  FALSE
        OBVIOUS
      <4> QED BY <1>1, <1>2, <3>1, <3>2, <3>3 DEF Unwrapped
    <3>5. At(objs', p) = w
      BY <1>2, <1>6, <1>7, <3>1, <3>2, <3>3, <3>4 DEF Unwrapped
    <3> QED BY <3>3, <3>4, <3>5 DEF NeedsWrapper
  <2>2. NeedsWrapper => Of(objs', "function", {"nameless"}) # {}
    <3> SUFFICES ASSUME NeedsWrapper
                 PROVE  Of(objs', "function", {"nameless"}) # {}
      OBVIOUS
    <3>1. PICK i \in DOMAIN objs'[R].syms : objs'[R].syms[i] = w
      BY <1>6, <1>7
    <3>2. <<R, i>> \in Places(objs') /\ At(objs', <<R, i>>) = w
      BY <1>8, <3>1, PlacesAre DEF At
    <3> QED BY <1>5, <3>2 DEF Of
  <2>3. \A i \in DOMAIN link.exports : SignatureHolds(objs', i)
    BY <1>1 DEF SignatureFault
  <2>4. \A i \in DOMAIN link.exports : SignatureHolds(objs, i)'
    BY <1>1, <2>3 DEF SignatureHolds
  <2>5. w = Wrapper'
    BY <1>4 DEF Wrapper
  <2> QED BY <1>1, <1>3, <1>8a, <2>1, <2>2, <2>4, <2>5 DEF Wrapped, HasWrapper
<1>12. ImportsAre'
  BY <1>1 DEF Right, ImportsAre
<1>13. Served'
  BY <1>1, <1>2, NothingServed DEF Right
<1> QED BY <1>1, <1>9, <1>10, <1>11, <1>12, <1>13 DEF Right

LEMMA CollectRight ==
  ASSUME Live, Right, Collect \/ EndCollect
  PROVE  Right'
<1>1. /\ link' = link /\ objs' = objs /\ phase = "collect" /\ phase' \in {"collect", "import"}
      /\ phase' = "import" => todo' = Undefined(objs, "function")
      /\ UNCHANGED <<why, imports, exported>>
  BY DEF Collect, EndCollect
<1>2. /\ link \in Links /\ Distinct("data") /\ DataSought /\ Wrapped /\ ImportsAre
  BY <1>1 DEF Live, Right
<1>3. Distinct("data")' /\ DataSought' /\ Wrapped' /\ ImportsAre'
  BY <1>1, <1>2, RightParts
<1>4. phase' = "import" => Answered'
  BY <1>1 DEF Answered
<1>5. Served'
  BY <1>1, <1>2, NothingServed DEF Right
<1> QED BY <1>1, <1>3, <1>4, <1>5 DEF Right

LEMMA FirstImport ==
  ASSUME Live, Right, phase = "import", todo # {}
  PROVE  First(todo) \in todo /\ First(todo) \in Undefined(objs, "function")
<1>1. /\ link \in Links /\ KeptObjects /\ RuntimeFrame
      /\ todo \subseteq Undefined(objs, "function")
  BY DEF Live, Right, Objects, Answered
<1>2. \A p \in todo : p = <<p[1], p[2]>> /\ p[1] \in Nat /\ p[2] \in Nat
  <2>1. Undefined(objs, "function") \subseteq Places(objs)
    BY DEF Undefined, Of
  <2> QED BY <1>1, <2>1, PairsOfNumbers
<1> QED BY <1>1, <1>2, FirstOf

(* An undefined function without a definition is a file's.                  *)
LEMMA MissedByFile ==
  ASSUME link \in Links, Objects, NEW p \in Undefined(objs, "function"),
         Definitions(objs, "function", At(objs, p).name) = {}
  PROVE  /\ p \in Undefined(link.objects, "function")
         /\ At(objs, p) = At(link.objects, p)
<1>0. /\ KeptObjects /\ RuntimeSymbols /\ NoClash /\ RuntimeFrame /\ RuntimeOnce
  BY DEF Objects
<1>1. p \in Places(objs) /\ At(objs, p).kind = "function" /\ At(objs, p).bind = "undefined"
  BY DEF Undefined, Of
<1>2. p \in Places(link.objects)
  <2> SUFFICES ASSUME p[2] \in DOMAIN objs[R].syms, At(objs, p) = objs[R].syms[p[2]]
               PROVE  FALSE
    BY <1>0, <1>1, PlacesSplit
  <2>1. RuntimeSymbol(At(objs, p))
    BY <1>0 DEF RuntimeSymbols
  <2>2. Definitions(link.objects, "function", At(objs, p).name) # {}
    BY <1>1, <2>1 DEF RuntimeSymbol
  <2> QED BY <1>0, <2>2, OneDefinition
<1>3. At(objs, p) = At(link.objects, p)
  BY <1>0, <1>2, PlacesSplit
<1> QED BY <1>1, <1>2, <1>3 DEF Undefined, Of

LEMMA ImportRight ==
  ASSUME Live, Right, Import, phase' # "died"
  PROVE  Right'
<1>0. PICK p, sym : p = First(todo) /\ sym = At(objs, p)
  OBVIOUS
<1>1. /\ link' = link /\ objs' = objs /\ phase = "import" /\ phase' = "import"
      /\ todo # {} /\ todo' = todo \ {p} /\ ~ImportFault(sym)
      /\ imports' = IF \/ Definitions(objs, "function", sym.name) # {}
                       \/ ImportsOf(sym.name) # {}
                    THEN imports
                    ELSE Append(imports, [name |-> sym.name, type |-> sym.type])
      /\ UNCHANGED <<why, exported>>
  BY <1>0 DEF Import, Die
<1>2. /\ link \in Links /\ Objects /\ Distinct("data") /\ DataSought /\ Wrapped
      /\ ImportsAre /\ Answered /\ IsSequence(imports)
  BY <1>1 DEF Live, Right, Collected
<1>3. p \in todo /\ p \in Undefined(objs, "function")
  BY <1>0, <1>1, FirstImport
<1>4. Distinct("data")' /\ DataSought' /\ Wrapped'
  BY <1>1, <1>2, RightParts
<1>5. Served'
  BY <1>1, <1>2, NothingServed DEF Right
<1>6. PICK new : new = [name |-> sym.name, type |-> sym.type]
  OBVIOUS
<1>7. new.name = sym.name /\ new.type = sym.type
  BY <1>6
<1>8. CASE imports' = imports
             /\ (Definitions(objs, "function", sym.name) # {} \/ ImportsOf(sym.name) # {})
  <2>1. ImportsAre'
    BY <1>1, <1>2, <1>8, RightParts
  <2>2. Satisfied(sym)
    BY <1>1, <1>8 DEF ImportFault, Satisfied, FuncSignatureMatches
  <2>3. \A s : Satisfied(s)' <=> Satisfied(s)
    BY <1>1, <1>8, RightParts
  <2>4. \A q \in Undefined(objs, "function") : q \in todo' \/ Satisfied(At(objs, q))
    BY <1>0, <1>1, <1>2, <2>2 DEF Answered
  <2>5. Answered'
    BY <1>1, <1>2, <2>3, <2>4 DEF Answered
  <2> QED BY <1>1, <1>4, <1>5, <2>1, <2>5 DEF Right
<1>9. CASE imports' = Append(imports, new) /\ ImportsOf(sym.name) = {}
             /\ Definitions(objs, "function", sym.name) = {}
  <2>1. /\ Len(imports) \in Nat /\ DOMAIN imports = 1 .. Len(imports)
        /\ DOMAIN imports' = 1 .. Len(imports) + 1
        /\ \A i \in 1 .. Len(imports) : imports'[i] = imports[i]
        /\ imports'[Len(imports) + 1] = new
    BY <1>2, <1>9, Appended
  <2>2. /\ p \in Undefined(link.objects, "function") /\ sym = At(link.objects, p)
    BY <1>0, <1>2, <1>3, <1>9, MissedByFile
  <2>3. \A i \in DOMAIN imports' : i \in DOMAIN imports \/ i = Len(imports) + 1
    BY <2>1
  <2>4. ImportsAre'
    BY <1>1, <1>2, <1>7, <2>1, <2>2, <2>3 DEF ImportsAre
  <2>5. \A name : name # sym.name => ImportsOf(name)' = ImportsOf(name)
    BY <1>7, <2>1, <2>3 DEF ImportsOf
  <2>6. ImportsOf(sym.name)' = {Len(imports) + 1}
    BY <1>7, <1>9, <2>1, <2>3 DEF ImportsOf
  <2>7. ASSUME NEW q \in Undefined(objs, "function"), q \notin todo'
        PROVE  Satisfied(At(objs, q))'
    <3>1. PICK s : s = At(objs, q)
      OBVIOUS
    <3>2. q = p \/ Satisfied(s)
      BY <1>1, <1>2, <2>7, <3>1 DEF Answered
    <3>3. CASE s.name = sym.name
      <4>1. s = sym
        <5>1. ~Satisfied(s) 
          BY <1>9, <3>3 DEF Satisfied
        <5> QED BY <1>0, <3>1, <3>2, <5>1
      <4> QED BY <1>1, <1>7, <1>9, <2>1, <2>6, <3>1, <4>1 DEF Satisfied
    <3>4. CASE s.name # sym.name
      <4>1. Satisfied(s)
        BY <1>0, <3>1, <3>2, <3>4
      <4>2. imports'[1] = imports'[1] /\ \A i \in ImportsOf(s.name) : imports'[i] = imports[i]
        BY <2>1 DEF ImportsOf
      <4> QED BY <1>1, <2>5, <3>1, <3>4, <4>1, <4>2 DEF Satisfied
    <3> QED BY <3>3, <3>4
  <2>8. Answered'
    BY <1>1, <1>2, <2>7 DEF Answered
  <2> QED BY <1>1, <1>4, <1>5, <2>4, <2>8 DEF Right
<1> QED BY <1>1, <1>6, <1>8, <1>9

LEMMA NumberRight ==
  ASSUME Live, Right, Number, phase' # "died"
  PROVE  Right'
<1>1. /\ link' = link /\ objs' = objs /\ phase = "import" /\ phase' = "layout" /\ todo = {}
      /\ HasWrapper => Mains # {} /\ target' = FinalIndex(Last(Mains))
      /\ UNCHANGED <<why, imports, defs, exported>>
  BY DEF Number, Die
<1>2. /\ link \in Links /\ Distinct("data") /\ DataSought /\ Wrapped /\ ImportsAre /\ Answered
  BY <1>1 DEF Live, Right
<1>3. Distinct("data")' /\ DataSought' /\ Wrapped' /\ ImportsAre'
  BY <1>1, <1>2, RightParts
<1>4. Answered'
  <2>1. \A p \in Undefined(objs, "function") : Satisfied(At(objs, p))
    BY <1>1, <1>2 DEF Answered
  <2>2. \A s : Satisfied(s)' <=> Satisfied(s)
    BY <1>1, RightParts
  <2> QED BY <1>1, <2>1, <2>2 DEF Answered
<1>5. Targeted'
  <2>1. Mains' = Mains /\ (HasWrapper' <=> HasWrapper)
    BY <1>1 DEF Mains, HasWrapper
  <2>2. \A p : FinalIndex(p)' = FinalIndex(p)
    BY <1>1 DEF FinalIndex
  <2> QED BY <1>1, <2>1, <2>2 DEF Targeted
<1>6. Served'
  BY <1>1, <1>2, NothingServed DEF Right
<1> QED BY <1>1, <1>3, <1>4, <1>5, <1>6 DEF Right

(* From Number on the objects, the functions and the target stay.           *)
LEMMA LaterRight ==
  ASSUME Live, Right, UNCHANGED <<link, objs, defs, imports, target, why>>,
         phase \in {"layout", "patch", "export", "linked"},
         phase' \in {"layout", "patch", "export", "linked"}
  PROVE  /\ Distinct("data")' /\ DataSought' /\ Wrapped' /\ ImportsAre' /\ Answered'
         /\ Targeted' /\ why' = None
         /\ exported' = exported => Served'
         /\ \A r : PlaceOf(r)' = PlaceOf(r) /\ RelocAt(r)' = RelocAt(r)
         /\ Relocations' = Relocations /\ \A q : DataFault(q)' = DataFault(q)
<1>1. /\ Distinct("data") /\ DataSought /\ Wrapped /\ ImportsAre /\ Answered
      /\ Targeted /\ Served /\ why = None
  BY DEF Right
<1>2. Distinct("data")' /\ DataSought' /\ Wrapped' /\ ImportsAre' /\ Targeted'
  BY <1>1, RightParts
<1>3. Answered'
  <2>1. \A p \in Undefined(objs, "function") : Satisfied(At(objs, p))
    BY <1>1 DEF Answered
  <2>2. \A s : Satisfied(s)' <=> Satisfied(s)
    BY RightParts
  <2> QED BY <2>1, <2>2 DEF Answered
<1>4. exported' = exported => Served'
  BY <1>1, RightParts
<1>5. /\ \A r : PlaceOf(r)' = PlaceOf(r) /\ RelocAt(r)' = RelocAt(r)
      /\ Relocations' = Relocations /\ \A q : DataFault(q)' = DataFault(q)
  BY FunctionsStay, RightParts
<1> QED BY <1>1, <1>2, <1>3, <1>4, <1>5

LEMMA LayoutRight ==
  ASSUME Live, Right, Layout \/ EndLayout, phase' # "died"
  PROVE  Right'
<1>1. /\ UNCHANGED <<link, objs, defs, imports, target, why, exported>>
      /\ phase = "layout" /\ phase' \in {"layout", "patch"}
      /\ phase' = "patch" => todo' = Relocations
  BY DEF Layout, EndLayout, Die
<1>2. /\ Distinct("data")' /\ DataSought' /\ Wrapped' /\ ImportsAre' /\ Answered'
      /\ Targeted' /\ why' = None /\ Served' /\ Relocations' = Relocations
  BY <1>1, LaterRight
<1>3. phase' = "patch" => DataResolved'
  BY <1>1, <1>2 DEF DataResolved
<1> QED BY <1>1, <1>2, <1>3 DEF Right

LEMMA PatchRight ==
  ASSUME Live, Right, Patch, phase' # "died"
  PROVE  Right'
<1>0. PICK p : p = First(todo)
  OBVIOUS
<1>1. /\ UNCHANGED <<link, objs, defs, imports, target, why, exported>>
      /\ phase = "patch" /\ phase' = "patch" /\ todo' = todo \ {p} /\ PatchFault(p) = None
  BY <1>0 DEF Patch, Die
<1>2. /\ Distinct("data")' /\ DataSought' /\ Wrapped' /\ ImportsAre' /\ Answered'
      /\ Targeted' /\ why' = None /\ Served' /\ Relocations' = Relocations
      /\ \A r : PlaceOf(r)' = PlaceOf(r) /\ RelocAt(r)' = RelocAt(r)
      /\ \A q : DataFault(q)' = DataFault(q)
  BY <1>1, LaterRight
<1>3. RelocAt(p).kind = "address" => DataFault(PlaceOf(p)) = None
  BY <1>1 DEF PatchFault
<1>4. DataResolved'
  <2>1. \A r \in Relocations : r \in todo' \/
          (RelocAt(r).kind = "address" => DataFault(PlaceOf(r)) = None)
    BY <1>1, <1>3 DEF Right, DataResolved
  <2> QED BY <1>1, <1>2, <2>1 DEF DataResolved
<1> QED BY <1>1, <1>2, <1>4 DEF Right

LEMMA SizeMemoryRight ==
  ASSUME Live, Right, SizeMemory \/ Write, phase' # "died"
  PROVE  Right'
<1>1. /\ UNCHANGED <<link, objs, defs, imports, target, why, exported>>
      /\ \/ phase = "patch" /\ todo = {} /\ phase' = "export"
         \/ phase = "export" /\ phase' = "linked"
  BY DEF SizeMemory, Write, Die
<1>2. /\ Distinct("data")' /\ DataSought' /\ Wrapped' /\ ImportsAre' /\ Answered'
      /\ Targeted' /\ why' = None /\ Served' /\ Relocations' = Relocations
      /\ \A r : PlaceOf(r)' = PlaceOf(r) /\ RelocAt(r)' = RelocAt(r)
      /\ \A q : DataFault(q)' = DataFault(q)
  BY <1>1, LaterRight
<1>3. DataResolved'
  <2>1. \A r \in Relocations :
          RelocAt(r).kind = "address" => DataFault(PlaceOf(r)) = None
    BY <1>1 DEF Right, DataResolved
  <2> QED BY <1>1, <1>2, <2>1 DEF DataResolved
<1> QED BY <1>1, <1>2, <1>3 DEF Right

LEMMA ExportRight ==
  ASSUME Live, Right, Export, phase' # "died"
  PROVE  Right'
<1>0. PICK i : i = Len(exported) + 1
  OBVIOUS
<1>1. /\ UNCHANGED <<link, objs, defs, imports, target, why>>
      /\ phase = "export" /\ phase' = "export" /\ Len(exported) < Len(link.exports)
      /\ ExportFault(i) = None
      /\ exported' = Append(exported, FinalIndex(Last(Candidates(link.exports[i].name))))
  BY <1>0 DEF Export, Die
<1>2. /\ Distinct("data")' /\ DataSought' /\ Wrapped' /\ ImportsAre' /\ Answered'
      /\ Targeted' /\ why' = None /\ Relocations' = Relocations
      /\ \A r : PlaceOf(r)' = PlaceOf(r) /\ RelocAt(r)' = RelocAt(r)
      /\ \A q : DataFault(q)' = DataFault(q)
  BY <1>1, LaterRight
<1>3. DataResolved'
  <2>1. \A r \in Relocations :
          RelocAt(r).kind = "address" => DataFault(PlaceOf(r)) = None
    BY <1>1 DEF Right, DataResolved
  <2> QED BY <1>1, <1>2, <2>1 DEF DataResolved
<1>4. Served'
  <2>1. Served /\ link \in Links
    BY DEF Right, Live
  <2>2. Len(link.exports) \in Nat
    BY <2>1, LinksAssumption, Appended
  <2>3. PICK x : x = FinalIndex(Last(Candidates(link.exports[i].name)))
    OBVIOUS
  <2>4. /\ IsSequence(exported') /\ Len(exported) \in Nat
        /\ DOMAIN exported = 1 .. Len(exported)
        /\ Len(exported') = i /\ DOMAIN exported' = 1 .. i
        /\ \A j \in 1 .. Len(exported) : exported'[j] = exported[j]
        /\ exported'[i] = x
    BY <1>0, <1>1, <2>1, <2>3, Appended DEF Served
  <2>5. Candidates(link.exports[i].name) # {}
    <3>1. "missing export" # None /\ "duplicate export" # None
      BY NoneAssumption DEF Messages
    <3> DEFINE twice == \E j \in 1 .. i - 1 : link.exports[j].name = link.exports[i].name
    <3>2. ExportFault(i) = IF twice THEN "duplicate export"
             ELSE IF Candidates(link.exports[i].name) = {} THEN "missing export" ELSE None
      BY Zenon DEF ExportFault
    <3> HIDE DEF twice
    <3> QED BY <1>1, <3>1, <3>2
  <2>6. \A name : Candidates(name)' = Candidates(name)
    BY <1>1 DEF Candidates
  <2>7. \A q : FinalIndex(q)' = FinalIndex(q)
    BY <1>1 DEF FinalIndex
  <2>8. ASSUME NEW j \in DOMAIN exported'
        PROVE  /\ Candidates(link.exports[j].name) # {}
               /\ exported'[j] = FinalIndex(Last(Candidates(link.exports[j].name)))
    <3>1. CASE j = i
      BY <2>3, <2>4, <2>5, <3>1
    <3>2. CASE j # i
      <4>1. j \in 1 .. Len(exported)
        BY <1>0, <2>4, <3>2
      <4> QED BY <2>1, <2>4, <4>1 DEF Served
    <3> QED BY <3>1, <3>2
  <2>9. Len(exported') <= Len(link.exports)
    BY <1>0, <1>1, <2>2, <2>4
  <2> QED BY <1>1, <2>4, <2>6, <2>7, <2>8, <2>9 DEF Served
<1> QED BY <1>1, <1>2, <1>3, <1>4 DEF Right

LEMMA RightStep ==
  ASSUME Live, Right, Next, phase' # "died"
  PROVE  Right'
BY CheckRight, SynthesizeRight, WrapRight, CollectRight, ImportRight, NumberRight,
   LayoutRight, PatchRight, SizeMemoryRight, ExportRight DEF Next

LEMMA StutterRight ==
  ASSUME Right, UNCHANGED vars
  PROVE  Right'
<1>0. UNCHANGED <<link, objs, phase, why, todo, defs, imports, target, exported>>
  BY DEF vars
<1>1. Distinct("data") => Distinct("data")'
  BY <1>0, RightParts
<1>2. /\ Wrapped => Wrapped'
      /\ ImportsAre => ImportsAre'
      /\ Targeted => Targeted'
      /\ Served => Served'
  BY <1>0, RightParts
<1>3. R' = R /\ \A kind, bind, name : InRuntime(kind, bind, name)' = InRuntime(kind, bind, name)
  BY <1>0 DEF R, InRuntime
<1>4. (DataSought => DataSought') /\ (Unwrapped => Unwrapped')
  BY <1>0, <1>3 DEF DataSought, Unwrapped
<1>5. Answered => Answered'
  <2>1. \A s : Satisfied(s)' <=> Satisfied(s)
    BY <1>0, RightParts
  <2> QED BY <1>0, <2>1 DEF Answered
<1>6. DataResolved => DataResolved'
  <2>1. /\ \A r : PlaceOf(r)' = PlaceOf(r) /\ RelocAt(r)' = RelocAt(r)
        /\ Relocations' = Relocations /\ \A q : DataFault(q)' = DataFault(q)
    BY <1>0, FunctionsStay, RightParts
  <2> QED BY <1>0, <2>1 DEF DataResolved
<1> QED BY <1>0, <1>1, <1>2, <1>4, <1>5, <1>6 DEF Right

-----------------------------------------------------------------------------
(* The steps, of a link that dies                                          *)

(* The errors that RefusalsRight is about, with their causes.               *)
Excused(message) ==
  /\ message = "duplicate symbol" => Clash("function") \/ Clash("data")
  /\ message = "function signature mismatch" =>
       \E p \in Undefined(link.objects, "function") :
         \/ Disagree(At(objs, p).name)
         \/ \E s, t \in TypesOf(Refs(At(objs, p).name)) : ~ FuncSignatureMatches(s, t)
  /\ message = "unresolved data symbol" =>
       \E o \in DOMAIN link.objects : \E i \in DOMAIN link.objects[o].relocs :
         Unprovided(<<o, i>>)
  /\ message \notin {"uncollected function import", "main wrapper"}

(* Check dies of "duplicate symbol" only with a clash.                      *)
LEMMA ClashRefused ==
  ASSUME Live, phase = "check", CheckFault # None
  PROVE  Excused(CheckFault)
<1>0. /\ None # "initial memory" /\ None # "duplicate symbol"
      /\ None # "duplicate continuation entry"
  BY NoneAssumption DEF Messages
<1>1. OptionFault \in {None, "initial memory"}
  BY DEF OptionFault
<1>2. ContinuationFault \in {None, "multiple continuation entries",
        "continuation function not found", "continuation function used"}
  <2> DEFINE many == Cardinality(Resumable) > 1
             lost == \E o \in Resumable : \E name \in objs[o].continuation.parts :
                       Definitions(objs, "function", name) = {}
             used == \E o \in Resumable : \E p \in Undefined(objs, "function") :
                       At(objs, p).name \in {objs[o].continuation.condition,
                                             objs[o].continuation.entry}
  <2>1. ContinuationFault = IF many THEN "multiple continuation entries"
                            ELSE IF lost THEN "continuation function not found"
                            ELSE IF used THEN "continuation function used" ELSE None
    BY Zenon DEF ContinuationFault
  <2> HIDE DEF many, lost, used
  <2> QED BY <2>1
<1> DEFINE entries == \E i, j \in Resumable :
             i # j /\ objs[i].continuation.entry = objs[j].continuation.entry
           clash == \E kind \in {"function", "data"} : \E p, q \in Of(objs, kind, {"global"}) :
                      p # q /\ At(objs, p).name = At(objs, q).name
<1>3. DuplicateFault = IF entries THEN "duplicate continuation entry"
                       ELSE IF clash THEN "duplicate symbol" ELSE None
  BY Zenon DEF DuplicateFault
<1>4. clash => Clash("function") \/ Clash("data")
  BY DEF Live, Clash
<1>5. CheckFault = IF OptionFault # None THEN OptionFault
                   ELSE IF DuplicateFault # None THEN DuplicateFault ELSE ContinuationFault
  BY DEF CheckFault
<1> HIDE DEF entries, clash
<1>6. CheckFault = "duplicate symbol" => clash
  BY <1>0, <1>1, <1>2, <1>3, <1>5
<1>7. CheckFault \notin {"function signature mismatch", "unresolved data symbol",
                         "uncollected function import", "main wrapper"}
  BY <1>0, <1>1, <1>2, <1>3, <1>5
<1> QED BY <1>4, <1>6, <1>7 DEF Excused

(* Import dies only of types that disagree.                                 *)
LEMMA MismatchRefused ==
  ASSUME Live, Right, phase = "import", todo # {}, ImportFault(At(objs, First(todo)))
  PROVE  Excused("function signature mismatch")
<1>0. PICK p, sym, name : p = First(todo) /\ sym = At(objs, p) /\ name = sym.name
  OBVIOUS
<1>1. /\ link \in Links /\ Objects /\ NoClash /\ KeptObjects /\ RuntimeFrame
      /\ RuntimeSymbols /\ RuntimeOnce /\ ImportsAre
  BY DEF Live, Right, Objects
<1>2. /\ p \in Undefined(objs, "function") /\ p \in Places(objs) /\ sym.kind = "function"
      /\ sym.bind = "undefined"
  BY <1>0, FirstImport DEF Undefined, Of
<1> DEFINE given == Definitions(link.objects, "function", name)
           all == Definitions(objs, "function", name)
           Cause == \E x \in Undefined(link.objects, "function") :
                      \/ Disagree(At(objs, x).name)
                      \/ \E s, t \in TypesOf(Refs(At(objs, x).name)) : ~ FuncSignatureMatches(s, t)
<1>3. \A x \in Undefined(link.objects, "function") :
        /\ At(objs, x) = At(link.objects, x)
        /\ At(objs, x).name = name => x \in Refs(name) /\ At(objs, x).type \in TypesOf(Refs(name))
  <2> TAKE x \in Undefined(link.objects, "function")
  <2>1. At(objs, x) = At(link.objects, x)
    BY <1>1, GivenSymbols DEF Undefined
  <2>2. At(objs, x).name = name => x \in Refs(name)
    BY DEF Refs
  <2> QED BY <2>1, <2>2 DEF TypesOf
<1>4. CASE all # {}
  <2>0. PICK d : d = FindDefined(objs, "function", name)
    OBVIOUS
  <2>1. d \in all /\ ~FuncSignatureMatches(sym.type, At(objs, d).type)
    BY <1>0, <1>1, <1>4, <2>0, OneDefinition DEF ImportFault
  <2>2. CASE given # {}
    <3>1. d \in given
      BY <1>1, <2>1, <2>2, OneDefinition
    <3>2. CASE p \in Places(link.objects)
      <4>1. p \in Undefined(link.objects, "function")
        BY <1>0, <1>1, <1>2, <3>2, PlacesSplit DEF Undefined, Of
      <4>2. sym.type \in TypesOf(Refs(name)) /\ At(objs, d).type \in TypesOf(given)
        BY <1>0, <1>3, <3>1, <4>1 DEF TypesOf
      <4>3. Disagree(name)
        BY <2>1, <2>2, <4>2 DEF Disagree
      <4> QED BY <1>0, <4>1, <4>3 DEF Excused
    <3>3. CASE p[2] \in DOMAIN objs[R].syms /\ sym = objs[R].syms[p[2]]
      <4>1. sym.type.wasm = DefinedType(name) /\ sym.type.c = None
        BY <1>0, <1>1, <1>2, <3>3 DEF RuntimeSymbols, RuntimeSymbol
      <4>2. FindDefined(link.objects, "function", name) = d
        <5>1. PICK f : f = FindDefined(link.objects, "function", name)
          OBVIOUS
        <5>2. f \in given
          BY <1>1, <2>2, <5>1, FirstGiven
        <5>3. f \in all
          BY <1>1, <2>2, <5>2, OneDefinition
        <5> QED BY <1>1, <2>1, <5>1, <5>3, OneDefinition
      <4>3. At(objs, d) = At(link.objects, d)
        BY <1>1, <3>1, DefinitionsAre, GivenSymbols
      <4>4. sym.type.wasm = At(objs, d).type.wasm
        BY <4>1, <4>2, <4>3 DEF DefinedType
      <4> QED BY <2>1, <4>1, <4>4 DEF FuncSignatureMatches, SameSignature
    <3> QED BY <1>0, <1>1, <1>2, <3>2, <3>3, PlacesSplit
  <2>3. CASE given = {}
    <3>1. p \in Undefined(link.objects, "function")
      <4> SUFFICES ASSUME p \notin Places(link.objects)
                   PROVE  FALSE
        BY <1>0, <1>1, <1>2, PlacesSplit DEF Undefined, Of
      <4>1. RuntimeSymbol(sym)
        BY <1>0, <1>1, <1>2, PlacesSplit DEF RuntimeSymbols
      <4> QED BY <1>0, <1>2, <2>3, <4>1 DEF RuntimeSymbol
    <3>2. RuntimeSymbol(At(objs, d)) /\ At(objs, d).kind = "function"
            /\ At(objs, d).bind = "global" /\ At(objs, d).name = name
      <4>1. d \in Places(objs) /\ At(objs, d).kind = "function"
              /\ At(objs, d).bind = "global" /\ At(objs, d).name = name
        BY <2>1, DefinitionsAre
      <4>2. d \notin Places(link.objects)
        BY <1>1, <2>3, <4>1, DefinitionsAre, PlacesSplit
      <4> QED BY <1>1, <4>1, <4>2, PlacesSplit DEF RuntimeSymbols
    <3>3. Asked(name, At(objs, d).type.wasm) /\ At(objs, d).type.c = None
      BY <3>2 DEF RuntimeSymbol
    <3>4. PICK x \in Undefined(link.objects, "function") :
            At(link.objects, x).name = name
              /\ At(link.objects, x).type.wasm = At(objs, d).type.wasm
      BY <3>3 DEF Asked
    <3>5. sym.type.wasm # At(objs, d).type.wasm
      BY <2>1, <3>3 DEF FuncSignatureMatches, SameSignature
    <3>6. /\ sym.type \in TypesOf(Refs(name)) /\ At(objs, x).type \in TypesOf(Refs(name))
          /\ sym.type.wasm # At(objs, x).type.wasm
      BY <1>0, <1>3, <3>1, <3>4, <3>5
    <3>7. Disagree(name)
      BY <2>3, <3>6 DEF Disagree
    <3> QED BY <1>0, <3>1, <3>7 DEF Excused
  <2> QED BY <2>2, <2>3
<1>5. CASE all = {}
  <2>1. p \in Undefined(link.objects, "function")
    BY <1>0, <1>1, <1>2, <1>5, MissedByFile
  <2>2. PICK i \in ImportsOf(name) : ~FuncSignatureMatches(sym.type, imports[i].type)
    BY <1>0, <1>5 DEF ImportFault
  <2>3. PICK x \in Undefined(link.objects, "function") :
          At(link.objects, x).name = name /\ At(link.objects, x).type = imports[i].type
    BY <1>1, <2>2 DEF ImportsAre, ImportsOf
  <2>4. sym.type \in TypesOf(Refs(name)) /\ imports[i].type \in TypesOf(Refs(name))
    BY <1>0, <1>3, <2>1, <2>3
  <2> QED BY <1>0, <2>1, <2>2, <2>4 DEF Excused
<1> QED BY <1>4, <1>5

LEMMA WrapperHasMain ==
  ASSUME Live, Right, phase = "import", HasWrapper
  PROVE  Mains # {}
<1>1. link \in Links /\ KeptObjects /\ Wrapped
  BY DEF Live, Right, Objects
<1>2. PICK d : d \in Definitions(link.objects, "function", Main)
  BY <1>1 DEF Wrapped, HasWrapper
<1>3. /\ d \in Places(objs) /\ At(objs, d).kind = "function"
      /\ At(objs, d).bind = "global" /\ At(objs, d).name = Main
  BY <1>1, <1>2, DefinitionsAre, PlacesSplit
<1> QED BY <1>3 DEF Mains, Defined, Of

(* Every function was looked for before any relocation is patched.          *)
LEMMA FunctionsFound ==
  ASSUME Live, Right, phase = "patch", NEW p \in Relocations,
         RelocAt(p).kind \in {"call", "pointer"}
  PROVE  FuncFault(PlaceOf(p)) = None
<1>0. PICK q, name : q = PlaceOf(p) /\ name = At(objs, q).name
  OBVIOUS
<1>1. /\ link \in Links /\ Objects /\ NoClash /\ KeptObjects /\ RuntimeFrame
      /\ RuntimeSymbols /\ RuntimeOnce
      /\ \A x \in Undefined(objs, "function") : Satisfied(At(objs, x))
  BY DEF Live, Right, Objects, Answered
<1>2. q \in Places(objs) /\ At(objs, q).kind = "function"
  BY <1>0, <1>1, RelocationPlace
<1>3. CASE At(objs, q).bind # "undefined"
  BY <1>0, <1>3 DEF FuncFault, FuncPlace
<1>4. CASE At(objs, q).bind = "undefined"
  <2>1. Satisfied(At(objs, q))
    BY <1>1, <1>2, <1>4 DEF Undefined, Of
  <2>2. CASE Definitions(objs, "function", name) # {}
    <3>1. PICK d : d = FindDefined(objs, "function", name)
      OBVIOUS
    <3>2. d \in Definitions(objs, "function", name)
      BY <1>1, <2>2, <3>1, OneDefinition
    <3>3. FuncPlace(q) = d /\ d # q
      BY <1>0, <1>4, <2>2, <3>1, <3>2, DefinitionsAre DEF FuncPlace
    <3>4. FuncSignatureMatches(At(objs, q).type, At(objs, d).type)
      BY <1>0, <2>1, <2>2, <3>1 DEF Satisfied
    <3> QED BY <1>0, <3>3, <3>4 DEF FuncFault
  <2>3. CASE Definitions(objs, "function", name) = {}
    <3>1. FuncPlace(q) = q
      BY <1>0, <2>3 DEF FuncPlace
    <3>2. ImportsOf(name) # {}
      BY <1>0, <2>1, <2>3 DEF Satisfied
    <3> QED BY <1>0, <3>1, <3>2 DEF FuncFault
  <2> QED BY <2>2, <2>3
<1> QED BY <1>3, <1>4

(* Patch dies only of an address, and of missing data only if it is missing.*)
LEMMA AddressRefused ==
  ASSUME Live, Right, phase = "patch", NEW p \in Relocations, PatchFault(p) # None
  PROVE  Excused(PatchFault(p))
<1>0. PICK q, name : q = PlaceOf(p) /\ name = At(objs, q).name
  OBVIOUS
<1>1. /\ link \in Links /\ Objects /\ KeptObjects /\ RuntimeFrame /\ DataSought
  BY DEF Live, Right, Objects
<1>2. RelocAt(p).kind = "address"
  <2>1. PatchFault(p) = CASE RelocAt(p).kind \in {"call", "pointer"} -> FuncFault(q)
    [] RelocAt(p).kind = "address" ->
         IF DataFault(q) # None THEN DataFault(q)
         ELSE IF DataAddress(p) \in 0 .. AddressLimit THEN None
         ELSE "data relocation address"
    [] RelocAt(p).kind = "global" -> None
    BY <1>0 DEF PatchFault
  <2>2. RelocAt(p).kind \in {"call", "pointer", "address", "global"}
    <3>1. p = <<p[1], p[2]>> /\ p[1] \in DOMAIN objs /\ p[2] \in DOMAIN objs[p[1]].relocs
      BY RelocationsAre
    <3>2. CASE p[1] = R
      BY <1>1, <3>2, RelocationPlace DEF RuntimeCall
    <3>3. CASE p[1] \in DOMAIN link.objects
      <4>1. RelocAt(p) = link.objects[p[1]].relocs[p[2]]
              /\ p[2] \in DOMAIN link.objects[p[1]].relocs
        BY <1>1, <3>1, <3>3 DEF RelocAt, KeptObjects
      <4>2. IsRelocation(RelocAt(p), link.objects[p[1]].syms)
        BY <1>1, <3>3, <4>1, Given DEF IsObject
      <4> QED BY <4>2 DEF IsRelocation
    <3> QED BY <1>1, <3>1, <3>2, <3>3, Given DEF KeptObjects
  <2>3. RelocAt(p).kind \in {"call", "pointer"} => FuncFault(q) = None
    BY <1>0, FunctionsFound
  <2>4. RelocAt(p).kind = "global" => PatchFault(p) = None
    BY <2>1
  <2>5. RelocAt(p).kind \in {"call", "pointer"} => PatchFault(p) = None
    BY <2>1, <2>3
  <2> QED BY <2>2, <2>4, <2>5
<1>3. PatchFault(p) = IF DataFault(q) # None THEN DataFault(q)
                      ELSE IF DataAddress(p) \in 0 .. AddressLimit THEN None
                      ELSE "data relocation address"
  BY <1>0, <1>2 DEF PatchFault
<1>4. /\ DataFault(q) \in {None, "unresolved data symbol", "data signature mismatch"}
      /\ None # "unresolved data symbol" /\ None # "data signature mismatch"
  BY NoneAssumption DEF DataFault, Messages
<1>5. PatchFault(p) \in {"unresolved data symbol", "data signature mismatch",
                         "data relocation address"}
  BY <1>3, <1>4
<1>6. ASSUME PatchFault(p) = "unresolved data symbol"
      PROVE  \E o \in DOMAIN link.objects : \E i \in DOMAIN link.objects[o].relocs :
               Unprovided(<<o, i>>)
  <2>1. DataFault(q) = "unresolved data symbol"
    BY <1>3, <1>4, <1>6
  <2>2. At(objs, q).bind = "undefined" /\ Definitions(objs, "data", name) = {}
    BY <1>0, <1>4, <2>1 DEF DataFault
  <2>3. /\ p = <<p[1], p[2]>> /\ p[1] \in DOMAIN link.objects
        /\ p[2] \in DOMAIN link.objects[p[1]].relocs
    <3>1. p = <<p[1], p[2]>> /\ p[1] \in DOMAIN objs /\ p[2] \in DOMAIN objs[p[1]].relocs
      BY RelocationsAre
    <3>2. p[1] # R
      BY <1>1, <1>2, RelocationPlace DEF RuntimeCall
    <3>3. p[1] \in DOMAIN link.objects
      BY <1>1, <3>1, <3>2, Given DEF KeptObjects
    <3> QED BY <1>1, <3>1, <3>3 DEF KeptObjects
  <2>4. PICK o, i, x : /\ o = p[1] /\ i = p[2] /\ x = link.objects[o].relocs[i].sym
    OBVIOUS
  <2>5. /\ q = <<o, x>> /\ q \in Places(link.objects) /\ At(objs, q) = At(link.objects, q)
        /\ At(link.objects, q).kind = "data"
    <3>1. o \in DOMAIN link.objects /\ i \in DOMAIN link.objects[o].relocs /\ p = <<o, i>>
      BY <2>3, <2>4
    <3>2. LET rel == link.objects[o].relocs[i] IN
          /\ RelocAt(p) = rel /\ PlaceOf(p) = <<o, rel.sym>>
          /\ <<o, rel.sym>> \in Places(link.objects)
          /\ At(objs, <<o, rel.sym>>) = At(link.objects, <<o, rel.sym>>)
          /\ rel.kind = "address" <=> At(link.objects, <<o, rel.sym>>).kind = "data"
      BY <1>1, <3>1, GivenRelocation
    <3> QED BY <1>0, <1>2, <2>4, <3>2
  <2>6. Definitions(link.objects, "data", name) = {}
    BY <1>1, <2>2, DataDefined
  <2>7. ~(link.stdlib /\ name \in RuntimeData)
    <3> SUFFICES ASSUME link.stdlib, name \in RuntimeData
                 PROVE  FALSE
      OBVIOUS
    <3>1. q \in Undefined(link.objects, "data") /\ name = At(link.objects, q).name
      BY <1>0, <2>2, <2>5 DEF Undefined, Of
    <3>2. InRuntime("data", "global", name) # {}
      BY <1>1, <2>6, <3>1 DEF DataSought
    <3> QED BY <1>1, <2>2, <3>2, DataDefined
  <2>8. Unprovided(<<o, i>>)
    BY <1>0, <2>2, <2>4, <2>5, <2>6, <2>7 DEF Unprovided
  <2> QED BY <2>3, <2>4, <2>8
<1> QED BY <1>5, <1>6 DEF Excused

LEMMA DyingExcused ==
  ASSUME Live, Right, Next, phase' = "died"
  PROVE  Excused(why')
<1>1. CASE Check
  <2>1. phase = "check" /\ CheckFault # None /\ why' = CheckFault
    BY <1>1 DEF Check, Die
  <2> QED BY <2>1, ClashRefused
<1>2. CASE Synthesize
  <2>1. PICK sym : SynthesizeFault(sym) # None /\ why' = SynthesizeFault(sym)
    BY <1>2 DEF Synthesize, Die, Live
  <2>2. SynthesizeFault(sym) \in {None, "unsupported control flow", "runtime signature"}
    <3> DEFINE given == sym.kind # "function"
                          \/ Definitions(link.objects, "function", sym.name) # {}
               bad == sym.name \in Forbidden /\ ~ Sink(sym.name)
               other == InRuntime("function", "global", sym.name) = {} /\ TargetFault(sym.name)
    <3>1. SynthesizeFault(sym) = IF given THEN None ELSE IF bad THEN "unsupported control flow"
                                 ELSE IF other THEN "runtime signature" ELSE None
      BY Zenon DEF SynthesizeFault
    <3> HIDE DEF given, bad, other
    <3> QED BY <3>1
  <2> QED BY <2>1, <2>2 DEF Excused
<1>3. CASE Wrap
  <2>1. why' = "export signature"
    BY <1>3 DEF Wrap, Die
  <2> QED BY <2>1 DEF Excused
<1>4. CASE Collect \/ EndCollect
  BY <1>4 DEF Collect, EndCollect, Live, Phases
<1>5. CASE Import
  <2>1. /\ phase = "import" /\ todo # {} /\ ImportFault(At(objs, First(todo)))
        /\ why' = "function signature mismatch"
    BY <1>5 DEF Import, Die
  <2> QED BY <2>1, MismatchRefused
<1>6. CASE Number
  <2>1. phase = "import" /\ HasWrapper /\ Mains = {}
    BY <1>6 DEF Number
  <2> QED BY <2>1, WrapperHasMain
<1>7. CASE Layout
  <2>1. why' = "memory layout"
    BY <1>7 DEF Layout, Die
  <2> QED BY <2>1 DEF Excused
<1>8. CASE EndLayout \/ Write
  BY <1>8 DEF EndLayout, Write
<1>9. CASE Patch
  <2>1. phase = "patch" /\ todo # {}
    BY <1>9 DEF Patch
  <2>2. PICK p : p = First(todo)
    OBVIOUS
  <2>3. PatchFault(p) # None /\ why' = PatchFault(p)
    BY <1>9, <2>2 DEF Patch, Die
  <2>4. p \in Relocations
    BY <2>1, <2>2, FirstVisited DEF Live, Visits
  <2> QED BY <2>1, <2>3, <2>4, AddressRefused
<1>10. CASE SizeMemory
  <2>1. why' = MemoryFault /\ MemoryFault # None
    BY <1>10 DEF SizeMemory, Die
  <2>2. MemoryFault \in {None, "memory limit", "table limit", "data overlaps stack"}
    <3> DEFINE big == \/ DataEnd + link.stack > AddressLimit \/ MemoryPages > MaxPages
                      \/ link.maximum # None /\ MemoryPages > link.maximum
               full == NeedsTable /\ link.tablelimit # None
                         /\ Len(table) + 2 > link.tablelimit
               over == HeapBase > StackTop - link.stack
    <3>1. MemoryFault = IF big THEN "memory limit" ELSE IF full THEN "table limit"
                        ELSE IF over THEN "data overlaps stack" ELSE None
      BY Zenon DEF MemoryFault
    <3> HIDE DEF big, full, over
    <3> QED BY <3>1
  <2> QED BY <2>1, <2>2 DEF Excused
<1>11. CASE Export
  <2>1. PICK i : why' = ExportFault(i) /\ ExportFault(i) # None
    BY <1>11 DEF Export, Die
  <2>2. ExportFault(i) \in {None, "duplicate export", "missing export"}
    <3> DEFINE twice == \E j \in 1 .. i - 1 : link.exports[j].name = link.exports[i].name
    <3>1. ExportFault(i) = IF twice THEN "duplicate export"
             ELSE IF Candidates(link.exports[i].name) = {} THEN "missing export" ELSE None
      BY Zenon DEF ExportFault
    <3> HIDE DEF twice
    <3> QED BY <3>1
  <2> QED BY <2>1, <2>2 DEF Excused
<1> QED BY <1>1, <1>2, <1>3, <1>4, <1>5, <1>6, <1>7, <1>8, <1>9, <1>10, <1>11 DEF Next

LEMMA PredicatesStay ==
  ASSUME UNCHANGED Kept
  PROVE  /\ \A kind : Clash(kind)' <=> Clash(kind)
         /\ \A name : TypesOf(Refs(name))' = TypesOf(Refs(name))
         /\ \A name : Disagree(name)' <=> Disagree(name)
         /\ \A r : Unprovided(r)' <=> Unprovided(r)
<1>1. link' = link /\ objs' = objs
  BY DEF Kept
<1>2. \A kind : Clash(kind)' <=> Clash(kind)
  BY <1>1 DEF Clash
<1>3. \A name : Refs(name)' = Refs(name) /\ TypesOf(Refs(name))' = TypesOf(Refs(name))
  BY <1>1 DEF Refs, TypesOf
<1>4. \A name : Disagree(name)' <=> Disagree(name)
  <2> TAKE name
  <2> DEFINE given == Definitions(link.objects, "function", name)
  <2>1. given' = given /\ TypesOf(given)' = TypesOf(given)
    BY <1>1 DEF TypesOf
  <2> QED BY <1>3, <2>1 DEF Disagree
<1>5. \A r : Unprovided(r)' <=> Unprovided(r)
  BY <1>1 DEF Unprovided
<1> QED BY <1>2, <1>3, <1>4, <1>5

LEMMA ExcusesStay ==
  ASSUME UNCHANGED Kept, NEW message, Excused(message)
  PROVE  Excused(message)'
<1>1. link' = link /\ objs' = objs
  BY DEF Kept
<1> QED BY <1>1, PredicatesStay DEF Excused

Clean ==
  /\ ~ Clash("function") /\ ~ Clash("data")
  /\ \A p \in Undefined(link.objects, "function") : ~ Disagree(At(objs, p).name)
  /\ \A o \in DOMAIN link.objects : \A i \in DOMAIN link.objects[o].relocs :
       ~ Unprovided(<<o, i>>)

LEMMA RefusalsAre == RefusalsRight <=> (phase = "linked" => Clean) /\ Excused(why)
BY DEF RefusalsRight, Clean, Excused

LEMMA RefusalsStay ==
  ASSUME RefusalsRight, UNCHANGED <<Kept, phase, why>>
  PROVE  RefusalsRight'
<1>1. link' = link /\ objs' = objs /\ phase' = phase /\ why' = why
  BY DEF Kept
<1>2. PICK message : message = why
  OBVIOUS
<1>3. Excused(message)'
  BY <1>2, ExcusesStay, RefusalsAre
<1>4. Excused(why)'
  BY <1>1, <1>2, <1>3 DEF Excused
<1>5. Clean => Clean'
  <2> SUFFICES ASSUME Clean
               PROVE  Clean'
    OBVIOUS
  <2>1. ~Clash("function")' /\ ~Clash("data")'
    BY PredicatesStay DEF Clean
  <2>2. ASSUME NEW p \in Undefined(link.objects, "function")
        PROVE  ~Disagree(At(objs, p).name)'
    <3>1. PICK name : name = At(objs, p).name
      OBVIOUS
    <3>2. ~Disagree(name)'
      BY <3>1, PredicatesStay DEF Clean
    <3> QED BY <1>1, <3>1, <3>2
  <2>3. \A o \in DOMAIN link.objects : \A i \in DOMAIN link.objects[o].relocs :
          ~ Unprovided(<<o, i>>)'
    BY PredicatesStay DEF Clean
  <2> QED BY <1>1, <2>1, <2>2, <2>3 DEF Clean
<1>6. (phase = "linked" => Clean)'
  BY <1>1, <1>5, RefusalsAre
<1> QED BY <1>4, <1>6, RefusalsAre, PTL

LEMMA ExportsStay ==
  ASSUME ExportsRight, UNCHANGED Kept
  PROVE  ExportsRight'
<1>1. link' = link /\ objs' = objs /\ exported' = exported /\ target' = target
  BY DEF Kept
<1>2. (\A i : Function(i)' = Function(i)) /\ Indices' = Indices
  BY MeaningStays
<1> QED BY <1>1, <1>2 DEF ExportsRight

(* The invariant of both theorems.                                         *)
RightInv == ExportsRight /\ RefusalsRight /\ (phase # "died" => Right)

LEMMA AlwaysRight == Spec => []RightInv
<1>1. Live /\ Right => ExportsRight /\ RefusalsRight
  BY LiveExports, LiveRefusals
<1>2. Init => RightInv
  BY <1>1, InitLive, InitRight DEF RightInv
<1>3. Inv /\ RightInv /\ [Next]_vars => RightInv'
  <2> SUFFICES ASSUME Inv, RightInv, [Next]_vars
               PROVE  RightInv'
    OBVIOUS
  <2>1. CASE Next /\ phase' # "died"
    <3>1. Live' /\ Right'
      BY <2>1, DeadStaysDead, LiveStep, RightStep DEF Inv, RightInv
    <3>2. ExportsRight' /\ RefusalsRight'
      BY <3>1, <1>1, PTL
    <3> QED BY <3>1, <3>2 DEF RightInv
  <2>2. CASE Next /\ phase' = "died"
    <3>1. UNCHANGED Kept
      BY <2>2, DyingKeeps
    <3>2. Excused(why')
      BY <2>2, DeadStaysDead, DyingExcused DEF Inv, RightInv
    <3>3. PICK message : message = why'
      OBVIOUS
    <3>4. Excused(message)'
      BY <3>1, <3>2, <3>3, ExcusesStay
    <3>5. RefusalsRight'
      BY <2>2, <3>3, <3>4 DEF RefusalsRight, Excused
    <3>6. ExportsRight'
      BY <3>1, ExportsStay DEF RightInv
    <3> QED BY <2>2, <3>5, <3>6 DEF RightInv
  <2>3. CASE UNCHANGED vars
    <3>1. UNCHANGED <<Kept, phase, why>>
      BY <2>3 DEF vars, Kept
    <3>2. RefusalsRight' /\ ExportsRight'
      BY <3>1, RefusalsStay, ExportsStay DEF RightInv
    <3>3. phase' # "died" => Right'
      BY <2>3, <3>1, StutterRight DEF RightInv
    <3> QED BY <3>2, <3>3 DEF RightInv
  <2> QED BY <2>1, <2>2, <2>3
<1> QED BY <1>2, <1>3, Always, PTL DEF Spec

(* In every link: an exported index is a function of that name, the one     *)
(* whose signature was checked, or the wrapper of main, which calls it.     *)
THEOREM ExportsAlwaysRight == Spec => []ExportsRight
<1>1. RightInv => ExportsRight
  BY DEF RightInv
<1> QED BY <1>1, AlwaysRight, PTL

(* In every link: a module is only made of objects without clashes, types   *)
(* that disagree or missing data, and the linker dies of one of these only  *)
(* if the objects have it, and never of a fault in its own lists.           *)
THEOREM RefusalsAlwaysRight == Spec => []RefusalsRight
<1>1. RightInv => RefusalsRight
  BY DEF RightInv
<1> QED BY <1>1, AlwaysRight, PTL
=============================================================================
