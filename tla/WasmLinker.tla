----------------------------- MODULE WasmLinker -----------------------------
(***************************************************************************)
(* The linker tools/wasm_obj_linker/ag_wasm_link.c: from object files to    *)
(* one module.  A link refuses clashing definitions, makes up an object     *)
(* with the runtime functions the others miss, collects the definitions,    *)
(* then the imports, lays the data out, patches every relocation, sizes     *)
(* the memory and looks the exports up.  Each loop of the code is an action *)
(* that takes one symbol, relocation or export at a time, in file order.    *)
(*                                                                         *)
(* An object is a sequence of symbols, each with the function or the data   *)
(* segment it names (src/src/arch/wasm32/wasm32_obj.c writes one symbol     *)
(* for each), a sequence of relocations, and what a resumable entry asks    *)
(* for.  A type is a wasm type with the C signature, None if the object     *)
(* has none.  Left out: the file format, type indices, symbols inside a     *)
(* segment, unprototyped functions, the bodies of synthesized functions.    *)
(***************************************************************************)
EXTENDS Integers, Sequences, FiniteSets

CONSTANTS
  Links,         \* the links to perform, each with its objects and options
  None,          \* no type, target, limit or continuation
  Manifest,      \* the runtime's public functions: target and wasm type
  RuntimeData,   \* its public data
  Forbidden,     \* functions that need the compiler: setjmp, longjmp
  HostWrite,     \* __agc_host_write
  Main,             \* main, the wasm types of one that has parameters and
  MainWithParams,   \*   an int result, and () -> i32
  PlainMain,
  Convertible,   \* pairs of wasm types that differ in integer widths only
  Heap,          \* ag_rt_heap
  DataBase,      \* 1024, where data begins
  HeapFloor,     \* 8 MiB, where a heap begins at the earliest
  HeapAlign,     \* 16
  PageSize, MaxPages,   \* 65536 and 65535
  AddressLimit   \* 2^32 - 1

VARIABLES
  link,      \* what is linked
  objs,      \* its objects and the runtime object
  phase,     \* the loop the linker is in, "linked" or "died"
  why,       \* the error it died of
  todo,      \* the symbols or relocations the loop has still to visit
  defs,      \* the functions of the module, in order
  imports,   \* the functions it imports, in order
  target,    \* the function the wrapper of main calls
  address,   \* the address of each data segment
  mem,       \* the end of the data
  table,     \* the functions in the table, from slot 2
  slot,      \* the slots that functions have been given
  globals,   \* the names of the module's globals
  value,     \* what each relocation was patched with
  memory,    \* the layout of the memory
  exported   \* the functions exported

(* What the linker checks as it reads and patches an object: symbols of the *)
(* known kinds, each relocation through a symbol of the right kind.         *)
IsSequence(s) == s \in Seq({s[i] : i \in DOMAIN s})
IsSymbol(sym) ==
  /\ sym.kind \in {"function", "data", "global"}
  /\ sym.bind \in {"global", "local", "undefined"}
  /\ sym.size \in Nat /\ sym.align \in Nat \ {0}
IsRelocation(rel, syms) ==
  /\ rel.sym \in DOMAIN syms
  /\ rel.kind \in {"call", "pointer", "address", "global"}
  /\ syms[rel.sym].kind = CASE rel.kind \in {"call", "pointer"} -> "function"
                            [] rel.kind = "address" -> "data"
                            [] rel.kind = "global" -> "global"
IsObject(o) ==
  /\ IsSequence(o.syms) /\ \A s \in DOMAIN o.syms : IsSymbol(o.syms[s])
  /\ IsSequence(o.relocs)
  /\ \A r \in DOMAIN o.relocs : IsRelocation(o.relocs[r], o.syms)

ASSUME LinksAssumption ==
  \A l \in Links :
    /\ IsSequence(l.objects) /\ \A o \in DOMAIN l.objects : IsObject(l.objects[o])
    /\ IsSequence(l.exports)
    /\ l.stack \in Nat /\ l.initial \in Nat
    /\ l.maximum \in Nat \cup {None}

ASSUME LayoutAssumption ==
  /\ DataBase \in Nat /\ HeapFloor \in Nat /\ HeapAlign \in Nat \ {0}
  /\ PageSize \in Nat \ {0} /\ MaxPages \in Nat /\ AddressLimit \in Nat
  /\ MaxPages * PageSize <= AddressLimit

(* main is the program's.                                                   *)
ASSUME ManifestAssumption == Main \notin DOMAIN Manifest /\ Main # HostWrite

(* What the link may die of.                                                *)
Messages ==
  {"initial memory", "duplicate continuation entry", "duplicate symbol",
   "multiple continuation entries", "continuation function not found",
   "continuation function used", "unsupported control flow", "runtime signature",
   "export signature", "function signature mismatch", "main wrapper",
   "memory layout", "uncollected function import", "unresolved data symbol",
   "data signature mismatch", "data relocation address", "memory limit",
   "table limit", "data overlaps stack", "duplicate export", "missing export"}

ASSUME NoneAssumption == None \notin Messages

vars == <<link, objs, phase, why, todo, defs, imports, target, address, mem,
          table, slot, globals, value, memory, exported>>

Die(message) ==
  /\ phase' = "died" /\ why' = message
  /\ UNCHANGED <<link, objs, todo, defs, imports, target, address, mem,
                 table, slot, globals, value, memory, exported>>

Put(f, x, v) == [y \in DOMAIN f \cup {x} |-> IF y = x THEN v ELSE f[y]]
AlignTo(v, a) == IF v % a = 0 THEN v ELSE v + (a - (v % a))

-----------------------------------------------------------------------------
(* Symbols                                                                 *)

Places(os) == UNION {{<<o, s>> : s \in DOMAIN os[o].syms} : o \in DOMAIN os}
At(os, p) == os[p[1]].syms[p[2]]
Before(p, q) == p[1] < q[1] \/ (p[1] = q[1] /\ p[2] < q[2])
First(S) == CHOOSE p \in S : \A q \in S : p = q \/ Before(p, q)
Last(S) == CHOOSE p \in S : \A q \in S : p = q \/ Before(q, p)

Of(os, kind, binds) ==
  {p \in Places(os) : At(os, p).kind = kind /\ At(os, p).bind \in binds}
Undefined(os, kind) == Of(os, kind, {"undefined"})
Defined(os, kind) == Of(os, kind, {"global", "local", "nameless"})

Definitions(os, kind, name) ==
  {p \in Of(os, kind, {"global"}) : At(os, p).name = name}
\* mutant: a static function of another file is found, too
FindDefined_Static(os, kind, name) ==
  First({p \in Defined(os, kind) : At(os, p).name = name})

(* find_defined_func, find_defined_data: the first global definition       *)
FindDefined(os, kind, name) == First(Definitions(os, kind, name))

SameSignature(s, t) == s = None \/ t = None \/ s = t
FuncSignatureMatches(s, t) == s.wasm = t.wasm /\ SameSignature(s.c, t.c)

-----------------------------------------------------------------------------
(* Clashes                                                                 *)

Resumable == {o \in DOMAIN objs : objs[o].continuation # None}

DuplicateFault ==
  IF \E i, j \in Resumable :
       i # j /\ objs[i].continuation.entry = objs[j].continuation.entry
  THEN "duplicate continuation entry"
  ELSE IF \E kind \in {"function", "data"} : \E p, q \in Of(objs, kind, {"global"}) :
            p # q /\ At(objs, p).name = At(objs, q).name
  THEN "duplicate symbol"
  ELSE None

ContinuationFault ==
  IF Cardinality(Resumable) > 1 THEN "multiple continuation entries"
  ELSE IF \E o \in Resumable : \E name \in objs[o].continuation.parts :
            Definitions(objs, "function", name) = {}
  THEN "continuation function not found"
  ELSE IF \E o \in Resumable : \E p \in Undefined(objs, "function") :
            At(objs, p).name \in {objs[o].continuation.condition,
                                  objs[o].continuation.entry}
  THEN "continuation function used"
  ELSE None

OptionFault ==
  IF link.maximum # None /\ link.initial > link.maximum
  THEN "initial memory" ELSE None

CheckFault ==
  IF OptionFault # None THEN OptionFault
  ELSE IF DuplicateFault # None THEN DuplicateFault ELSE ContinuationFault

(* The runtime object is empty at first; an object without symbols and no   *)
(* object come to the same.                                                 *)
EmptyObject == [syms |-> << >>, relocs |-> << >>, continuation |-> None,
                imports_table |-> FALSE]

Check ==
  /\ phase = "check"
  /\ \/ CheckFault # None /\ Die(CheckFault)
     \/ /\ CheckFault = None
        /\ objs' = Append(objs, EmptyObject)
        /\ phase' = "synthesize"
        /\ todo' = IF link.stdlib
                   THEN Undefined(objs, "function") \cup Undefined(objs, "data")
                   ELSE {}
        /\ UNCHANGED <<link, why, defs, imports, target, address, mem, table,
                       slot, globals, value, memory, exported>>

-----------------------------------------------------------------------------
(* The runtime object                                                      *)

R == Len(link.objects) + 1
InRuntime(kind, bind, name) ==
  {i \in DOMAIN objs[R].syms :
     objs[R].syms[i].kind = kind /\ objs[R].syms[i].bind = bind
       /\ objs[R].syms[i].name = name}

Symbol(kind, name, bind, wasm, size, align) ==
  [kind |-> kind, name |-> name, bind |-> bind,
   type |-> [wasm |-> wasm, c |-> None], size |-> size, align |-> align]

AddRuntimeData(name) ==
  objs' = IF InRuntime("data", "global", name) # {} THEN objs
          ELSE [objs EXCEPT ![R].syms =
                  Append(@, Symbol("data", name, "global", None, 4, 4))]

(* emit_runtime_libc_bridge: the function calls the runtime's own one if    *)
(* the objects define it and the caller's type can be converted to its.     *)
HasTarget(name) ==
  /\ name \in DOMAIN Manifest /\ Manifest[name].target # None
  /\ Definitions(link.objects, "function", Manifest[name].target) # {}
TargetType(name) ==
  At(link.objects,
     FindDefined(link.objects, "function", Manifest[name].target)).type.wasm
TargetFault(name) ==
  HasTarget(name) /\ Manifest[name].wasm \notin {None, TargetType(name)}
Bridged(name, wasm) ==
  HasTarget(name)
    /\ (wasm = TargetType(name) \/ <<wasm, TargetType(name)>> \in Convertible)

WithTarget(name) ==
  IF InRuntime("function", "undefined", Manifest[name].target) # {}
  THEN objs[R].syms
  ELSE Append(objs[R].syms, Symbol("function", Manifest[name].target, "undefined",
                                   TargetType(name), 0, 1))

AddRuntimeFunc(name, wasm) ==
  LET syms == IF Bridged(name, wasm) THEN WithTarget(name) ELSE objs[R].syms
      of == CHOOSE i \in DOMAIN syms :
              syms[i].bind = "undefined" /\ syms[i].name = Manifest[name].target
      call == [kind |-> "call", sym |-> of, from |-> Len(syms) + 1,
               addend |-> 0]
  IN objs' = IF InRuntime("function", "global", name) # {} THEN objs
             ELSE [objs EXCEPT
                ![R].syms = Append(syms, Symbol("function", name, "global", wasm, 0, 1)),
                ![R].relocs = IF Bridged(name, wasm) THEN Append(@, call) ELSE @]

Sink(name) == name = HostWrite /\ ~ link.hostwrite

SynthesizeFault(sym) ==
  IF sym.kind # "function" \/ Definitions(link.objects, "function", sym.name) # {}
  THEN None
  ELSE IF sym.name \in Forbidden /\ ~ Sink(sym.name) THEN "unsupported control flow"
  ELSE IF InRuntime("function", "global", sym.name) = {} /\ TargetFault(sym.name)
  THEN "runtime signature"
  ELSE None

Synthesize ==
  /\ phase = "synthesize" /\ todo # {}
  /\ LET p == First(todo)  sym == At(objs, p) IN
     \/ SynthesizeFault(sym) # None /\ Die(SynthesizeFault(sym))
     \/ /\ SynthesizeFault(sym) = None
        /\ todo' = todo \ {p}
        /\ IF Definitions(link.objects, sym.kind, sym.name) # {}
           THEN UNCHANGED objs
           ELSE IF sym.kind = "data" /\ sym.name \in RuntimeData
           THEN AddRuntimeData(sym.name)
           ELSE IF sym.kind = "function"
                     /\ (Sink(sym.name) \/ sym.name \in DOMAIN Manifest)
           THEN AddRuntimeFunc(sym.name, sym.type.wasm)
           ELSE UNCHANGED objs
        /\ UNCHANGED <<link, phase, why, defs, imports, target, address, mem,
                       table, slot, globals, value, memory, exported>>

(* maybe_add_main_wrapper: a function with no symbol, the last of all       *)
Exports(name) == \E i \in DOMAIN link.exports : link.exports[i].name = name
NeedsWrapper ==
  /\ Exports(Main) /\ Definitions(link.objects, "function", Main) # {}
  /\ At(objs, FindDefined(link.objects, "function", Main)).type.wasm \in MainWithParams
Wrapper == Symbol("function", Main, "nameless", PlainMain, 0, 1)

(* validate_export_c_signature *)
SignatureHolds(os, i) ==
  LET given == Definitions(os, "function", link.exports[i].name)
  IN link.exports[i].signature # None =>
       /\ given # {}
       /\ At(os, First(given)).type.c = link.exports[i].signature
SignatureFault(os) == ~ (\A i \in DOMAIN link.exports : SignatureHolds(os, i))

Wrap ==
  /\ phase = "synthesize" /\ todo = {}
  /\ LET os == IF NeedsWrapper
               THEN [objs EXCEPT ![R].syms = Append(@, Wrapper)] ELSE objs IN
     \/ SignatureFault(os) /\ Die("export signature")
     \/ /\ ~ SignatureFault(os)
        /\ objs' = os /\ phase' = "collect" /\ todo' = Defined(os, "function")
        /\ UNCHANGED <<link, why, defs, imports, target, address, mem, table,
                       slot, globals, value, memory, exported>>

-----------------------------------------------------------------------------
(* Functions and imports                                                   *)

Collect ==
  /\ phase = "collect" /\ todo # {}
  /\ defs' = Append(defs, First(todo)) /\ todo' = todo \ {First(todo)}
  /\ UNCHANGED <<link, objs, phase, why, imports, target, address, mem, table,
                 slot, globals, value, memory, exported>>

EndCollect ==
  /\ phase = "collect" /\ todo = {}
  /\ phase' = "import" /\ todo' = Undefined(objs, "function")
  /\ UNCHANGED <<link, objs, why, defs, imports, target, address, mem, table,
                 slot, globals, value, memory, exported>>

ImportsOf(name) == {i \in DOMAIN imports : imports[i].name = name}

\* mutant: imports of one name are taken to be of one type
ImportFault_ByName(sym) ==
  /\ Definitions(objs, "function", sym.name) # {}
  /\ ~ FuncSignatureMatches(
         sym.type, At(objs, FindDefined(objs, "function", sym.name)).type)

(* One symbol of add_unresolved_function_imports                           *)
ImportFault(sym) ==
  IF Definitions(objs, "function", sym.name) # {}
  THEN ~ FuncSignatureMatches(
           sym.type, At(objs, FindDefined(objs, "function", sym.name)).type)
  ELSE \E i \in ImportsOf(sym.name) : ~ FuncSignatureMatches(sym.type, imports[i].type)

Import ==
  /\ phase = "import" /\ todo # {}
  /\ LET p == First(todo)  sym == At(objs, p) IN
     \/ ImportFault(sym) /\ Die("function signature mismatch")
     \/ /\ ~ ImportFault(sym)
        /\ todo' = todo \ {p}
        /\ imports' = IF \/ Definitions(objs, "function", sym.name) # {}
                         \/ ImportsOf(sym.name) # {}
                      THEN imports
                      ELSE Append(imports, [name |-> sym.name, type |-> sym.type])
        /\ UNCHANGED <<link, objs, phase, why, defs, target, address, mem, table,
                       slot, globals, value, memory, exported>>

(* The indices are final: imports first, then definitions, from 0.          *)
FinalIndex(p) == Len(imports) + (CHOOSE i \in DOMAIN defs : defs[i] = p) - 1

Mains == {p \in Defined(objs, "function") :
            At(objs, p).name = Main /\ At(objs, p).bind # "nameless"}
HasWrapper == Of(objs, "function", {"nameless"}) # {}

Number ==
  /\ phase = "import" /\ todo = {}
  /\ IF HasWrapper /\ Mains = {} THEN Die("main wrapper")
     ELSE
        /\ target' = IF HasWrapper THEN FinalIndex(Last(Mains)) ELSE None
        /\ phase' = "layout" /\ todo' = Defined(objs, "data")
        /\ UNCHANGED <<link, objs, why, defs, imports, address, mem, table,
                       slot, globals, value, memory, exported>>

-----------------------------------------------------------------------------
(* Data                                                                    *)

Layout ==
  /\ phase = "layout" /\ todo # {}
  /\ LET p == First(todo)
         start == AlignTo(mem, At(objs, p).align)
         end == start + At(objs, p).size IN
     \/ end > AddressLimit /\ Die("memory layout")
     \/ /\ end <= AddressLimit
        /\ address' = Put(address, p, start) /\ mem' = end
        /\ todo' = todo \ {p}
        /\ UNCHANGED <<link, objs, phase, why, defs, imports, target, table,
                       slot, globals, value, memory, exported>>

Relocations == UNION {{<<o, r>> : r \in DOMAIN objs[o].relocs} : o \in DOMAIN objs}
RelocAt(p) == objs[p[1]].relocs[p[2]]
PlaceOf(p) == <<p[1], RelocAt(p).sym>>

EndLayout ==
  /\ phase = "layout" /\ todo = {}
  /\ phase' = "patch" /\ todo' = Relocations
  /\ UNCHANGED <<link, objs, why, defs, imports, target, address, mem, table,
                 slot, globals, value, memory, exported>>

-----------------------------------------------------------------------------
(* Relocations                                                             *)

(* final_func_index_for_reloc_symbol: the symbol at q stands for the        *)
(* function at FuncPlace(q), or for an import if that is undefined.         *)
FuncPlace(q) ==
  IF At(objs, q).bind = "undefined" /\ Definitions(objs, "function", At(objs, q).name) # {}
  THEN FindDefined(objs, "function", At(objs, q).name) ELSE q
FuncFault(q) ==
  IF FuncPlace(q) # q
  THEN IF FuncSignatureMatches(At(objs, q).type, At(objs, FuncPlace(q)).type)
       THEN None ELSE "function signature mismatch"
  ELSE IF At(objs, q).bind = "undefined" /\ ImportsOf(At(objs, q).name) = {}
  THEN "uncollected function import" ELSE None
FuncIndex(q) ==
  IF At(objs, FuncPlace(q)).bind # "undefined" THEN FinalIndex(FuncPlace(q))
  ELSE (CHOOSE i \in ImportsOf(At(objs, q).name) : TRUE) - 1

(* intern_table_func: slots 0 and 1 are the null pointer and SIG_IGN.      *)
InTable(f) == {i \in DOMAIN table : table[i] = f}
TableIndex(q) ==
  IF FuncPlace(q) \in DOMAIN slot THEN slot[FuncPlace(q)]
  ELSE IF InTable(FuncIndex(q)) # {} THEN (CHOOSE i \in InTable(FuncIndex(q)) : TRUE) + 1
  ELSE Len(table) + 2

(* final_data_addr_for_symbol *)
DataPlace(q) ==
  IF At(objs, q).bind = "undefined" THEN FindDefined(objs, "data", At(objs, q).name) ELSE q
DataFault(q) ==
  IF At(objs, q).bind # "undefined" THEN None
  ELSE IF Definitions(objs, "data", At(objs, q).name) = {} THEN "unresolved data symbol"
  ELSE IF At(objs, q).name \in RuntimeData
            \/ SameSignature(At(objs, q).type.c, At(objs, DataPlace(q)).type.c)
  THEN None ELSE "data signature mismatch"

DataAddress(p) == address[DataPlace(PlaceOf(p))] + RelocAt(p).addend

GlobalNumbers(name) == {i \in DOMAIN globals : globals[i] = name}

PatchFault(p) ==
  CASE RelocAt(p).kind \in {"call", "pointer"} -> FuncFault(PlaceOf(p))
    [] RelocAt(p).kind = "address" ->
         IF DataFault(PlaceOf(p)) # None THEN DataFault(PlaceOf(p))
         ELSE IF DataAddress(p) \in 0 .. AddressLimit THEN None
         ELSE "data relocation address"
    [] RelocAt(p).kind = "global" -> None

PatchCall(p) ==
  /\ RelocAt(p).kind = "call"
  /\ value' = Put(value, p, FuncIndex(PlaceOf(p)))
  /\ UNCHANGED <<table, slot, globals>>

PatchPointer(p) ==
  /\ RelocAt(p).kind = "pointer"
  /\ LET q == PlaceOf(p)  i == TableIndex(q) IN
     /\ value' = Put(value, p, i)
     /\ slot' = Put(slot, FuncPlace(q), i)
     /\ table' = IF i = Len(table) + 2 THEN Append(table, FuncIndex(q)) ELSE table
  /\ UNCHANGED globals

PatchAddress(p) ==
  /\ RelocAt(p).kind = "address"
  /\ value' = Put(value, p, DataAddress(p))
  /\ UNCHANGED <<table, slot, globals>>

PatchGlobal(p) ==
  /\ RelocAt(p).kind = "global"
  /\ LET name == At(objs, PlaceOf(p)).name IN
     /\ globals' = IF GlobalNumbers(name) = {} THEN Append(globals, name) ELSE globals
     /\ value' = Put(value, p, IF GlobalNumbers(name) = {} THEN Len(globals)
                               ELSE (CHOOSE i \in GlobalNumbers(name) : TRUE) - 1)
  /\ UNCHANGED <<table, slot>>

Patch ==
  /\ phase = "patch" /\ todo # {}
  /\ LET p == First(todo) IN
     \/ PatchFault(p) # None /\ Die(PatchFault(p))
     \/ /\ PatchFault(p) = None
        /\ PatchCall(p) \/ PatchPointer(p) \/ PatchAddress(p) \/ PatchGlobal(p)
        /\ todo' = todo \ {p}
        /\ UNCHANGED <<link, objs, phase, why, defs, imports, target, address,
                       mem, memory, exported>>

-----------------------------------------------------------------------------
(* Memory and exports                                                      *)

HasHeap == \E p \in Defined(objs, "data") : At(objs, p).name = Heap
\* mutant: the floor of the heap replaces the end of the data
DataEnd_Floor == IF HasHeap THEN HeapFloor ELSE mem

DataEnd == IF HasHeap /\ mem < HeapFloor THEN HeapFloor ELSE mem
Pages(bytes) == (bytes + PageSize - 1) \div PageSize
MemoryPages ==
  LET needed == Pages(DataEnd + link.stack)
  IN IF needed > link.initial THEN needed ELSE link.initial
StackTop == MemoryPages * PageSize
HeapBase == AlignTo(DataEnd, HeapAlign)

NeedsTable == table # << >> \/ \E o \in DOMAIN objs : objs[o].imports_table

MemoryFault ==
  IF \/ DataEnd + link.stack > AddressLimit \/ MemoryPages > MaxPages
     \/ link.maximum # None /\ MemoryPages > link.maximum
  THEN "memory limit"
  ELSE IF NeedsTable /\ link.tablelimit # None /\ Len(table) + 2 > link.tablelimit
  THEN "table limit"
  ELSE IF HeapBase > StackTop - link.stack THEN "data overlaps stack"
  ELSE None

SizeMemory ==
  /\ phase = "patch" /\ todo = {}
  /\ \/ MemoryFault # None /\ Die(MemoryFault)
     \/ /\ MemoryFault = None
        /\ memory' = [pages |-> MemoryPages, heap |-> HeapBase,
                      limit |-> StackTop - link.stack, top |-> StackTop]
        /\ phase' = "export"
        /\ UNCHANGED <<link, objs, why, todo, defs, imports, target, address, mem,
                       table, slot, globals, value, exported>>

\* mutant: only functions with a symbol can be exported
Candidates_Symbols(name) ==
  {p \in Of(objs, "function", {"global", "local"}) : At(objs, p).name = name}

(* The last function of that name is exported, whatever its binding.        *)
Candidates(name) == {p \in Defined(objs, "function") : At(objs, p).name = name}
ExportFault(i) ==
  IF \E j \in 1 .. i - 1 : link.exports[j].name = link.exports[i].name
  THEN "duplicate export"
  ELSE IF Candidates(link.exports[i].name) = {} THEN "missing export" ELSE None

Export ==
  /\ phase = "export" /\ Len(exported) < Len(link.exports)
  /\ LET i == Len(exported) + 1 IN
     \/ ExportFault(i) # None /\ Die(ExportFault(i))
     \/ /\ ExportFault(i) = None
        /\ exported' = Append(exported, FinalIndex(Last(Candidates(link.exports[i].name))))
        /\ UNCHANGED <<link, objs, phase, why, todo, defs, imports, target, address,
                       mem, table, slot, globals, value, memory>>

Write ==
  /\ phase = "export" /\ Len(exported) = Len(link.exports)
  /\ phase' = "linked"
  /\ UNCHANGED <<link, objs, why, todo, defs, imports, target, address, mem,
                 table, slot, globals, value, memory, exported>>

-----------------------------------------------------------------------------
Init ==
  /\ link \in Links /\ objs = link.objects
  /\ phase = "check" /\ why = None /\ todo = {}
  /\ defs = << >> /\ imports = << >> /\ target = None
  /\ address = << >> /\ mem = DataBase
  /\ table = << >> /\ slot = << >> /\ globals = << >> /\ value = << >>
  /\ memory = None /\ exported = << >>

Next ==
  \/ Check \/ Synthesize \/ Wrap \/ Collect \/ EndCollect \/ Import \/ Number
  \/ Layout \/ EndLayout \/ Patch \/ SizeMemory \/ Export \/ Write

Spec == Init /\ [][Next]_vars

-----------------------------------------------------------------------------
(* Properties.  What a name means is said from the objects as given.       *)

(* The function the module's index i stands for: a definition, or one of   *)
(* the host, which is said to be in file 0.                                 *)
Indices == 0 .. Len(imports) + Len(defs) - 1
Function(i) ==
  IF i < Len(imports) THEN <<0, imports[i + 1].name>> ELSE defs[i - Len(imports) + 1]

Supplied(name) ==
  link.stdlib /\ (name \in DOMAIN Manifest \/ Sink(name))

(* What the symbol at q of object q[1] means: the definition there; the one *)
(* that an object exports; the runtime's; a function of the host.           *)
Meaning(q) ==
  LET sym == At(objs, q) IN
  IF sym.bind # "undefined" THEN q
  ELSE IF Definitions(link.objects, "function", sym.name) # {}
  THEN CHOOSE p \in Definitions(link.objects, "function", sym.name) : TRUE
  ELSE IF Supplied(sym.name)
  THEN CHOOSE p \in Definitions(objs, "function", sym.name) : p[1] = R
  ELSE <<0, sym.name>>

(* A call goes to the function that C linkage gives its name, and a         *)
(* function the linker made up for a public name calls the runtime's own,   *)
(* where the objects define that with a type the caller's can be made.      *)
(* Static functions of other files, definitions that come later and the     *)
(* order of the imports do not matter.                                      *)
CallsReach ==
  \A r \in DOMAIN value : RelocAt(r).kind = "call" =>
    /\ value[r] \in Indices /\ Function(value[r]) = Meaning(PlaceOf(r))
    /\ r[1] = R =>
         Function(value[r]) \in
           Definitions(link.objects, "function",
                       Manifest[objs[R].syms[RelocAt(r).from].name].target)

(* A function pointer is not null and not SIG_IGN, its slot holds the       *)
(* function it was taken of, and two pointers are equal exactly if they     *)
(* are to one function, wherever they were taken.                           *)
PointersCompare ==
  LET Pointers == {r \in DOMAIN value : RelocAt(r).kind = "pointer"} IN
  /\ \A r \in Pointers :
       /\ value[r] - 1 \in DOMAIN table
       /\ Function(table[value[r] - 1]) = Meaning(PlaceOf(r))
  /\ \A r, t \in Pointers :
       Meaning(PlaceOf(r)) = Meaning(PlaceOf(t)) => value[r] = value[t]

(* What is written for a name is what the name means, in calls and in       *)
(* pointers.                                                                *)
ReferencesMean == CallsReach /\ PointersCompare

(* Data segments are aligned and apart, the heap begins after all of them   *)
(* and ends where the stack's reservation begins, inside the memory.        *)
MemoryApart ==
  /\ \A p \in DOMAIN address :
       /\ address[p] % At(objs, p).align = 0 /\ address[p] >= DataBase
       /\ address[p] + At(objs, p).size <= mem
       /\ \A q \in DOMAIN address \ {p} :
            \/ address[p] + At(objs, p).size <= address[q]
            \/ address[q] + At(objs, q).size <= address[p]
  /\ memory # None =>
       /\ mem <= memory.heap /\ memory.heap <= memory.limit
       /\ memory.limit + link.stack = memory.top
       /\ memory.top <= memory.pages * PageSize /\ memory.top <= AddressLimit
       /\ link.maximum # None => memory.pages <= link.maximum

(* Which links have a fault, said without the order of the files.          *)
Refs(name) == {p \in Undefined(link.objects, "function") : At(objs, p).name = name}
TypesOf(S) == {At(objs, p).type : p \in S}
Clash(kind) ==
  \E p, q \in Of(link.objects, kind, {"global"}) :
    p # q /\ At(objs, p).name = At(objs, q).name
Disagree(name) ==
  LET given == Definitions(link.objects, "function", name) IN
  IF given # {} THEN \E s \in TypesOf(Refs(name)), t \in TypesOf(given) :
                       ~ FuncSignatureMatches(s, t)
  ELSE \E s, t \in TypesOf(Refs(name)) : s.wasm # t.wasm
Unprovided(r) ==
  LET sym == At(link.objects, <<r[1], link.objects[r[1]].relocs[r[2]].sym>>) IN
  /\ sym.kind = "data" /\ sym.bind = "undefined"
  /\ Definitions(link.objects, "data", sym.name) = {}
  /\ ~ (link.stdlib /\ sym.name \in RuntimeData)

(* A link that ends with a module has no clash, no call whose type is not   *)
(* the function's, and no address of data nobody defines; and the linker    *)
(* never dies of one of these, or of what its own bookkeeping should        *)
(* exclude, without a cause in the objects.                                 *)
RefusalsRight ==
  /\ phase = "linked" =>
       /\ ~ Clash("function") /\ ~ Clash("data")
       /\ \A p \in Undefined(link.objects, "function") : ~ Disagree(At(objs, p).name)
       /\ \A o \in DOMAIN link.objects : \A i \in DOMAIN link.objects[o].relocs :
            ~ Unprovided(<<o, i>>)
  /\ why = "duplicate symbol" => Clash("function") \/ Clash("data")
  /\ why = "function signature mismatch" =>
       \E p \in Undefined(link.objects, "function") :
         \/ Disagree(At(objs, p).name)
         \/ \E s, t \in TypesOf(Refs(At(objs, p).name)) : ~ FuncSignatureMatches(s, t)
  /\ why = "unresolved data symbol" =>
       \E o \in DOMAIN link.objects : \E i \in DOMAIN link.objects[o].relocs :
         Unprovided(<<o, i>>)
  /\ why \notin {"uncollected function import", "main wrapper"}

(* An export is a function of that name.  If no file has a static function  *)
(* of that name, it is the global one, whose signature was checked, or, for *)
(* a main with parameters, the wrapper, which calls it.                     *)
ExportsRight ==
  \A i \in DOMAIN exported :
    LET name == link.exports[i].name
        f == Function(exported[i])
        wanted == Definitions(objs, "function", name)
    IN /\ exported[i] \in Indices /\ f[1] # 0 /\ At(objs, f).name = name
       /\ ~ (\E p \in Of(objs, "function", {"local"}) : At(objs, p).name = name) =>
            \/ f \in wanted
                 /\ ~ (name = Main /\ At(objs, f).type.wasm \in MainWithParams)
            \/ At(objs, f).bind = "nameless" /\ Function(target) \in wanted
       /\ link.exports[i].signature # None =>
            \E p \in wanted : At(objs, p).type.c = link.exports[i].signature
=============================================================================
