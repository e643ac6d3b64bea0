---------------------------- MODULE MCWasmLinker ----------------------------
(***************************************************************************)
(* Links of two or three small objects, of five kinds: functions that files *)
(* share, hide or miss; the public functions of the runtime; main; data;    *)
(* a resumable entry.  An int and a long differ in width only, a double in  *)
(* more.  Sizes are scaled down: a page of 64, data from 8.                 *)
(***************************************************************************)
EXTENDS WasmLinker

AnInt == [wasm |-> "int", c |-> "int"]
Short == [wasm |-> "int", c |-> "short"]
Bare == [wasm |-> "int", c |-> None]
Long == [wasm |-> "long", c |-> "long"]
Double == [wasm |-> "double", c |-> "double"]
WithArguments == [wasm |-> "arguments", c |-> "main"]

MCConvertible == {<<"int", "long">>, <<"long", "int">>}
MCManifest == [name \in {"puts", "trap"} |->
  IF name = "puts" THEN [target |-> "rt_puts", wasm |-> "int"]
  ELSE [target |-> None, wasm |-> None]]

Func(name, bind, type) ==
  [kind |-> "function", name |-> name, bind |-> bind, type |-> type,
   size |-> 0, align |-> 1]
Data(name, bind, c, size, align) ==
  [kind |-> "data", name |-> name, bind |-> bind, type |-> [wasm |-> None, c |-> c],
   size |-> size, align |-> align]
Global(name) ==
  [kind |-> "global", name |-> name, bind |-> "undefined",
   type |-> [wasm |-> None, c |-> None], size |-> 0, align |-> 1]

(* An object with a relocation for each symbol, of a function of the given *)
(* kind.                                                                    *)
KindOf(sym, kind) ==
  CASE sym.kind = "function" -> kind
    [] sym.kind = "data" -> "address"
    [] sym.kind = "global" -> "global"
Resuming(syms, kinds, continuation) ==
  [syms |-> syms,
   relocs |-> [i \in 1 .. Len(syms) |->
                 [kind |-> KindOf(syms[i], kinds[i]), sym |-> i, from |-> 0,
                  addend |-> 0]],
   continuation |-> continuation, imports_table |-> FALSE]
Object(syms, kinds) == Resuming(syms, kinds, None)

Plain == [maximum |-> None, initial |-> 1, stack |-> 16, tablelimit |-> None,
          hostwrite |-> FALSE]
LinkOf(objects, exports, stdlib, options) ==
  [objects |-> objects, exports |-> exports, stdlib |-> stdlib,
   initial |-> options.initial, maximum |-> options.maximum,
   stack |-> options.stack, tablelimit |-> options.tablelimit,
   hostwrite |-> options.hostwrite]
Named(name) == [name |-> name, signature |-> None]
Signed(name, c) == [name |-> name, signature |-> c]

Binds == {"local", "global", "undefined"}
Maybe(S) == {<< >>} \cup {<<x>> : x \in S}

(* Two files with a function f and a function g, whose address is taken.    *)
Sharing ==
  {LinkOf(<<Object(<<x, y>>, <<"call", "pointer">>),
            Object(<<z, w>>, <<"pointer", "pointer">>)>>,
          exports, FALSE, Plain) :
     x \in {Func("f", b, t) : b \in Binds, t \in {AnInt, Short, Bare}},
     y \in {Func("g", b, AnInt) : b \in Binds},
     z \in {Func("f", b, t) : b \in Binds, t \in {AnInt, Long}},
     w \in {Func(n, b, AnInt) : n \in {"g", "h"}, b \in Binds},
     exports \in {<< >>, <<Named("f"), Named("g")>>, <<Signed("f", "int")>>}}

(* Three files that declare f: the order in which its types are met.        *)
Declaring ==
  {LinkOf(<<Object(<<x>>, <<"call">>), Object(<<y>>, <<"pointer">>),
            Object(<<z>>, <<"call">>)>>, <<Named("f"), Named("f")>>, FALSE,
          [Plain EXCEPT !.tablelimit = 2]) :
     x \in {Func("f", b, t) : b \in Binds, t \in {AnInt, Bare}},
     y \in {Func("f", b, t) : b \in Binds, t \in {AnInt, Short, Bare}},
     z \in {Func("f", b, t) : b \in Binds, t \in {AnInt, Short}}}

(* The runtime's object, complete or not, with the files that use it.       *)
Runtime ==
  {Object(<<Func("rt_puts", b, t), Data("ag_rt_heap", "local", None, 8, 8),
            Func("host_write", "undefined", AnInt)>>, <<"call", "address", "call">>) :
     b \in {"global", "local"}, t \in {Bare, Long}}
Using ==
  {LinkOf(<<Object(<<x, y>>, <<"call", "pointer">>), Object(<<z>>, <<"pointer">>), rt>>,
          << >>, stdlib, [Plain EXCEPT !.hostwrite = host]) :
     x \in {Func("puts", b, t) : b \in Binds, t \in {AnInt, Long, Double}},
     y \in {Func(n, "undefined", AnInt) : n \in {"trap", "setjmp", "other"}}
             \cup {Data("stdout", b, None, 8, 8) : b \in {"undefined", "global"}},
     z \in {Func("puts", b, t) : b \in Binds, t \in {AnInt, Long}},
     rt \in Runtime, stdlib \in BOOLEAN, host \in BOOLEAN}

(* main with or without parameters, static ones of other files, and exports *)
Starting ==
  {LinkOf(<<Object(<<x, y>>, <<"call", "call">>), Object(<<z, w>>, <<"pointer", "call">>)>>,
          exports, stdlib, Plain) :
     x \in {Func("main", b, t) : b \in Binds, t \in {WithArguments, AnInt}},
     y \in {Func("f", b, AnInt) : b \in Binds},
     z \in {Func(n, b, AnInt) : n \in {"main", "g"}, b \in Binds},
     w \in {Func("f", b, AnInt) : b \in Binds},
     exports \in {<<Named("main")>>, <<Named("f"), Signed("main", "main")>>,
                  <<Named("f"), Named("main"), Named("f")>>},
     stdlib \in BOOLEAN}

(* Data of several sizes and alignments, and memories that are too small.   *)
Laying ==
  {LinkOf(<<Object(<<x, y, Global("__stack_pointer")>>, <<"", "", "">>),
            Object(<<z, Global(n)>>, <<"", "">>)>>, << >>, TRUE, options) :
     x \in {Data("a", "global", "int", 4, 4), Data("a", "local", "int", 3, 1),
            Data("a", "undefined", "int", 0, 1)},
     y \in {Data(m, b, None, 8, 8) : m \in {"b", "ag_rt_heap"}, b \in {"global", "local"}},
     z \in {Data("a", b, c, 40, 16) : b \in Binds, c \in {"int", "double"}}
             \cup {Data("c", b, None, s, 2) : b \in Binds, s \in {0, 1, 120, 300}},
     n \in {"__stack_pointer", "area"},
     options \in {[Plain EXCEPT !.stack = s[1], !.maximum = s[2], !.initial = s[3]] :
                    s \in {<<0, None, 1>>, <<17, 4, 1>>, <<16, 2, 3>>, <<16, 4, 3>>}}}

(* Addresses inside, before and far behind the data.                        *)
Addressing ==
  {LinkOf(<<[Object(<<x, y>>, <<"", "">>) EXCEPT !.relocs[1].addend = k,
                                                  !.imports_table = (k = -4)],
            Object(<<z>>, <<"">>)>>,
          << >>, FALSE, [Plain EXCEPT !.tablelimit = 1]) :
     x \in {Data("a", b, "int", 4, 4) : b \in {"global", "undefined"}},
     y \in {Data("b", "local", None, s, 8) : s \in {8, 394}},
     z \in {Data("a", b, "int", 8, 4) : b \in {"global", "local"}},
     k \in {-20, -4, 4, 400}}

(* A resumable entry and its functions.                                     *)
Entry(name, parts) == [entry |-> name, condition |-> "running", parts |-> parts]
Continuing ==
  {LinkOf(<<Resuming(<<x, y>>, <<"call", "call">>, Entry("main", {"step"})),
            Resuming(<<z, Func("main", "local", AnInt)>>, <<"call", "pointer">>, c)>>,
          <<Named("main")>>, FALSE, Plain) :
     x \in {Func("step", b, AnInt) : b \in {"global", "local"}},
     y \in {Func(n, b, AnInt) : n \in {"running", "main"}, b \in Binds},
     z \in {Func(n, b, AnInt) : n \in {"running", "step", "main"}, b \in Binds},
     c \in {None, Entry("main", {"step"}), Entry("other", {"step"})}}

MCLinks == Sharing \cup Declaring \cup Using \cup Starting \cup Laying
             \cup Addressing \cup Continuing

=============================================================================
