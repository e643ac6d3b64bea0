# A TLA+ verification of ag_c

ag_c is a C11 compiler in C: a tokenizer, a streaming preprocessor, a
recursive descent parser, name and type resolution, a tree (HIR), an
intermediate representation (IR), an arm64 and a wasm32 back end, a wasm linker
with a C runtime, and a JavaScript API. It is single threaded. What is hard in
it is not concurrency but lifetimes and undo: memory is recycled while it is
still linked, declarations are rolled back after an error, pointers and counters
are cached across callbacks, numbers predicted by the parser must meet those
handed out by the resolver, registers are shared by values that never live at the
same time, a heap keeps its structure in the words between the objects, a session
outlives requests that stopped half way, and a compiled function may be left in
the middle and entered again.

Paths below are those of the repository without the leading `src/`; line numbers
of every definition are in `PROJECT.json` under "map".

## Inventory

| component | state it keeps | operations | how it meets the others | what makes it correct |
|---|---|---|---|---|
| token allocator `src/tokenizer/allocator.c` | a FIFO of recyclable chunks, a list of persistent ones, two pins, a cached cursor chunk, counters | allocate, pin, move the cursor, reset, hint | called by the scanner for every token, by the preprocessor's hook on every cursor move | frees nothing that is held, everything that is not, never keeps a freed chunk, exact counters |
| streaming preprocessor `src/preprocess/preprocess.c` from 3395 | output chain, pushback list, include frames, refill and hold marks | refill, expand, directives, include and pop, hook on advance, open and close | driven from inside the parser's cursor moves (a callback); reads the scanner; tells the allocator what to free | a token is alive until it is consumed, the chain never runs dry, order of the output |
| macro expansion, conditional inclusion (same file) | macro table, stack of conditional groups | define, undef, `#if` to `#endif` | called by the stream's steps | groups of a file close in that file |
| scanner `src/tokenizer` | position in the text | next token | allocates tokens | longest match, positions |
| parser `src/parser` (`expr.c`, `stmt.c`, `declaration_syntax.c`) | none but the cursor | one function per production | moves the cursor, looks one token ahead, re-reads, returns | accepts the grammar, keeps no token too long |
| name environment `src/parser/name_environment.c`, `declaration_binding_events.c` | predicted scope and declaration numbers | declare, enter, leave, reserve, capture | numbers are used by the scope graph's lookup points | the prediction equals what the resolver does |
| scope graph `src/semantic/scope_graph.c` | scopes, declarations, orders, aliases, hidden marks | create, enter, leave, declare, hide, move, forget, look up, checkpoint, roll back | written by the registries and by resolution | a tree; answers that stand; exact undo |
| registries `src/parser/global_registry.c`, `local_registry.c`, `semantic_ctx.c` | objects, tags, literals, snapshots for undo | register, promote, checkpoint, roll back | wrap the scope graph | undo of objects and graph together, one transaction at a time |
| resolution `src/semantic`, `src/declaration_pipeline.c` | the function being resolved | header, statements, initializers, tags, labels | one transaction per function or initializer | C's scoping and typing |
| parser arena `src/parser/arena.c` | blocks, cleanups | allocate, checkpoint, roll back, free all | holds every syntax tree | cleanups once, in reverse |
| compilation session `src/compilation_session.c`, `source_manager.c`, frontend `src/frontend` | all the contexts, one cleanup slot | begin, next item, end, abort, reset, dispose | owns the rest | order of disposal, nothing left of the last translation unit |
| language analysis `src/language_analysis.c` | parse states, the index of a project | answer a request about a source being typed, update the index, ask it | one session answers all requests; a fatal diagnostic leaves the front end by `longjmp`, or by a trap in wasm | an answer is that of its own text; every buffer has one owner; the index is published whole |
| types and layout `src/semantic/type_identity.c`, `src/type_layout.c` | interned types | intern, compare, lay out | everywhere | canonical identity |
| storage of variable length arrays `src/lowering/hir_ir_cfg.c`, `hir_ir_statement.c` | lifetimes with a checkpoint of the stack pointer each, loops, switches | declare, open and leave a scope, jump | follows the resolver's record of what is in scope; emits saves and restores | the stack is what the scope says, after every jump |
| HIR and the rest of the lowering `src/hir`, `src/lowering` | trees; blocks | one function per node | makes the IR | same meaning |
| IR optimizer `src/ir/ir_opt.c` | constants known | fold, propagate, remove | before allocation | same results |
| register allocation `src/ir/ir_regalloc.c` | live ranges, holders | number, extend, scan | arm64 emission reads it | a register holds what is read from it |
| resumable entry `src/arch/wasm32/wasm32_obj.c` (`gen_func_body`) | status, result, the frame of its variables, the stack pointer | start, resume, suspend, return | the host drives it, the C program runs in it | keeps its variables, gives the stack back |
| arm64 and wasm32 back ends `src/arch` | text or object being emitted | one function per instruction | | encodings |
| wasm linker `tools/wasm_obj_linker/ag_wasm_link.c` | symbols and relocations of each object, a runtime object it makes up, the tables of the module | check, synthesize, collect, import, number, lay out, patch, size the memory, export | reads the objects the wasm back end writes; its runtime object calls the C runtime | a reference is to what C linkage gives its name; data, heap and stack apart; refuses faulty links and no others |
| wasm runtime heap `tools/wasm_obj_linker/runtime/parts/memory.c` | a chain of blocks with boundary tags | malloc, calloc, aligned_alloc, realloc, free | called by compiled programs | objects disjoint and intact, tags exact, no loss |
| rest of the wasm runtime, JavaScript API, diagnostics, configuration, drivers | buffers | input and output | | |

The hard behaviours, with the line where each bites, are the "hazards" of
`PROJECT.json`.

## Modules

| module | models | extends |
|---|---|---|
| `TokenAllocator` | the allocator with an arbitrary client | |
| `OrderedText` | abstract: the text the preprocessor promises the parser | |
| `TokenStream` | the streaming preprocessor and the parser's cursor over the allocator's recyclable list | `TokenAllocator`; implements `OrderedText` |
| `ScopeGraph` | the data structure: every operation of `scope_graph.c` as an operator on a graph | |
| `ScopeTransactions` | the top-level loop and what every phase of resolution does to the graph | `ScopeGraph` |
| `NameResolution` | one function parsed with predicted numbers, then resolved with real ones | `ScopeGraph` |
| `ParserArena` | blocks, checkpoint and rollback of the arena | |
| `AnalysisSession` | one session through requests, fatal diagnostics, retries and traps | `ParserArena` |
| `ProjectIndex` | the index of a project built by the same session | `AnalysisSession` |
| `IrCode` | what a function of the IR is | |
| `IrOpt` | the optimizer's passes, and source and optimized function side by side | `IrCode` |
| `RegAlloc` | the register allocator's passes and then the program that uses its result | `IrCode` |
| `IrPipeline` | `IrOpt`, then `RegAlloc` on what it leaves, then both runs | both |
| `VlaLifetimes` | the resolver's scopes, the lowering's saves and restores, and then the lowered function | |
| `FrameLoop` | abstract: what a resumable entry promises its host | |
| `Continuation` | the step function the wasm backend makes of such an entry | implements `FrameLoop` |
| `RuntimeHeap` | the heap of a linked program | |
| `WasmLinker` | one link, from the objects to the module | |
| `MC...` | the values TLC gives to the constants | the module named |
| `...Proofs` (token allocator and stream, scope transactions, IR pipeline, variable length arrays, continuation, heap, linker, project index) | theorems | the module named |

**TokenAllocator.** Chunks are numbered in the order they were allocated, so
the linked list is the interval `recyc_oldest .. recyc_newest`; `place` gives
each its address, and a freed address may come back. A pointer into a chunk is
the chunk's address: `ChunkOf` finds what `ptr_in_chunk` finds, also for a pin
whose chunk is long gone. One action per public function; allocation is split
into the path that fits the newest chunk and the one that calls malloc.

**TokenStream, OrderedText.** `pc` says what the stream does next: the parser's
cursor is free to move while it is `"parse"`, and a refill runs `pps_step` as a
series of actions that end in `RefillDone`. Every token that something keeps is
allocated by the allocator's own action, so a step may cross a chunk boundary at
any token. The lexer may return any kind of token (plain, conditional
directives, `#include`, others, macros, an argument list, the end of the file)
at any time, and a condition has any value, so every file is covered. `cond_incl` is the code's stack of groups; `branches`, a ghost, is what C says of
the same text. Tokens nothing keeps, macro arguments among them, are left out:
they only move chunk boundaries, and those are arbitrary. `OrderedText` knows
neither chunks nor pushback nor groups: a text that grows at its end, tokens of a
file in the order of the file and only while it is the innermost one, a reader
who moves within the text, and a producer who answers every move.

**ScopeGraph, ScopeTransactions.** A graph is a record of scopes, declarations
and a current scope, as `psx_scope_graph_t` is; each C function is an operator
from a graph to a graph, so that the transaction machine can compose several in
one action, as the handlers do. The phases are those of
`psx_frontend_next_function_with_resolver`: between items, an initializer, a body
that has been parsed, its header, its statements. A declaration the compiler
rejects is an action that is not enabled; the transaction around it is rolled
back. The global and the local registry take their checkpoints of the graph at
the same moment and give them back together, so one is modelled.

**NameResolution.** The parser reads a whole function before any of its
declarations exists, and notes for every name a scope number and a declaration
count as it predicts them; the resolver then builds the graph and looks names up
from those places. A run parses one function, a construct at a time (a parameter, a
declaration, a block or `for`, a use, a type name, a cast), and then resolves it.
Constructs are data with what the two sides read of them: whether a specifier
names or defines a tag, has an enumerator, or a member with a parameter list of
its own, and whether a declarator has one. `Meaning` is C's scoping, computed
from the text alone.

**AnalysisSession, ProjectIndex, ParserArena.** One request is one sequence of
actions from its checks to its answer, an item of the text at a time. An item has
the outcome it would have in a session without a past, among them a fatal
diagnostic in the resolver, in an initializer or before the item is declared. The
native build leaves by a jump to the running parse and may parse again with the
statement that failed taken out (`RetryFailed`) or with an identifier kept
(`Reparse`); either build does so with the statement at the cursor, when a body was
rejected and the identifier there invokes a macro (`RetryAtCursor`); the wasm build may trap
out of any stage and leave what it has to the next reset of the session. Addresses of buffers and
parse states come back. The registries' transactions, the saved values of
objects, the graph's checkpoint and the arena's are there as far as a later
request can see them. `ProjectIndex` lets updates of an index, requests that ask
it, and compilations take turns on the session.

**IrOpt, RegAlloc, IrPipeline.** A function is the sequence of its instructions
in list order with their jumps. Each pass visits one instruction per step, as the
code's loops do. Then the source and the emitted code run side by side on the
same path: `source_env` and `env` are the values of the virtual registers before
and after the optimizer, `contents` says whose value each machine register holds.
Types have a width, and the optimizer computes wider than they are.

**VlaLifetimes.** A function is a sequence of items with the blocks it opens
and closes; it is read by the resolver, lowered item by item, and run. `vm_scope`
is the chain of markers that the resolver hangs on labels and gotos; `lifetimes`,
`current` and `emitted` are the lowering's context and output; `stack` and
`saved` are the stack pointer and the registers it is saved in, `stack` as the
list of what lies above the frame. A condition is a free choice of the run, so
every path of every function is taken, also through code behind a jump. `for`,
`while` and `do` are one kind of loop, and an `if` is a jump that may be taken.
An array has one of two sizes, so that an older stack pointer is told from the
right one.

**Continuation, FrameLoop.** Each call of the exports `start` and `resume` runs
the one step function from its prologue: the stack pointer is lowered, the status
is looked at, the pointers to the C variables are computed, and a resumed call
goes to the block of the loop's condition. The variables are memory cells, in a
static frame when the entry has a loop and on the stack when not, and what lies
below the stack pointer is overwritten by everybody. The host calls whenever it
has control, also from inside a function that the entry called. `FrameLoop` is the
C function as it is written.

**RuntimeHeap.** `heap.meta` are the headers, `mem` the words between them: the
word before a user pointer holds the address of its header, and the program fills
every object with a mark of its own. Addresses are in words of four bytes, with
the real sizes of header, prefix and smallest block. The program is legal: it
frees and resizes what it holds. The overflow guards of `ag_rt_block_layout`
are left out because they only refuse sizes that fit in no block and no memory.

**WasmLinker.** A link is data: its objects, each a sequence of symbols and of
relocations, the exports asked for and the options. `build_module_into` runs one
loop after another; each is a `phase`, its action takes the first symbol,
relocation or export still to visit, and a second action ends it. `Die` is the
code's `die`, with the message as its value. A function's final index is its place
among `imports` and `defs`, which is why nothing may be added once one is written
down. `Function(i)` says what the module's index `i` is, `Meaning` what C linkage says
a symbol is; the properties compare the two.

## What TLC checks

The type invariant of the heap, of the arrays and of the session is the first
conjunct of `ChainExact`, `PassesAgree` and `Ownership`; those of the token allocator, the heap, the session,
`ScopeTransactions`, `RegAlloc` and `Continuation` are proved for every value of the constants; in the other
modules it is left to TLC's evaluation of the rest. Where a configuration says `CHECK_DEADLOCK
FALSE`, the end of the program, a full heap or a bound on the length of a run stops
the model.

| run | properties | what it shows | bounds |
|---|---|---|---|
| `allocator` | `TypeOK`, `NoDanglingChunk`, `ChunkCountExact`, `BytesExact`, `CursorMoveSpares` | a cursor move frees nothing that the margin or a pin holds; no pointer into the list dangles, although addresses come back; counters equal the lists | 3 addresses, 4 recyclable chunks between resets, margin 1, two sizes that do and do not fit a chunk: with margin 1 four chunks give a freed one, a kept one, the cursor's and a newer one |
| `stream_files` | `GroupsAgree`, `NoTokenLost`, `WindowBounded`, `KeepsPromise` | over nested includes and conditional groups, the groups the code has open are those of the text; exactly the tokens of the branches C takes come out; memory is bounded as long as nothing was pushed back; the stream implements `OrderedText`, liveness included | one token per chunk (each token is a boundary), 10 tokens, two levels of include, lookahead 1, a return of one token |
| `stream_macros` | `UnreadLive`, `NoTokenLost` | no token still to be read is freed although expansions make the order of allocation and of consumption differ; none is lost or doubled by the looks ahead of macro calls and directives | 7 tokens, 2 expansions of up to 2 tokens |
| `scope_graph` | `AnswersStand`, `FileScopeVisible`, `WellFormed`, `OneMeaning`, `RollbackRestores` | the answer at a captured lookup point stands while its function is resolved; a name with linkage is visible at file scope exactly if it was declared there; what is given up leaves no trace; two visible declarations of a name in a scope mean the same | 2 names, a record that declares a member twice, 4 scopes of which 2 are functions' and 1 a prototype's, 3 declarations, one captured point (`Room`) |
| `names` | `UsesMean`, `TypedefsKnown`, `NumbersAgree` | each use of a name is resolved to the declaration C gives it; the parser takes a name for a type exactly when it is one; the scope and the count the parser predicted are those the resolver has | functions of 5 constructs, at most 2 in the header, 2 names; parameters with a reference, a callback, an enum, a record with a member that has parameters |
| `ir_pipeline` | `RangesDisjoint`, `RightValue`, `SameEffects` | what the optimizer leaves has the effects of the source, and every operand the emitted code reads from a register is what was last put there under its name | every function of 5 instructions that begins with a constant or a load: a constant, a use behind a branch and a loop back over both fit; 2 registers for up to 4 values; 3 and 5 bits stand for 32 and 64 |
| `vla` | `PassesAgree`, `StackExact`, `NestedSavesDominate` | resolver and lowering agree on lifetimes in every accepted function; the stack is the arrays in scope on every run; only the function's own checkpoint can be read unsaved | all functions of up to 7 items with an array, 2 declarations, 2 blocks, 1 jump, 2 sizes: a goto over or back to an array in nested or successive blocks fits; so does the older pointer of a loop body entered by a goto, which is what seven items are needed for |
| `continuation` | `StackReturned`, `KeepsPromise` | an entry with a loop gives the stack back at every exit and implements `FrameLoop` through suspension, resumption, refusals, host exceptions and calls from inside | 3 variables of which 2 are over-aligned, 3 commands, callers with 0, 1 or 3 words of stack: room for two nested frames |
| `heap` | `ChainExact`, `DataIntact`, `NothingLost` | tags, merging and objects after any calls, to the full heap | 3 objects, 42 words, 4 sizes and 2 alignments: splits that leave a block, a sliver or nothing, growth over the top, moves into merged blocks |
| `project` | `Ownership`, `TreesExact`, `AnswersExact`, `IndexExact`, `IndexKept`, `AllReturns` | one owner for every buffer wherever a request stops; trees of skipped functions are given back and no others; an answer is that of its own text unless a transaction was left active; an index is published whole, stays until the next one is, and every request and update ends | texts of up to 3 items (object or prototype, function, object or function) with every outcome, 4 revisions of 1 or 2 sources, one with a rejected body, 2 parse states, 5 buffers: an abandoned state beside a live one |
| `linker` | `ReferencesMean`, `MemoryApart`, `RefusalsRight`, `ExportsRight` | a call and a pointer are to what C linkage gives the name, through static functions of the same name, runtime functions that are made up and functions of the host, and pointers to one function are equal; data, heap and stack are apart; a link that ends has no clash and no call of the wrong type, and one that is refused for such has one; an export is the function whose signature was checked | two objects of up to three symbols, or three of which each declares one function: the first declaration, a later one and the definition meet in every order; pages of 64 bytes, data from 8, addresses to 400, so that every limit and all 18 errors are reached |
| `session_freshness` (violation) | `AnswersFresh` | see divergences | as `project` |

**Fairness.** The compiler is one thread, so weak fairness says that a call
which has begun goes on: of `Work` in `TokenStream` (the steps of a refill, not
the parser's moves, nor opening and closing), of `ProjectStep` in `ProjectIndex`
(every step of a running request or update, a trap among them, but not the arrival of
a new one). With it `KeepsPromise` includes that a move of the parser is answered,
and `AllReturns` that a request ends, with an answer or a failure, whatever its
text. That a file ends is the bound on tokens: a real refill ends because files do. For the
resumable entry only safety is stated: the host need not resume.

Each property is backed by a mutant, a definition next to the original marked
`mutant` that changes it the way a slip in the code would: TLC finds the
property violated when it takes the original's place.

## What is proved

The theorems hold for every value of the constants that satisfies the named
assumptions, and so for the real sizes.

`TokenProofs`, the allocator: `TypeCorrect`, `NeverDangling`, `ChunkCount`, `BytesAlwaysExact`
and `SparesWhatIsHeld`. The inductive invariant is `TypeOK`, the two conjuncts on the
cached chunk and the count, and the shape of the list (its two ends are null
together and in order). Types alone are not inductive: a cursor move reads
`place` of the chunk it remembers, which is in the domain of `place` only if that
chunk is still in the list. `SparesWhatIsHeld` then follows from the floor of a
release being no newer than the margin or any pin (`FloorLive`). The bytes are a sum over a
finite set, which the library computes by choosing elements. A function with the law of a
sum (`IsSum`) exists for every finite set and any two agree, by a least
counterexample; so the sum splits over parts and does not depend on the names of chunks
(`SumSplit`, `SumShift`), and a release subtracts what its chunks had added. Assumed: malloc
returns an address that is not in use (`AddrAssumption`), sizes are numbers.

`TokenProofs`, the stream: `StreamAlwaysOrdered`, `WindowAlwaysBounded`, `KeepsOrderedText`,
`GroupsAlwaysAgree`, `NoTokenEverLost`, in two layers. `StreamInv` is about places and
numbers: where tokens may be while each step runs (`Layout`), that every saved list and
its frame lie within those of the frame outside it (`Nested`), and that of two tokens of one file the
older is read first, wherever either is (`InOrder`). The window follows, as a
pinned or pushed back token is the only reason to keep more than the margin, and so does
the refinement: every step extends the text at its end by tokens of the innermost file in
their order, moves the reader, or maps to a stutter. `TextInv` adds what the text means. `Whole` says of every plain
token of a branch that C takes that it is in exactly one place. `Reading` says that
one may follow the tokens still to be read, opening, continuing and closing groups as C does
(`Reads`), from the groups the code has open to those the lexer has reached (`branches`): the code is behind the text by
what it has looked ahead, and while a branch is skipped its groups are those that
`nest` counts (`SkipMatch`). `Waiting` says the same of each file that
waits for an include, with groups counted from the outermost (`FromEnd`), as the included file adds and
removes its own in front of them. Neither holds without the other: an `#endif`
that belongs to another file would move every later token into another branch.
Assumed: `StreamAssumption`; and by the last two theorems, as in both
configurations, that no word behind a lone `#` in a skipped branch reads as the name of a
directive (`Words \subseteq {"plain"}`). Otherwise the code counts groups the text does not have
(divergences).

`ScopeTransactionsProofs`: `TypeCorrect`, `AlwaysWellFormed`, `RollbackExact`,
`AnswersAlwaysStand`, `AlwaysOneMeaning`, `FileScopeAlwaysVisible`.
`Extends(g, o)` relates a graph to an older one that it was made from by adding
scopes and declarations and by changing only counters and hidden marks; every
operation but the forgetting of functions extends its graph, a move of
declarations extends any graph that has none of them, and the snapshot of `o`
restored in a graph that extends `o` is `o`. The invariant says that the graph
is well formed and, in a transaction, extends the saved one. That is why the
rollback may cut the arrays and restore counters only.
The lookups need to know what may share a name (`Lawful`): at file scope nothing
follows a declaration with linkage (`LinkedLast`), an alias is shown and targets a
declaration of its name there (`AliasesMean`), and what is shown together in a scope
means one entity (`OneEntity`). So an `extern` in a block that finds its name in the
block has found an alias of the last declaration at file scope, and that one is its backing.
`Quiet(h, g)` is the relation for the answers: of what `h` has beyond `g`, nothing is
ordinary, shown, and before a point in a function or block of `g`. It holds
because such a point has the function's order root on its whole way to file scope
(`ScopeLaw`), every ordinary declaration inside advances that root, those at file scope
are hidden or have generated names, and the current scope never leaves the function
(`Inside`). `Enclosing` is recursive: that its chain exists, and is the same in both
graphs, goes by a least counterexample (`ChainExists`, `EnclosingSame`). Assumed: the
generated name is a name that no source name equals (`NameAssumption`).

`ScopeTransactionsProofs`, the names: `NumbersAlwaysAgree`, `TypedefsAlwaysKnown`, `UsesAlwaysMean`,
under the hypothesis `Announced`: the text is of constructs whose scopes and declarations the
parser announces as the resolver makes them. The run's module asserts it of its constants; outside it
the code really disagrees with itself (divergences). The parser and the resolver never meet, so the proof
gives both one sequence `q` of places, with the open scopes, the order and the next scope
at each construct and behind the last. `Numbered` says that `q` follows from the text alone: a
construct adds exactly the scopes that `ItemScopes` counts and at least the orders that `ItemOrders`
counts (the parser reads a cast twice). The environment is `q`'s last place (`Parsed`), as every specifier and
declarator announces these counts (`Announces`), in the header on its replay; the graph is at `q`'s place `at`
(`Placed`), as applying them adds those scopes and no more than those orders (`Grown`). That is `NumbersAgree`.
For the meanings, the environment's entries are the declarations of the scopes still open, innermost and
latest first (`Lists`); but an enumerator of a parameter is only in `outer`, so the
header has a law of its own (`OuterLaw`). In the graph each declaration has a construct
that made it, before `at`, in its scope and in the order of the text (`Attributed`), and none has
an order above the place's. So the latest that a lookup from there finds in the innermost scope
is that of the construct `Meaning` picks in the text alone (`LookupMeans`). C's
scoping counts blocks (`Depth`), a cardinality, which `q`'s lengths give as `Lev`. The
invariant `MeaningInv` is a disjunction of phases: `HeaderInv`, `BodyInv`, `ResolveInv`, `DoneInv`.
Assumed: `NamesAssumption`, that the generated name is none of the text's.

`IrPipelineProofs`, the allocator: `TypeCorrect`, `NoOverlap`, `ReadsTheOperand`. The last is
the correctness of the allocator for every function in single assignment form,
whatever the order of its blocks. It needs two invariants. While the passes run,
`first_def` is the definition and `reg_holder` the latest of those that share
a register, so ranges that share are disjoint and in order. While the program
runs, no jump leads from beyond a stretched range back into it (`Barrier`): a
loop that reached into the range has stretched it to its exit. So of the virtual
registers that share a register, all but the latest assigned are never read again.
Assumed: single assignment (`ProgramAssumption`), which the headers of
`ir_regalloc.c` and `ir_opt.c` state, and that a program reads no value on a
path on which it has not been defined.

`IrPipelineProofs`, the optimizer: `KeepsEffects`. For functions of any length and every path, no
side effect is lost and no instruction reads another value than in the source.
The invariant follows the three passes and then the two runs: what the
propagation knows of a register is what every later definition of it computes
(it has one), a count of uses is never too low while instructions are removed, so
what is removed is read by nothing that stays. Values agree as long as `exact`
holds: no folded operation has left the range of its signed type, which C calls
undefined. Assumed: single assignment (`SourceAssumption`), and that shifts wrap
at the machine's width (`WidthAssumption`).

`IrPipelineProofs`, both in the order of `main.c`: `PipelineDisjoint`, `PipelineReads`,
`PipelineEffects`, the three properties for `IrPipeline`, where the allocator is handed whatever the
optimizer leaves. An instruction's result is what it was in the source or none, so
single assignment is kept (`StaysSingle`) and the allocator needs no assumption of its own.

`VlaLifetimesProofs`: `LoweringNeverFails`, `StackIsExact`, `RestoresAreSaved`, all three
properties of the storage of arrays, for functions of any length. The invariant has a part per pass. `Resolved`:
the scope before an item follows from that of the item before it, so a scope is a chain
of declarations, and what is in scope before a block is in scope in all of it. `Agrees`: the
lifetime the lowering is in is the last declaration in scope, an array's lifetime has a
checkpoint that nothing else has, and what was emitted for an item leads from its scope to the
scope behind it. `Runs`: the registers that may be restored from here hold the stack as it was when
they were saved: the checkpoint of each array in scope, of the body of each loop around, and of
the whole of each `for` and `switch` around. None of this says where control may go, so each way a run
takes has a lemma of two halves: the instructions on it leave the arrays of the scope
it leads to (`Ends`), and the registers that are good for more than that scope were good before
or have been saved on the way (`Arrival`). That no jump enters a loop or a switch from outside
is the condition of the two properties themselves (`EntersBlock`); it gives that the blocks around
the place a jump leads to were around the jump. Assumed: only that the bounds are numbers
(`LengthAssumption`, `BoundAssumption`).

`ContinuationProofs`: `TypeCorrect`, `ReturnsStack`, `KeepsFrameLoop`. The
invariant relates the status to where the entry is, the pointers of a running
call to the frame, and the cells of assigned variables to their values; a
persistent frame is out of the reach of what overwrites the stack, and a stack
frame lies above the stack pointer of everything that is called. The last
theorem is the refinement: initial states map to initial states, and each action
to one of `FrameLoop` or to a stutter. Assumed: an entry without a
loop has at most one over-aligned variable (`MaxUnsuspended <= 1`), because the
code skips the computation of the pointers to such variables there (divergences).

`RuntimeHeapProofs`: `ChainAlwaysExact`, `ObjectsStayIntact`, `NoBlockIsLost`. `ChainExact`
is inductive once allocated blocks are known to have an alignment that was asked for
(`IInv`), but the operations pass through chains that are not exact: a block has been
cut and the tag behind it is old, or a block was given back and has not met its free
neighbours. `Whole`, `Tagged` and `Apart` say which parts hold, and at which blocks they
do not yet; each helper of the code (split, absorb, update, coalesce) has a lemma from
one such chain to the next. For the objects the invariant adds that each lies where the
layout of its alignment puts it (`LaidOut`), without which a realloc in place could not
know how much room there is. The words of a block behind its header are its `Zone`;
no two blocks share one, no header lies in one, and every operation replaces the block
of one variable (`Replaces`), so that only the object that was operated on is left to
prove. Assumed: block sizes and alignments are multiples of the unit and a smallest block
holds header and prefix (`HeapAssumption`, `RequestAssumption`), a mark is no address
(`HandleAssumption`), and the program frees and resizes only what it holds.

`WasmLinkerProofs`: `ReferencesAlwaysMean`, `MemoryAlwaysApart`, `ExportsAlwaysRight`,
`RefusalsAlwaysRight`, that is every property of the linker. The loops of `build_module_into`
only make sense together: what a relocation is patched to is what the collecting loop
numbered, the import loop resolved and the layout loop placed, each for other
symbols. `Live` and `Right` therefore say, part by part, what each loop has done for what it
has visited (`Visits`): `Collected` relates a function's number to its place among
`imports` and `defs`, `Laid` gives every placed segment its own interval below the end of the
data, `Patched` gives each visited relocation the index or address of what its name
means, `Wrapped` and `Answered` say which names the made-up functions stand for. The objects
of the link stay as they were read and the runtime's only grow (`KeptObjects`).
Both hold of a link that is alive; `Die` keeps all that was built, and the loop it is called
from has found what the message says (`DyingExcused`). Assumed: what the linker checks as it
reads an object, that a relocation is through a symbol of the right kind and
that symbols have one (`LinksAssumption`), that the highest page is below the address
limit (`LayoutAssumption`), and that no runtime function is called `main` (`ManifestAssumption`).

`ProjectIndexProofs`: `AlwaysOwned`, `TreesAlwaysExact`, `AnswersAlwaysExact`,
`IndexAlwaysExact`, `IndexAlwaysKept`, that is every safety property of the session and of
the index, for texts of any length and projects of any size. `ProjectInv` puts together what each part of the session owes the
others. `HeapInv` is the ownership by stages, with the fields of a parse state apart and
those empty that a later stage fills. `ArenaInv` says what the arena gives back at a
rollback: the mark in the frame is that of the trees of the items before (`MarkOf`,
`RollsBack`). `TellInv` is what the tables say, stage by stage: of each name, how
often the items read so far name and redeclare it (`CountOf`), and while a function is resolved, that
the frame, the transaction's graph and its saved values hold among them exactly what a rollback needs
(`Begun`, `Resolving`, `Resolved`). At the end of a parse that is `Expected` of the text (`ExpectedIs`),
which a search for the first item that ends an analysis defines, so the invariant also says that no item read was one
(`Ended`). The index needs more than exact answers: that an answer without an error is to a
text without one (`ErrorInv`, `AnswerReports`), and to the source the update asked about
and not to the text a retry made of it (`AskedInv`). This last part is false if an update may retry after
a rejection, and an index may then leave out what the rejected body declares. The
code excludes it because an update asks with the cursor at the end of the source, where
no macro's arguments can follow (`identifier_span_invokes_function_like_macro`), and so does
the model (`RetryBetween`). `Trees` is a fold in the library, so its laws (`FlattenAppend`,
`FlattenGrows`) go through the function that the fold chooses, by a least counterexample.
Assumed: addresses are numbers and `None` is none of them (`AddressAssumption`), a
project's revision has a source (`ProjectAssumption`), and
of a text that a name is an object or a function, that a function has one definition, that no object is
redeclared that the text has a function of, and that a directive which cannot be read comes
first (`TextAssumption`); `NoneAssumption` and `NoIndexAssumption` say that `None` and
`Abandoned` differ from the values they stand beside.

Only model-checked: `UnreadLive` of `TokenStream`, which needs conditions (it fails where an include
puts tokens away unpinned, see divergences), and `AllReturns` and the liveness in `KeepsPromise`. What a recursive
definition computes, and liveness under fairness, are out of this prover's reach.

## Divergences between the code and what it says

One has a run of its own, listed under "findings":

- `AnswersFresh`: a fatal diagnostic inside a function or an initializer leaves
  the registries' transaction active. Neither reset clears it and both refuse to
  begin another, so the retry of the request and all later requests on the session
  resolve no function and answer without an error. An index that is updated then
  is published without those functions and is kept for its revision.

Met while modelling, without a run:

Streams and the top-level loop
- The pushback list that an `#include` saves is not pinned while the included file
  is read (`preprocess.c:3996`). A long file without directives frees the first
  tokens of the line after the `#include`, and they are read after the return.
- The frontend keeps a function's identifier token over the body
  (`translation_unit.c:234`); behind a long body in a file without directives
  its chunk is gone.
- After a syntax error in a body, the loop enters a function scope instead of file
  scope (`ps_decl_reset_locals_in`), and the next item's tags, typedefs and
  enumerators are declared where later functions do not see them;
  `test_e2e.c` (`multiple_function_syntax_errors_reported`) expects the items after
  the error to be analysed as usual.
- Once something was pushed back, `pps_update_stream_pin` pins `out_head` for the
  rest of the file, so the window is not O(1) as its comment says; `WindowBounded`
  is therefore stated for streams that pushed nothing back.
- A region skipped by `#if` may exceed the margin that the comment in
  `allocator.c` calls sufficient for the parser's look behind.
- In a skipped branch a `#` alone on its line takes the first word of the next line
  for the name of a directive (`preprocess.c`, `pps_skip_cond_incl_impl`).

Names. All of these are valid C that the built compiler rejects; the model shows
each when the constants of an instance allow the construct:
- a tag first mentioned, or an enumeration defined, in a function's return type: the
  environment of the body gets the events of the declarator but not those of the
  specifiers (`declaration_binding_events.c`), although the resolver declares these tags
  and enumerators in the function's scope. `struct T *f(int n) { n = 1; return 0; }` is
  rejected: `n` is looked up from before its declaration;
- a record definition in a cast or a compound literal, followed by a block: the
  probe for a type name and the reading of it both reserve the scope;
- a record with a function pointer member as the type of a local variable, followed
  by a block: the member's parameter scope is reserved in a replayed header only;
- a record definition in the third expression of a `for` with nested blocks, and an
  enumerator defined there and used in the body: parsed before the body, resolved after it;
- a record definition in an array bound of a parameter;
- an enumerator defined in a prototype's parameter stays known to the parser's list
  of names: `typedef int T; void g(enum { T } x); T y;` is rejected.

Sessions
- A failed allocation while a function is resolved is not reported: the answer, and
  an index, lack the function without an error.
- A compilation that traps leaves its stream active, and the next analysis fails
  with `PARSE_START_FAILED` and discards the session (an update only fails).

Generated code
- The stack pointer of a function's own lifetime is saved only at the array that
  comes first in its text. A run that skips that array and leaves the scope of a
  later one sets the stack pointer to a register never written.
  `bug_coverage.md` records an earlier form of this fault as repaired. The
  function's epilogue restores the pointer from the frame, so it shows where
  the stack is used in between. `NestedSavesDominate` therefore excepts that one checkpoint.
- A goto into a loop or a switch, and a `case` inside a loop of its switch, enter
  behind the save of the body's checkpoint; the end of the body then restores a
  pointer never saved or, in a second round, the one of the round before.
  `StackExact` and `NestedSavesDominate` are therefore stated for functions
  without such jumps (`~EntersBlock`). In the arm64
  code of `switch (n) { while (c()) { case 1:; char b[n]; ... } }` the
  slot is read and, on that path, never written.
- `eval_binop` folds the operations of 32-bit types in 64 bits, so what C leaves
  undefined differs from what the machine would do (`exact` in `IrOpt`). `ir_opt.c:9`
  takes each virtual register to have one definition, which `SourceAssumption`
  repeats, while `ir.h:8` calls the form "Non-SSA".
- A resumable entry: a refused `start` or `resume` of an entry without a loop does not give back its
  frame of stack; in such an entry the pointer to every over-aligned
  variable but the first is never computed; `resume(-1)` is taken for a start; and
  the status stays 1 after an exception of the host, where
  `wasm_obj_linker/README.md` has the entry end.
- The comment at the top of `ir_regalloc.c` speaks of x9 to x15 within a block;
  the code uses x19 to x28 across blocks, which is what the model has.
- The heap never joins its last free block with the memory above it: after
  everything is freed, a request larger than the former top still needs all its
  words above the top.

Linker
- Exports are looked up among the names of all functions, static ones included, and the
  last match wins: the static function of a later file is exported in place of the
  global one whose C signature was checked. `ExportsRight` is stated for names
  that no file has a static function of.
- The memory is sized from the end of the data, but the heap begins at the next multiple
  of 16. When data and stack fill their pages exactly and the end of the data is not
  such a multiple, the link dies of "linked data overlaps reserved stack" although another
  page would do.
- The C signature of an undefined function is compared with the definition or with the
  first declaration only, and an object without a signature agrees with every other: two
  declarations of a function of the host that disagree are met or not depending on the
  order of the files. `RefusalsRight` asks for equal wasm types there.

## Not modelled, and why

Scanning, parsing, typing, expression lowering and encoding are functions from
data to data with no order of steps to get wrong; a model would be as long as the
code. They are most of the program's lines: the share of the code that the modules
cover is small because of that. Diagnostics, options, files and the JavaScript API are input and output.

Of the modelled parts: macro tables, arguments and `#if` arithmetic (a condition has any
value); types, storage and initial values in resolution; old-style parameter lists,
block scope functions and labels in `NameResolution`; object files, ABI layouts of aggregates, symbols
inside a data segment and the bodies of synthesized functions in the linker; the completion queries of the
language analysis. The status and reason of each component are in `PROJECT.json`.

## Plan

What is left, in order of what a failure would cost:

1. Proofs: `UnreadLive` for `TokenStream` where no include has put tokens away,
   from the order of allocation (`InOrder`) and the hold.
2. `NameResolution` with old-style parameter lists and block scope functions.
3. A module for the C runtime's streams (buffering, end of file, push back).
