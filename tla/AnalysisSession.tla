-------------------------- MODULE AnalysisSession --------------------------
(***************************************************************************)
(* One compilation session that answers language analysis requests for its *)
(* whole life (ag_language_analyze_source, compilation_session.c and the   *)
(* loop over the items of a source in translation_unit.c).                 *)
(*                                                                         *)
(* The front end runs on text that is being typed, so a fatal diagnostic   *)
(* is a normal event.  The native build leaves the front end by a jump     *)
(* from any depth and may try again with the offending statement taken     *)
(* out; the wasm build traps out of the request, and what the request had  *)
(* is cleaned up by the next reset of the session.  What must hold is that *)
(* nothing of an earlier request shows in a later answer, and that every   *)
(* buffer has one owner at every moment somebody may stop.                 *)
(*                                                                         *)
(* A text is the source up to the cursor, as a sequence of items, and the  *)
(* cursor's marker is declared after the last one.  The outcome of an item *)
(* is what happens when it is read in a session without a past:            *)
(*   object     plain | fatal (in its initializer) | unreadable            *)
(*   prototype  plain | unreadable                                         *)
(*   directive  unreadable; only as the first item, where the stream is    *)
(*              being opened: later ones make the item before unreadable   *)
(*   function   resolved | rejected | failed (out of memory)               *)
(*              | fatal (in the resolver) | unreadable                     *)
(*              | malformed (a syntax error that is only recorded)         *)
(*              | overlimit (one syntax error too many)                    *)
(* unreadable is fatal before the item is declared, while it is parsed or  *)
(* a token is fetched.  touches are the objects a function redeclares.     *)
(***************************************************************************)
EXTENDS ParserArena, FiniteSets

CONSTANTS
  Name,      \* names with file scope
  Text,      \* the texts a request may carry
  State,     \* addresses of parse states, which are numbers: an allocation
             \* takes the lowest that is free, so freed ones are used again
  Buffer,    \* addresses of the buffers they own
  Abandoned, \* a transaction that nobody is left to end
  None

Stops == {"failed", "overlimit", "unreadable", "fatal"}
Outcome == {"plain", "resolved", "rejected", "malformed"} \cup Stops

Item == [kind : {"object", "prototype", "directive", "function"},
         name : Name, touches : SUBSET Name, outcome : Outcome]

ASSUME AddressAssumption ==
  /\ State \subseteq Nat /\ State # {} /\ Buffer \subseteq Nat
  /\ None \notin Nat /\ Abandoned # None

\* Only a function redeclares anything; a name is an object or a function, and
\* a function is defined once.
ASSUME TextAssumption ==
  \A text \in Text :
       /\ text \in Seq(Item)
       /\ \A i \in DOMAIN text :
            LET item == text[i] IN
            /\ item.kind = "object" => item.outcome \in {"plain", "fatal", "unreadable"}
            /\ item.kind = "prototype" => item.outcome \in {"plain", "unreadable"}
            /\ item.kind = "directive" => item.outcome = "unreadable"
            /\ item.kind = "function" => item.outcome # "plain"
            /\ item.kind # "function" => item.touches = {}
       /\ \A i, j \in DOMAIN text :
            /\ text[i].kind = "function" =>
                 text[j].kind # "object" \/ text[j].name # text[i].name
            /\ text[i].name \in text[j].touches => text[i].kind \in {"object", "directive"}
            /\ text[i].kind = "directive" => i = 1
            /\ text[i].kind = "function" /\ text[j].kind = "function" /\ i # j
                 => text[i].name # text[j].name

VARIABLES
  host,      \* "native" or "wasm", chosen once
  stage,     \* where ag_language_analyze_source is
  request,   \* [text, reparsed, retried, error, open]: the diagnostics of all
             \* its parses hold an error; a transaction was active already when
             \* the last one began
  at,        \* items read
  held,      \* buffers in the hands of the request: [source, docs]
  current,   \* the parse state of the request
  parse,     \* State -> what the parse state at that address owns, or None
  slot,      \* the cleanup registered with the session
  live,      \* allocated buffers
  modes,     \* capture_only and analysis mode
  recovery,  \* the parse state a fatal diagnostic jumps to
  graph,     \* names with a declaration: [declared, visible, inner], all of
             \* them, those of file scope, those of the function being resolved
  value,     \* what has been said of each declared name, as a count
  globals,   \* active_transaction of the global registry; its contents are of
             \* no use once nobody is left to end it: Abandoned
  locals,    \* whether the local registry has one
  frame,     \* locals of psx_frontend_next_function
  arena,
  busy,      \* an active stream that is not a parse state's
  answer     \* the last answer, None while a request is worked on

heap    == <<held, current, parse, slot, live>>
guards  == <<modes, recovery>>
tables  == <<graph, value, arena>>
nesting == <<globals, locals, frame>>
vars == <<host, stage, request, at, heap, guards, tables, nesting, busy, answer>>

Field == {"source", "docs", "stream", "frontend"}
NewRequest(text) ==
  [text |-> text, reparsed |-> FALSE, retried |-> FALSE, error |-> FALSE, open |-> FALSE]
Nothing == [source |-> None, docs |-> None]
Owned(p) == {parse[p][f] : f \in Field} \ {None}


-----------------------------------------------------------------------------
(* Reset of the session and the end of a parse state.                      *)

NoGraph == [declared |-> {}, visible |-> {}, inner |-> {}]
NoValue == [n \in Name |-> 0]

\* The tables are emptied; active transactions are left as they are.
ResetTables ==
  /\ graph' = NoGraph
  /\ value' = NoValue
  /\ arena' = NoBlocks

\* The cleanup in the slot runs once and leaves the slot first.
RunCleanup ==
  IF slot = None
  THEN UNCHANGED <<parse, slot, live, guards>>
  ELSE /\ slot' = None
       /\ live' = live \ Owned(slot)
       /\ parse' = [parse EXCEPT ![slot] = None]
       /\ modes' = FALSE
       /\ recovery' = None

\* mutant: the cleanup stays registered
Finish_StaysRegistered(kept) ==
  /\ slot' = slot
  /\ live' = live \ {parse[current][f] : f \in Field \ kept}
  /\ held' = [f \in DOMAIN Nothing |-> IF f \in kept THEN parse[current][f] ELSE None]
  /\ parse' = [parse EXCEPT ![current] = None]
  /\ current' = None
  /\ modes' = FALSE
  /\ recovery' = None

\* finish_analysis_parse_state, after the fields in kept were taken back.
Finish(kept) ==
  /\ slot' = IF slot = current THEN None ELSE slot
  /\ live' = live \ {parse[current][f] : f \in Field \ kept}
  /\ held' = [f \in DOMAIN Nothing |-> IF f \in kept THEN parse[current][f] ELSE None]
  /\ parse' = [parse EXCEPT ![current] = None]
  /\ current' = None
  /\ modes' = FALSE
  /\ recovery' = None

\* The adapter of the wasm build discards the session after a failure.
Failed == IF host = "wasm" THEN "failed" ELSE "idle"

\* What is left of a request that has returned.
Returned ==
  /\ request' = NewRequest(<<>>)
  /\ at' = 0

-----------------------------------------------------------------------------
(* A request up to the start of the parse.                                 *)

Request(text) ==
  /\ stage = "idle"
  /\ stage' = "checked"
  /\ request' = NewRequest(text)
  /\ at' = 0
  /\ answer' = None
  /\ RunCleanup
  /\ ResetTables
  /\ UNCHANGED <<host, held, current, nesting, busy>>

\* An invalid request, a limit, or a documentation index that is not built.
Refuse ==
  /\ stage = "checked"
  /\ stage' \in {"idle", Failed}
  /\ Returned
  /\ UNCHANGED <<host, heap, guards, tables, nesting, busy, answer>>

Document ==
  /\ stage = "checked"
  /\ Buffer \ live # {}
  /\ stage' = "documented"
  /\ LET b == Min(Buffer \ live) IN
       /\ held' = [held EXCEPT !.docs = b]
       /\ live' = live \cup {b}
  /\ UNCHANGED <<host, request, at, current, parse, slot, guards, tables, nesting, busy, answer>>

\* build_recovery_source; without memory the documentation goes too.
Rewrite ==
  /\ stage = "documented"
  /\ Buffer \ live # {}
  /\ stage' = "rewritten"
  /\ LET b == Min(Buffer \ live) IN
       /\ held' = [held EXCEPT !.source = b]
       /\ live' = live \cup {b}
  /\ UNCHANGED <<host, request, at, current, parse, slot, guards, tables, nesting, busy, answer>>

RewriteFails ==
  /\ stage = "documented"
  /\ stage' = Failed
  /\ held' = Nothing
  /\ live' = live \ {held.docs}
  /\ Returned
  /\ UNCHANGED <<host, current, parse, slot, guards, tables, nesting, busy, answer>>

\* create_analysis_parse_state: the new state takes both buffers.
Create ==
  /\ stage = "rewritten"
  /\ slot = None
  /\ stage' = "ready"
  /\ LET p == Min({q \in State : parse[q] = None}) IN
       /\ parse' = [parse EXCEPT ![p] =
            [source |-> held.source, docs |-> held.docs, stream |-> None,
             frontend |-> None, fatal |-> FALSE, rejected |-> None, seen |-> None]]
       /\ slot' = p
       /\ current' = p
  /\ held' = Nothing
  /\ UNCHANGED <<host, request, at, live, guards, tables, nesting, busy, answer>>

\* No memory for it, or the slot is taken: both buffers are freed, and the
\* cleanup of the state nobody registered ends the modes.
CreateFails ==
  /\ stage = "rewritten"
  /\ stage' = Failed
  /\ live' = live \ {held.source, held.docs}
  /\ held' = Nothing
  /\ modes' = IF slot = None THEN modes ELSE FALSE
  /\ recovery' = IF slot = None THEN recovery ELSE None
  /\ Returned
  /\ UNCHANGED <<host, current, parse, slot, tables, nesting, busy, answer>>

-----------------------------------------------------------------------------
(* The parse: parse_analysis_source.                                       *)

More == at < Len(request.text)
Item1 == request.text[at + 1]

\* The stream is the state's before the first token is fetched.
OpenStream ==
  /\ stage = "ready"
  /\ ~busy
  /\ Buffer \ live # {}
  /\ stage' = IF More /\ Item1.kind = "directive" THEN "fatal" ELSE "opened"
  /\ LET s == Min(Buffer \ live) IN
       /\ parse' = [parse EXCEPT ![current].stream = s]
       /\ live' = live \cup {s}
  /\ modes' = TRUE
  /\ recovery' = IF host = "native" THEN current ELSE None
  /\ request' = [request EXCEPT !.open = globals # None]
  /\ UNCHANGED <<host, at, held, current, slot, tables, nesting, busy, answer>>

\* A stream is active, or there is no memory for one: the parse did not start.
OpenFails ==
  /\ stage = "ready"
  /\ stage' = Failed
  /\ Finish({})
  /\ ResetTables
  /\ Returned
  /\ UNCHANGED <<host, nesting, busy, answer>>

\* psx_frontend_stream_begin
BeginStream ==
  /\ stage = "opened"
  /\ Buffer \ live # {}
  /\ stage' = "reading"
  /\ LET fresh == Min(Buffer \ live) IN
       /\ parse' = [parse EXCEPT ![current].frontend = fresh]
       /\ live' = live \cup {fresh}
  /\ UNCHANGED <<host, request, at, held, current, slot, guards, tables, nesting, busy, answer>>

-----------------------------------------------------------------------------
(* The items: psx_frontend_next_function and the resolver.                 *)

\* mutant: the value is saved after the change
Noted_Late(names) ==
  IF globals \in {None, Abandoned}
  THEN globals
  ELSE [globals EXCEPT !.saved = [n \in Name |->
          IF n \in names \cap globals.graph.declared /\ @[n] = None
          THEN value[n] + 1 ELSE @[n]]]

\* psx_global_registry_note_global_mutation: the first change of an object
\* that is older than the transaction saves its value.
Noted(names) ==
  IF globals \in {None, Abandoned}
  THEN globals
  ELSE [globals EXCEPT !.saved = [n \in Name |->
          IF n \in names \cap globals.graph.declared /\ @[n] = None
          THEN value[n] ELSE @[n]]]

Declare(names) ==
  graph' = [graph EXCEPT !.declared = @ \cup names, !.visible = @ \cup names]

Redefine(names) ==
  value' = [n \in Name |-> IF n \in names THEN value[n] + 1 ELSE value[n]]

\* The item at hand ends in a fatal diagnostic before it is declared.
Unreadable ==
  /\ stage = "reading" /\ More
  /\ Item1.outcome = "unreadable"
  /\ stage' = "fatal"
  /\ arena' = Alloc(arena, at + 1)
  /\ UNCHANGED <<host, request, at, heap, guards, graph, value, nesting, busy, answer>>

ReadPrototype ==
  /\ stage = "reading" /\ More
  /\ Item1.kind = "prototype" /\ Item1.outcome = "plain"
  /\ Declare({Item1.name})
  /\ arena' = Alloc(arena, at + 1)
  /\ at' = at + 1
  /\ UNCHANGED <<host, stage, request, heap, guards, value, nesting, busy, answer>>

\* A declaration of an object.  Its initializer is resolved in a transaction
\* of its own unless one is active, of both registries if it is an expression
\* and of the global one if it is a list, and a fatal diagnostic in it leaves
\* the transaction with nobody to end it.
ReadObject ==
  /\ stage = "reading" /\ More
  /\ Item1.kind = "object" /\ Item1.outcome # "unreadable"
  /\ Declare({Item1.name})
  /\ Redefine({Item1.name})
  /\ arena' = Alloc(arena, at + 1)
  /\ IF Item1.outcome = "fatal"
     THEN /\ stage' = "fatal" /\ at' = at
          /\ globals' = Abandoned
          /\ locals' \in IF globals = None THEN BOOLEAN ELSE {locals}
     ELSE /\ stage' = stage /\ at' = at + 1
          /\ UNCHANGED <<globals, locals>>
  /\ UNCHANGED <<host, request, heap, guards, frame, busy, answer>>

\* The header and the body of a function become trees.
ParseFunction ==
  /\ stage = "reading" /\ More
  /\ Item1.kind = "function"
  /\ Item1.outcome \notin {"unreadable", "malformed", "overlimit"}
  /\ stage' = "parsed function"
  /\ arena' = Alloc(arena, at + 1)
  /\ frame' = [mark |-> Mark(arena), existed |-> Item1.name \in graph.declared,
                value |-> value[Item1.name]]
  /\ UNCHANGED <<host, request, at, heap, guards, graph, value, globals, locals, busy, answer>>

\* A body with a syntax error: its trees go, and the next item is read
\* unless the diagnostics have reached their limit.
SkipFunction ==
  /\ stage = "reading" /\ More
  /\ Item1.kind = "function"
  /\ Item1.outcome \in {"malformed", "overlimit"}
  /\ arena' = RolledBack(Alloc(arena, at + 1), Mark(arena))
  /\ request' = [request EXCEPT !.error = TRUE]
  /\ IF Item1.outcome = "malformed"
     THEN stage' = stage /\ at' = at + 1
     ELSE stage' = "ending" /\ at' = at
  /\ UNCHANGED <<host, heap, guards, graph, value, nesting, busy, answer>>

\* begin_direct_function_transaction, and the header, which declares and
\* defines the function.
BeginFunction ==
  /\ stage = "parsed function"
  /\ globals = None /\ ~locals
  /\ stage' = "resolving"
  /\ globals' = [graph |-> graph, saved |-> [n \in Name |-> None]]
  /\ locals' = TRUE
  /\ Declare({Item1.name})
  /\ Redefine({Item1.name})
  /\ UNCHANGED <<host, request, at, heap, guards, arena, frame, busy, answer>>

\* A transaction is active already: the function fails before it is begun,
\* and so does the loop.
RefuseFunction ==
  /\ stage = "parsed function"
  /\ globals # None \/ locals
  /\ stage' = "ending"
  /\ arena' = RolledBack(arena, frame.mark)
  /\ frame' = None
  /\ UNCHANGED <<host, request, at, heap, guards, graph, value, globals, locals, busy, answer>>

\* The body redeclares objects; those it does not know it declares inside.
ResolveBody ==
  /\ stage = "resolving"
  /\ graph' = [graph EXCEPT !.declared = @ \cup Item1.touches, !.inner = Item1.touches]
  /\ Redefine(Item1.touches)
  /\ arena' = Alloc(arena, at + 1)
  /\ IF Item1.outcome = "fatal"
     THEN stage' = "fatal" /\ globals' = Abandoned
     ELSE stage' = "resolved" /\ globals' = Noted(Item1.touches)
  /\ UNCHANGED <<host, request, at, heap, guards, locals, frame, busy, answer>>

\* A rejected body keeps its declarations too.  Either way the state keeps
\* the scope of the function in sight.
Commit ==
  /\ stage = "resolved"
  /\ Item1.outcome \in {"resolved", "rejected"}
  /\ stage' = "reading"
  /\ at' = at + 1
  /\ graph' = [graph EXCEPT !.inner = {}]
  /\ globals' = None
  /\ locals' = FALSE
  /\ frame' = None
  /\ parse' = [parse EXCEPT
       ![current].seen = graph.inner,
       ![current].rejected = IF @ = None /\ Item1.outcome = "rejected" THEN at + 1 ELSE @]
  /\ UNCHANGED <<host, request, held, current, slot, live, guards, value, arena, busy, answer>>

\* What was said before the function, by the three who know it: the frame
\* of its name, the transaction of older objects, the graph of the others.
Restored ==
  [n \in Name |->
    IF n = Item1.name THEN (IF frame.existed THEN frame.value ELSE 0)
    ELSE IF n \notin globals.graph.declared THEN 0
    ELSE IF globals.saved[n] # None THEN globals.saved[n]
    ELSE value[n]]

\* Out of memory: nothing of the function stays, and the loop ends.
Rollback ==
  /\ stage = "resolved"
  /\ Item1.outcome = "failed"
  /\ stage' = "ending"
  /\ graph' = globals.graph
  /\ value' = Restored
  /\ arena' = RolledBack(arena, frame.mark)
  /\ globals' = None
  /\ locals' = FALSE
  /\ frame' = None
  /\ UNCHANGED <<host, request, at, heap, guards, busy, answer>>

\* The end of the items, of the stream and of parse_analysis_source.
EndStream ==
  /\ stage = "ending" \/ (stage = "reading" /\ ~More)
  /\ stage' = "parsed"
  /\ live' = live \ {parse[current].frontend}
  /\ parse' = [parse EXCEPT ![current].frontend = None]
  /\ modes' = FALSE
  /\ recovery' = None
  /\ UNCHANGED <<host, request, at, held, current, slot, tables, nesting, busy, answer>>

-----------------------------------------------------------------------------
(* A fatal diagnostic, from any depth.                                     *)

\* The jump back into parse_analysis_source: the front end is aborted, and
\* active transactions stay.
Recover ==
  /\ stage = "fatal"
  /\ host = "native"
  /\ stage' = "parsed"
  /\ live' = live \ {parse[recovery].frontend}
  /\ parse' = [parse EXCEPT ![recovery].frontend = None, ![recovery].fatal = TRUE]
  /\ modes' = FALSE
  /\ recovery' = None
  /\ request' = [request EXCEPT !.error = TRUE]
  /\ frame' = None
  /\ UNCHANGED <<host, at, held, current, slot, tables, globals, locals, busy, answer>>

\* A trap drops every C frame and changes nothing else.
Trap ==
  /\ stage = "fatal"
  /\ host = "wasm"
  /\ stage' = "idle"
  /\ current' = None
  /\ frame' = None
  /\ Returned
  /\ UNCHANGED <<host, held, parse, slot, live, guards, tables,
                 globals, locals, busy, answer>>

-----------------------------------------------------------------------------
(* After the parse.                                                        *)

\* The texts that text may become when a statement in item i is taken out,
\* which is the item unless it is a function.
Elided(text, i) ==
  IF text[i].kind # "function"
  THEN {RemoveAt(text, i)} \cap Text
  ELSE {t \in Text :
          /\ Len(t) = Len(text)
          /\ \A j \in DOMAIN t \ {i} : t[j] = text[j]
          /\ t[i].kind = "function" /\ t[i].name = text[i].name}

\* The identifier at the cursor, which was taken out, turns out to be an
\* enumerator's: the source is rewritten with it, which leaves its items as
\* they are, and parsed again, at most once.
Reparse ==
  /\ stage = "parsed"
  /\ ~request.reparsed /\ ~request.retried
  /\ request' = [request EXCEPT !.reparsed = TRUE]
  /\ stage' = "documented"
  /\ Finish({"docs"})
  /\ ResetTables
  /\ at' = 0
  /\ UNCHANGED <<host, nesting, busy, answer>>

\* mutant: nothing remembers that it was tried
Retry_Again(i) ==
  /\ \E t \in Elided(request.text, i) : request' = [request EXCEPT !.text = t]
  /\ stage' = "rewritten"
  /\ Finish({"source", "docs"})
  /\ ResetTables
  /\ at' = 0
  /\ UNCHANGED <<host, nesting, busy, answer>>

\* A statement of item i is taken out of the rewritten source, which is parsed
\* again, at most once.
Retry(i) ==
  /\ ~request.retried
  /\ \E t \in Elided(request.text, i) :
       request' = [request EXCEPT !.text = t, !.retried = TRUE]
  /\ stage' = "rewritten"
  /\ Finish({"source", "docs"})
  /\ ResetTables
  /\ at' = 0
  /\ UNCHANGED <<host, nesting, busy, answer>>

\* The statement that ended the parse.
RetryFailed ==
  /\ stage = "parsed"
  /\ parse[current].fatal
  /\ Retry(at + 1)

\* A body was rejected, and the identifier at the cursor invokes a macro: the
\* statement the cursor is in, which belongs to the last item.
RetryAtCursor ==
  /\ stage = "parsed"
  /\ parse[current].rejected # None
  /\ Retry(Len(request.text))

\* The names the answer is about: those of file scope and, when the parse did
\* not get to the cursor's marker, those inside the last function that was
\* resolved, or else inside the one that was being resolved.
InSight ==
  graph.visible \cup
    (IF ~More THEN {}
     ELSE IF parse[current].seen # None THEN parse[current].seen
     ELSE graph.inner)

Answer ==
  /\ stage = "parsed"
  /\ stage' = "idle"
  /\ answer' = [text |-> request.text, open |-> request.open,
                found |-> [n \in Name |-> IF n \in InSight THEN value[n] ELSE None],
                error |-> request.error \/ parse[current].rejected # None]
  /\ Finish({})
  /\ Returned
  /\ UNCHANGED <<host, tables, nesting, busy>>

\* The snapshot is larger than a limit, or there is no memory for it.
BuilderFails ==
  /\ stage = "parsed"
  /\ stage' \in {"idle", Failed}
  /\ Finish({})
  /\ ResetTables
  /\ Returned
  /\ UNCHANGED <<host, nesting, busy, answer>>

-----------------------------------------------------------------------------
(* The session as its owner uses it.                                       *)

NewSession ==
  /\ RunCleanup
  /\ graph' = NoGraph /\ value' = NoValue /\ arena' = NoBlocks

\* The adapter of the wasm build discards the session after a failure.
Discard ==
  /\ stage = "failed"
  /\ stage' = "idle"
  /\ NewSession
  /\ globals' = None
  /\ locals' = FALSE
  /\ busy' = FALSE
  /\ UNCHANGED <<host, request, at, held, current, frame, answer>>

\* The adapter compiles in a session of its own and keeps it.  A trap in the
\* middle leaves its stream active, and perhaps a transaction.
Compile ==
  /\ stage = "idle"
  /\ host = "wasm"
  /\ NewSession
  /\ busy' \in BOOLEAN
  /\ globals' \in IF busy' THEN {None, Abandoned} ELSE {None}
  /\ locals' \in IF globals' = Abandoned THEN BOOLEAN ELSE {FALSE}
  /\ UNCHANGED <<host, stage, request, at, held, current, frame, answer>>

AnalysisStep ==
  \/ Refuse \/ Document \/ Rewrite \/ RewriteFails \/ Create \/ CreateFails
  \/ OpenStream \/ OpenFails \/ BeginStream
  \/ Unreadable \/ ReadPrototype \/ ReadObject \/ ParseFunction \/ SkipFunction
  \/ BeginFunction \/ RefuseFunction \/ ResolveBody \/ Commit \/ Rollback \/ EndStream
  \/ Recover \/ Reparse \/ RetryFailed \/ Answer \/ BuilderFails

Step == AnalysisStep \/ RetryAtCursor \/ Trap \/ Discard

Next ==
  \/ \E text \in Text : Request(text)
  \/ Compile
  \/ Step

Init ==
  /\ host \in {"native", "wasm"}
  /\ stage = "idle"
  /\ request = NewRequest(<<>>)
  /\ at = 0
  /\ held = Nothing
  /\ current = None
  /\ parse = [p \in State |-> None]
  /\ slot = None
  /\ live = {}
  /\ modes = FALSE
  /\ recovery = None
  /\ graph = NoGraph
  /\ value = NoValue
  /\ globals = None
  /\ locals = FALSE
  /\ frame = None
  /\ arena = NoBlocks
  /\ busy = FALSE
  /\ answer = None

\* A request runs on one thread to its end.
Spec == Init /\ [][Next]_vars /\ WF_vars(Step)

-----------------------------------------------------------------------------
(* Properties.                                                             *)

Parsing == {"opened", "reading", "parsed function", "resolving", "resolved", "ending", "fatal"}
Stage == Parsing \cup
  {"idle", "checked", "documented", "rewritten", "ready", "parsed", "failed"}

Requests == [text : Text \cup {<<>>}, reparsed : BOOLEAN, retried : BOOLEAN,
             error : BOOLEAN, open : BOOLEAN]
ParseState == [source : Buffer, docs : Buffer, stream : Buffer \cup {None},
               frontend : Buffer \cup {None}, fatal : BOOLEAN,
               rejected : Nat \cup {None}, seen : (SUBSET Name) \cup {None}]
GraphState == [declared : SUBSET Name, visible : SUBSET Name, inner : SUBSET Name]
Count == [Name -> Nat]
Transaction == [graph : GraphState, saved : [Name -> Nat \cup {None}]]
Frame == [mark : [block : Nat, used : Nat], existed : BOOLEAN, value : Nat]
Answers == [text : Text \cup {<<>>}, open : BOOLEAN, found : [Name -> Nat \cup {None}],
            error : BOOLEAN]

\* None and Abandoned are told from every value they stand beside.
ASSUME NoneAssumption ==
  /\ \A names \in SUBSET Name : names # None
  /\ None \notin ParseState /\ None \notin Frame
  /\ None \notin Answers /\ None \notin Transaction /\ Abandoned \notin Transaction

\* The types of the variables, and which of them the stages of a request use:
\* the buffers it holds itself, its parse state, and the frame of the loop.
TypeOK ==
  /\ host \in {"native", "wasm"} /\ stage \in Stage
  /\ request \in Requests /\ at \in 0 .. Len(request.text)
  /\ held \in [{"source", "docs"} -> Buffer \cup {None}]
  /\ (held.docs # None) <=> (stage \in {"documented", "rewritten"})
  /\ (held.source # None) <=> (stage = "rewritten")
  /\ current \in State \cup {None}
  /\ (current # None) <=> (stage \in Parsing \cup {"ready", "parsed"})
  /\ parse \in [State -> ParseState \cup {None}]
  /\ slot \in State \cup {None} /\ live \subseteq Buffer
  /\ modes \in BOOLEAN /\ recovery \in State \cup {None}
  /\ graph \in GraphState /\ value \in Count
  /\ globals \in {None, Abandoned} \cup Transaction
  /\ locals \in BOOLEAN /\ busy \in BOOLEAN
  /\ frame \in Frame \cup {None}
  /\ (stage \in {"parsed function", "resolving", "resolved"}) => frame # None
  /\ (frame # None) => stage \in {"parsed function", "resolving", "resolved", "fatal"}
  /\ arena \in Seq(Seq(Nat)) /\ \A b \in DOMAIN arena : Len(arena[b]) \in 1 .. BlockSize
  /\ answer \in Answers \cup {None}

\* Every buffer has one owner, the request, or a parse state, and every parse
\* state has one too: the request that uses it, or, when a trap ended that
\* request, the session, which is to free it.  So nothing is freed twice and
\* nothing is lost, wherever a request ends.  A fatal diagnostic finds the jump
\* of the parse that is running, and outside of a parse none is armed and the
\* session's diagnostics are not captured, unless the parse was abandoned and
\* the next request ends it.
Ownership ==
  LET mine == {held.source, held.docs} \ {None}
      alive == {p \in State : parse[p] # None}
  IN /\ TypeOK
     /\ alive = {slot} \ {None}
     /\ current # None => current = slot
     /\ live = mine \cup UNION {Owned(p) : p \in alive}
     /\ mine \cap UNION {Owned(p) : p \in alive} = {}
     /\ \A p \in alive : \A f, g \in Field :
          f # g /\ parse[p][f] = parse[p][g] => parse[p][f] = None
     /\ recovery # None <=> stage \in Parsing /\ host = "native"
     /\ recovery # None => recovery = current /\ parse[recovery] # None
     /\ modes => stage \in Parsing \/ (stage = "idle" /\ slot # None)
     /\ stage \in Parsing => modes

\* The trees of an item: of a function, the header's and the body's.
TreesOf(i) ==
  LET item == request.text[i] IN
  IF item.kind # "function" THEN <<i>>
  ELSE IF item.outcome = "malformed" THEN <<>> ELSE <<i, i>>

\* Between two items the arena holds the trees of the items that were kept,
\* no more and no less: a function that is skipped, refused or rolled back
\* gives back its own, and only its own.
TreesExact ==
  stage \in {"reading", "ending"} =>
    Trees(arena) = FlattenSeq([i \in 1 .. at |-> TreesOf(i)])

\* What an analysis of text answers in a session without a past, or, when a
\* transaction was left active, in one that refuses every function.
Ends(text, open, i) ==
  \/ text[i].outcome \in Stops
  \/ open /\ text[i].kind = "function" /\ text[i].outcome # "malformed"

Expected(text, open) ==
  LET End == Min({i \in DOMAIN text : Ends(text, open, i)} \cup {Len(text) + 1})
      Kept == {i \in 1 .. End - 1 : text[i].outcome # "malformed"}
      Left == IF End \in DOMAIN text /\ text[End].outcome = "fatal"
                 /\ ~(open /\ text[End].kind = "function")
              THEN {End} ELSE {}
      Functions == {i \in Kept : text[i].kind = "function"}
      Said(n) == {i \in Kept \cup Left : text[i].name = n}
      Count1(n) == Cardinality({i \in Said(n) : text[i].kind # "prototype"})
                   + Cardinality({i \in Kept \cup Left : n \in text[i].touches})
      Scope == IF End > Len(text) THEN {}
               ELSE IF Functions # {} THEN {Max(Functions)} ELSE Left
      InSight1(n) == Said(n) # {} \/ \E i \in Scope : n \in text[i].touches
  IN [n \in Name |-> IF InSight1(n) THEN Count1(n) ELSE None]

\* Every answer is that of its own text: nothing of an earlier request, of an
\* abandoned or retried parse, or of a function that was rolled back shows.
\* The one thing of the past that does show is a transaction left active.
AnswersExact ==
  answer # None => answer.found = Expected(answer.text, answer.open)

\* The same without the exception, as the repository's notes have it.
AnswersFresh ==
  answer # None => answer.found = Expected(answer.text, FALSE)

=============================================================================
