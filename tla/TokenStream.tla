---------------------------- MODULE TokenStream ----------------------------
(***************************************************************************)
(* The streaming preprocessor, src/src/preprocess/preprocess.c from        *)
(* PP_STREAM_LOOKAHEAD on, over the recyclable list of TokenAllocator.     *)
(*                                                                         *)
(* The parser moves its cursor along the output chain.  Each move runs     *)
(* pps_on_advance: when the cursor is at refill_at or at the end of the    *)
(* chain, pps_refill runs pps_step until enough tokens lie ahead; then the *)
(* chunks behind the cursor are released, unless a hold or a pushback list *)
(* forbids it.  A pps_step pulls raw tokens, from the pushback list or     *)
(* from the lexer, and appends them, expands a macro or obeys a directive. *)
(*                                                                         *)
(* Each token that something keeps is allocated by an action of its own,   *)
(* the allocator's, so a step may cross a chunk boundary anywhere.  Tokens *)
(* that nothing keeps (the rest of a directive line, macro arguments, the  *)
(* synthetic EOF that ends them) are not allocated one by one: they only   *)
(* move chunk boundaries.  The kind of a directive stands for its # and    *)
(* name, and the value of its condition; "null" is a # alone on its line,  *)
(* "paren" a parenthesised argument list.  The lexer may return any kind   *)
(* of token at any time, until the text ends.                              *)
(***************************************************************************)
EXTENDS TokenAllocator

CONSTANTS
  Lookahead,   \* PP_STREAM_LOOKAHEAD (256 in the code)
  Lookbehind,  \* how far behind its furthest position the parser reads
  MaxDepth,    \* the depth limit of #include
  MaxExpand,   \* the limit on macro expansion steps
  MaxBody,     \* bound: tokens of a macro body
  RawKinds,    \* the kinds of token the lexer returns
  Words,       \* how a plain token that begins a line may read
  LanguageAnalysis  \* language_analysis_mode

If == {"if_true", "if_false"}
Elif == {"elif_true", "elif_false"}
Conditionals == If \cup Elif \cup {"else", "endif"}
Directives == Conditionals \cup {"include", "define", "pragma", "null"}
Kinds == Directives \cup {"plain", "obj", "fun", "paren", "eof"}

ASSUME StreamAssumption ==
  /\ Lookahead \in Nat \ {0} /\ Lookbehind \in Nat
  /\ MaxDepth \in Nat /\ MaxExpand \in Nat /\ MaxBody \in Nat
  /\ RawKinds \subseteq Kinds /\ "eof" \in RawKinds
  /\ Words \subseteq Conditionals \cup {"plain"} /\ LanguageAnalysis \in BOOLEAN
  /\ RecycCap # 0 /\ 1 \in Sizes

VARIABLES
  out,          \* the output chain, from out_head to out_tail
  cursor,       \* index in out of the parser's token, 0 before the first
  furthest,     \* ghost: the largest cursor so far
  refill_at,    \* index in out
  reclaim_hold, \* index in out, or 0
  pb,           \* the pushback list, from pb_head
  frames,       \* the include stack, innermost first
  file,         \* ghost: the number of the file being read
  cond_incl,    \* the open conditional groups, innermost first
  nest,         \* the groups opened inside the branch that is skipped
  branches,     \* ghost: the groups open where each file is being lexed
  ooo_active,
  eof_done,
  expansions,   \* macro_expand_steps
  pc,           \* what the stream does next
  caller,       \* who runs the refill: "open", "lookahead" or "advance"
  have,         \* pps_refill's count of the tokens ahead
  held,         \* the raw tokens in the variables of the running pps_step
  body,         \* the macro expansion it builds
  lexed         \* ghost: numbers of the plain tokens of the branches taken

allocator == <<recyc_mode, fifo, pins, recyc_cursor_chunk, persistent, stats>>
chain == <<cursor, furthest, refill_at>>
conditionals == <<cond_incl, nest, branches>>
includes == <<frames, file, conditionals>>
stream == <<out, chain, reclaim_hold, pb, includes, ooo_active, eof_done,
            expansions, pc, caller, have, held, body, lexed>>

(* A token: the number of its allocation, the address of its chunk, its    *)
(* kind, and the file it was read from (0: made by a macro expansion).     *)
NewToken(kind, from) ==
  [id   |-> (recyc_newest' - 1) * RecycCap + newest_used',
   at   |-> place'[recyc_newest'],
   kind |-> kind,
   from |-> from]
AllocToken == AllocInNewest(1) \/ AllocNewest(1)

(* Bound: the text ends while there is room for the ends of its files.      *)
RoomLeft == (MaxChunks - recyc_newest) * RecycCap + RecycCap - newest_used
TextLeft == recyc_newest = 0 \/ RoomLeft > 2 * MaxDepth + 1
ChunkOfToken(t) == (t.id - 1) \div RecycCap + 1
TokenLive(t) == ChunkOfToken(t) \in Live

(* pps_update_stream_pin once the chain is o and the pushback list p.      *)
UpdateStreamPin(o, p) ==
  RecycStreamPin(IF p # << >> THEN p[1].at
                 ELSE IF o # << >> THEN o[1].at ELSE NoAddr)

StreamInit ==
  /\ Init
  /\ out = << >> /\ cursor = 0 /\ furthest = 0 /\ refill_at = 0
  /\ reclaim_hold = 0 /\ pb = << >> /\ frames = << >> /\ file = 1
  /\ cond_incl = << >> /\ nest = 0 /\ branches = <<<< >>>>
  /\ ooo_active = FALSE /\ eof_done = FALSE /\ expansions = 0
  /\ pc = "closed" /\ caller = "open" /\ have = 0
  /\ held = << >> /\ body = << >> /\ lexed = {}

-----------------------------------------------------------------------------
(* pp_stream_open: the allocator is reset, then set to recycle.            *)
ResetBeforeOpen ==
  /\ pc = "closed"
  /\ ResetTranslationUnit
  /\ pc' = "reset"
  /\ UNCHANGED <<out, chain, reclaim_hold, pb, includes, ooo_active, eof_done,
                 expansions, caller, have, held, body, lexed>>

Open ==
  /\ pc = "reset"
  /\ SetRecyclable(TRUE)
  /\ pc' = "loop" /\ caller' = "open"
  /\ UNCHANGED <<out, chain, reclaim_hold, pb, includes, ooo_active, eof_done,
                 expansions, have, held, body, lexed>>

(* The loops around pps_step: pp_stream_open runs it until there is a      *)
(* first token, pps_refill until 2 * Lookahead tokens are ahead.           *)
NeedMore_AfterEof ==                     \* mutant: reads on behind the end
  IF caller = "open" THEN out = << >> ELSE have < 2 * Lookahead
NeedMore ==
  /\ ~eof_done
  /\ IF caller = "open" THEN out = << >> ELSE have < 2 * Lookahead

CountAhead(c) == Smaller(2 * Lookahead, Len(out) - c)

RefillMark == Smaller(cursor + Lookahead, Len(out))

OpenDone ==
  /\ pc = "loop" /\ caller = "open" /\ ~NeedMore
  /\ cursor' = 1 /\ furthest' = 1
  /\ caller' = "lookahead"
  /\ have' = CountAhead(1)
  /\ UNCHANGED <<allocator, out, refill_at, reclaim_hold, pb, includes,
                 ooo_active, eof_done, expansions, pc, held, body, lexed>>

RefillDone ==
  /\ pc = "loop" /\ caller # "open" /\ ~NeedMore
  /\ refill_at' = RefillMark
  /\ pc' = IF caller = "advance" THEN "reclaim" ELSE "parse"
  /\ UNCHANGED <<allocator, out, cursor, furthest, reclaim_hold, pb, includes,
                 ooo_active, eof_done, expansions, caller, have, held, body,
                 lexed>>

(* The end of a pps_step that leaves the chain o, the pushback list p and  *)
(* ooo_active = x, having reported n tokens.  Inside pps_refill it is      *)
(* followed by the update of reclaim_hold and ooo_active.                  *)
EndStep(o, p, x, n) ==
  /\ out' = o /\ pb' = p
  /\ have' = have + n
  /\ IF caller = "open"
       THEN ooo_active' = x /\ UNCHANGED reclaim_hold
       ELSE /\ reclaim_hold' = IF x THEN Len(o) ELSE reclaim_hold
            /\ ooo_active' = (x /\ p # << >>)
  /\ held' = << >> /\ body' = << >>
  /\ pc' = "loop"

(* What C says of conditional groups: a branch is taken if it is the first  *)
(* of its group whose condition holds.  The groups of a file, innermost     *)
(* first, after its next token, of kind k.                                  *)
Group(now, before) == [now |-> now, seen |-> now \/ before]
AfterKind(k, open) ==
  IF k \in If THEN <<Group(k = "if_true", FALSE)>> \o open
  ELSE IF open = << >> THEN open
  ELSE IF k \in Elif
    THEN <<Group(k = "elif_true" /\ ~Head(open).seen, Head(open).seen)>> \o Tail(open)
  ELSE IF k = "else" THEN <<Group(~Head(open).seen, TRUE)>> \o Tail(open)
  ELSE IF k = "endif" THEN Tail(open)
  ELSE open
Taken(open) == \A i \in DOMAIN open : open[i].now

(* pps_pull_raw: the next raw token joins those the step holds.            *)
PullPushback ==
  /\ pb # << >>
  /\ held' = Append(held, Head(pb))
  /\ pb' = Tail(pb)
  /\ UpdateStreamPin(out, Tail(pb))
  /\ UNCHANGED <<branches, lexed>>
PullLexer ==
  /\ pb = << >>
  /\ AllocToken
  /\ \E k \in IF TextLeft THEN RawKinds ELSE {"eof"} :
       /\ held' = Append(held, NewToken(k, file))
       /\ branches' = [branches EXCEPT ![1] = AfterKind(k, @)]
       /\ lexed' = IF k = "plain" /\ Taken(branches[1])
                     THEN lexed \cup {NewToken(k, file).id} ELSE lexed
  /\ UNCHANGED pb
PullRaw(here, then) ==
  /\ pc = here
  /\ PullPushback \/ PullLexer
  /\ pc' = then
  /\ UNCHANGED <<out, chain, reclaim_hold, frames, file, cond_incl, nest,
                 ooo_active, eof_done, caller, have, body>>

-----------------------------------------------------------------------------
(* pps_step, one disjunct per path.                                        *)
tok == held[1]
nx == held[2]
InStep(kinds) == pc = "step" /\ tok.kind \in kinds

StepPull ==
  /\ NeedMore
  /\ PullRaw("loop", "step")
  /\ UNCHANGED expansions

Emit ==
  /\ InStep({"plain", "paren"})
  /\ EndStep(Append(out, tok), pb, ooo_active, 1)
  /\ UNCHANGED <<allocator, chain, includes, eof_done, expansions, caller, lexed>>

(* At the end of a file its groups have to be closed, or the compilation    *)
(* ends; a language analysis drops those that the file has left open.       *)
Boundary == IF frames = << >> THEN 0 ELSE Head(frames).saved_cond_incl
Balance ==
  /\ LanguageAnalysis \/ Len(cond_incl) = Boundary
  /\ cond_incl' = SubSeq(cond_incl, Len(cond_incl) - Boundary + 1, Len(cond_incl))

OuterEof ==
  /\ InStep({"eof"}) /\ frames = << >>
  /\ Balance
  /\ EndStep(Append(out, tok), pb, ooo_active, 1)
  /\ eof_done' = TRUE
  /\ UNCHANGED <<allocator, chain, frames, file, nest, branches, expansions,
                 caller, lexed>>

(* pps_pop_frame at the end of an included file.                           *)
PopFrame ==
  /\ InStep({"eof"}) /\ frames # << >>
  /\ Balance
  /\ UpdateStreamPin(out, Head(frames).saved_pb)
  /\ EndStep(out, Head(frames).saved_pb, ooo_active, 0)
  /\ frames' = Tail(frames)
  /\ file' = Head(frames).file
  /\ branches' = Tail(branches)
  /\ UNCHANGED <<chain, nest, eof_done, expansions, caller, lexed>>

(* A directive: pps_materialize_line pulls up to the first token of the    *)
(* next line and pushes that one back; then the directive is obeyed.       *)
DirectiveLine ==
  /\ InStep(Directives)
  /\ PullRaw("step", "line")
  /\ UNCHANGED expansions
LinePushback ==
  /\ pc = "line"
  /\ pb' = <<nx>> \o pb
  /\ UpdateStreamPin(out, <<nx>> \o pb)
  /\ held' = <<tok>>
  /\ pc' = "directive"
  /\ UNCHANGED <<out, chain, reclaim_hold, includes, ooo_active, eof_done,
                 expansions, caller, have, body, lexed>>

Directive(kinds) == pc = "directive" /\ tok.kind \in kinds

(* define, undef, line and a lone # leave the stream as it is: a macro body *)
(* goes to the persistent list, and #line pulls the token pushed back only  *)
(* to push it back again.                                                   *)
BoundedDirective ==
  /\ Directive({"define", "null"})
  /\ EndStep(out, pb, ooo_active, 0)
  /\ UNCHANGED <<allocator, chain, includes, eof_done, expansions, caller, lexed>>

(* #pragma pack appends a marker that pps_step does not report.             *)
Pragma ==
  /\ Directive({"pragma"}) /\ TextLeft
  /\ AllocToken
  /\ EndStep(Append(out, NewToken("marker", 0)), pb, ooo_active, 0)
  /\ UNCHANGED <<chain, includes, eof_done, expansions, caller, lexed>>

(* pps_handle_include past its error returns.                               *)
NewFrame(saved_pb) ==
  [saved_pb |-> saved_pb, file |-> file, saved_cond_incl |-> Len(cond_incl)]
Include ==
  /\ Directive({"include"})
  /\ Len(frames) < MaxDepth
  /\ frames' = <<NewFrame(pb)>> \o frames
  /\ file' = Head(pb).id
  /\ branches' = <<<< >>>> \o branches
  /\ UpdateStreamPin(out, << >>)
  /\ EndStep(out, << >>, ooo_active, 0)
  /\ UNCHANGED <<chain, cond_incl, nest, eof_done, expansions, caller, lexed>>

(* The conditional directives.  The innermost group becomes the head of     *)
(* groups, and the branch that begins is read, or skipped.                  *)
Branch(groups, read) ==
  /\ cond_incl' = groups
  /\ IF read
       THEN EndStep(out, pb, ooo_active, 0)
       ELSE /\ held' = << >>
            /\ pc' = "skip"
            /\ UNCHANGED <<out, reclaim_hold, pb, ooo_active, have, body>>
  /\ UNCHANGED <<allocator, chain, frames, file, nest, branches, eof_done,
                 expansions, caller, lexed>>
InGroup_OfAnyFile ==                     \* mutant: the test of the batch handlers
  cond_incl # << >>
InGroup == Len(cond_incl) > Boundary
IfDirective ==
  /\ Directive(If)
  /\ Branch(<<[ctx |-> "then", included |-> tok.kind = "if_true"]>> \o cond_incl,
            tok.kind = "if_true")
ElifDirective_Forgets ==                 \* mutant: included is not set
  /\ Directive(Elif) /\ InGroup /\ Head(cond_incl).ctx # "else"
  /\ LET read == ~Head(cond_incl).included /\ tok.kind = "elif_true"
     IN  Branch(<<[ctx |-> "elif", included |-> Head(cond_incl).included]>>
                  \o Tail(cond_incl), read)
ElifDirective ==
  /\ Directive(Elif) /\ InGroup /\ Head(cond_incl).ctx # "else"
  /\ LET before == Head(cond_incl).included
         read == ~before /\ tok.kind = "elif_true"
     IN  Branch(<<[ctx |-> "elif", included |-> before \/ read]>> \o Tail(cond_incl),
                read)
ElseDirective ==
  /\ Directive({"else"}) /\ InGroup /\ Head(cond_incl).ctx # "else"
  /\ Branch(<<[ctx |-> "else", included |-> TRUE]>> \o Tail(cond_incl),
            ~Head(cond_incl).included)
EndifDirective ==
  /\ Directive({"endif"}) /\ InGroup
  /\ Branch(Tail(cond_incl), TRUE)

(* pps_skip_cond_incl_impl: raw tokens are pulled and dropped up to the     *)
(* #else, #elif or #endif of this group, which is pushed back as it was; at *)
(* the end of the file the EOF is pushed back.                              *)
SkipPull ==
  /\ PullRaw("skip", "skipped")
  /\ UNCHANGED expansions
StopsSkip(kind) == kind = "eof" \/ (nest = 0 /\ kind \in Elif \cup {"else", "endif"})
NestAfter(kind) ==
  IF kind \in If THEN nest + 1 ELSE IF kind = "endif" THEN nest - 1 ELSE nest
SkipDrop ==
  /\ pc = "skipped"
  /\ ~StopsSkip(tok.kind) /\ tok.kind # "null"
  /\ nest' = NestAfter(tok.kind)
  /\ held' = << >>
  /\ pc' = "skip"
  /\ UNCHANGED <<allocator, out, chain, reclaim_hold, pb, frames, file, cond_incl,
                 branches, ooo_active, eof_done, expansions, caller, have, body,
                 lexed>>
StopSkip ==
  /\ UpdateStreamPin(out, held \o pb)
  /\ EndStep(out, held \o pb, ooo_active, 0)
  /\ nest' = 0
  /\ UNCHANGED <<chain, frames, file, cond_incl, branches, eof_done, expansions,
                 caller, lexed>>
SkipStop ==
  /\ pc = "skipped"
  /\ StopsSkip(tok.kind)
  /\ StopSkip

(* After a lone # the next token, the first of the next line, is taken for  *)
(* the name of a directive; then it is pushed back.                         *)
SkipNull ==
  /\ pc = "skipped" /\ tok.kind = "null"
  /\ PullRaw("skipped", "null")
  /\ UNCHANGED expansions
SkipWord ==
  /\ pc = "null"
  /\ \E word \in IF nx.kind = "plain" THEN Words ELSE {"plain"} :
       IF StopsSkip(word) THEN StopSkip
       ELSE /\ nest' = NestAfter(word)
            /\ pb' = <<nx>> \o pb
            /\ UpdateStreamPin(out, <<nx>> \o pb)
            /\ held' = << >>
            /\ pc' = "skip"
            /\ UNCHANGED <<out, chain, reclaim_hold, frames, file, cond_incl,
                           branches, ooo_active, eof_done, expansions, caller,
                           have, body, lexed>>

(* A macro name: count_macro_expansion_or_die, then for a function-like     *)
(* macro a second pull, which is a call only if an argument list follows.   *)
ObjectMacro ==
  /\ InStep({"obj"}) /\ expansions < MaxExpand
  /\ expansions' = expansions + 1
  /\ pc' = "body"
  /\ UNCHANGED <<allocator, out, chain, reclaim_hold, pb, includes, ooo_active,
                 eof_done, caller, have, held, body, lexed>>
FunctionMacro ==
  /\ InStep({"fun"}) /\ expansions < MaxExpand
  /\ expansions' = expansions + 1
  /\ PullRaw("step", "call")
Call ==
  /\ pc = "call" /\ nx.kind = "paren"
  /\ pc' = "body"
  /\ UNCHANGED <<allocator, out, chain, reclaim_hold, pb, includes, ooo_active,
                 eof_done, expansions, caller, have, held, body, lexed>>
NoCall ==
  /\ pc = "call" /\ nx.kind # "paren"
  /\ UpdateStreamPin(out, <<nx>> \o pb)
  /\ EndStep(Append(out, tok), <<nx>> \o pb, ooo_active, 1)
  /\ UNCHANGED <<chain, includes, eof_done, expansions, caller, lexed>>

ExpandToken ==
  /\ pc = "body" /\ Len(body) < MaxBody /\ TextLeft
  /\ AllocToken
  /\ \E k \in RawKinds \cap {"plain", "obj", "fun", "paren"} :
        body' = Append(body, NewToken(k, 0))
  /\ UNCHANGED <<out, chain, reclaim_hold, pb, includes, ooo_active, eof_done,
                 expansions, pc, caller, have, held, lexed>>

(* The expansion is pushed back to be scanned again.  Pushed back in front  *)
(* of other tokens it makes the order of allocation and the order of        *)
(* consumption differ.                                                      *)
IsOutOfOrder_Never == FALSE              \* mutant: no hold after a nested expansion
IsOutOfOrder == pb # << >>
ExpandDone ==
  /\ pc \in {"body", "spliced"}
  /\ IF body = << >>
       THEN /\ EndStep(out, pb, ooo_active, 0)
            /\ UNCHANGED allocator
       ELSE /\ EndStep(out, body \o pb, ooo_active \/ IsOutOfOrder, 0)
            /\ UpdateStreamPin(out, body \o pb)
  /\ UNCHANGED <<chain, includes, eof_done, expansions, caller, lexed>>

(* pp_stream_splice_paren_suffix_and_rescan: an expansion that ends in a    *)
(* call looks one token further; another argument list is taken in and the  *)
(* whole expanded again, any other token is pushed back.                    *)
SplicePull ==
  /\ pc = "body" /\ tok.kind = "fun" /\ Len(held) = 2 /\ body # << >>
  /\ PullRaw("body", "splice")
  /\ UNCHANGED expansions
SpliceCall ==
  /\ pc = "splice" /\ held[3].kind = "paren"
  /\ body' = << >>
  /\ pc' = "body"
  /\ UNCHANGED <<allocator, out, chain, reclaim_hold, pb, includes, ooo_active,
                 eof_done, expansions, caller, have, held, lexed>>
SpliceNoCall_Drops ==                    \* mutant: the token looked at is dropped
  /\ pc = "splice" /\ held[3].kind # "paren"
  /\ held' = <<tok, nx>>
  /\ pc' = "spliced"
  /\ UNCHANGED <<allocator, out, chain, reclaim_hold, pb, includes, ooo_active,
                 eof_done, expansions, caller, have, body, lexed>>
SpliceNoCall ==
  /\ pc = "splice" /\ held[3].kind # "paren"
  /\ pb' = <<held[3]>> \o pb
  /\ UpdateStreamPin(out, <<held[3]>> \o pb)
  /\ held' = <<tok, nx>>
  /\ pc' = "spliced"
  /\ UNCHANGED <<out, chain, reclaim_hold, includes, ooo_active, eof_done,
                 expansions, caller, have, body, lexed>>

(* pp_stream_close first stops the recycling.  The parser calls it at the   *)
(* end of the input or before; a step that exceeds a limit, or fails in any *)
(* other way, ends the compilation with it.                                 *)
BeginClose ==
  /\ pc \in {"step", "directive", "parse"}
  /\ SetRecyclable(FALSE)
  /\ pc' = "closing"
  /\ UNCHANGED <<out, chain, reclaim_hold, pb, includes, ooo_active, eof_done,
                 expansions, caller, have, held, body, lexed>>

-----------------------------------------------------------------------------
(* The parser sets its cursor, one token on, further on, or back to a token *)
(* it has saved; pps_on_advance runs up to the call of pps_refill.          *)
MoveCursor ==
  /\ pc = "parse"
  /\ \E c \in 1 .. Len(out) :
       /\ c # cursor /\ c >= furthest - Lookbehind
       /\ cursor' = c
       /\ furthest' = Larger(furthest, c)
       /\ reclaim_hold' = IF c = reclaim_hold THEN 0 ELSE reclaim_hold
       /\ IF c = refill_at \/ c = Len(out)
            THEN pc' = "loop" /\ caller' = "advance" /\ have' = CountAhead(c)
            ELSE pc' = "reclaim" /\ UNCHANGED <<caller, have>>
  /\ UNCHANGED <<allocator, out, refill_at, pb, includes, ooo_active, eof_done,
                 expansions, held, body, lexed>>

(* pps_ensure_lookahead, before the parser looks far ahead.                 *)
EnsureLookahead ==
  /\ pc = "parse"
  /\ pc' = "loop" /\ caller' = "lookahead" /\ have' = CountAhead(cursor)
  /\ UNCHANGED <<allocator, out, chain, reclaim_hold, pb, includes, ooo_active,
                 eof_done, expansions, held, body, lexed>>

(* The end of pps_on_advance.                                               *)
MayReclaim == reclaim_hold = 0 /\ pb = << >>
Reclaim ==
  /\ pc = "reclaim"
  /\ LET p == out[cursor].at
     IN  IF MayReclaim /\ CursorCrosses(p) THEN OnCursor(p) ELSE UNCHANGED allocator
  /\ pc' = "parse"
  /\ UNCHANGED <<out, chain, reclaim_hold, pb, includes, ooo_active, eof_done,
                 expansions, caller, have, held, body, lexed>>

(* pp_stream_close: the recyclable list is freed with whatever is left of   *)
(* the chain, the pushback list and the frames.                             *)
Close ==
  /\ pc = "closing"
  /\ RecycReset
  /\ out' = << >> /\ cursor' = 0 /\ furthest' = 0 /\ refill_at' = 0
  /\ reclaim_hold' = 0 /\ pb' = << >> /\ frames' = << >> /\ file' = 1
  /\ cond_incl' = << >> /\ nest' = 0 /\ branches' = <<<< >>>>
  /\ ooo_active' = FALSE /\ eof_done' = FALSE /\ expansions' = 0
  /\ pc' = "closed" /\ caller' = "open" /\ have' = 0
  /\ held' = << >> /\ body' = << >> /\ lexed' = {}

StreamStep ==
  \/ StepPull \/ Emit \/ OuterEof \/ PopFrame
  \/ DirectiveLine \/ LinePushback \/ BoundedDirective \/ Pragma \/ Include
  \/ IfDirective \/ ElifDirective \/ ElseDirective \/ EndifDirective
  \/ SkipPull \/ SkipDrop \/ SkipStop \/ SkipNull \/ SkipWord
  \/ ObjectMacro \/ FunctionMacro \/ Call \/ NoCall
  \/ ExpandToken \/ ExpandDone \/ SplicePull \/ SpliceCall \/ SpliceNoCall

StreamNext ==
  \/ ResetBeforeOpen \/ Open \/ OpenDone \/ RefillDone
  \/ StreamStep
  \/ MoveCursor \/ EnsureLookahead \/ Reclaim
  \/ BeginClose \/ Close

StreamSpec == StreamInit /\ [][StreamNext]_<<vars, stream>>

(* The compiler is sequential: once the parser, or the frontend, has called *)
(* the stream, its code runs until it returns or the compilation ends.      *)
Work ==
  \/ Open \/ OpenDone \/ RefillDone \/ StreamStep \/ Reclaim \/ Close
  \/ pc # "parse" /\ BeginClose
FairStreamSpec == StreamSpec /\ WF_<<vars, stream>>(Work)

-----------------------------------------------------------------------------
PlainIn(s) == {i \in DOMAIN s : s[i].kind = "plain" /\ s[i].from # 0}
Streaming == pc \notin {"closed", "reset", "closing"}

(* No token that is still to be read is freed: those of the chain from the  *)
(* cursor on, those pushed back, and those a running pps_step holds, in     *)
(* whatever order expansions and directives allocated them.                 *)
UnreadLive ==
  Streaming =>
    /\ \A i \in Larger(cursor, 1) .. Len(out) : TokenLive(out[i])
    /\ \A i \in DOMAIN pb : TokenLive(pb[i])
    /\ \A i \in DOMAIN held : TokenLive(held[i])
    /\ \A i \in DOMAIN body : TokenLive(body[i])

(* The groups the code has open for a file are those the text has open      *)
(* there, in the same state: a file closes and continues none but its own,  *)
(* and what was skipped has been counted right.  (A conditional directive   *)
(* or an EOF that was read but not obeyed counts in the text already.)      *)
LowestGroup(i) == IF i > Len(frames) THEN 0 ELSE frames[i].saved_cond_incl
HighestGroup(i) == IF i = 1 THEN Len(cond_incl) ELSE LowestGroup(i - 1)
GroupsOf(i) ==
  SubSeq(cond_incl, Len(cond_incl) - HighestGroup(i) + 1,
         Len(cond_incl) - LowestGroup(i))
AllObeyed(s) == \A i \in DOMAIN s : s[i].kind \notin Conditionals \cup {"eof"}
GroupsAgree ==
  pc = "loop" /\ ~eof_done =>
    /\ HighestGroup(1) >= LowestGroup(1)
    /\ \A i \in DOMAIN branches :
         AllObeyed(IF i = 1 THEN pb ELSE frames[i - 1].saved_pb) =>
           /\ Len(GroupsOf(i)) = Len(branches[i])
           /\ \A j \in DOMAIN branches[i] :
                branches[i][j].now /\ GroupsOf(i)[j].included = branches[i][j].seen

(* Every plain token of a branch that C takes is in one place: the chain,   *)
(* the pushback list, the running step or the saved list of a frame.  None  *)
(* is dropped or delivered twice, and none of another branch is delivered.  *)
Lists ==
  [n \in 0 .. Len(frames) |-> IF n = 0 THEN out \o held \o pb ELSE frames[n].saved_pb]
Places == UNION {{n} \X PlainIn(Lists[n]) : n \in DOMAIN Lists}
IdAt(p) == Lists[p[1]][p[2]].id
NoTokenLost ==
  Streaming =>
    /\ lexed \subseteq {IdAt(p) : p \in Places}
    /\ \A i \in PlainIn(out) : out[i].id \in lexed
    /\ \A p, q \in Places : IdAt(p) = IdAt(q) => p = q

(* While nothing has been pushed back, a release leaves at most Margin      *)
(* chunks behind the cursor's: the memory of a stream of plain tokens does  *)
(* not grow with its length.                                                *)
WindowBounded ==
  [][pc = "reclaim" /\ MayReclaim /\ CursorCrosses(out[cursor].at)
       /\ recyc_stream_pin = NoAddr
       => \A c \in Live' : c >= recyc_cursor_chunk' - Margin]_<<vars, stream>>

(* The stream keeps the promise of OrderedText: whatever is pushed back,    *)
(* expanded again, skipped and included, the chain only grows, in the order *)
(* of the source; a refill ends, with a next token or at the end of the     *)
(* text.                                                                    *)
Promise == INSTANCE OrderedText WITH
  text <- out,
  position <- cursor,
  files <- <<file>> \o [i \in DOMAIN frames |-> frames[i].file],
  ended <- eof_done,
  turn <- IF pc \in {"closed", "reset"} THEN "closed"
          ELSE IF pc = "parse" THEN "reader" ELSE "producer"
KeepsPromise == Promise!Spec
=============================================================================
