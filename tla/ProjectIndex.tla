---------------------------- MODULE ProjectIndex ----------------------------
(***************************************************************************)
(* The index of a project's functions (ag_language_project_index_update,   *)
(* ag_language_analyze_project_source), which is built by analysing every  *)
(* source of a revision, one after the other, in the session that answers  *)
(* the other requests too.  It is published only as a whole: an update     *)
(* that fails anywhere leaves the index of the earlier revision, and one   *)
(* that a trap ends leaves its half for the next update to throw away.     *)
(***************************************************************************)
EXTENDS AnalysisSession

CONSTANTS
  Project,     \* revision -> the texts of its sources
  MaxSymbols   \* limits.max_symbols

ASSUME ProjectAssumption ==
  /\ DOMAIN Project \subseteq Nat /\ MaxSymbols \in Nat
  /\ \A r \in DOMAIN Project : Project[r] \in Seq(Text) \ {<<>>}

VARIABLES
  index,     \* the published index, None while it is not valid
  pending,   \* the index that is being built
  update     \* the update that is running: [revision, asked], asked while
             \* its current source is being analysed

\* read: of each source, whether its answer came from an analysis that found
\* a transaction active; only how many there are matters to the code.
Index == [revision : DOMAIN Project, functions : [Name -> (SUBSET Nat) \cup {None}],
          read : Seq(BOOLEAN)]

Updates == [revision : DOMAIN Project, asked : BOOLEAN]

ASSUME NoIndexAssumption ==
  /\ None \notin Index /\ None \notin Updates
  /\ \A r \in DOMAIN Project : \A sources \in SUBSET DOMAIN Project[r] : sources # None

project == <<index, pending, update>>
projectVars == <<vars, project>>

Empty(revision) ==
  [revision |-> revision, functions |-> [n \in Name |-> None], read |-> <<>>]

Indexed(functions) == {n \in Name : functions[n] # None}

-----------------------------------------------------------------------------
(* An update, one action for each stretch between two analyses.            *)

\* mutant: the revision that is published is asked for, and built, again
StartUpdate_Rebuilds(revision) ==
  /\ stage = "idle" /\ update = None
  /\ pending' = Empty(revision)
  /\ update' = [revision |-> revision, asked |-> FALSE]
  /\ index' = None
  /\ UNCHANGED vars

\* What an earlier update has left is thrown away first.  The revision that
\* is published already is not built again.
StartUpdate(revision) ==
  /\ stage = "idle" /\ update = None
  /\ IF index # None /\ index.revision = revision
     THEN /\ pending' = None
          /\ update' = None
     ELSE /\ pending' = Empty(revision)
          /\ update' = [revision |-> revision, asked |-> FALSE]
  /\ UNCHANGED <<vars, index>>

\* An invalid request, a limit, a duplicate name, or no memory.
RefuseUpdate ==
  /\ stage = "idle" /\ update = None
  /\ pending' = None
  /\ UNCHANGED <<vars, index, update>>

NextSource == Len(pending.read) + 1

AnalyzeSource ==
  /\ update # None /\ ~update.asked
  /\ Request(Project[update.revision][NextSource])
  /\ update' = [update EXCEPT !.asked = TRUE]
  /\ UNCHANGED <<index, pending>>

\* The functions of a text that the answer names, and those it defines.
FunctionsOf(ans) ==
  {n \in Name : ans.found[n] # None /\
     \E i \in DOMAIN ans.text : ans.text[i].name = n
                                /\ ans.text[i].kind \in {"function", "prototype"}}

\* project_merge_snapshot for source i
Merged(functions, ans, i) ==
  [n \in Name |->
     IF n \notin FunctionsOf(ans) THEN functions[n]
     ELSE (IF functions[n] = None THEN {} ELSE functions[n])
          \cup (IF ans.found[n] > 0 THEN {i} ELSE {})]

Fits(functions) ==
  /\ Cardinality(Indexed(functions)) <= MaxSymbols
  /\ MapThenSumSet(LAMBDA n : Cardinality(functions[n]), Indexed(functions)) <= MaxSymbols

SourceReturned == update # None /\ update.asked /\ stage \in {"idle", "failed"}

\* The answer is disposed of, and the session is kept even after a failure.
Disposed ==
  /\ stage' = "idle"
  /\ answer' = None
  /\ UNCHANGED <<host, request, at, heap, guards, tables, nesting, busy>>

\* mutant: an error in a source does not stop the update
MergeSource_DespiteErrors ==
  /\ SourceReturned
  /\ answer # None
  /\ LET next == [pending EXCEPT
                    !.functions = Merged(@, answer, NextSource),
                    !.read = Append(@, answer.open)]
     IN /\ Fits(next.functions)
        /\ IF Len(next.read) = Len(Project[update.revision])
           THEN index' = next /\ pending' = None /\ update' = None
           ELSE index' = index /\ pending' = next
                /\ update' = [update EXCEPT !.asked = FALSE]
  /\ Disposed

\* A source without an error is merged; the last one publishes the index.
MergeSource ==
  /\ SourceReturned
  /\ answer # None /\ ~answer.error
  /\ LET next == [pending EXCEPT
                    !.functions = Merged(@, answer, NextSource),
                    !.read = Append(@, answer.open)]
     IN /\ Fits(next.functions)
        /\ IF Len(next.read) = Len(Project[update.revision])
           THEN index' = next /\ pending' = None /\ update' = None
           ELSE index' = index /\ pending' = next
                /\ update' = [update EXCEPT !.asked = FALSE]
  /\ Disposed

\* No answer, an error in the source, a limit, or no memory to merge.
AbortUpdate ==
  /\ SourceReturned
  /\ pending' = None
  /\ update' = None
  /\ Disposed
  /\ UNCHANGED index

-----------------------------------------------------------------------------
(* The session between and during updates.                                 *)

\* A request on a file, which needs a published index to be a project's one.
Ask(text) ==
  /\ update = None
  /\ Request(text)
  /\ UNCHANGED project

\* The adapter compiles between two requests.
CompileBetween ==
  /\ update = None
  /\ Compile
  /\ UNCHANGED project

\* A trap ends the update that asked, and leaves what it has built.
TrapUpdate ==
  /\ Trap
  /\ update' = None
  /\ UNCHANGED <<index, pending>>

Work == AnalysisStep /\ UNCHANGED project

\* An update asks with the cursor at the end of a source, where no identifier
\* can have the arguments of a macro after it.
RetryBetween == update = None /\ RetryAtCursor /\ UNCHANGED project

DiscardBetween == update = None /\ Discard /\ UNCHANGED project

UpdateStep == AnalyzeSource \/ MergeSource \/ AbortUpdate

ProjectStep == Work \/ RetryBetween \/ TrapUpdate \/ DiscardBetween \/ UpdateStep

ProjectNext ==
  \/ \E revision \in DOMAIN Project : StartUpdate(revision)
  \/ RefuseUpdate
  \/ \E text \in Text : Ask(text)
  \/ CompileBetween
  \/ ProjectStep

ProjectInit ==
  /\ Init
  /\ index = None
  /\ pending = None
  /\ update = None

\* A request and an update run on one thread to their end.
ProjectSpec ==
  ProjectInit /\ [][ProjectNext]_projectVars /\ WF_projectVars(ProjectStep)

-----------------------------------------------------------------------------
(* Properties.                                                             *)

\* What a text adds to the index, and whether it has an error to report.
Adds(text, open) ==
  FunctionsOf([text |-> text, found |-> Expected(text, open)])
Defines(text, open) ==
  {n \in Adds(text, open) : Expected(text, open)[n] > 0}
Reports(text, open) ==
  \E i \in DOMAIN text :
    /\ text[i].outcome \in {"rejected", "malformed", "overlimit", "unreadable", "fatal"}
    /\ ~(open /\ text[i].kind = "function" /\ text[i].outcome \in {"rejected", "fatal"})
    /\ \A j \in 1 .. i - 1 : ~Ends(text, open, j)

\* The index is that of one revision, of all of its sources and of nothing
\* else: each was analysed without an error, no update that failed or was
\* trapped has left a function, and no limit was passed.
IndexExact ==
  index # None =>
    LET texts == Project[index.revision]
        read == index.read
    IN /\ Len(read) = Len(texts)
       /\ \A i \in DOMAIN texts : ~Reports(texts[i], read[i])
       /\ index.functions = [n \in Name |->
            IF \E i \in DOMAIN texts : n \in Adds(texts[i], read[i])
            THEN {i \in DOMAIN texts : n \in Defines(texts[i], read[i])}
            ELSE None]
       /\ Fits(index.functions)

\* A published index is given up only for that of another revision, which is
\* published in the same step: a request never finds the project half indexed
\* or not indexed any more.
IndexKept ==
  [][index # None =>
       \/ index' = index
       \/ (index' # None /\ index'.revision # index.revision)]_projectVars

\* Every request and every update ends, whatever the texts: a parse is
\* repeated at most once for each reason, however the repeated one ends, and
\* a failure of a source ends the update it belongs to.
AllReturns ==
  (stage # "idle" \/ update # None) ~> (stage = "idle" /\ update = None)

=============================================================================
