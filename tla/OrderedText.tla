---------------------------- MODULE OrderedText ----------------------------
(***************************************************************************)
(* What the streaming preprocessor promises the parser, without chunks,    *)
(* pushback, holds or lookahead: a text that grows at its end, in the      *)
(* order of the source, in front of a reader that never runs out of it.    *)
(*                                                                         *)
(* The text comes from a stack of files.  A token of a file is added while *)
(* that file is the innermost one, in the order in which it was read.  The *)
(* reader moves freely within the text; a move calls the producer, which   *)
(* answers when a next token is there or the text has ended, and always    *)
(* answers.                                                                *)
(***************************************************************************)
EXTENDS Naturals, Sequences

VARIABLES
  text,      \* the tokens produced
  position,  \* the reader's, 0 before the first token
  files,     \* the stack of files, innermost first
  ended,
  turn       \* "closed", "producer" or "reader"

state == <<text, position, files, ended, turn>>

Closed ==
  /\ text = << >> /\ position = 0 /\ files = <<1>> /\ ended = FALSE
  /\ turn = "closed"

Open ==
  /\ turn = "closed" /\ turn' = "producer"
  /\ UNCHANGED <<text, position, files, ended>>

(* A token made by a macro, or a marker, is of no file (0).                 *)
Produce ==
  /\ turn = "producer" /\ ~ended
  /\ Len(text') = Len(text) + 1 /\ SubSeq(text', 1, Len(text)) = text
  /\ LET t == text'[Len(text')]
     IN  /\ t.from \in {0, Head(files)}
         /\ t.kind = "plain" /\ t.from # 0 =>
              \A i \in DOMAIN text : text[i].from = t.from => text[i].id < t.id
         /\ ended' = (t.kind = "eof")
         /\ ended' => Len(files) = 1
  /\ UNCHANGED <<position, files, turn>>

EnterFile ==
  /\ turn = "producer"
  /\ files' # << >> /\ Tail(files') = files
  /\ \A i \in DOMAIN text : text[i].from < Head(files')
  /\ UNCHANGED <<text, position, ended, turn>>
LeaveFile ==
  /\ turn = "producer" /\ Len(files) > 1
  /\ files' = Tail(files)
  /\ UNCHANGED <<text, position, ended, turn>>

Begin ==
  /\ turn = "producer" /\ position = 0 /\ text # << >>
  /\ position' = 1
  /\ UNCHANGED <<text, files, ended, turn>>
Answer ==
  /\ turn = "producer" /\ position # 0
  /\ position < Len(text) \/ ended
  /\ turn' = "reader"
  /\ UNCHANGED <<text, position, files, ended>>
Move ==
  /\ turn = "reader"
  /\ position' \in 1 .. Len(text)
  /\ turn' = "producer"
  /\ UNCHANGED <<text, files, ended>>

Close == turn = "producer" /\ Closed'

Next ==
  \/ Open \/ Produce \/ EnterFile \/ LeaveFile \/ Begin \/ Answer \/ Move
  \/ Close

(* A producer that is called answers, or the text is closed.                *)
Answers == turn = "producer" ~> turn # "producer"

Safety == Closed /\ [][Next]_state
Spec == Safety /\ Answers
=============================================================================
