--------------------------- MODULE MCTokenStream ---------------------------
(* The instances of TokenStream that TLC checks: two tokens fill a chunk,   *)
(* and nothing is allocated but tokens.                                     *)
EXTENDS TokenStream

Addresses == 1 .. MaxChunks

(* malloc returns the lowest address that is free: a freed address is given *)
(* to the next chunk, so that a pointer left behind would meet it.          *)
LowestFree(used) == {a \in Addr \ used : \A b \in Addr \ used : a <= b}

TokenSize == {1}
NoFiles == {}

ConditionalFile ==
  Conditionals \cup {"plain", "include", "null", "eof"}
MacroFile == {"plain", "define", "pragma", "obj", "fun", "paren", "eof"}
=============================================================================
