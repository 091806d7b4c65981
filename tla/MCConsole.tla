----------------------------- MODULE MCConsole -----------------------------
(***************************************************************************)
(* Glyphs two pixel rows high; a screen of two lines of two cells with an *)
(* odd pixel row below them, one of a single line and a narrower one.     *)
(***************************************************************************)
EXTENDS Console

MCBuffers == {[width |-> 2, height |-> 5], [width |-> 2, height |-> 2],
               [width |-> 1, height |-> 5]}
MCRune == {"newline", "return", "tab", "backspace", "escape", "a", "1", "alien", "bell"}
=============================================================================
