---------------------------- MODULE LexerProps ----------------------------
(***************************************************************************)
(* What the lexer must get right for any text: it stays in the line it was *)
(* given, and it comes to an end.                                          *)
(***************************************************************************)
EXTENDS Lexer

TokenTypes ==
  {"HEAD", "NEWLINE", "COLON", "PERIOD", "COMMA", "L_BRACE", "R_BRACE",
   "STRING_LITERAL", "NUMBER", "NEGATIVE_NUMBER", "REGISTER", "INSTRUCTION",
   "IMPORT", "EXPORT", "FROM", "LABEL"}

(* The lexer's variables have their types; no token is longer than its     *)
(* buffer, and the first one is the empty one that lexer() allocates.      *)
LexerTypeOK ==
  /\ read \in 0 .. Len(text)
  /\ DOMAIN buffer = 1 .. BufferSize
  /\ ptr \in Nat
  /\ at \in {"file", "line"} \union Ends
  /\ \A k \in DOMAIN tokens :
       /\ tokens[k].type \in TokenTypes
       /\ Len(tokens[k].str) < MaxTokenLen
       /\ tokens[k].type = "HEAD" <=> k = 1

(* The line lexer() was called with ends at the first NUL of the buffer.   *)
IsTerminator(p) ==
  p \in DOMAIN buffer /\ buffer[p] = NUL /\ \A q \in 1 .. p - 1 : buffer[q] # NUL

(* The line holds a minus sign and a digit, one after the other.           *)
HoldsNegative(p) ==
  \E q \in 1 .. p - 1 : buffer[q] = "-" /\ buffer[q + 1] \in Digits

(* The lexer's pointer stays between the start of the line and its NUL, so *)
(* that nothing left over in the buffer and nothing beyond it is lexed, in *)
(* every line without a negative number (lexer.c:257 overshoots).          *)
StaysInItsLine ==
  at \in {"line", "error", "outside"} =>
    \E p \in 1 .. BufferSize :
      IsTerminator(p) /\ (~HoldsNegative(p) => at # "outside" /\ ptr \in 1 .. p)

(* _lexer returns, or the process ends: no line keeps the pointer in place.*)
LexerTermination == <>(at \in Ends)
===========================================================================
