-------------------------- MODULE MCParserTokens --------------------------
(***************************************************************************)
(* Arbitrary token lists for the parser: up to four tokens, after the      *)
(* lexer's empty first one and after a label as well, from the alphabets   *)
(* of the parser's two loops.                                              *)
(***************************************************************************)
EXTENDS MCParser

Tok(type, str) == [type |-> type, str |-> str]
Mark(type) == Tok(type, "")

OutsideTokens ==
  {Tok("LABEL", l) : l \in {"a", "section", "data"}} \union
  {Mark(t) : t \in {"COLON", "PERIOD", "COMMA", "IMPORT", "EXPORT", "L_BRACE",
                    "R_BRACE", "FROM", "NEWLINE"}}
  \union {Tok("STRING_LITERAL", "p")}
InsideTokens ==
  {Tok("LABEL", l) : l \in {"a", "byte", "word"}} \union
  {Mark(t) : t \in {"COLON", "PERIOD", "COMMA", "NEWLINE"}} \union
  {Tok("INSTRUCTION", "mov"), Tok("REGISTER", "sp"), Tok("NUMBER", "7"),
   Tok("NEGATIVE_NUMBER", "-1")}

Outside == <<Mark("HEAD")>>
Inside  == <<Mark("HEAD"), Tok("LABEL", "a"), Mark("COLON")>>

(* After these a second operand is missing, or is about to come.           *)
InOperand == Inside \o <<Tok("INSTRUCTION", "mov"), Tok("REGISTER", "sp"), Mark("COMMA")>>

Starts ==
  UNION {{Outside} \X SeqsUpTo(4, OutsideTokens),
         {Inside} \X SeqsUpTo(4, InsideTokens),
         {InOperand} \X SeqsUpTo(3, InsideTokens)}

MCTokenStreams == {s[1] \o s[2] : s \in Starts}
===========================================================================
