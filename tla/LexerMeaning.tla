--------------------------- MODULE LexerMeaning ---------------------------
(***************************************************************************)
(* The lexical grammar of the language and the lexer against it: a file is *)
(* a sequence of lexemes, its text is theirs put together, and its tokens  *)
(* are described lexeme by lexeme, with no buffer and no pointer.          *)
(***************************************************************************)
EXTENDS LexerProps

CONSTANT Sources   (* the files, sequences of lexemes                      *)

VARIABLE lexemes   (* the file the text was printed from                   *)

(***************************************************************************)
(* Lexemes: [is |-> kind, text |-> characters], where a kind is "word",    *)
(* "decimal", "hex", "negative", "string", "mark", "blank", "comment",     *)
(* "newline", "open", a string without its end, or "stray", a character of *)
(* no other kind.                                                          *)
(***************************************************************************)
Opens(l, chars) == Len(l.text) > 0 /\ l.text[1] \in chars
From(l, k, chars) == \A j \in k .. Len(l.text) : l.text[j] \in chars
Without(l, k, m, chars) == \A j \in k .. m : l.text[j] \notin chars

IsLexeme(l) ==
  \/ l.is = "word"     /\ Opens(l, WordStart) /\ From(l, 2, WordChars)
  \/ l.is = "decimal"  /\ Opens(l, Digits) /\ From(l, 2, Digits)
  \/ l.is = "hex"      /\ Opens(l, {"0"}) /\ Len(l.text) > 2 /\ l.text[2] \in {"x", "X"}
                       /\ From(l, 3, HexDigits)
  \/ l.is = "negative" /\ Opens(l, {"-"}) /\ Len(l.text) > 1 /\ From(l, 2, Digits)
  \/ l.is = "string"   /\ Opens(l, {Quote}) /\ Len(l.text) > 1
                       /\ Without(l, 2, Len(l.text) - 1, {Quote})
                       /\ l.text[Len(l.text)] = Quote
  \/ l.is = "mark"     /\ Opens(l, Marks) /\ Len(l.text) = 1
  \/ l.is = "blank"    /\ Opens(l, Blanks) /\ From(l, 2, Blanks)
  \/ l.is = "comment"  /\ Opens(l, {";"}) /\ Without(l, 2, Len(l.text), {NewLine})
  \/ l.is = "newline"  /\ Opens(l, {NewLine}) /\ Len(l.text) = 1
  \/ l.is = "open"     /\ Opens(l, {Quote}) /\ Without(l, 2, Len(l.text), {Quote})
  \/ l.is = "stray"    /\ Opens(l, STRING \ (Known \union {"-"})) /\ Len(l.text) = 1

ASSUME SourcesAssumption ==
  \A ls \in Sources :
    /\ ls \in Seq([is : STRING, text : Seq(STRING)])
    /\ \A i \in DOMAIN ls : IsLexeme(ls[i]) /\ Without(ls[i], 1, Len(ls[i].text),
                                                        {NUL, "OUTSIDE"})

Written(ls) == FlattenSeq([i \in DOMAIN ls |-> ls[i].text])

Is(i, kinds) == i \in DOMAIN lexemes /\ lexemes[i].is \in kinds
Solid == {"word", "decimal", "hex"}

WordType(word) ==
  IF word \in RegisterNames THEN "REGISTER"
  ELSE IF word \in MnemonicNames THEN "INSTRUCTION" ELSE ReservedType(Cut(word, 1))

(* The tokens of one lexeme.                                               *)
Meant(l) ==
  CASE l.is = "word"     -> <<Tok(WordType(l.text), Cut(l.text, 1))>>
    [] l.is = "decimal"  -> <<Tok("NUMBER", l.text)>>
    [] l.is = "hex"      -> <<Tok("NUMBER", itostr[Strtol(Tail(Tail(l.text)), 16)])>>
    [] l.is = "negative" -> <<Tok("NEGATIVE_NUMBER", l.text)>>
    [] l.is = "string"   -> <<Tok("STRING_LITERAL", Cut(SubSeq(l.text, 2, Len(l.text) - 1), 1))>>
    [] l.is = "mark"     -> <<Tok(MarkType(Head(l.text)), l.text)>>
    [] l.is = "newline"  -> <<Tok("NEWLINE", l.text)>>
    [] OTHER             -> << >>

(* fgets cuts lines that do not fit: the positions at which it starts.     *)
Starts(l) == Len(Written(SubSeq(lexemes, 1, l - 1))) + 1
ReadFrom ==
  {p \in DOMAIN text :
     LET line == Max({0} \union {q \in 1 .. p - 1 : text[q] = NewLine})
     IN  (p - line - 1) % (BufferSize - 1) = 0}
InOnePiece(i) == ReadFrom \intersect (Starts(i) + 1 .. Starts(i + 1) - 1) = {}

(* A number as the lexer would write it.                                   *)
Canonical(l) == Tail(l.text) = itostr[Strtol(Tail(l.text), 10)]

(* What a lexeme needs to be read as itself, whatever follows.             *)
Whole(i) ==
  LET l == lexemes[i]
  IN  /\ InOnePiece(i)
      /\ Is(i, Solid) => ~Is(i + 1, Solid)
      /\ Is(i, {"comment"}) => i = Len(lexemes) \/ Is(i + 1, {"newline"})
      /\ Is(i, {"decimal"}) => Len(l.text) < MaxTokenLen
      /\ Is(i, {"hex"}) => Len(l.text) < MaxTokenLen
      /\ ~Is(i, {"open", "stray"})

(* And for a negative number, after which one character is skipped.        *)
Spaced(i) ==
  Is(i, {"negative"}) =>
    /\ Canonical(lexemes[i])
    /\ Is(i + 1, {"blank", "newline"})
    /\ Starts(i + 1) \notin ReadFrom

(* No reading of the rest of the file makes a token of it.                 *)
Hopeless(i) ==
  \/ Is(i, {"stray"})
  \/ Is(i, {"open"}) /\ \A j \in i + 1 .. Len(lexemes) : Quote \notin Range(lexemes[j].text)

SkippedNewline(i) == Is(i, {"newline"}) /\ i > 1 /\ Is(i - 1, {"negative"})

TokensMeant ==
  IF lexemes = << >> THEN << >>
  ELSE <<Tok("HEAD", << >>)>> \o FlattenSeq([i \in DOMAIN lexemes |->
         IF SkippedNewline(i) THEN << >> ELSE Meant(lexemes[i])])

---------------------------------------------------------------------------
(* Texts is what the sources are written as.                               *)
MeaningInit == lexemes \in Sources /\ text = Written(lexemes) /\ Opened
MeaningSpec ==
  MeaningInit /\ [][Next /\ UNCHANGED lexemes]_<<vars, lexemes>>
              /\ WF_<<vars, lexemes>>(Step /\ UNCHANGED lexemes)

(* A file whose lexemes can be told apart, each in one piece of the line   *)
(* buffer and every negative number before a blank or the end of its line, *)
(* gets exactly the tokens of its lexemes, whatever lines came before and  *)
(* whatever the buffer held; the first lexeme that is none ends the        *)
(* process.                                                                *)
LexesAsWritten ==
  /\ at \in Ends /\ (\A i \in DOMAIN lexemes : Whole(i) /\ Spaced(i))
       => at = "done" /\ tokens = TokensMeant
  /\ at \in Ends /\ (\E i \in DOMAIN lexemes :
                       /\ Hopeless(i)
                       /\ \A j \in 1 .. i - 1 : Whole(j) /\ Spaced(j))
       => at = "error"

(* A negative number is passed over exactly, so that what follows it on    *)
(* its line is read: lexer.c:257 says "Move past the number".              *)
MovesPastTheNumber ==
  at \in Ends /\ (\A i \in DOMAIN lexemes :
                    /\ Whole(i)
                    /\ Is(i, {"negative"}) => Canonical(lexemes[i]) /\ ~Is(i + 1, Solid))
    => at = "done" /\ tokens = <<Tok("HEAD", << >>)>>
                               \o FlattenSeq([i \in DOMAIN lexemes |-> Meant(lexemes[i])])
===========================================================================
