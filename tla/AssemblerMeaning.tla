-------------------------- MODULE AssemblerMeaning --------------------------
(***************************************************************************)
(* The whole assembler against the language: a file is a sequence of       *)
(* statements (ParserMeaning) written in one of several layouts, and what  *)
(* it is to be assembled to is ObjectSpec's object of the program that the *)
(* statements describe.  No token and no state of a stage is mentioned.    *)
(***************************************************************************)
EXTENDS Assembler
LOCAL INSTANCE SequencesExt

CONSTANTS
  Files,      (* the files, sequences of statements                          *)
  Layouts,    (* [indent, gap, tail : characters, tight, ended : BOOLEAN]    *)
  Literals    (* the numbers files have in them, hexadecimal ones included   *)

VARIABLES stmts, layout

given == <<stmts, layout>>

IsHex(n) == Len(Spelling[n]) > 2 /\ Spelling[n][2] \in {"x", "X"}
LiteralValue(n, Read(_)) ==
  IF IsHex(n) THEN Lexer!Strtol(Tail(Tail(Spelling[n])), 16) ELSE Read(Spelling[n])

LiteralAtoi   == [n \in Literals |-> LiteralValue(n, Base10)]
LiteralStrtol == [n \in Literals |-> LiteralValue(n, Base0)]

Language ==
  INSTANCE ParserMeaning WITH
    at <- parser_at, TokenStreams <- {<< >>}, Numerals <- Literals,
    Atoi <- LiteralAtoi, Strtol <- LiteralStrtol

---------------------------------------------------------------------------
(* A file as text: each statement on a line that layout says how to space, *)
(* and, after a label, on the label's line.                                *)

Chars(token) ==
  CASE token.type = "STRING_LITERAL" -> <<"\"">> \o Spelling[token.str] \o <<"\"">>
    [] token.type \in {"IMPORT", "EXPORT", "FROM"} -> Spelling[token.type]
    [] \E c \in Lexer!Marks : Lexer!MarkType(c) = token.type ->
         <<CHOOSE c \in Lexer!Marks : Lexer!MarkType(c) = token.type>>
    [] OTHER -> Spelling[token.str]

Solid(token) == Head(Chars(token)) \in Lexer!WordChars
Space(one, other) ==
  IF layout.tight /\ ~(Solid(one) /\ Solid(other)) THEN << >> ELSE layout.gap

Spaced(line_toks) ==
  FlattenSeq([k \in DOMAIN line_toks |->
    Chars(line_toks[k])
    \o IF k = Len(line_toks) THEN << >> ELSE Space(line_toks[k], line_toks[k + 1])])

Written ==
  FlattenSeq([i \in DOMAIN stmts |->
    layout.indent \o Spaced(Language!Line(stmts[i]))
    \o IF stmts[i].is = "label" THEN layout.gap
       ELSE layout.tail \o IF i = Len(stmts) /\ ~layout.ended THEN << >> ELSE <<"\n">>])

LastChars(i) == LET ts == Language!Line(stmts[i]) IN Chars(ts[Len(ts)])

(* The files that can be read as they are written.  The lexer skips the    *)
(* character after a negative number, so a comma or the end of the file    *)
(* may not be there; the parser takes a name for an operand only when a    *)
(* token follows it; the file is to end in a block's contents.             *)
Readable ==
  LET n == Len(stmts)
  IN  /\ n > 0 /\ stmts[n].is # "label" /\ Language!Opener(n + 1) # 0
      /\ layout.tight =>
           \A i \in DOMAIN stmts : stmts[i].is \in {"byte", "word"} =>
             \A k \in 1 .. Len(stmts[i].items) - 1 : Head(Spelling[stmts[i].items[k]]) # "-"
      /\ ~layout.ended =>
           /\ stmts[n].is # "blank"
           /\ \/ Head(LastChars(n)) \in Lexer!Digits
              \/ Head(LastChars(n)) = "-" /\ layout.tail # << >>

---------------------------------------------------------------------------
(* What the file is to become.                                             *)
Program ==
  [blocks  |-> Language!BlocksMeant,
   imports |-> Language!NamesMeant("import"),
   exports |-> Language!NamesMeant("export")]

Promise == INSTANCE ObjectFile

(* What follows a statement is blank, or a comment after blanks.           *)
CleanTail ==
  \E k \in 0 .. Len(layout.tail) :
    /\ \A j \in 1 .. k : layout.tail[j] \in Lexer!Blanks
    /\ k = Len(layout.tail) \/ layout.tail[k + 1] = ";"

Accepted == CleanTail /\ Language!LegalFile /\ Promise!IsLegal(Program)

MachineCode ==
  [size |-> size, image |-> out, symbols |-> symbols, relocs |-> relocs,
   collects |-> collects]

MeaningInit ==
  /\ stmts \in Files /\ layout \in Layouts
  /\ text = Written
  /\ Init

MeaningSpec ==
  MeaningInit /\ [][Next /\ UNCHANGED given]_<<vars, given>>
              /\ WF_<<vars, given>>(Step /\ UNCHANGED given)

(* From characters to the object: a file that can be read as it is written *)
(* is assembled to the object of the program it describes, however it is   *)
(* laid out, or is refused when there is none.                             *)
AssemblesAsWritten ==
  stage \in Ends /\ Readable =>
    IF Accepted THEN stage = "done" /\ Promise!IsObject(Program, MachineCode)
                ELSE stage = "exit"

(* Each stage is called within its domain: the parser with a list that     *)
(* starts with its empty token and in which every mnemonic, register and   *)
(* number can be looked up, the code generator with blocks whose fields    *)
(* fit.  Neither of the two checks this.                                   *)
StagesGetTheirDomain ==
  /\ stage = "parser" =>
       /\ toks # << >> /\ toks[1].type = "HEAD"
       /\ \A i \in DOMAIN toks :
            /\ toks[i].type \in Parser!TokenTypes /\ (toks[i].type = "HEAD" => i = 1)
            /\ toks[i].type = "INSTRUCTION" => toks[i].str \in Mnemonics
            /\ toks[i].type = "REGISTER" => toks[i].str \in DOMAIN Registers
            /\ toks[i].type \in Parser!NumberTypes => toks[i].str \in Numerals
            /\ toks[i].type = "LABEL" => toks[i].str \in Labels
  /\ stage = "codegen" => src \in Source

(* assembler() returns or the process ends.                                *)
AssemblerTermination == <>(stage \in Ends)
=============================================================================
