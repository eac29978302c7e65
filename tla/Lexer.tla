------------------------------- MODULE Lexer -------------------------------
(***************************************************************************)
(* _lexer() (src/assembler.c) and lexer() (src/lexer.c): from the text of  *)
(* a file to its tokens.                                                   *)
(*                                                                         *)
(* _lexer reads the file with fgets into one buffer, a line or a full      *)
(* buffer at a time, and calls lexer() on each; one step is one fgets or   *)
(* one iteration of lexer()'s loop.  The buffer is kept in full, with what *)
(* is left in it behind the terminator, because a pointer that moves past  *)
(* the terminator goes on in it.  "error" is exit(EXIT_FAILURE);           *)
(* "outside" is a read beyond the buffer, after which nothing is known.    *)
(* Texts hold no NUL.  Lines and columns are diagnostics and left out.     *)
(***************************************************************************)
EXTENDS Integers, SequencesExt, FiniteSetsExt

CONSTANTS
  Texts,          (* what files hold, sequences of characters               *)
  Litter,         (* what an uninitialized buffer may hold                  *)
  BufferSize,     (* sizeof(buffer) in _lexer, 8192 in the code             *)
  MaxTokenLen,    (* MAX_TOKEN_LEN, 128 in the code                         *)
  LongMax,        (* LONG_MAX, at which strtol saturates                    *)
  RegisterNames,  (* registers[] of is_register                             *)
  MnemonicNames   (* the names in instruction_table                         *)

ASSUME LexerAssumption ==
  /\ BufferSize \in Nat /\ BufferSize > 1
  /\ MaxTokenLen \in Nat /\ MaxTokenLen > 3
  /\ LongMax \in Nat
  /\ \A t \in Texts : t \in Seq(STRING)
  /\ \A b \in Litter : b \in [1 .. BufferSize -> STRING]

---------------------------------------------------------------------------
(* Characters.                                                             *)

NUL     == "NUL"
NewLine == "\n"
Quote   == "\""
(* "VT" is the vertical tab: what isspace takes, but for the newline.      *)
Blanks  == {" ", "\t", "\r", "\f", "VT"}

Digits    == {"0", "1", "2", "3", "4", "5", "6", "7", "8", "9"}
HexDigits == Digits \union {"a", "b", "c", "d", "e", "f", "A", "B", "C", "D", "E", "F"}
Letters ==
  {"a", "b", "c", "d", "e", "f", "g", "h", "i", "j", "k", "l", "m",
   "n", "o", "p", "q", "r", "s", "t", "u", "v", "w", "x", "y", "z",
   "A", "B", "C", "D", "E", "F", "G", "H", "I", "J", "K", "L", "M",
   "N", "O", "P", "Q", "R", "S", "T", "U", "V", "W", "X", "Y", "Z"}
WordStart == Letters \union {"_"}
WordChars == WordStart \union Digits

Decimals == <<"0", "1", "2", "3", "4", "5", "6", "7", "8", "9">>
LowHex   == Decimals \o <<"a", "b", "c", "d", "e", "f">>
HighHex  == Decimals \o <<"A", "B", "C", "D", "E", "F">>
DigitValue(c) == CHOOSE v \in 0 .. 15 : LowHex[v + 1] = c \/ HighHex[v + 1] = c

(* strtol of digits, and %ld of what it returns.                           *)
Value(digits, base) ==
  LET value[i \in 0 .. Len(digits)] ==
        IF i = 0 THEN 0 ELSE base * value[i - 1] + DigitValue(digits[i])
  IN  value[Len(digits)]
Strtol(digits, base) == Min({LongMax, Value(digits, base)})

itostr[n \in Nat] ==
  IF n < 10 THEN <<Decimals[n + 1]>> ELSE Append(itostr[n \div 10], Decimals[(n % 10) + 1])

(* The names in the tables, and a long with its sign, fit a token.         *)
ASSUME FitAssumption ==
  /\ \A n \in RegisterNames \union MnemonicNames : Len(n) < MaxTokenLen
  /\ Len(<<"-">> \o itostr[LongMax]) < MaxTokenLen

(* The marks that are tokens by themselves.                                *)
Marks == {":", ".", ",", "{", "}"}
MarkType(c) ==
  CASE c = ":" -> "COLON" [] c = "." -> "PERIOD" [] c = "," -> "COMMA"
    [] c = "{" -> "L_BRACE" [] c = "}" -> "R_BRACE"

ReservedType(word) ==
  CASE word = <<"i", "m", "p", "o", "r", "t">> -> "IMPORT"
    [] word = <<"e", "x", "p", "o", "r", "t">> -> "EXPORT"
    [] word = <<"f", "r", "o", "m">> -> "FROM"
    [] OTHER -> "LABEL"

(* What fits a token's buffer with room for spare more characters.         *)
Cut(str, spare) == SubSeq(str, 1, Min({Len(str), MaxTokenLen - spare}))

---------------------------------------------------------------------------
VARIABLES
  text,     (* what the file holds                                          *)
  read,     (* how much of it fgets has read                                *)
  buffer,   (* char buffer[8192]                                            *)
  ptr,      (* the index in it of the next character                        *)
  tokens,   (* the list built so far, empty while head is NULL              *)
  at        (* which loop control is in, or how it ended                    *)

vars == <<text, read, buffer, ptr, tokens, at>>

Tok(type, str) == [type |-> type, str |-> str]

Opened ==
  /\ read = 0
  /\ buffer \in Litter
  /\ ptr = 1
  /\ tokens = << >>
  /\ at = "file"

Init == text \in Texts /\ Opened

(* fgets: up to and with a newline, as far as the buffer allows.           *)
Unread == SubSeq(text, read + 1, Len(text))
LineLength ==
  Min({Len(Unread), BufferSize - 1} \union {i \in DOMAIN Unread : Unread[i] = NewLine})

(* Fault: head is allocated for every line.                                *)
FaultHeadPerLine ==
  /\ at = "file" /\ Unread # << >>
  /\ buffer' = [i \in 1 .. BufferSize |->
       IF i <= LineLength THEN Unread[i]
       ELSE IF i = LineLength + 1 THEN NUL ELSE buffer[i]]
  /\ read' = read + LineLength
  /\ tokens' = Append(tokens, Tok("HEAD", << >>))
  /\ ptr' = 1 /\ at' = "line"
  /\ UNCHANGED text

ReadLine ==
  /\ at = "file" /\ Unread # << >>
  /\ buffer' = [i \in 1 .. BufferSize |->
       IF i <= LineLength THEN Unread[i]
       ELSE IF i = LineLength + 1 THEN NUL ELSE buffer[i]]
  /\ read' = read + LineLength
  /\ tokens' = IF tokens = << >> THEN <<Tok("HEAD", << >>)>> ELSE tokens
  /\ ptr' = 1 /\ at' = "line"
  /\ UNCHANGED text

Leave(where) == at' = where /\ UNCHANGED <<text, read, buffer, ptr, tokens>>

EndOfFile == at = "file" /\ Unread = << >> /\ Leave("done")

---------------------------------------------------------------------------
(* lexer().  Beyond the buffer there is no character of any kind.          *)

Char(p) == IF p \in DOMAIN buffer THEN buffer[p] ELSE "OUTSIDE"
Slice(p, q) == SubSeq(buffer, p, q - 1)

(* The end of the longest run of characters of a class from p on, and the  *)
(* first character from p on that is of a class.                           *)
After(p, class) ==
  CHOOSE q \in p .. BufferSize + 1 :
    Char(q) \notin class /\ \A i \in p .. q - 1 : Char(i) \in class
Until(p, class) ==
  CHOOSE q \in p .. BufferSize + 1 :
    Char(q) \in class \union {NUL, "OUTSIDE"}
    /\ \A i \in p .. q - 1 : Char(i) \notin class \union {NUL, "OUTSIDE"}

At(class) == at = "line" /\ Char(ptr) \in class

Skip(next) == ptr' = next /\ UNCHANGED <<text, read, buffer, tokens, at>>
Emit(token, next) ==
  /\ tokens' = Append(tokens, token)
  /\ ptr' = next
  /\ UNCHANGED <<text, read, buffer, at>>

EndOfLine == At({NUL}) /\ Leave("file")

LeaveBuffer == at = "line" /\ ptr \notin DOMAIN buffer /\ Leave("outside")

Newline == At({NewLine}) /\ Emit(Tok("NEWLINE", <<NewLine>>), ptr + 1)

(* Fault: the blank is not passed over.                                    *)
FaultBlank == At(Blanks) /\ Skip(ptr)

Blank == At(Blanks) /\ Skip(ptr + 1)

Mark == At(Marks) /\ Emit(Tok(MarkType(Char(ptr)), <<Char(ptr)>>), ptr + 1)

(* Fault: the newline is part of the comment.                              *)
FaultComment == At({";"}) /\ Skip(Min({Until(ptr, {NewLine}) + 1, BufferSize + 1}))

Comment == At({";"}) /\ Skip(Until(ptr, {NewLine}))

StringEnd == Until(ptr + 1, {Quote})

StringLiteral ==
  /\ At({Quote}) /\ Char(StringEnd) = Quote
  /\ Emit(Tok("STRING_LITERAL", Cut(Slice(ptr + 1, StringEnd), 1)), StringEnd + 1)

UnterminatedString == At({Quote}) /\ Char(StringEnd) = NUL /\ Leave("error")

OverlongString == At({Quote}) /\ StringEnd \notin DOMAIN buffer /\ Leave("outside")

(* is_hex needs a digit after the x.                                       *)
IsHex == Char(ptr) = "0" /\ Char(ptr + 1) \in {"x", "X"} /\ Char(ptr + 2) \in HexDigits

Hexadecimal ==
  /\ At({"0"}) /\ IsHex
  /\ LET digits == Cut(Slice(ptr + 2, After(ptr + 2, HexDigits)), 3)
     IN  Emit(Tok("NUMBER", itostr[Strtol(digits, 16)]), ptr + 2 + Len(digits))

Decimal ==
  /\ At(Digits) /\ ~IsHex
  /\ LET digits == Cut(Slice(ptr, After(ptr, Digits)), 1)
     IN  Emit(Tok("NUMBER", digits), ptr + Len(digits))

(* The number is written again from its value, and the pointer moves by    *)
(* one more than the length of what was written.                           *)
NegativeText == <<"-">> \o itostr[Strtol(Cut(Slice(ptr + 1, After(ptr + 1, Digits)), 1), 10)]

Negative ==
  /\ At({"-"}) /\ Char(ptr + 1) \in Digits
  /\ Emit(Tok("NEGATIVE_NUMBER", NegativeText), ptr + Len(NegativeText) + 1)

(* A register's or an instruction's name is taken only as a whole word, so *)
(* what they match is the longest run of word characters.                  *)
Word == Slice(ptr, After(ptr, WordChars))

Register ==
  /\ At(WordStart) /\ Word \in RegisterNames
  /\ Emit(Tok("REGISTER", Word), ptr + Len(Word))

Instruction ==
  /\ At(WordStart) /\ Word \in MnemonicNames \ RegisterNames
  /\ Emit(Tok("INSTRUCTION", Word), ptr + Len(Word))

(* Fault: what does not fit the token is left to be lexed again.           *)
FaultIdentifier ==
  /\ At(WordStart) /\ Word \notin RegisterNames \union MnemonicNames
  /\ Emit(Tok(ReservedType(Cut(Word, 1)), Cut(Word, 1)), ptr + Len(Cut(Word, 1)))

(* read_identifier consumes the whole word and keeps what fits.            *)
Identifier ==
  /\ At(WordStart) /\ Word \notin RegisterNames \union MnemonicNames
  /\ Emit(Tok(ReservedType(Cut(Word, 1)), Cut(Word, 1)), ptr + Len(Word))

Known == {NUL, "OUTSIDE", NewLine, ";", Quote} \union Blanks \union Marks \union WordChars

UnknownCharacter ==
  /\ at = "line" /\ Char(ptr) \notin Known
  /\ ~(Char(ptr) = "-" /\ Char(ptr + 1) \in Digits)
  /\ Leave("error")

---------------------------------------------------------------------------
Lexeme ==
  \/ Newline \/ Blank \/ Mark \/ Comment
  \/ StringLiteral \/ UnterminatedString \/ OverlongString
  \/ Hexadecimal \/ Decimal \/ Negative
  \/ Register \/ Instruction \/ Identifier \/ UnknownCharacter

Step == ReadLine \/ EndOfFile \/ Lexeme \/ EndOfLine \/ LeaveBuffer

Ends == {"done", "error", "outside"}
Terminated == at \in Ends /\ UNCHANGED vars

Next == Step \/ Terminated

Spec == Init /\ [][Next]_vars

(* Nothing in the lexer waits.                                             *)
FairSpec == Spec /\ WF_vars(Step)
===========================================================================
