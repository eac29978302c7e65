---------------------------- MODULE LexerProofs ----------------------------
(***************************************************************************)
(* The lexer stays in its line, for every text, every buffer and every     *)
(* size of it: the invariant is inductive once it is known that the buffer *)
(* is a function and that fgets ends what it reads with a NUL.  The steps  *)
(* rest on two facts about the runs of characters: a run of characters     *)
(* that are no NUL ends at the NUL or before.  And every token fits its    *)
(* buffer: that rests on what strtol and itostr make of a run of digits.   *)
(* Last, the lexer against its grammar: at every iteration the pointer is  *)
(* at the beginning of a lexeme, or inside a blank, and the tokens are     *)
(* those of the lexemes before it.                                         *)
(***************************************************************************)
EXTENDS LexerInv, NumberLemmas

(* The least of a nonempty set of numbers is one of them.                  *)
LEMMA MinIsLeast ==
  ASSUME NEW S \in SUBSET Nat, S # {}
  PROVE  Min(S) \in S /\ \A y \in S : Min(S) <= y
  BY LeastOf DEF Min

(* What a place of the buffer holds.                                       *)
Cell == STRING \union {NUL}

(* What holds of the buffer and the text between two steps.                *)
BufferInv ==
  /\ text \in Seq(STRING)
  /\ read \in Nat
  /\ buffer \in [1 .. BufferSize -> Cell]

LineInv == BufferInv /\ StaysInItsLine

(* After ends at the NUL of the line or before it.                         *)
LEMMA AfterInLine ==
  ASSUME BufferInv, NEW p, IsTerminator(p), NEW s \in 1 .. p, NEW class, NUL \notin class
  PROVE  After(s, class) \in s .. p
<1> DEFINE S == {q \in s .. BufferSize + 1 : Char(q) \notin class}
<1>1. BufferSize \in Nat /\ p \in 1 .. BufferSize /\ buffer[p] = NUL
  BY LexerAssumption DEF IsTerminator, BufferInv
<1>2. p \in S
  BY <1>1 DEF Char, BufferInv
<1>3. PICK x \in S : \A y \in S : x <= y
  <2>1. S \in SUBSET Nat
    BY <1>1
  <2> QED
    BY <2>1, <1>2, LeastOf
<1>4. x \in s .. BufferSize + 1 /\ Char(x) \notin class /\ \A i \in s .. x - 1 : Char(i) \in class
  BY <1>1, <1>3
<1> DEFINE a == After(s, class)
<1>5. a \in s .. BufferSize + 1 /\ Char(a) \notin class /\ \A i \in s .. a - 1 : Char(i) \in class
  BY <1>4 DEF After
<1>6. ~ (a > p)
  BY <1>1, <1>2, <1>5
<1> QED
  BY <1>1, <1>5, <1>6

(* Until ends at the NUL of the line or before it.                         *)
LEMMA UntilInLine ==
  ASSUME BufferInv, NEW p, IsTerminator(p), NEW s \in 1 .. p, NEW class
  PROVE  Until(s, class) \in s .. p
<1> DEFINE Stop == class \union {NUL, "OUTSIDE"}
           S == {q \in s .. BufferSize + 1 : Char(q) \in Stop}
<1>1. BufferSize \in Nat /\ p \in 1 .. BufferSize /\ buffer[p] = NUL
  BY LexerAssumption DEF IsTerminator, BufferInv
<1>2. p \in S
  BY <1>1 DEF Char, BufferInv
<1>3. PICK x \in S : \A y \in S : x <= y
  <2>1. S \in SUBSET Nat
    BY <1>1
  <2> QED
    BY <2>1, <1>2, LeastOf
<1>4. x \in s .. BufferSize + 1 /\ Char(x) \in Stop /\ \A i \in s .. x - 1 : Char(i) \notin Stop
  BY <1>1, <1>3
<1> DEFINE a == Until(s, class)
<1>5. a \in s .. BufferSize + 1 /\ Char(a) \in Stop /\ \A i \in s .. a - 1 : Char(i) \notin Stop
  BY <1>4 DEF Until
<1>6. ~ (a > p)
  BY <1>1, <1>2, <1>5
<1> QED
  BY <1>1, <1>5, <1>6

(* A slice of the buffer has its length, and a cut does not add to it.     *)
LEMMA SliceLength ==
  ASSUME BufferInv, NEW p \in 1 .. BufferSize, NEW q \in p .. BufferSize
  PROVE  Slice(p, q) \in Seq(Cell) /\ Len(Slice(p, q)) = q - p
<1>1. buffer \in Seq(Cell) /\ Len(buffer) = BufferSize
  BY LexerAssumption DEF BufferInv
<1> QED
  BY <1>1, LexerAssumption DEF Slice

LEMMA CutLength ==
  ASSUME NEW str \in Seq(Cell), NEW spare \in 1 .. 3
  PROVE  Cut(str, spare) \in Seq(Cell) /\ Len(Cut(str, spare)) \in 0 .. Len(str)
<1> DEFINE S == {Len(str), MaxTokenLen - spare}
<1>1. S \in SUBSET Nat /\ S # {}
  BY LexerAssumption
<1>2. Min(S) \in S /\ Min(S) <= Len(str)
  BY <1>1, MinIsLeast
<1>3. Min(S) \in 0 .. Len(str)
  BY <1>1, <1>2
<1>4. Cut(str, spare) = SubSeq(str, 1, Min(S))
  BY DEF Cut
<1> HIDE DEF S
<1>5. Min(S) = 0 \/ Min(S) \in 1 .. Len(str)
  BY <1>3
<1> QED
  BY <1>3, <1>4, <1>5

---------------------------------------------------------------------------
(* fgets leaves a NUL in the buffer, and so a first one.                   *)
LEMMA ReadLineKeeps ==
  ASSUME LineInv, ReadLine
  PROVE  LineInv'
<1> DEFINE S == {Len(Unread), BufferSize - 1} \union {i \in DOMAIN Unread : Unread[i] = NewLine}
<1>1. Unread \in Seq(STRING)
  <2>1. text \in Seq(STRING) /\ (read + 1 \in 1 .. Len(text) + 1 \/ read + 1 > Len(text))
    BY DEF LineInv, BufferInv
  <2> QED
    BY <2>1 DEF Unread, LineInv, BufferInv
<1>2. S \in SUBSET Nat /\ S # {}
  BY <1>1, LexerAssumption
<1>3. LineLength = Min(S)
  BY DEF LineLength
<1>4. LineLength \in Nat /\ LineLength <= Len(Unread) /\ LineLength <= BufferSize - 1
  <2> HIDE DEF S
  <2>1. Min(S) \in S /\ \A y \in S : Min(S) <= y
    BY <1>2, MinIsLeast
  <2>2. Len(Unread) \in S /\ BufferSize - 1 \in S
    BY DEF S
  <2> QED
    BY <1>2, <1>3, <2>1, <2>2
<1>5. BufferInv'
  <2>1. read' \in Nat /\ text' \in Seq(STRING)
    BY <1>4 DEF ReadLine, LineInv, BufferInv
  <2>2. ASSUME NEW i \in 1 .. BufferSize
        PROVE  (IF i <= LineLength THEN Unread[i]
                ELSE IF i = LineLength + 1 THEN NUL ELSE buffer[i]) \in Cell
    <3>1. i <= LineLength => i \in 1 .. Len(Unread)
      BY <1>1, <1>4, LexerAssumption
    <3>2. i <= LineLength => Unread[i] \in STRING
      BY <1>1, <3>1
    <3>3. buffer[i] \in Cell
      BY DEF LineInv, BufferInv
    <3> QED
      BY <3>2, <3>3 DEF Cell
  <2>3. buffer' \in [1 .. BufferSize -> Cell]
    BY <2>2 DEF ReadLine
  <2> QED
    BY <2>1, <2>3 DEF BufferInv
<1>6. \E p \in 1 .. BufferSize : IsTerminator(p)'
  <2> DEFINE N == {i \in 1 .. BufferSize : buffer'[i] = NUL}
  <2>1. LineLength + 1 \in N
    <3>1. LineLength + 1 \in 1 .. BufferSize /\ ~(LineLength + 1 <= LineLength)
      BY <1>4, LexerAssumption
    <3> QED
      BY <3>1 DEF ReadLine
  <2>2. N \in SUBSET Nat
    BY LexerAssumption
  <2>3. PICK p \in N : \A q \in N : p <= q
    BY <2>1, <2>2, LeastOf
  <2>4. p \in 1 .. BufferSize /\ DOMAIN buffer' = 1 .. BufferSize
    BY <2>3, <1>5 DEF BufferInv
  <2>5. ASSUME NEW q \in 1 .. p - 1 PROVE buffer'[q] # NUL
    BY <2>3, <2>4, LexerAssumption
  <2> QED
    BY <2>3, <2>4, <2>5 DEF IsTerminator
<1>7. StaysInItsLine'
  <2>1. at' = "line" /\ ptr' = 1
    BY DEF ReadLine
  <2> QED
    BY <1>6, <2>1, LexerAssumption DEF StaysInItsLine
<1> QED
  BY <1>5, <1>7 DEF LineInv

(* What a step of lexer() must do: leave the buffer alone, and in a line   *)
(* without a negative number move within it.                               *)
LEMMA MovesInLine ==
  ASSUME LineInv, at = "line", UNCHANGED <<text, read, buffer>>,
         at' \in {"line", "error", "outside"},
         ASSUME NEW p \in 1 .. BufferSize, IsTerminator(p), ~HoldsNegative(p), ptr \in 1 .. p
         PROVE  at' # "outside" /\ ptr' \in 1 .. p
  PROVE  LineInv'
<1>1. PICK p \in 1 .. BufferSize :
        IsTerminator(p) /\ (~HoldsNegative(p) => ptr \in 1 .. p)
  BY DEF LineInv, StaysInItsLine
<1>2. IsTerminator(p)' /\ (HoldsNegative(p)' <=> HoldsNegative(p))
  BY <1>1 DEF IsTerminator, HoldsNegative
<1>3. StaysInItsLine'
  BY <1>1, <1>2 DEF StaysInItsLine
<1>4. BufferInv'
  BY DEF LineInv, BufferInv
<1> QED
  BY <1>3, <1>4 DEF LineInv

(* One character is passed over, and it is not the NUL.                    *)
LEMMA OneCharacter ==
  ASSUME BufferInv, NEW p, IsTerminator(p), ptr \in 1 .. p, Char(ptr) # NUL
  PROVE  ptr + 1 \in 1 .. p
<1>1. p \in 1 .. BufferSize /\ buffer[p] = NUL /\ BufferSize \in Nat
  BY LexerAssumption DEF IsTerminator, BufferInv
<1>2. ptr # p
  BY <1>1 DEF Char, BufferInv
<1> QED
  BY <1>1, <1>2

(* A character that is looked ahead at and is not the NUL either.          *)
LEMMA AnotherCharacter ==
  ASSUME BufferInv, NEW p, IsTerminator(p), NEW q \in 1 .. p, Char(q) # NUL
  PROVE  q + 1 \in 1 .. p
<1>1. p \in 1 .. BufferSize /\ buffer[p] = NUL /\ BufferSize \in Nat
  BY LexerAssumption DEF IsTerminator, BufferInv
<1>2. q # p
  BY <1>1 DEF Char, BufferInv
<1> QED
  BY <1>1, <1>2

(* The classes of characters that runs are made of hold no NUL.            *)
LEMMA NoNul ==
  /\ NUL \notin WordChars
  /\ NUL \notin WordStart
  /\ NUL \notin HexDigits
  /\ NUL \notin Digits
  /\ NUL \notin Blanks
  /\ NUL \notin Marks
  /\ NUL \notin {";", Quote, NewLine, "-", "x", "X", "0"}
<1>1. NUL \notin Digits
  BY DEF NUL, Digits
<1>2. NUL \notin HexDigits
  BY <1>1 DEF NUL, HexDigits
<1>3. NUL \notin WordStart
  BY DEF NUL, WordStart, Letters
<1>4. NUL \notin WordChars
  BY <1>1, <1>3 DEF WordChars
<1>5. NUL \notin Blanks /\ NUL \notin Marks
  BY DEF NUL, Blanks, Marks
<1>6. NUL \notin {";", Quote, NewLine, "-", "x", "X", "0"}
  BY DEF NUL, Quote, NewLine
<1> QED
  BY <1>1, <1>2, <1>3, <1>4, <1>5, <1>6

(* The word at the pointer ends in the line.                               *)
LEMMA WordInLine ==
  ASSUME BufferInv, NEW p, IsTerminator(p), ptr \in 1 .. p
  PROVE  Word \in Seq(Cell) /\ ptr + Len(Word) \in 1 .. p
<1>1. p \in 1 .. BufferSize /\ BufferSize \in Nat
  BY LexerAssumption DEF IsTerminator, BufferInv
<1>2. After(ptr, WordChars) \in ptr .. p
  BY AfterInLine, NoNul
<1>3. ptr \in 1 .. BufferSize /\ After(ptr, WordChars) \in ptr .. BufferSize
  BY <1>1, <1>2
<1>4. Word \in Seq(Cell) /\ Len(Word) = After(ptr, WordChars) - ptr
  BY <1>3, SliceLength DEF Word
<1> QED
  BY <1>1, <1>2, <1>4

(* Digits cut to a token end where their run ends, or before.              *)
LEMMA DigitsInLine ==
  ASSUME BufferInv, NEW p, IsTerminator(p), NEW s \in 1 .. p,
         NEW class, NUL \notin class, NEW spare \in 1 .. 3
  PROVE  s + Len(Cut(Slice(s, After(s, class)), spare)) \in 1 .. p
<1>1. p \in 1 .. BufferSize /\ BufferSize \in Nat
  BY LexerAssumption DEF IsTerminator, BufferInv
<1>2. After(s, class) \in s .. p
  BY AfterInLine
<1>3. Slice(s, After(s, class)) \in Seq(Cell)
      /\ Len(Slice(s, After(s, class))) = After(s, class) - s
  <2>1. s \in 1 .. BufferSize /\ After(s, class) \in s .. BufferSize
    BY <1>1, <1>2
  <2> QED
    BY <2>1, SliceLength
<1>4. Len(Cut(Slice(s, After(s, class)), spare)) \in 0 .. After(s, class) - s
  BY <1>3, CutLength
<1> QED
  BY <1>1, <1>2, <1>4

---------------------------------------------------------------------------
(* Every iteration of lexer()'s loop stays in a line without a negative    *)
(* number.                                                                 *)
LEMMA LexemeInLine ==
  ASSUME LineInv, at = "line", Lexeme \/ LeaveBuffer,
         NEW p \in 1 .. BufferSize, IsTerminator(p), ~HoldsNegative(p), ptr \in 1 .. p
  PROVE  at' # "outside" /\ ptr' \in 1 .. p
<1>1. BufferInv /\ BufferSize \in Nat /\ p \in Nat /\ ptr \in 1 .. BufferSize
      /\ DOMAIN buffer = 1 .. BufferSize
  BY LexerAssumption DEF LineInv, BufferInv
<1>2. Char(ptr) # NUL => ptr + 1 \in 1 .. p
  BY <1>1, OneCharacter
<1>3. CASE Newline
  BY <1>2, <1>3, NoNul DEF Newline, At, Emit
<1>4. CASE Blank
  BY <1>2, <1>4, NoNul DEF Blank, At, Skip
<1>5. CASE Mark
  BY <1>2, <1>5, NoNul DEF Mark, At, Emit
<1>6. CASE Comment
  <2>1. Until(ptr, {NewLine}) \in ptr .. p
    BY <1>1, UntilInLine
  <2>2. ptr' = Until(ptr, {NewLine}) /\ at' = at
    BY <1>6 DEF Comment, Skip
  <2> QED
    BY <1>1, <2>1, <2>2
<1>7. CASE StringLiteral
  <2>1. Char(ptr) # NUL /\ Char(StringEnd) # NUL
    BY <1>7, NoNul DEF StringLiteral, At
  <2>2. StringEnd \in ptr + 1 .. p
    BY <1>1, <1>2, <2>1, UntilInLine DEF StringEnd
  <2>3. StringEnd + 1 \in 1 .. p
    BY <1>1, <1>2, <2>1, <2>2, AnotherCharacter
  <2> QED
    BY <1>7, <2>3 DEF StringLiteral, Emit
<1>8. CASE UnterminatedString
  BY <1>8 DEF UnterminatedString, Leave
<1>9. CASE OverlongString
  <2>1. Char(ptr) # NUL
    BY <1>9, NoNul DEF OverlongString, At
  <2>2. StringEnd \in ptr + 1 .. p
    BY <1>1, <1>2, <2>1, UntilInLine DEF StringEnd
  <2> QED
    BY <1>1, <1>9, <2>2 DEF OverlongString
<1>10. CASE Hexadecimal
  <2>1. Char(ptr) # NUL /\ Char(ptr + 1) # NUL
    BY <1>10, NoNul DEF Hexadecimal, IsHex
  <2>2. ptr + 1 \in 1 .. p /\ (ptr + 1) + 1 \in 1 .. p
    BY <1>1, <1>2, <2>1, AnotherCharacter
  <2>3. ptr + 2 \in 1 .. p
    BY <1>1, <2>2
  <2> DEFINE digits == Cut(Slice(ptr + 2, After(ptr + 2, HexDigits)), 3)
  <2>4. NUL \notin HexDigits
    BY NoNul, Zenon
  <2>5. ptr + 2 + Len(digits) \in 1 .. p
    BY <1>1, <2>3, <2>4, DigitsInLine
  <2>6. ptr' = ptr + 2 + Len(digits) /\ at' = at
    BY <1>10 DEF Hexadecimal, Emit
  <2> QED
    BY <2>5, <2>6
<1>11. CASE Decimal
  <2> DEFINE digits == Cut(Slice(ptr, After(ptr, Digits)), 1)
  <2>1. NUL \notin Digits
    BY NoNul, Zenon
  <2>2. ptr + Len(digits) \in 1 .. p
    BY <1>1, <2>1, DigitsInLine
  <2>3. ptr' = ptr + Len(digits) /\ at' = at
    BY <1>11 DEF Decimal, Emit
  <2> QED
    BY <2>2, <2>3
<1>12. CASE Negative
  <2>1. Char(ptr) = "-" /\ Char(ptr + 1) \in Digits
    BY <1>12 DEF Negative, At
  <2>2. ptr + 1 \in 1 .. p
    BY <1>2, <2>1, NoNul
  <2>3. buffer[ptr] = "-" /\ buffer[ptr + 1] \in Digits /\ ptr \in 1 .. p - 1
    BY <1>1, <2>1, <2>2 DEF Char
  <2> QED
    BY <2>3 DEF HoldsNegative
<1>13. CASE Register \/ Instruction \/ Identifier
  <2>1. ptr' = ptr + Len(Word) /\ at' = at
    BY <1>13 DEF Register, Instruction, Identifier, Emit
  <2> QED
    BY <1>1, <2>1, WordInLine
<1>14. CASE UnknownCharacter
  BY <1>14 DEF UnknownCharacter, Leave
<1>15. CASE LeaveBuffer
  BY <1>1, <1>15 DEF LeaveBuffer
<1> QED
  BY <1>3, <1>4, <1>5, <1>6, <1>7, <1>8, <1>9, <1>10, <1>11, <1>12, <1>13, <1>14, <1>15
  DEF Lexeme

(* The invariant holds at the start and is kept by every step.             *)
LEMMA OpenedInLine ==
  ASSUME text \in Seq(STRING), Opened
  PROVE  LineInv
<1>1. text \in Seq(STRING) /\ read \in Nat
  BY DEF Opened
<1>2. buffer \in [1 .. BufferSize -> STRING]
  BY LexerAssumption DEF Opened
<1>3. buffer \in [1 .. BufferSize -> Cell]
  BY <1>2 DEF Cell
<1>4. StaysInItsLine
  BY DEF Opened, StaysInItsLine
<1> QED
  BY <1>1, <1>3, <1>4 DEF LineInv, BufferInv

LEMMA LineInvInit == Init => LineInv
  BY OpenedInLine, LexerAssumption DEF Init

LEMMA LineInvNext == LineInv /\ [Next]_vars => LineInv'
<1> SUFFICES ASSUME LineInv, [Next]_vars PROVE LineInv'
  OBVIOUS
<1>1. CASE ReadLine
  BY <1>1, ReadLineKeeps
<1>2. CASE EndOfFile \/ EndOfLine
  BY <1>2 DEF EndOfFile, EndOfLine, Leave, LineInv, BufferInv, StaysInItsLine
<1>3. CASE Lexeme \/ LeaveBuffer
  <2>1. at = "line" /\ UNCHANGED <<text, read, buffer>> /\ at' \in {"line", "error", "outside"}
    BY <1>3 DEF Lexeme, LeaveBuffer, Newline, Blank, Mark, Comment, StringLiteral,
      UnterminatedString, OverlongString, Hexadecimal, Decimal, Negative, Register,
      Instruction, Identifier, UnknownCharacter, At, Emit, Skip, Leave
  <2> QED
    BY <1>3, <2>1, LexemeInLine, MovesInLine
<1>4. CASE Terminated \/ UNCHANGED vars
  BY <1>4 DEF Terminated, vars, LineInv, BufferInv, StaysInItsLine, IsTerminator,
    HoldsNegative
<1> QED
  BY <1>1, <1>2, <1>3, <1>4 DEF Next, Step

(* For every text and every size of the line buffer, lexer() reads nothing *)
(* outside the line it was called with unless that line holds a negative   *)
(* number.                                                                 *)
THEOREM LexerStaysInItsLine == Spec => []StaysInItsLine
<1>1. LineInv => StaysInItsLine
  BY DEF LineInv
<1> QED
  BY <1>1, LineInvInit, LineInvNext, PTL DEF Spec

---------------------------------------------------------------------------
(* Types.  A character of a token: one of the buffer's, or one that the    *)
(* lexer writes itself.                                                    *)
Signs == Cell \union Digits \union Marks \union {NewLine, "-"}

TokenSet == [type : TokenTypes, str : Seq(Signs)]

TypeInv ==
  /\ BufferInv
  /\ tokens \in Seq(TokenSet)
  /\ at = "line" => tokens # << >>
  /\ LexerTypeOK

(* The elements of two sequences put together.                             *)
LEMMA Joined ==
  ASSUME NEW S, NEW s \in Seq(S), NEW t \in Seq(S)
  PROVE  /\ s \o t \in Seq(S) /\ Len(s \o t) = Len(s) + Len(t)
         /\ \A i \in 1 .. Len(s) : (s \o t)[i] = s[i]
         /\ \A i \in 1 .. Len(t) : (s \o t)[Len(s) + i] = t[i]
<1>1. Len(s) \in Nat /\ Len(t) \in Nat /\ Len(s \o t) = Len(s) + Len(t)
  OBVIOUS
<1>2. ASSUME NEW i \in 1 .. Len(s) PROVE (s \o t)[i] = s[i]
  OBVIOUS
<1>3. ASSUME NEW i \in 1 .. Len(t) PROVE (s \o t)[Len(s) + i] = t[i]
  <2>1. Len(s) + i \in Len(s) + 1 .. Len(s) + Len(t) /\ (Len(s) + i) - Len(s) = i
    BY <1>1
  <2> QED
    BY <1>1, <2>1
<1> QED
  BY <1>1, <1>2, <1>3

(* A hexadecimal digit has a value.                                        *)
LEMMA DigitValues == \A c \in HexDigits : DigitValue(c) \in Nat
<1> DEFINE low == <<"a", "b", "c", "d", "e", "f">>
           high == <<"A", "B", "C", "D", "E", "F">>
<1>1. /\ Decimals \in Seq(HexDigits) /\ Len(Decimals) = 10
      /\ \A c \in Digits : \E i \in 1 .. 10 : Decimals[i] = c
  BY DEF Decimals, HexDigits, Digits
<1>2. /\ low \in Seq(HexDigits) /\ Len(low) = 6
      /\ high \in Seq(HexDigits) /\ Len(high) = 6
      /\ \A c \in HexDigits \ Digits : \E i \in 1 .. 6 : low[i] = c \/ high[i] = c
  BY DEF HexDigits
<1> HIDE DEF low, high
<1>3. LowHex = Decimals \o low /\ HighHex = Decimals \o high
  BY DEF LowHex, HighHex, low, high
<1>4. /\ \A i \in 1 .. 10 : LowHex[i] = Decimals[i]
      /\ \A i \in 1 .. 6 : LowHex[10 + i] = low[i] /\ HighHex[10 + i] = high[i]
  <2>1. ASSUME NEW s \in Seq(HexDigits), Len(s) = 10, NEW t \in Seq(HexDigits), Len(t) = 6
        PROVE  /\ \A i \in 1 .. 10 : (s \o t)[i] = s[i]
               /\ \A i \in 1 .. 6 : (s \o t)[10 + i] = t[i]
    <3>1. /\ \A i \in 1 .. Len(s) : (s \o t)[i] = s[i]
          /\ \A i \in 1 .. Len(t) : (s \o t)[Len(s) + i] = t[i]
      BY Joined
    <3> QED
      BY <2>1, <3>1
  <2>2. /\ \A i \in 1 .. 10 : (Decimals \o low)[i] = Decimals[i]
        /\ \A i \in 1 .. 6 : (Decimals \o low)[10 + i] = low[i]
    BY <1>1, <1>2, <2>1
  <2>3. \A i \in 1 .. 6 : (Decimals \o high)[10 + i] = high[i]
    BY <1>1, <1>2, <2>1
  <2> QED
    BY <1>3, <2>2, <2>3
<1>5. ASSUME NEW c \in HexDigits
      PROVE  \E v \in 0 .. 15 : LowHex[v + 1] = c \/ HighHex[v + 1] = c
  <2>1. CASE c \in Digits
    <3>1. PICK i \in 1 .. 10 : Decimals[i] = c
      BY <1>1, <2>1
    <3>2. i - 1 \in 0 .. 15 /\ (i - 1) + 1 = i
      OBVIOUS
    <3> QED
      BY <1>4, <3>1, <3>2
  <2>2. CASE c \notin Digits
    <3>1. PICK i \in 1 .. 6 : low[i] = c \/ high[i] = c
      BY <1>2, <2>2
    <3>2. 9 + i \in 0 .. 15 /\ (9 + i) + 1 = 10 + i
      OBVIOUS
    <3> QED
      BY <1>4, <3>1, <3>2
  <2> QED
    BY <2>1, <2>2
<1> QED
  <2> TAKE c \in HexDigits
  <2>1. \E v \in 0 .. 15 : LowHex[v + 1] = c \/ HighHex[v + 1] = c
    BY <1>5
  <2>2. DigitValue(c) \in 0 .. 15
    BY <2>1 DEF DigitValue
  <2> QED
    BY <2>2

LEMMA ProductIsNat == ASSUME NEW a \in Nat, NEW b \in Nat PROVE a * b \in Nat
  OBVIOUS

(* So every sequence of them has one.                                      *)
LEMMA ValueIsNat ==
  ASSUME NEW digits \in Seq(HexDigits), NEW base \in Nat
  PROVE  Value(digits, base) \in Nat
<1> DEFINE n == Len(digits)
           R == Nat
           step == [x \in Nat \X R |->
                      IF x[1] + 1 <= n THEN base * x[2] + DigitValue(digits[x[1] + 1]) ELSE 0]
<1>1. n \in Nat /\ \A i \in 1 .. n : DigitValue(digits[i]) \in Nat
  BY DigitValues
<1>2. step \in Rules(R)
  <2>1. ASSUME NEW x \in Nat \X R, x[1] + 1 <= n
        PROVE  base * x[2] + DigitValue(digits[x[1] + 1]) \in R
    <3>1. x[1] \in Nat /\ x[2] \in Nat /\ x[1] + 1 \in 1 .. n
      BY <1>1, <2>1
    <3>2. base * x[2] \in Nat
      BY <3>1
    <3> QED
      BY <1>1, <3>1, <3>2
  <2> QED
    BY <2>1 DEF Rules
<1>3. PICK f \in [Nat -> R] : f[0] = 0 /\ \A m \in Nat : f[m + 1] = step[<<m, f[m]>>]
  <2>1. 0 \in R
    OBVIOUS
  <2> HIDE DEF step, R
  <2>2. IteratesOf(R, 0, step) # {}
    BY <1>2, <2>1, Iterates
  <2> QED
    BY <2>2 DEF IteratesOf
<1> DEFINE g == [i \in 0 .. n |-> f[i]]
           Means(h) == h = [i \in 0 .. n |->
                              IF i = 0 THEN 0 ELSE base * h[i - 1] + DigitValue(digits[i])]
<1>4. Means(g)
  <2>1. ASSUME NEW i \in 0 .. n, i # 0
        PROVE  g[i] = base * g[i - 1] + DigitValue(digits[i])
    <3>1. i - 1 \in Nat /\ i - 1 \in 0 .. n /\ (i - 1) + 1 = i /\ i <= n
      BY <1>1, <2>1
    <3>2. f[i] = step[<<i - 1, f[i - 1]>>]
      BY <1>3, <3>1
    <3>3. f[i] = base * f[i - 1] + DigitValue(digits[i])
      BY <1>3, <3>1, <3>2
    <3> QED
      BY <3>1, <3>3
  <2>2. 0 \in 0 .. n => g[0] = 0
    BY <1>3
  <2> HIDE DEF g
  <2>3. g = [i \in 0 .. n |-> g[i]]
    BY DEF g
  <2>4. \A i \in 0 .. n :
          g[i] = IF i = 0 THEN 0 ELSE base * g[i - 1] + DigitValue(digits[i])
    BY <2>1, <2>2
  <2> QED
    BY <2>3, <2>4
<1> DEFINE v == CHOOSE h : Means(h)
<1>5. Means(v)
  <2> HIDE DEF Means, g
  <2> QED
    BY <1>4
<1>6. Value(digits, base) = v[n]
  BY DEF Value
<1> HIDE DEF v
<1>7. \A m \in Nat : m <= n => v[m] \in Nat
  <2> DEFINE S == {m \in Nat : m <= n => v[m] \in Nat}
  <2>1. 0 \in S
    <3>1. 0 \in 0 .. n
      BY <1>1
    <3> QED
      BY <1>5, <3>1
  <2>2. ASSUME NEW m \in Nat, m \in S PROVE m + 1 \in S
    <3> SUFFICES ASSUME m + 1 <= n PROVE v[m + 1] \in Nat
      OBVIOUS
    <3>1. m + 1 \in 0 .. n /\ m + 1 # 0 /\ (m + 1) - 1 = m /\ m + 1 \in 1 .. n
      BY <1>1
    <3>2. v[m + 1] = base * v[m] + DigitValue(digits[m + 1])
      BY <1>5, <3>1
    <3>3. v[m] \in Nat /\ DigitValue(digits[m + 1]) \in Nat
      BY <1>1, <2>2, <3>1
    <3> DEFINE d == DigitValue(digits[m + 1])
               p == base * v[m]
    <3>4. p \in Nat
      BY <3>3, ProductIsNat
    <3>5. v[m + 1] = p + d /\ d \in Nat
      BY <3>2, <3>3
    <3> HIDE DEF d, p
    <3> QED
      BY <3>4, <3>5
  <2> HIDE DEF S
  <2>3. \A m \in Nat : m \in S
    BY <2>1, <2>2, AllFollow
  <2> QED
    BY <2>3 DEF S
<1> QED
  BY <1>1, <1>6, <1>7

(* And strtol does not return more than fits a long.                       *)
LEMMA StrtolFits ==
  ASSUME NEW digits \in Seq(HexDigits), NEW base \in Nat
  PROVE  Strtol(digits, base) \in 0 .. LongMax
<1> DEFINE S == {LongMax, Value(digits, base)}
<1>1. S \in SUBSET Nat /\ LongMax \in S
  BY LexerAssumption, ValueIsNat
<1>2. Min(S) \in S /\ Min(S) <= LongMax
  BY <1>1, MinIsLeast
<1> QED
  BY <1>1, <1>2 DEF Strtol

(* What itostr writes of a number: a digit, or those of its tenth and one. *)
LEMMA ItostrIs ==
  /\ itostr \in [Nat -> Seq(Digits)]
  /\ \A n \in Nat :
       itostr[n] = IF n < 10 THEN <<Decimals[n + 1]>>
                   ELSE Append(itostr[n \div 10], Decimals[(n % 10) + 1])
<1> DEFINE R == Seq(Digits)
           step == [x \in Nat \X Seq(R) |->
                      IF x[1] < 10 THEN <<Decimals[x[1] + 1]>>
                      ELSE IF (x[1] \div 10) + 1 \in 1 .. Len(x[2])
                      THEN Append(x[2][(x[1] \div 10) + 1], Decimals[(x[1] % 10) + 1])
                      ELSE << >>]
           Means(h) == h = [n \in Nat |-> IF n < 10 THEN <<Decimals[n + 1]>>
                              ELSE Append(h[n \div 10], Decimals[(n % 10) + 1])]
<1>1. \A i \in 1 .. 10 : Decimals[i] \in Digits
  BY DEF Decimals, Digits
<1>2. ASSUME NEW n \in Nat
      PROVE  /\ n % 10 \in Nat /\ (n % 10) + 1 \in 1 .. 10 /\ n \div 10 \in Nat
             /\ n < 10 => n + 1 \in 1 .. 10
             /\ ~(n < 10) => (n \div 10) + 1 \in 1 .. n
  OBVIOUS
<1>3. step \in RulesFromAll(R)
  <2>1. ASSUME NEW x \in Nat \X Seq(R) PROVE step[x] \in R
    <3> DEFINE n == x[1]
               s == x[2]
    <3>1. n \in Nat /\ s \in Seq(R)
      OBVIOUS
    <3>2. step[x] = IF n < 10 THEN <<Decimals[n + 1]>>
                    ELSE IF (n \div 10) + 1 \in 1 .. Len(s)
                    THEN Append(s[(n \div 10) + 1], Decimals[(n % 10) + 1]) ELSE << >>
      OBVIOUS
    <3> HIDE DEF n, s, step
    <3>3. CASE n < 10
      <4>1. Decimals[n + 1] \in Digits
        BY <1>1, <1>2, <3>1, <3>3
      <4> QED
        BY <3>2, <3>3, <4>1
    <3>4. CASE ~(n < 10) /\ (n \div 10) + 1 \in 1 .. Len(s)
      <4>1. Decimals[(n % 10) + 1] \in Digits
        BY <1>1, <1>2, <3>1
      <4>2. s[(n \div 10) + 1] \in R
        BY <3>1, <3>4
      <4> QED
        BY <3>2, <3>4, <4>1, <4>2
    <3>5. CASE ~(n < 10) /\ (n \div 10) + 1 \notin 1 .. Len(s)
      BY <3>2, <3>5
    <3> QED
      BY <3>3, <3>4, <3>5
  <2>2. step = [x \in Nat \X Seq(R) |-> step[x]]
    OBVIOUS
  <2> HIDE DEF step, R
  <2> QED
    BY <2>1, <2>2 DEF RulesFromAll
<1>4. PICK f \in [Nat -> R] :
        \A n \in Nat : f[n] = step[<<n, [i \in 1 .. n |-> f[i - 1]]>>]
  <2> HIDE DEF step, R
  <2>1. CoursesOf(R, step) # {}
    BY <1>3, CourseOfValues
  <2> QED
    BY <2>1 DEF CoursesOf
<1>5. Means(f)
  <2>1. ASSUME NEW n \in Nat
        PROVE  f[n] = IF n < 10 THEN <<Decimals[n + 1]>>
                      ELSE Append(f[n \div 10], Decimals[(n % 10) + 1])
    <3> DEFINE s == [i \in 1 .. n |-> f[i - 1]]
    <3>1. s \in Seq(R) /\ Len(s) = n
      <4>1. \A i \in 1 .. n : i - 1 \in Nat
        OBVIOUS
      <4>2. \A i \in 1 .. n : f[i - 1] \in R
        BY <4>1
      <4> HIDE DEF R
      <4> QED
        BY <4>2
    <3>2. f[n] = step[<<n, s>>]
      BY <1>4
    <3>3. ~(n < 10) => s[(n \div 10) + 1] = f[n \div 10]
      <4> SUFFICES ASSUME ~(n < 10) PROVE s[(n \div 10) + 1] = f[n \div 10]
        OBVIOUS
      <4> DEFINE k == n \div 10
      <4>1. k + 1 \in 1 .. n /\ k \in Nat
        BY <1>2
      <4> HIDE DEF k
      <4>2. s[k + 1] = f[k]
        BY <4>1
      <4> QED
        BY <4>2 DEF k
    <3> DEFINE k == (n \div 10) + 1
    <3>4. step[<<n, s>>] = IF n < 10 THEN <<Decimals[n + 1]>>
                           ELSE IF k \in 1 .. Len(s)
                           THEN Append(s[k], Decimals[(n % 10) + 1]) ELSE << >>
      <4> HIDE DEF R, s
      <4>1. <<n, s>> \in Nat \X Seq(R)
        BY <3>1
      <4> QED
        BY <4>1
    <3>5. ~(n < 10) => k \in 1 .. Len(s)
      BY <1>2, <3>1
    <3> HIDE DEF s, k, step
    <3> QED
      BY <3>2, <3>3, <3>4, <3>5 DEF k
  <2> HIDE DEF step
  <2> QED
    BY <2>1
<1>6. Means(itostr)
  <2>1. itostr = CHOOSE h : Means(h)
    BY DEF itostr
  <2> HIDE DEF Means
  <2> QED
    BY <1>5, <2>1
<1>7. \A n \in Nat : itostr[n] \in R
  <2> DEFINE P(n) == \A m \in 0 .. n : itostr[m] \in R
             S == {n \in Nat : P(n)}
  <2>1. ASSUME NEW n \in Nat, \A m \in 0 .. n - 1 : itostr[m] \in R
        PROVE  itostr[n] \in R
    <3>1. CASE n < 10
      <4>1. Decimals[n + 1] \in Digits
        BY <1>1, <1>2, <3>1
      <4> QED
        BY <1>6, <3>1, <4>1
    <3>2. CASE ~(n < 10)
      <4>1. n \div 10 \in 0 .. n - 1
        BY <1>2, <3>2
      <4>2. itostr[n \div 10] \in Seq(Digits) /\ Decimals[(n % 10) + 1] \in Digits
        BY <1>1, <1>2, <2>1, <4>1
      <4>3. itostr[n] = Append(itostr[n \div 10], Decimals[(n % 10) + 1])
        BY <1>6, <3>2
      <4> HIDE DEF Means
      <4> QED
        BY <4>2, <4>3
    <3> QED
      BY <3>1, <3>2
  <2>2. 0 \in S
    <3>1. itostr[0] \in R
      BY <2>1
    <3> HIDE DEF R
    <3> QED
      BY <3>1
  <2>3. ASSUME NEW n \in Nat, n \in S PROVE n + 1 \in S
    <3>1. \A m \in 0 .. (n + 1) - 1 : itostr[m] \in R
      BY <2>3
    <3>2. itostr[n + 1] \in R
      BY <2>1, <3>1
    <3>3. \A m \in 0 .. n + 1 : m = n + 1 \/ m \in 0 .. (n + 1) - 1
      OBVIOUS
    <3> HIDE DEF R
    <3>4. P(n + 1)
      BY <3>1, <3>2, <3>3
    <3> QED
      BY <3>4
  <2> HIDE DEF S
  <2>4. \A n \in Nat : n \in S
    BY <2>2, <2>3, AllFollow
  <2> HIDE DEF R
  <2>5. \A n \in Nat : P(n) /\ n \in 0 .. n
    BY <2>4 DEF S
  <2> QED
    BY <2>5
<1> QED
  <2>1. itostr = [n \in Nat |-> IF n < 10 THEN <<Decimals[n + 1]>>
                              ELSE Append(itostr[n \div 10], Decimals[(n % 10) + 1])]
    BY <1>6
  <2>2. DOMAIN itostr = Nat /\ itostr = [n \in Nat |-> itostr[n]]
    BY <2>1
  <2>3. itostr \in [Nat -> Seq(Digits)]
    BY <1>7, <2>2
  <2>4. \A n \in Nat :
          itostr[n] = IF n < 10 THEN <<Decimals[n + 1]>>
                      ELSE Append(itostr[n \div 10], Decimals[(n % 10) + 1])
    BY <2>1
  <2> QED
    BY <2>3, <2>4

(* A larger number is not written shorter.                                 *)
LEMMA ItostrGrows ==
  ASSUME NEW n \in Nat, NEW m \in 0 .. n
  PROVE  Len(itostr[m]) \in 1 .. Len(itostr[n])
<1> DEFINE long(k) == Len(itostr[k])
           P(k) == \A j \in 0 .. k : long(j) \in 1 .. long(k)
           S == {k \in Nat : \A i \in 0 .. k : P(i)}
<1>1. ASSUME NEW k \in Nat
      PROVE  /\ k < 10 => long(k) = 1
             /\ ~(k < 10) => long(k) = long(k \div 10) + 1
             /\ long(k) \in Nat
  <2>1. CASE k < 10
    <3>1. itostr[k] = <<Decimals[k + 1]>>
      BY <2>1, ItostrIs
    <3> QED
      BY <2>1, <3>1
  <2>2. CASE ~(k < 10)
    <3>1. k \div 10 \in Nat
      OBVIOUS
    <3>2. itostr[k \div 10] \in Seq(Digits)
      BY <3>1, ItostrIs
    <3>3. itostr[k] = Append(itostr[k \div 10], Decimals[(k % 10) + 1])
      BY <2>2, ItostrIs
    <3> DEFINE a == itostr[k \div 10]
    <3> HIDE DEF a
    <3>4. Len(Append(a, Decimals[(k % 10) + 1])) = Len(a) + 1 /\ Len(a) \in Nat
      BY <3>2 DEF a
    <3> QED
      BY <2>2, <3>3, <3>4 DEF a
  <2> QED
    BY <2>1, <2>2
<1> HIDE DEF long
<1>2. ASSUME NEW k \in Nat, \A i \in 0 .. k - 1 : P(i)
      PROVE  P(k)
  <2> SUFFICES ASSUME NEW j \in 0 .. k PROVE long(j) \in 1 .. long(k)
    OBVIOUS
  <2>1. CASE k < 10
    <3>1. long(j) = 1 /\ long(k) = 1
      BY <1>1, <2>1
    <3> QED
      BY <3>1
  <2>2. CASE ~(k < 10)
    <3> DEFINE q == k \div 10
    <3>1. q \in 0 .. k - 1 /\ q \in Nat
      BY <2>2
    <3>2. long(k) = long(q) + 1 /\ long(q) \in Nat
      BY <1>1, <2>2, <3>1
    <3>3. CASE j < 10
      <4>1. long(j) = 1
        BY <1>1, <3>3
      <4> HIDE DEF q
      <4> QED
        BY <3>2, <4>1
    <3>4. CASE ~(j < 10)
      <4> DEFINE h == j \div 10
      <4>1. h \in 0 .. q /\ h \in Nat
        BY <3>4
      <4>2. long(j) = long(h) + 1
        BY <1>1, <3>4
      <4> HIDE DEF h, q
      <4>3. long(h) \in 1 .. long(q)
        BY <1>2, <3>1, <4>1
      <4> QED
        BY <3>2, <4>2, <4>3
    <3> QED
      BY <3>3, <3>4
  <2> QED
    BY <2>1, <2>2
<1> HIDE DEF P
<1>3. 0 \in S
  BY <1>2
<1>4. ASSUME NEW k \in Nat, k \in S PROVE k + 1 \in S
  <2>1. \A i \in 0 .. (k + 1) - 1 : P(i)
    BY <1>4
  <2>2. P(k + 1)
    BY <1>2, <2>1
  <2>3. \A i \in 0 .. k + 1 : i = k + 1 \/ i \in 0 .. (k + 1) - 1
    OBVIOUS
  <2> QED
    BY <2>1, <2>2, <2>3
<1> HIDE DEF S
<1>5. n \in S
  BY <1>3, <1>4, AllFollow
<1>6. P(n)
  BY <1>5 DEF S
<1> QED
  BY <1>6 DEF P, long

(* No character of a class is the one that stands for a read outside.      *)
LEMMA NoneOutside ==
  /\ "OUTSIDE" \notin HexDigits
  /\ "OUTSIDE" \notin Digits
  /\ "OUTSIDE" \notin WordChars
  /\ "OUTSIDE" \notin WordStart
  /\ "OUTSIDE" \notin Blanks \union Marks \union {NUL, NewLine, ";", Quote, "-", "0", "x", "X"}
<1>1. "OUTSIDE" \notin Digits
  BY DEF Digits
<1>2. "OUTSIDE" \notin HexDigits
  BY <1>1 DEF HexDigits
<1>3. "OUTSIDE" \notin WordStart
  BY DEF WordStart, Letters
<1>4. "OUTSIDE" \notin WordChars
  BY <1>1, <1>3 DEF WordChars
<1>5. "OUTSIDE" \notin Blanks \union Marks \union {NUL, NewLine, ";", Quote, "-", "0", "x", "X"}
  BY DEF Blanks, Marks, NUL, NewLine, Quote
<1> QED
  BY <1>1, <1>2, <1>3, <1>4, <1>5

(* A character of a class is at a place of the buffer.                     *)
LEMMA AtPlace ==
  ASSUME BufferInv, NEW p \in Nat, Char(p) # "OUTSIDE"
  PROVE  p \in 1 .. BufferSize /\ p + 1 \in 1 .. BufferSize + 1
         /\ Char(p) = buffer[p] /\ Char(p) \in Cell
  BY LexerAssumption DEF Char, BufferInv

(* A slice within the buffer.                                              *)
LEMMA SliceIs ==
  ASSUME BufferInv, NEW p \in 1 .. BufferSize + 1, NEW q \in p .. BufferSize + 1
  PROVE  /\ Slice(p, q) \in Seq(Cell) /\ Len(Slice(p, q)) = q - p
         /\ \A i \in 1 .. q - p : Slice(p, q)[i] = Char(p + i - 1)
<1>1. buffer \in Seq(Cell) /\ Len(buffer) = BufferSize /\ BufferSize \in Nat
      /\ DOMAIN buffer = 1 .. BufferSize
  BY LexerAssumption DEF BufferInv
<1>2. CASE q = p
  <2>1. Slice(p, q) = << >>
    BY <1>1, <1>2 DEF Slice
  <2> QED
    BY <1>1, <1>2, <2>1
<1>3. CASE q # p
  <2>1. p \in 1 .. BufferSize /\ q - 1 \in p .. BufferSize /\ (q - 1) - p + 1 = q - p
    BY <1>1, <1>3
  <2>2. Slice(p, q) \in Seq(Cell) /\ Len(Slice(p, q)) = q - p
    BY <1>1, <2>1 DEF Slice
  <2>3. ASSUME NEW i \in 1 .. q - p PROVE Slice(p, q)[i] = Char(p + i - 1)
    <3>1. i \in 1 .. (q - 1) - p + 1 /\ p + i - 1 \in 1 .. BufferSize
      BY <1>1, <2>1
    <3>2. Slice(p, q)[i] = buffer[p + i - 1]
      BY <1>1, <2>1, <3>1 DEF Slice
    <3> QED
      BY <1>1, <3>1, <3>2 DEF Char
  <2> QED
    BY <2>2, <2>3
<1> QED
  BY <1>2, <1>3

(* From any place of the buffer a run of characters of a class ends, and   *)
(* so does what is before one of a class: at its last place or before.     *)
LEMMA RunEnds ==
  ASSUME BufferInv, NEW s \in 1 .. BufferSize + 1, NEW class, "OUTSIDE" \notin class
  PROVE  /\ After(s, class) \in s .. BufferSize + 1
         /\ Slice(s, After(s, class)) \in Seq(class)
         /\ Slice(s, After(s, class)) \in Seq(Cell)
         /\ Len(Slice(s, After(s, class))) = After(s, class) - s
<1> DEFINE S == {q \in s .. BufferSize + 1 : Char(q) \notin class}
           a == After(s, class)
<1>1. BufferSize \in Nat /\ BufferSize + 1 \in S
  BY LexerAssumption DEF Char, BufferInv
<1>2. PICK x \in S : \A y \in S : x <= y
  <2>1. S \in SUBSET Nat
    BY <1>1
  <2> QED
    BY <1>1, <2>1, LeastOf
<1>3. x \in s .. BufferSize + 1 /\ Char(x) \notin class /\ \A i \in s .. x - 1 : Char(i) \in class
  BY <1>1, <1>2
<1>4. a \in s .. BufferSize + 1 /\ \A i \in s .. a - 1 : Char(i) \in class
  BY <1>3 DEF After
<1> HIDE DEF a
<1>5. Slice(s, a) \in Seq(Cell) /\ Len(Slice(s, a)) = a - s
  BY <1>4, SliceIs
<1>6. ASSUME NEW i \in 1 .. a - s PROVE Slice(s, a)[i] \in class
  <2>1. s + i - 1 \in s .. a - 1
    BY <1>1, <1>4
  <2>2. Slice(s, a)[i] = Char(s + i - 1)
    BY <1>4, SliceIs
  <2> QED
    BY <1>4, <2>1, <2>2
<1>7. Slice(s, a) \in Seq(class)
  <2> DEFINE t == Slice(s, a)
             m == a - s
  <2>1. t \in Seq(Cell) /\ Len(t) = m /\ \A i \in 1 .. m : t[i] \in class
    BY <1>5, <1>6
  <2> HIDE DEF t, m
  <2> QED
    BY <2>1 DEF t
<1> QED
  BY <1>4, <1>5, <1>7 DEF a

LEMMA UntilEnds ==
  ASSUME BufferInv, NEW s \in 1 .. BufferSize + 1, NEW class
  PROVE  Until(s, class) \in s .. BufferSize + 1
<1> DEFINE Stop == class \union {NUL, "OUTSIDE"}
           S == {q \in s .. BufferSize + 1 : Char(q) \in Stop}
<1>1. BufferSize \in Nat /\ BufferSize + 1 \in S
  BY LexerAssumption DEF Char, BufferInv
<1>2. PICK x \in S : \A y \in S : x <= y
  <2>1. S \in SUBSET Nat
    BY <1>1
  <2> QED
    BY <1>1, <2>1, LeastOf
<1>3. x \in s .. BufferSize + 1 /\ Char(x) \in Stop /\ \A i \in s .. x - 1 : Char(i) \notin Stop
  BY <1>1, <1>2
<1> QED
  BY <1>3 DEF Until

(* What is cut fits its buffer.                                            *)
LEMMA CutFits ==
  ASSUME NEW S, NEW str \in Seq(S), NEW spare \in 1 .. 3
  PROVE  Cut(str, spare) \in Seq(S) /\ Len(Cut(str, spare)) \in Nat
         /\ Len(Cut(str, spare)) < MaxTokenLen
<1> DEFINE M == {Len(str), MaxTokenLen - spare}
<1>1. M \in SUBSET Nat /\ M # {} /\ MaxTokenLen - spare < MaxTokenLen /\ MaxTokenLen \in Nat
  BY LexerAssumption
<1>2. Min(M) \in Nat /\ Min(M) <= Len(str) /\ Min(M) <= MaxTokenLen - spare
  BY <1>1, MinIsLeast
<1>3. Cut(str, spare) = SubSeq(str, 1, Min(M))
  BY DEF Cut
<1> HIDE DEF M
<1> DEFINE m == Min(M)
<1> HIDE DEF m
<1>4. m \in Nat /\ m <= Len(str) /\ m < MaxTokenLen
  BY <1>1, <1>2 DEF m
<1>5. SubSeq(str, 1, m) \in Seq(S) /\ Len(SubSeq(str, 1, m)) = m
  <2>1. m = 0 \/ m \in 1 .. Len(str)
    BY <1>4
  <2> QED
    BY <1>4, <2>1
<1> QED
  BY <1>3, <1>4, <1>5 DEF m

(* The text of a number written from its value fits, with its sign.        *)
LEMMA WrittenFits ==
  ASSUME NEW n \in 0 .. LongMax
  PROVE  /\ itostr[n] \in Seq(Signs) /\ Len(itostr[n]) < MaxTokenLen
         /\ <<"-">> \o itostr[n] \in Seq(Signs)
         /\ Len(<<"-">> \o itostr[n]) \in Nat /\ Len(<<"-">> \o itostr[n]) < MaxTokenLen
<1>1. ASSUME NEW m \in Nat
      PROVE  /\ itostr[m] \in Seq(Signs) /\ <<"-">> \o itostr[m] \in Seq(Signs)
             /\ Len(<<"-">> \o itostr[m]) = 1 + Len(itostr[m])
  <2>1. itostr[m] \in Seq(Digits)
    BY ItostrIs
  <2>2. itostr[m] \in Seq(Signs)
    BY <2>1 DEF Signs
  <2>3. <<"-">> \in Seq(Signs) /\ Len(<<"-">>) = 1
    BY DEF Signs
  <2> HIDE DEF Signs
  <2> DEFINE a == itostr[m]
             b == <<"-">>
  <2> HIDE DEF a, b
  <2>4. b \o a \in Seq(Signs) /\ Len(b \o a) = Len(b) + Len(a)
    BY <2>2, <2>3 DEF a, b
  <2> QED
    BY <2>2, <2>3, <2>4 DEF a, b
<1>2. Len(itostr[n]) \in 1 .. Len(itostr[LongMax])
  BY LexerAssumption, ItostrGrows
<1>3. n \in Nat /\ LongMax \in Nat /\ MaxTokenLen \in Nat
  BY LexerAssumption
<1>4. 1 + Len(itostr[LongMax]) < MaxTokenLen
  BY <1>1, <1>3, FitAssumption
<1>5. itostr[LongMax] \in Seq(Signs)
  BY <1>1, <1>3
<1>6. Len(itostr[LongMax]) \in Nat
  BY <1>5
<1> QED
  BY <1>1, <1>2, <1>3, <1>4, <1>6

(* A step that adds a token keeps the types if the token has its own.      *)
LEMMA EmitKeepsTypes ==
  ASSUME TypeInv, at = "line", NEW type \in TokenTypes \ {"HEAD"}, NEW str \in Seq(Signs),
         Len(str) < MaxTokenLen, NEW next \in Nat, Emit(Tok(type, str), next)
  PROVE  TypeInv'
<1> DEFINE tok == Tok(type, str)
<1>1. tok \in TokenSet /\ tok.type = type /\ tok.str = str
  BY DEF Tok, TokenSet
<1>2. /\ tokens' = Append(tokens, tok) /\ ptr' = next
      /\ UNCHANGED <<text, read, buffer, at>>
  BY DEF Emit
<1>3. tokens \in Seq(TokenSet) /\ tokens # << >>
  BY DEF TypeInv
<1> HIDE DEF tok
<1>4. /\ tokens' \in Seq(TokenSet) /\ tokens' # << >>
      /\ DOMAIN tokens' = 1 .. Len(tokens) + 1 /\ Len(tokens) \in Nat \ {0}
      /\ DOMAIN tokens = 1 .. Len(tokens)
      /\ \A k \in 1 .. Len(tokens) : tokens'[k] = tokens[k]
      /\ tokens'[Len(tokens) + 1] = tok
  BY <1>1, <1>2, <1>3
<1>5. ASSUME NEW k \in DOMAIN tokens'
      PROVE  /\ tokens'[k].type \in TokenTypes
             /\ Len(tokens'[k].str) < MaxTokenLen
             /\ tokens'[k].type = "HEAD" <=> k = 1
  <2>1. CASE k \in 1 .. Len(tokens)
    BY <1>4, <2>1 DEF TypeInv, LexerTypeOK
  <2>2. CASE k = Len(tokens) + 1
    <3>1. k # 1
      BY <1>4, <2>2
    <3> QED
      BY <1>1, <1>4, <2>2, <3>1
  <2> QED
    BY <1>4, <2>1, <2>2
<1>6. LexerTypeOK'
  BY <1>2, <1>5 DEF TypeInv, LexerTypeOK
<1> QED
  BY <1>2, <1>4, <1>6 DEF TypeInv, BufferInv

(* A step that only moves or leaves keeps them too.                        *)
LEMMA MoveKeepsTypes ==
  ASSUME TypeInv, at = "line", ptr' \in Nat, at' \in {"file", "line"} \union Ends,
         UNCHANGED <<text, read, buffer, tokens>>
  PROVE  TypeInv'
  BY DEF TypeInv, BufferInv, LexerTypeOK

(* Every iteration of lexer()'s loop keeps the types: what is looked ahead *)
(* at is at most one place behind the buffer, and every text fits.         *)
LEMMA LexemeKeepsTypes ==
  ASSUME TypeInv, at = "line", Lexeme
  PROVE  TypeInv'
<1>1. /\ BufferInv /\ BufferSize \in Nat /\ MaxTokenLen \in Nat /\ MaxTokenLen > 3
      /\ ptr \in Nat
  BY LexerAssumption DEF TypeInv, LexerTypeOK
<1>2. Char(ptr) # "OUTSIDE"
        => ptr \in 1 .. BufferSize /\ ptr + 1 \in 1 .. BufferSize + 1 /\ ptr + 1 \in Nat
           /\ ptr \in 1 .. BufferSize + 1
  BY <1>1, AtPlace
<1>3. Char(ptr + 1) # "OUTSIDE" => ptr + 2 \in 1 .. BufferSize + 1
  <2>1. ptr + 1 \in Nat /\ (ptr + 1) + 1 = ptr + 2
    BY <1>1
  <2> QED
    BY <1>1, <2>1, AtPlace
<1>4. Seq(Cell) \subseteq Seq(Signs) /\ Seq(Digits) \subseteq Seq(HexDigits)
  <2>1. Cell \subseteq Signs /\ Digits \subseteq HexDigits
    BY DEF Signs, HexDigits
  <2> QED
    BY <2>1
<1>5. (Word \in Seq(Cell) /\ Len(Word) \in Nat) \/ Char(ptr) = "OUTSIDE"
  <2>1. CASE Char(ptr) # "OUTSIDE"
    <3>1. Slice(ptr, After(ptr, WordChars)) \in Seq(Cell)
      BY <1>1, <1>2, <2>1, RunEnds, NoneOutside
    <3> QED
      BY <3>1 DEF Word
  <2> QED
    BY <2>1
<1>6. {"NEWLINE", "COLON", "PERIOD", "COMMA", "L_BRACE", "R_BRACE", "STRING_LITERAL",
       "NUMBER", "NEGATIVE_NUMBER", "REGISTER", "INSTRUCTION", "IMPORT", "EXPORT", "FROM",
       "LABEL"} \subseteq TokenTypes \ {"HEAD"}
  BY DEF TokenTypes
<1>7. CASE Newline
  <2> DEFINE str == <<NewLine>>
  <2>1. str \in Seq(Signs) /\ Len(str) < MaxTokenLen
    BY <1>1 DEF Signs
  <2>2. "NEWLINE" \in TokenTypes \ {"HEAD"} /\ ptr + 1 \in Nat
    BY <1>1, <1>6
  <2>3. Emit(Tok("NEWLINE", str), ptr + 1)
    BY <1>7 DEF Newline
  <2> HIDE DEF str
  <2> QED
    BY <2>1, <2>2, <2>3, EmitKeepsTypes
<1>8. CASE Blank \/ Comment
  <2>1. ptr' \in Nat /\ UNCHANGED <<text, read, buffer, tokens, at>>
    <3>1. CASE Blank
      BY <1>1, <3>1 DEF Blank, Skip
    <3>2. CASE Comment
      <4>1. Char(ptr) # "OUTSIDE"
        BY <3>2, NoneOutside DEF Comment, At
      <4>2. Until(ptr, {NewLine}) \in ptr .. BufferSize + 1
        BY <1>1, <1>2, <4>1, UntilEnds
      <4>3. ptr' = Until(ptr, {NewLine}) /\ UNCHANGED <<text, read, buffer, tokens, at>>
        BY <3>2 DEF Comment, Skip
      <4> QED
        BY <1>1, <4>2, <4>3
    <3> QED
      BY <1>8, <3>1, <3>2
  <2> QED
    BY <2>1, MoveKeepsTypes
<1>9. CASE Mark
  <2> DEFINE c == Char(ptr)
  <2>1. c \in Marks
    BY <1>9 DEF Mark, At
  <2>2. MarkType(c) \in TokenTypes \ {"HEAD"}
    BY <2>1, <1>6 DEF Marks, MarkType
  <2>3. <<c>> \in Seq(Signs) /\ Len(<<c>>) = 1
    BY <2>1 DEF Signs
  <2>4. Emit(Tok(MarkType(c), <<c>>), ptr + 1) /\ ptr + 1 \in Nat
    BY <1>1, <1>9 DEF Mark
  <2> HIDE DEF c
  <2> QED
    BY <1>1, <2>2, <2>3, <2>4, EmitKeepsTypes
<1>10. CASE StringLiteral
  <2> DEFINE e == StringEnd
             str == Cut(Slice(ptr + 1, e), 1)
  <2>1. Char(ptr) # "OUTSIDE" /\ Char(e) # "OUTSIDE"
    BY <1>10, NoneOutside DEF StringLiteral, At
  <2>2. e \in ptr + 1 .. BufferSize + 1
    BY <1>1, <1>2, <2>1, UntilEnds DEF StringEnd
  <2> HIDE DEF e
  <2>3. Slice(ptr + 1, e) \in Seq(Cell) /\ e + 1 \in Nat
    BY <1>1, <1>2, <2>1, <2>2, SliceIs
  <2>4. str \in Seq(Cell) /\ Len(str) < MaxTokenLen
    BY <2>3, CutFits
  <2>5. Emit(Tok("STRING_LITERAL", str), e + 1)
    BY <1>10 DEF StringLiteral, e
  <2>6. "STRING_LITERAL" \in TokenTypes \ {"HEAD"} /\ str \in Seq(Signs)
    BY <1>4, <1>6, <2>4
  <2> HIDE DEF str
  <2> QED
    BY <2>3, <2>4, <2>5, <2>6, EmitKeepsTypes
<1>11. CASE UnterminatedString \/ OverlongString \/ UnknownCharacter
  <2>1. ptr' = ptr /\ at' \in Ends /\ UNCHANGED <<text, read, buffer, tokens>>
    BY <1>11 DEF UnterminatedString, OverlongString, UnknownCharacter, Leave, Ends
  <2> QED
    BY <1>1, <2>1, MoveKeepsTypes
<1>12. CASE Hexadecimal
  <2> DEFINE run == Slice(ptr + 2, After(ptr + 2, HexDigits))
             digits == Cut(run, 3)
             str == itostr[Strtol(digits, 16)]
  <2>1. Char(ptr + 1) # "OUTSIDE"
    BY <1>12, NoneOutside DEF Hexadecimal, IsHex
  <2>2. run \in Seq(HexDigits)
    BY <1>1, <1>3, <2>1, RunEnds, NoneOutside
  <2> HIDE DEF run
  <2>3. digits \in Seq(HexDigits) /\ Len(digits) \in Nat
    BY <2>2, CutFits
  <2>4. Emit(Tok("NUMBER", str), ptr + 2 + Len(digits))
    BY <1>12 DEF Hexadecimal, run
  <2> HIDE DEF digits
  <2>5. Strtol(digits, 16) \in 0 .. LongMax
    BY <2>3, StrtolFits
  <2>6. str \in Seq(Signs) /\ Len(str) < MaxTokenLen
    BY <2>5, WrittenFits
  <2>7. "NUMBER" \in TokenTypes \ {"HEAD"} /\ ptr + 2 + Len(digits) \in Nat
    BY <1>1, <1>6, <2>3
  <2> HIDE DEF str
  <2> QED
    BY <2>4, <2>6, <2>7, EmitKeepsTypes
<1>13. CASE Decimal
  <2> DEFINE run == Slice(ptr, After(ptr, Digits))
             digits == Cut(run, 1)
  <2>1. Char(ptr) # "OUTSIDE"
    BY <1>13, NoneOutside DEF Decimal, At
  <2>2. run \in Seq(Cell)
    BY <1>1, <1>2, <2>1, RunEnds, NoneOutside
  <2> HIDE DEF run
  <2>3. digits \in Seq(Cell) /\ Len(digits) \in Nat /\ Len(digits) < MaxTokenLen
    BY <2>2, CutFits
  <2>4. Emit(Tok("NUMBER", digits), ptr + Len(digits))
    BY <1>13 DEF Decimal, run
  <2> HIDE DEF digits
  <2>5. "NUMBER" \in TokenTypes \ {"HEAD"} /\ digits \in Seq(Signs)
        /\ ptr + Len(digits) \in Nat
    BY <1>1, <1>4, <1>6, <2>3
  <2> QED
    BY <2>3, <2>4, <2>5, EmitKeepsTypes
<1>14. CASE Negative
  <2> DEFINE run == Slice(ptr + 1, After(ptr + 1, Digits))
             digits == Cut(run, 1)
             value == Strtol(digits, 10)
             str == NegativeText
  <2>1. Char(ptr) # "OUTSIDE"
    BY <1>14, NoneOutside DEF Negative, At
  <2>2. run \in Seq(Digits)
    BY <1>1, <1>2, <2>1, RunEnds, NoneOutside
  <2> HIDE DEF run
  <2>3. digits \in Seq(HexDigits)
    BY <1>4, <2>2, CutFits
  <2> HIDE DEF digits
  <2>4. value \in 0 .. LongMax
    BY <2>3, StrtolFits
  <2>5. str = <<"-">> \o itostr[value]
    BY DEF NegativeText, run, digits
  <2> HIDE DEF value, str
  <2>6. str \in Seq(Signs) /\ Len(str) \in Nat /\ Len(str) < MaxTokenLen
    BY <2>4, <2>5, WrittenFits
  <2>7. Emit(Tok("NEGATIVE_NUMBER", str), ptr + Len(str) + 1)
    BY <1>14 DEF Negative, str
  <2>8. "NEGATIVE_NUMBER" \in TokenTypes \ {"HEAD"} /\ ptr + Len(str) + 1 \in Nat
    BY <1>1, <1>6, <2>6
  <2> QED
    BY <2>6, <2>7, <2>8, EmitKeepsTypes
<1>15. CASE Register \/ Instruction \/ Identifier
  <2>1. Char(ptr) # "OUTSIDE"
    BY <1>15, NoneOutside DEF Register, Instruction, Identifier, At
  <2>2. Word \in Seq(Cell) /\ Word \in Seq(Signs) /\ ptr + Len(Word) \in Nat
    BY <1>1, <1>4, <1>5, <2>1
  <2>3. Cut(Word, 1) \in Seq(Signs) /\ Len(Cut(Word, 1)) < MaxTokenLen
    BY <2>2, CutFits
  <2>4. CASE Register
    <3>1. Len(Word) < MaxTokenLen /\ Emit(Tok("REGISTER", Word), ptr + Len(Word))
      BY <2>4, FitAssumption DEF Register
    <3> QED
      BY <1>6, <2>2, <3>1, EmitKeepsTypes
  <2>5. CASE Instruction
    <3>1. Len(Word) < MaxTokenLen /\ Emit(Tok("INSTRUCTION", Word), ptr + Len(Word))
      BY <2>5, FitAssumption DEF Instruction
    <3> QED
      BY <1>6, <2>2, <3>1, EmitKeepsTypes
  <2>6. CASE Identifier
    <3> DEFINE type == ReservedType(Cut(Word, 1))
               str == Cut(Word, 1)
    <3>1. Emit(Tok(type, str), ptr + Len(Word))
      BY <2>6 DEF Identifier
    <3>2. type \in TokenTypes \ {"HEAD"}
      BY <1>6 DEF ReservedType
    <3> HIDE DEF type
    <3> QED
      BY <2>2, <2>3, <3>1, <3>2, EmitKeepsTypes
  <2> QED
    BY <1>15, <2>4, <2>5, <2>6
<1> QED
  BY <1>7, <1>8, <1>9, <1>10, <1>11, <1>12, <1>13, <1>14, <1>15 DEF Lexeme

(* fgets reads no more than there is, and allocates the head once.         *)
LEMMA ReadLineKeepsTypes ==
  ASSUME TypeInv, LineInv, LineInv', ReadLine
  PROVE  TypeInv'
<1>1. /\ text \in Seq(STRING) /\ read \in 0 .. Len(text) /\ Len(text) \in Nat
      /\ tokens \in Seq(TokenSet)
  BY DEF TypeInv, BufferInv, LexerTypeOK
<1>2. read' \in 0 .. Len(text)
  <2>1. Unread \in Seq(STRING) /\ Len(Unread) = Len(text) - read
    BY <1>1 DEF Unread
  <2> DEFINE S == {Len(Unread), BufferSize - 1}
                  \union {i \in DOMAIN Unread : Unread[i] = NewLine}
  <2>2. S \in SUBSET Nat /\ Len(Unread) \in S
    BY <2>1, LexerAssumption
  <2>3. LineLength \in Nat /\ LineLength <= Len(Unread)
    BY <2>2, MinIsLeast DEF LineLength
  <2>4. read' = read + LineLength
    BY DEF ReadLine
  <2> QED
    BY <1>1, <2>1, <2>3, <2>4
<1>3. /\ ptr' = 1 /\ at' = "line" /\ text' = text
      /\ tokens' = IF tokens = << >> THEN <<Tok("HEAD", << >>)>> ELSE tokens
  BY DEF ReadLine
<1>4. /\ tokens' \in Seq(TokenSet) /\ tokens' # << >>
      /\ \A k \in DOMAIN tokens' :
           /\ tokens'[k].type \in TokenTypes
           /\ Len(tokens'[k].str) < MaxTokenLen
           /\ tokens'[k].type = "HEAD" <=> k = 1
  <2>1. CASE tokens = << >>
    <3> DEFINE tok == Tok("HEAD", << >>)
    <3>1. tok.type = "HEAD" /\ tok.str = << >> /\ tok \in TokenSet
      BY DEF Tok, TokenSet, TokenTypes
    <3>2. tokens' = <<tok>>
      BY <1>3, <2>1
    <3>3. "HEAD" \in TokenTypes /\ Len(<< >>) = 0 /\ 0 < MaxTokenLen
      BY LexerAssumption DEF TokenTypes
    <3> HIDE DEF tok
    <3> QED
      BY <3>1, <3>2, <3>3
  <2>2. CASE tokens # << >>
    BY <1>1, <1>3, <2>2 DEF TypeInv, LexerTypeOK
  <2> QED
    BY <2>1, <2>2
<1>5. BufferInv'
  BY DEF LineInv
<1> QED
  BY <1>2, <1>3, <1>4, <1>5 DEF TypeInv, LexerTypeOK, BufferInv

(* The types hold of a lexer that begins, and every step keeps them.       *)
LEMMA OpenedTypes ==
  ASSUME text \in Seq(STRING), Opened
  PROVE  TypeInv
<1>1. BufferInv
  BY OpenedInLine DEF LineInv
<1>2. tokens = << >> /\ at = "file" /\ ptr = 1 /\ read = 0
  BY DEF Opened
<1>3. read \in 0 .. Len(text)
  BY <1>1, <1>2 DEF BufferInv
<1>4. tokens \in Seq(TokenSet) /\ DOMAIN tokens = {}
  BY <1>2
<1> QED
  BY <1>1, <1>2, <1>3, <1>4 DEF TypeInv, LexerTypeOK, BufferInv

LEMMA TypeInvNext ==
  ASSUME TypeInv, LineInv, LineInv', [Next]_vars
  PROVE  TypeInv'
<1>1. CASE ReadLine
  BY <1>1, ReadLineKeepsTypes
<1>2. CASE Lexeme
  <2>1. at = "line"
    BY <1>2 DEF Lexeme, Newline, Blank, Mark, Comment, StringLiteral,
      UnterminatedString, OverlongString, Hexadecimal, Decimal, Negative, Register,
      Instruction, Identifier, UnknownCharacter, At
  <2> QED
    BY <1>2, <2>1, LexemeKeepsTypes
<1>3. CASE EndOfLine \/ LeaveBuffer
  <2>1. /\ at = "line" /\ at' \in {"file"} \union Ends
        /\ UNCHANGED <<text, read, buffer, ptr, tokens>>
    BY <1>3 DEF EndOfLine, LeaveBuffer, At, Leave, Ends
  <2>2. ptr' \in Nat
    BY <2>1 DEF TypeInv, LexerTypeOK
  <2> QED
    BY <2>1, <2>2, MoveKeepsTypes
<1>4. CASE EndOfFile
  BY <1>4 DEF EndOfFile, Leave, TypeInv, BufferInv, LexerTypeOK, Ends
<1>5. CASE Terminated \/ UNCHANGED vars
  BY <1>5 DEF Terminated, vars, TypeInv, BufferInv, LexerTypeOK
<1> QED
  BY <1>1, <1>2, <1>3, <1>4, <1>5 DEF Next, Step

(* For every text and all sizes of buffers, every token of the lexer has a *)
(* type and a text that fits its buffer, also when the pointer has moved   *)
(* past the line: what is written back from a number's value is as long as *)
(* a long allows, and every other text is cut or is one of the tables'.    *)
THEOREM LexerTypeCorrect == Spec => []LexerTypeOK
<1>1. Init => TypeInv
  BY OpenedTypes, LexerAssumption DEF Init
<1>2. TypeInv /\ LineInv /\ LineInv' /\ [Next]_vars => TypeInv'
  BY TypeInvNext
<1>3. TypeInv => LexerTypeOK
  BY DEF TypeInv
<1> QED
  BY <1>1, <1>2, <1>3, LineInvInit, LineInvNext, PTL DEF Spec

---------------------------------------------------------------------------
(* The lexer against the grammar.  A source is a sequence of lexemes, and  *)
(* the text is what they are written as.                                   *)
LexemeSet == [is : STRING, text : Seq(STRING)]

FileInv == lexemes \in Sources /\ text = Written(lexemes)

(* What is written, up to the lexeme before l.                             *)
LEMMA WrittenTo ==
  ASSUME NEW ls \in Seq(LexemeSet)
  PROVE  \E g \in Growths(STRING, Len(ls), [i \in 1 .. Len(ls) |-> ls[i].text]) :
           \A m \in 0 .. Len(ls) : Written(SubSeq(ls, 1, m)) = g[m]
<1> DEFINE n == Len(ls)
           f == [i \in 1 .. n |-> ls[i].text]
<1>1. n \in Nat /\ \A i \in 1 .. n : ls[i] \in LexemeSet
  OBVIOUS
<1>2. f \in ListsOf(STRING, n)
  <2>1. \A i \in 1 .. n : ls[i].text \in Seq(STRING)
    BY <1>1 DEF LexemeSet
  <2> QED
    BY <2>1 DEF ListsOf
<1>3. PICK g \in Growths(STRING, n, f) : TRUE
  <2> HIDE DEF f, n
  <2> QED
    BY <1>1, <1>2, GrowthExists
<1>4. ASSUME NEW m \in 0 .. n PROVE Written(SubSeq(ls, 1, m)) = g[m]
  <2> DEFINE s == SubSeq(ls, 1, m)
  <2>1. DOMAIN s = 1 .. m /\ \A i \in 1 .. m : s[i] = ls[i]
    <3>1. m = 0 \/ m \in 1 .. n
      BY <1>1
    <3> QED
      BY <3>1
  <2> HIDE DEF s
  <2>2. [i \in DOMAIN s |-> s[i].text] = FirstOf(f, m)
    BY <2>1 DEF FirstOf
  <2>3. Flattened(FirstOf(f, m)) = g[m]
    <3> HIDE DEF f, n
    <3>1. g \in Growths(STRING, n, f)
      BY <1>3
    <3>2. n \in Nat
      BY <1>1
    <3> QED
      BY <3>1, <3>2, <1>2, Concatenation
  <2>4. Written(s) = Flattened([i \in DOMAIN s |-> s[i].text])
    BY DEF Written, FlattenSeq, Flattened
  <2> QED
    BY <2>2, <2>3, <2>4 DEF s
<1> QED
  BY <1>4

(* Where the lexemes stand in the text.                                    *)
LEMMA LexemesStand ==
  ASSUME FileInv
  PROVE  /\ lexemes \in Seq(LexemeSet)
         /\ text \in Seq(STRING)
         /\ Starts(1) = 1
         /\ Starts(Len(lexemes) + 1) = Len(text) + 1
         /\ \A i \in 1 .. Len(lexemes) :
              /\ Starts(i) \in 1 .. Len(text) + 1
              /\ Starts(i + 1) \in 1 .. Len(text) + 1
              /\ Starts(i + 1) = Starts(i) + Len(lexemes[i].text)
              /\ \A k \in 1 .. Len(lexemes[i].text) :
                   text[Starts(i) + k - 1] = lexemes[i].text[k]
<1> DEFINE n == Len(lexemes)
           f == [i \in 1 .. n |-> lexemes[i].text]
<1>1. lexemes \in Seq(LexemeSet) /\ n \in Nat /\ \A i \in 1 .. n : lexemes[i] \in LexemeSet
  <2>1. lexemes \in Seq(LexemeSet)
    BY SourcesAssumption DEF FileInv, LexemeSet
  <2> QED
    BY <2>1
<1>2. PICK g \in Growths(STRING, n, f) :
        \A m \in 0 .. n : Written(SubSeq(lexemes, 1, m)) = g[m]
  BY <1>1, WrittenTo
<1>3. f \in ListsOf(STRING, n)
  <2>1. \A i \in 1 .. n : lexemes[i].text \in Seq(STRING)
    BY <1>1 DEF LexemeSet
  <2> QED
    BY <2>1 DEF ListsOf
<1>4. /\ g[0] = << >>
      /\ \A k \in 0 .. n : g[k] \in Seq(STRING)
      /\ \A k \in 1 .. n : Len(g[k]) = Len(g[k - 1]) + Len(f[k])
      /\ \A m \in 0 .. n : \A k \in 1 .. m :
           /\ Len(g[k]) <= Len(g[m])
           /\ \A j \in 1 .. Len(f[k]) : g[m][Len(g[k - 1]) + j] = f[k][j]
  <2> HIDE DEF f, n
  <2>1. g \in Growths(STRING, n, f)
    BY <1>2
  <2>2. n \in Nat
    BY <1>1
  <2>3. Stand(STRING, n, f, g)
    BY <1>3, <2>1, <2>2, GrowthPlaces
  <2> QED
    BY <2>3 DEF Stand
<1>5. text = g[n]
  <2>1. SubSeq(lexemes, 1, n) = lexemes /\ n \in 0 .. n
    BY <1>1
  <2> HIDE DEF n, f
  <2>2. Written(SubSeq(lexemes, 1, n)) = g[n]
    BY <1>2, <2>1
  <2>3. Written(SubSeq(lexemes, 1, n)) = Written(lexemes)
    BY <2>1
  <2> QED
    BY <2>2, <2>3 DEF FileInv
<1>6. \A m \in 0 .. n : Starts(m + 1) = Len(g[m]) + 1
  <2> TAKE m \in 0 .. n
  <2>1. (m + 1) - 1 = m
    BY <1>1
  <2> QED
    BY <1>2, <2>1 DEF Starts
<1> HIDE DEF n
<1>7. Starts(1) = 1
  <2>1. 0 \in 0 .. n /\ 0 + 1 = 1
    BY <1>1
  <2>2. Starts(0 + 1) = Len(g[0]) + 1
    BY <1>6, <2>1
  <2>3. Len(g[0]) = 0
    BY <1>4
  <2> QED
    BY <2>1, <2>2, <2>3
<1>8. Starts(n + 1) = Len(text) + 1
  BY <1>1, <1>5, <1>6
<1>9. ASSUME NEW i \in 1 .. n
      PROVE  /\ Starts(i) \in 1 .. Len(text) + 1
             /\ Starts(i + 1) \in 1 .. Len(text) + 1
             /\ Starts(i + 1) = Starts(i) + Len(lexemes[i].text)
             /\ \A k \in 1 .. Len(lexemes[i].text) :
                  text[Starts(i) + k - 1] = lexemes[i].text[k]
  <2> DEFINE a == Len(g[i - 1])
             b == Len(g[i])
             c == Len(text)
             d == Len(f[i])
  <2>1. /\ i - 1 \in 0 .. n /\ (i - 1) + 1 = i /\ i \in 0 .. n /\ n \in 0 .. n
        /\ f[i] = lexemes[i].text
    BY <1>1
  <2>2. a \in Nat /\ b \in Nat /\ c \in Nat /\ d \in Nat
    BY <1>3, <1>4, <1>5, <2>1
  <2>3. Starts(i) = a + 1 /\ Starts(i + 1) = b + 1
    BY <1>6, <2>1
  <2>4. b = a + d /\ b <= c /\ \A j \in 1 .. d : text[a + j] = f[i][j]
    <3> HIDE DEF f
    <3> QED
      BY <1>4, <1>5, <2>1
  <2>5. d = Len(lexemes[i].text)
    BY <2>1
  <2> HIDE DEF a, b, c, d, f
  <2>6. Starts(i) \in 1 .. c + 1 /\ Starts(i + 1) \in 1 .. c + 1 /\ Starts(i + 1) = Starts(i) + d
    BY <2>2, <2>3, <2>4
  <2>7. ASSUME NEW k \in 1 .. d PROVE text[Starts(i) + k - 1] = lexemes[i].text[k]
    <3>1. Starts(i) + k - 1 = a + k
      BY <2>2, <2>3
    <3> QED
      BY <2>1, <2>4, <3>1
  <2> QED
    BY <2>5, <2>6, <2>7 DEF c
<1>10. text \in Seq(STRING)
  BY <1>1, <1>4, <1>5
<1> QED
  BY <1>1, <1>7, <1>8, <1>9, <1>10 DEF n

(* A lexeme has one token or none.                                         *)
LEMMA OneToken ==
  ASSUME NEW l
  PROVE  Meant(l) = << >> \/ \E t : Meant(l) = <<t>>
  BY DEF Meant

(* The tokens of the first lexemes, one lexeme at a time.                  *)
LEMMA TokensAre ==
  ASSUME FileInv
  PROVE  /\ TokensTo(0) = <<Tok("HEAD", << >>)>>
         /\ \A i \in 1 .. Len(lexemes) : TokensTo(i) = TokensTo(i - 1) \o TokensOf(i)
         /\ TokensMeant = IF lexemes = << >> THEN << >> ELSE TokensTo(Len(lexemes))
         /\ \A i \in 0 .. Len(lexemes) : TokensTo(i) # << >>
<1> DEFINE n == Len(lexemes)
           f == [i \in 1 .. n |-> TokensOf(i)]
           H == Tok("HEAD", << >>)
           S == {H} \union {TokensOf(i)[1] : i \in 1 .. n}
<1>1. n \in Nat /\ DOMAIN lexemes = 1 .. n
  BY LexemesStand
<1>2. f \in ListsOf(S, n)
  <2>1. ASSUME NEW i \in 1 .. n PROVE TokensOf(i) \in Seq(S)
    <3>1. TokensOf(i) = << >> \/ \E t : TokensOf(i) = <<t>>
      BY OneToken DEF TokensOf
    <3>2. ASSUME NEW t, TokensOf(i) = <<t>> PROVE TokensOf(i) \in Seq(S)
      <4>1. TokensOf(i)[1] = t /\ TokensOf(i)[1] \in S
        BY <3>2
      <4> QED
        BY <3>2, <4>1
    <3> HIDE DEF S
    <3>3. << >> \in Seq(S)
      OBVIOUS
    <3> QED
      BY <3>1, <3>2, <3>3, Zenon
  <2> HIDE DEF S
  <2> QED
    BY <2>1 DEF ListsOf
<1> HIDE DEF S, f
<1>3. PICK g \in Growths(S, n, f) : TRUE
  BY <1>1, <1>2, GrowthExists
<1>4. Stand(S, n, f, g)
  <2>1. g \in Growths(S, n, f) /\ n \in Nat
    BY <1>1, <1>3
  <2> QED
    BY <1>2, <2>1, GrowthPlaces
<1>5. ASSUME NEW m \in 0 .. n PROVE TokensTo(m) = <<H>> \o g[m]
  <2>1. g \in Growths(S, n, f) /\ n \in Nat
    BY <1>1, <1>3
  <2>2. Flattened(FirstOf(f, m)) = g[m]
    BY <1>2, <2>1, Concatenation
  <2>3. [j \in 1 .. m |-> TokensOf(j)] = FirstOf(f, m)
    BY <1>1 DEF FirstOf, f
  <2>4. FlattenSeq([j \in 1 .. m |-> TokensOf(j)])
          = Flattened([j \in 1 .. m |-> TokensOf(j)])
    BY DEF FlattenSeq, Flattened
  <2> QED
    BY <2>2, <2>3, <2>4 DEF TokensTo
<1>6. TokensTo(0) = <<H>>
  <2>1. 0 \in 0 .. n /\ g[0] = << >>
    BY <1>1, <1>4 DEF Stand
  <2>2. <<H>> \o << >> = <<H>>
    OBVIOUS
  <2> HIDE DEF H
  <2> QED
    BY <1>5, <2>1, <2>2
<1>7. ASSUME NEW i \in 1 .. n PROVE TokensTo(i) = TokensTo(i - 1) \o TokensOf(i)
  <2> DEFINE s == <<H>>
             t == g[i - 1]
             u == f[i]
  <2>1. i \in 0 .. n /\ i - 1 \in 0 .. n
    BY <1>1
  <2>2. g[i] = t \o u /\ t \in Seq(S)
    BY <1>4, <2>1 DEF Stand
  <2>3. u = TokensOf(i) /\ u \in Seq(S)
    BY <1>2 DEF f, ListsOf
  <2>4. s \in Seq(S)
    BY DEF S
  <2>5. TokensTo(i) = s \o g[i] /\ TokensTo(i - 1) = s \o t
    BY <1>5, <2>1
  <2> HIDE DEF s, t, u
  <2>6. s \o (t \o u) = (s \o t) \o u
    BY <2>2, <2>3, <2>4, Associates
  <2> QED
    BY <2>2, <2>3, <2>5, <2>6
<1>8. TokensMeant = IF lexemes = << >> THEN << >> ELSE TokensTo(Len(lexemes))
  BY <1>1 DEF TokensMeant, TokensTo, TokensOf
<1>9. ASSUME NEW m \in 0 .. n PROVE TokensTo(m) # << >>
  <2> DEFINE s == <<H>>
             t == g[m]
  <2>1. s \in Seq(S) /\ Len(s) = 1 /\ t \in Seq(S) /\ TokensTo(m) = s \o t
    <3>1. t \in Seq(S)
      BY <1>4 DEF Stand
    <3>2. H \in S
      BY DEF S
    <3> QED
      BY <1>5, <3>1, <3>2
  <2> HIDE DEF s, t
  <2>2. Len(t) \in Nat
    BY <2>1
  <2>3. Len(s \o t) = Len(s) + Len(t)
    <3>1. s \in Seq(S) /\ t \in Seq(S)
      BY <2>1
    <3> HIDE DEF n, H
    <3> QED
      BY <3>1
  <2>4. Len(s \o t) # 0
    BY <2>1, <2>2, <2>3
  <2>5. s \o t # << >>
    BY <2>4
  <2> QED
    BY <2>1, <2>5
<1> QED
  BY <1>6, <1>7, <1>8, <1>9 DEF n

---------------------------------------------------------------------------
(* No two kinds of lexeme but the decimal and the hexadecimal begin with   *)
(* the same character, nor the strings with and without an end.            *)
Others == {"-", ";", Quote, NewLine}

LEMMA Classes ==
  /\ \A c \in WordStart : c \notin Digits \union Marks \union Blanks \union Others
  /\ \A c \in Digits : c \notin Marks \union Blanks \union Others
  /\ \A c \in Marks : c \notin Blanks \union Others
  /\ \A c \in Blanks : c \notin Others
  /\ "-" \notin {";", Quote, NewLine} /\ ";" \notin {Quote, NewLine} /\ Quote # NewLine
  /\ {"x", "X"} \cap Digits = {} /\ "0" \in Digits /\ {"x", "X"} \subseteq WordStart
  /\ HexDigits \subseteq WordChars /\ Digits \subseteq HexDigits
<1>1. ASSUME NEW c \in WordStart
      PROVE  c \notin Digits \union Marks \union Blanks \union Others
  <2>1. c \notin Digits
    BY DEF WordStart, Letters, Digits
  <2>2. c \notin Marks \union Blanks \union Others
    BY DEF WordStart, Letters, Marks, Blanks, Others, Quote, NewLine
  <2> QED
    BY <2>1, <2>2
<1>2. ASSUME NEW c \in Digits PROVE c \notin Marks \union Blanks \union Others
  BY DEF Digits, Marks, Blanks, Others, Quote, NewLine
<1>3. ASSUME NEW c \in Marks PROVE c \notin Blanks \union Others
  BY DEF Marks, Blanks, Others, Quote, NewLine
<1>4. ASSUME NEW c \in Blanks PROVE c \notin Others
  BY DEF Blanks, Others, Quote, NewLine
<1>5. "-" \notin {";", Quote, NewLine} /\ ";" \notin {Quote, NewLine} /\ Quote # NewLine
  BY DEF Quote, NewLine
<1>6. {"x", "X"} \cap Digits = {} /\ "0" \in Digits /\ {"x", "X"} \subseteq WordStart
  BY DEF Digits, WordStart, Letters
<1>7. HexDigits \subseteq WordChars /\ Digits \subseteq HexDigits
  BY DEF HexDigits, WordChars, WordStart, Letters
<1> QED
  BY <1>1, <1>2, <1>3, <1>4, <1>5, <1>6, <1>7

LEMMA KindByFirst ==
  ASSUME NEW l, IsLexeme(l)
  PROVE  /\ Len(l.text) > 0
         /\ l.text[1] \in WordStart => l.is = "word"
         /\ l.text[1] \in Digits => l.is \in {"decimal", "hex"}
         /\ l.text[1] = "-" => l.is = "negative"
         /\ l.text[1] = Quote => l.is \in {"string", "open"}
         /\ l.text[1] \in Marks => l.is = "mark"
         /\ l.text[1] \in Blanks => l.is = "blank"
         /\ l.text[1] = ";" => l.is = "comment"
         /\ l.text[1] = NewLine => l.is = "newline"
         /\ l.text[1] \notin Known /\ l.text[1] # "-" => l.is = "stray"
<1> DEFINE c == l.text[1]
<1>1. /\ Len(l.text) > 0
      /\ \/ l.is = "word" /\ c \in WordStart
         \/ l.is \in {"decimal", "hex"} /\ c \in Digits
         \/ l.is = "negative" /\ c = "-"
         \/ l.is \in {"string", "open"} /\ c = Quote
         \/ l.is = "mark" /\ c \in Marks
         \/ l.is = "blank" /\ c \in Blanks
         \/ l.is = "comment" /\ c = ";"
         \/ l.is = "newline" /\ c = NewLine
         \/ l.is = "stray" /\ c \notin Known /\ c # "-"
  <2>1. Len(l.text) > 0
    BY DEF IsLexeme, Opens
  <2> QED
    BY <2>1, Classes DEF IsLexeme, Opens
<1>2. /\ WordStart \subseteq Known /\ Digits \subseteq Known /\ Marks \subseteq Known
      /\ Blanks \subseteq Known /\ {Quote, ";", NewLine} \subseteq Known
  BY DEF Known, WordChars
<1>3. \A x : /\ x \in WordStart => x \notin Digits \union Marks \union Blanks \union Others
             /\ x \in Digits => x \notin Marks \union Blanks \union Others
             /\ x \in Marks => x \notin Blanks \union Others
             /\ x \in Blanks => x \notin Others
             /\ x \in Others <=> x \in {"-", ";", Quote, NewLine}
  BY Classes DEF Others
<1>4. "-" \notin {";", Quote, NewLine} /\ ";" \notin {Quote, NewLine} /\ Quote # NewLine
  BY Classes
<1> HIDE DEF c
<1>5. /\ c \in WordStart => l.is = "word"
      /\ c \in Digits => l.is \in {"decimal", "hex"}
      /\ c \in Marks => l.is = "mark"
      /\ c \in Blanks => l.is = "blank"
  BY <1>1, <1>2, <1>3
<1>6. /\ c = "-" => l.is = "negative"
      /\ c = Quote => l.is \in {"string", "open"}
      /\ c = ";" => l.is = "comment"
      /\ c = NewLine => l.is = "newline"
      /\ c \notin Known /\ c # "-" => l.is = "stray"
  BY <1>1, <1>2, <1>3, <1>4
<1> QED
  BY <1>1, <1>5, <1>6 DEF c

(* A run ends where the first character that is not of its class is.       *)
LEMMA RunIs ==
  ASSUME BufferInv, NEW s \in Nat, NEW e \in s .. BufferSize + 1, NEW class,
         Char(e) \notin class, \A i \in s .. e - 1 : Char(i) \in class
  PROVE  After(s, class) = e
<1> DEFINE Stops(q) == Char(q) \notin class /\ \A i \in s .. q - 1 : Char(i) \in class
           a == CHOOSE q \in s .. BufferSize + 1 : Stops(q)
<1>1. BufferSize \in Nat
  BY LexerAssumption
<1>2. a \in s .. BufferSize + 1 /\ Stops(a)
  <2>1. Stops(e)
    OBVIOUS
  <2> HIDE DEF Stops
  <2> QED
    BY <2>1
<1>3. After(s, class) = a
  BY DEF After
<1> HIDE DEF a
<1>4. ~(a < e) /\ ~(e < a)
  BY <1>1, <1>2
<1> QED
  BY <1>1, <1>2, <1>3, <1>4

LEMMA UntilIs ==
  ASSUME BufferInv, NEW s \in Nat, NEW e \in s .. BufferSize + 1, NEW class,
         Char(e) \in class \union {NUL, "OUTSIDE"},
         \A i \in s .. e - 1 : Char(i) \notin class \union {NUL, "OUTSIDE"}
  PROVE  Until(s, class) = e
<1> DEFINE stop == class \union {NUL, "OUTSIDE"}
           Stops(q) == Char(q) \in stop /\ \A i \in s .. q - 1 : Char(i) \notin stop
           a == CHOOSE q \in s .. BufferSize + 1 : Stops(q)
<1>1. BufferSize \in Nat
  BY LexerAssumption
<1>2. a \in s .. BufferSize + 1 /\ Stops(a)
  <2>1. Stops(e)
    OBVIOUS
  <2> HIDE DEF Stops
  <2> QED
    BY <2>1
<1>3. Until(s, class) = a
  BY DEF Until
<1> HIDE DEF a
<1>4. ~(a < e) /\ ~(e < a)
  BY <1>1, <1>2
<1> QED
  BY <1>1, <1>2, <1>3, <1>4

(* A part of a sequence, place by place.                                   *)
LEMMA PartIs ==
  ASSUME NEW S, NEW s \in Seq(S), NEW a \in 1 .. Len(s) + 1, NEW b \in a - 1 .. Len(s)
  PROVE  SubSeq(s, a, b) = [i \in 1 .. b - a + 1 |-> s[a + i - 1]]
  OBVIOUS

(* A slice that holds what a text does is that part of it.                 *)
LEMMA SliceHolds ==
  ASSUME BufferInv, NEW t \in Seq(STRING), NEW s \in 1 .. Len(t) + 1, NEW e \in s - 1 .. Len(t),
         NEW p \in Nat \ {0}, p + Len(t) - 1 <= BufferSize,
         \A k \in 1 .. Len(t) : Char(p + k - 1) = t[k]
  PROVE  Slice(p + s - 1, p + e) = SubSeq(t, s, e)
<1> DEFINE n == Len(t)
           l == Slice(p + s - 1, p + e)
           r == SubSeq(t, s, e)
<1>1. n \in Nat /\ BufferSize \in Nat /\ buffer \in [1 .. BufferSize -> Cell]
  BY LexerAssumption DEF BufferInv
<1>2. (p + e) - 1 = p + e - 1 /\ p + s - 1 \in Nat /\ p + e - 1 \in Nat
  BY <1>1
<1>3. l = SubSeq(buffer, p + s - 1, p + e - 1)
  BY <1>2 DEF Slice
<1>4. l = [i \in 1 .. e - s + 1 |-> buffer[p + s - 1 + i - 1]]
  <2> DEFINE a == p + s - 1
             b == p + e - 1
  <2>1. buffer \in Seq(Cell) /\ Len(buffer) = BufferSize
    BY <1>1
  <2>2. b - a + 1 = e - s + 1 /\ a \in 1 .. BufferSize + 1 /\ b \in a - 1 .. BufferSize
    BY <1>1
  <2> HIDE DEF a, b
  <2>3. SubSeq(buffer, a, b) = [i \in 1 .. b - a + 1 |-> buffer[a + i - 1]]
    BY <2>1, <2>2, PartIs
  <2> HIDE DEF l
  <2>4. l = [i \in 1 .. e - s + 1 |-> buffer[a + i - 1]]
    BY <1>3, <2>2, <2>3 DEF a, b
  <2> QED
    BY <2>4 DEF a
<1>5. r = [i \in 1 .. e - s + 1 |-> t[s + i - 1]]
  BY PartIs
<1>6. ASSUME NEW i \in 1 .. e - s + 1 PROVE buffer[p + s - 1 + i - 1] = t[s + i - 1]
  <2> DEFINE k == s + i - 1
  <2>1. k \in 1 .. n /\ p + s - 1 + i - 1 = p + k - 1 /\ p + k - 1 \in 1 .. BufferSize
    BY <1>1
  <2> HIDE DEF k
  <2>2. Char(p + k - 1) = t[k] /\ Char(p + k - 1) = buffer[p + k - 1]
    BY <1>1, <2>1 DEF Char
  <2> QED
    BY <2>1, <2>2 DEF k
<1> HIDE DEF l, r
<1>7. l = r
  BY <1>4, <1>5, <1>6
<1> QED
  BY <1>7 DEF l, r

---------------------------------------------------------------------------
(* The buffer and the text.  A line holds what has been read from b on.    *)
LEMMA LineHolds ==
  ASSUME BufferInv, NEW b \in 1 .. read, Holds(b)
  PROVE  /\ \A q \in 1 .. read - b + 1 : Char(q) = text[b + q - 1]
         /\ Char(read - b + 2) = NUL
         /\ read - b + 2 \in 1 .. BufferSize
<1>1. /\ BufferSize \in Nat /\ read \in Nat /\ b \in Nat /\ DOMAIN buffer = 1 .. BufferSize
      /\ read - b + 2 \in 1 .. BufferSize
  BY LexerAssumption DEF BufferInv, Holds
<1>2. ASSUME NEW q \in 1 .. read - b + 1 PROVE Char(q) = text[b + q - 1]
  <2> DEFINE p == b + q - 1
  <2>1. p \in b .. read /\ p - b + 1 = q /\ q \in 1 .. BufferSize
    BY <1>1
  <2> HIDE DEF p
  <2>2. buffer[p - b + 1] = text[p]
    BY <2>1 DEF Holds
  <2> QED
    BY <1>1, <2>1, <2>2 DEF Char, p
<1>3. Char(read - b + 2) = NUL
  BY <1>1 DEF Holds, Char
<1> QED
  BY <1>1, <1>2, <1>3

(* The pointer is at a lexeme that is in the line in one piece: the line   *)
(* has all of it, and then its NUL or the next lexeme's first character.   *)
StandsAt(b, i) ==
  /\ b \in 1 .. read /\ Holds(b) /\ (read < Len(text) => read + 1 \in ReadFrom)
  /\ i \in 1 .. Len(lexemes) /\ ptr \in 1 .. read - b + 1 /\ b + ptr - 1 = Starts(i)

LEMMA LexemeInBuffer ==
  ASSUME BufferInv, FileInv, NEW b, NEW i, StandsAt(b, i), InOnePiece(i)
  PROVE  /\ Starts(i + 1) = b + (ptr + Len(lexemes[i].text)) - 1
         /\ ptr + Len(lexemes[i].text) \in 1 .. read - b + 2
         /\ \A k \in 1 .. Len(lexemes[i].text) : Char(ptr + k - 1) = lexemes[i].text[k]
         /\ \/ Char(ptr + Len(lexemes[i].text)) = NUL
            \/ /\ i + 1 \in DOMAIN lexemes
               /\ Char(ptr + Len(lexemes[i].text)) = lexemes[i + 1].text[1]
<1> USE DEF StandsAt
<1> DEFINE t == lexemes[i].text
           n == Len(t)
           N == Len(text)
           s == Starts(i)
           e == Starts(i + 1)
<1>1. /\ lexemes \in Seq(LexemeSet) /\ text \in Seq(STRING)
      /\ s \in 1 .. N + 1 /\ e \in 1 .. N + 1 /\ e = s + n
      /\ \A k \in 1 .. n : text[s + k - 1] = t[k]
  BY LexemesStand
<1>2. n \in Nat /\ N \in Nat /\ t \in Seq(STRING)
  <2>1. lexemes[i] \in LexemeSet
    BY <1>1
  <2> QED
    BY <1>1, <2>1 DEF LexemeSet
<1>3. \A q \in 1 .. read - b + 1 : Char(q) = text[b + q - 1]
  BY LineHolds
<1>4. Char(read - b + 2) = NUL /\ read \in Nat /\ b \in Nat /\ ptr \in Nat /\ read <= N
  <2>1. Char(read - b + 2) = NUL
    BY LineHolds
  <2> QED
    BY <2>1 DEF BufferInv, Holds
<1>5. s = b + ptr - 1 /\ ptr \in 1 .. read - b + 1
  OBVIOUS
<1>6. e <= read + 1
  <2> SUFFICES ASSUME e > read + 1 PROVE FALSE
    BY <1>1, <1>4
  <2>1. read < N /\ read + 1 \in s + 1 .. e - 1
    BY <1>1, <1>2, <1>4, <1>5
  <2>2. read + 1 \in ReadFrom
    BY <2>1
  <2> QED
    BY <2>1, <2>2 DEF InOnePiece
<1> HIDE DEF t, n, N, s, e, StandsAt
<1>8. e = b + (ptr + n) - 1 /\ ptr + n \in 1 .. read - b + 2
  BY <1>1, <1>2, <1>4, <1>5, <1>6
<1>9. ASSUME NEW k \in 1 .. n PROVE Char(ptr + k - 1) = t[k]
  <2>1. ptr + k - 1 \in 1 .. read - b + 1 /\ b + (ptr + k - 1) - 1 = s + k - 1
    BY <1>2, <1>4, <1>5, <1>8
  <2> QED
    BY <1>1, <1>3, <2>1
<1>10. \/ Char(ptr + n) = NUL
       \/ i + 1 \in DOMAIN lexemes /\ Char(ptr + n) = lexemes[i + 1].text[1]
  <2>1. CASE e = read + 1
    <3>1. ptr + n = read - b + 2
      BY <1>2, <1>4, <1>8, <2>1
    <3> QED
      BY <1>4, <3>1
  <2>2. CASE e # read + 1
    <3>1. e <= read /\ ptr + n \in 1 .. read - b + 1 /\ b + (ptr + n) - 1 = e
      BY <1>1, <1>2, <1>4, <1>6, <1>8, <2>2
    <3>2. Char(ptr + n) = text[e]
      BY <1>3, <3>1
    <3>3. i + 1 \in 1 .. Len(lexemes)
      <4>1. i \in 1 .. Len(lexemes) /\ Len(lexemes) \in Nat
        BY <1>1 DEF StandsAt
      <4>2. Starts(Len(lexemes) + 1) = N + 1
        BY LexemesStand DEF N
      <4>3. i # Len(lexemes)
        BY <1>1, <1>2, <1>4, <3>1, <4>1, <4>2 DEF e
      <4> QED
        BY <4>1, <4>3
    <3>4. /\ Len(lexemes[i + 1].text) > 0
          /\ \A k \in 1 .. Len(lexemes[i + 1].text) :
               text[e + k - 1] = lexemes[i + 1].text[k]
          /\ lexemes[i + 1].text \in Seq(STRING)
      <4>1. IsLexeme(lexemes[i + 1])
        BY <1>1, <3>3, SourcesAssumption DEF FileInv
      <4>2. lexemes[i + 1] \in LexemeSet
        BY <1>1, <3>3
      <4> QED
        BY <3>3, <4>1, <4>2, LexemesStand, KindByFirst DEF e, LexemeSet
    <3>5. 1 \in 1 .. Len(lexemes[i + 1].text) /\ e + 1 - 1 = e
      BY <1>1, <1>2, <3>4
    <3> QED
      BY <3>2, <3>3, <3>4, <3>5, <1>1
  <2> QED
    BY <2>1, <2>2
<1> QED
  BY <1>8, <1>9, <1>10 DEF n, t, e

---------------------------------------------------------------------------
(* What is said of the file does not change while it is read.              *)
LEMMA SameFile ==
  ASSUME text' = text, lexemes' = lexemes
  PROVE  /\ FileInv' <=> FileInv
         /\ ReadFrom' = ReadFrom
         /\ TokensMeant' = TokensMeant
         /\ \A i : Starts(i)' = Starts(i)
         /\ \A i, K : Is(i, K)' <=> Is(i, K)
         /\ \A i : Good(i)' <=> Good(i)
         /\ \A i : GoodBefore(i)' <=> GoodBefore(i)
         /\ \A i : Hopeless(i)' <=> Hopeless(i)
         /\ \A i : TokensTo(i)' = TokensTo(i)
         /\ Decided' <=> Decided
<1>1. /\ FileInv' <=> FileInv
      /\ ReadFrom' = ReadFrom
      /\ \A i : Starts(i)' = Starts(i)
      /\ \A i, K : Is(i, K)' <=> Is(i, K)
  BY DEF FileInv, ReadFrom, Starts, Is
<1>2. \A i : (InOnePiece(i)' <=> InOnePiece(i)) /\ (SkippedNewline(i)' <=> SkippedNewline(i))
  BY <1>1 DEF InOnePiece, SkippedNewline
<1>3. \A i : Good(i)' <=> Good(i)
  BY <1>1, <1>2 DEF Good, Whole, Spaced
<1>4. \A i : (GoodBefore(i)' <=> GoodBefore(i)) /\ (Hopeless(i)' <=> Hopeless(i))
  BY <1>1, <1>3 DEF GoodBefore, Hopeless
<1>5. \A i : TokensOf(i)' = TokensOf(i)
  BY <1>2 DEF TokensOf
<1>6. \A i : TokensTo(i)' = TokensTo(i)
  <2> TAKE i
  <2>1. [j \in 1 .. i |-> TokensOf(j)]' = [j \in 1 .. i |-> TokensOf(j)]
    BY <1>5
  <2> QED
    BY <2>1 DEF TokensTo
<1>7. TokensMeant' = TokensMeant
  <2> DEFINE T(i) == IF SkippedNewline(i) THEN << >> ELSE Meant(lexemes[i])
  <2>1. [i \in DOMAIN lexemes |-> T(i)]' = [i \in DOMAIN lexemes |-> T(i)]
    BY <1>2
  <2> QED
    BY <2>1 DEF TokensMeant
<1>8. Decided' <=> Decided
  BY <1>3, <1>4 DEF Decided
<1> QED
  BY <1>1, <1>3, <1>4, <1>6, <1>7, <1>8

LEMMA AppendIs ==
  ASSUME NEW S, NEW s \in Seq(S), NEW t
  PROVE  Append(s, t) = s \o <<t>> /\ s \o << >> = s
  OBVIOUS

(* The lexer is at the i-th lexeme, all before it having been read.        *)
Meets(b, i) ==
  /\ TypeInv /\ FileInv /\ at = "line" /\ StandsAt(b, i)
  /\ GoodBefore(i) /\ (Good(i) \/ Hopeless(i))
  /\ tokens = TokensTo(i - 1) /\ ~Is(i - 1, {"negative"})

LEMMA MetLexeme ==
  ASSUME NEW b, NEW i, Meets(b, i)
  PROVE  /\ IsLexeme(lexemes[i]) /\ lexemes[i] \in LexemeSet /\ i \in DOMAIN lexemes
         /\ \A k \in 1 .. Len(lexemes[i].text) : lexemes[i].text[k] \notin {NUL, "OUTSIDE"}
         /\ Char(ptr) = lexemes[i].text[1]
         /\ lexemes[i].is \notin {"open", "stray"} => Good(i)
<1>1. lexemes \in Seq(LexemeSet) /\ i \in 1 .. Len(lexemes) /\ i \in DOMAIN lexemes
  BY LexemesStand DEF Meets, StandsAt
<1>2. IsLexeme(lexemes[i]) /\ Without(lexemes[i], 1, Len(lexemes[i].text), {NUL, "OUTSIDE"})
  BY <1>1, SourcesAssumption DEF Meets, FileInv
<1>3. lexemes[i] \in LexemeSet
  BY <1>1
<1>4. Len(lexemes[i].text) > 0 /\ lexemes[i].text \in Seq(STRING)
  BY <1>2, <1>3, KindByFirst DEF LexemeSet
<1>5. 1 \in 1 .. Len(lexemes[i].text)
  BY <1>4
<1>6. text[Starts(i) + 1 - 1] = lexemes[i].text[1] /\ Starts(i) \in Nat
  BY <1>1, <1>5, LexemesStand DEF Meets
<1>7. Char(ptr) = text[b + ptr - 1]
  BY LineHolds DEF Meets, StandsAt, TypeInv
<1>8. Char(ptr) = lexemes[i].text[1]
  BY <1>6, <1>7 DEF Meets, StandsAt
<1>9. lexemes[i].is \notin {"open", "stray"} => Good(i)
  BY DEF Meets, Hopeless, Is
<1> QED
  BY <1>1, <1>2, <1>3, <1>8, <1>9 DEF Without

(* The lexer is in a line at place q of the buffer, having read what the   *)
(* lexemes before the i-th say.                                            *)
LEMMA Continues ==
  ASSUME TypeInv, FileInv, NEW b \in 1 .. read, NEW i \in 1 .. Len(lexemes) + 1,
         NEW q \in 1 .. read - b + 2, NEW c, c = b + q - 1,
         Holds(b), read < Len(text) => read + 1 \in ReadFrom, at = "line",
         UNCHANGED <<text, read, buffer, at, lexemes>>, ptr' = q,
         GoodBefore(i), tokens' = TokensTo(i - 1),
         \/ c = Starts(i) /\ ~Is(i - 1, {"negative"})
         \/ Is(i, {"blank"}) /\ c \in Starts(i) + 1 .. Starts(i + 1) - 1
  PROVE  Follows'
<1>1. Reached(i, c)'
  <2>1. /\ GoodBefore(i)' /\ tokens' = TokensTo(i - 1)'
        /\ \/ c = Starts(i)' /\ ~Is(i - 1, {"negative"})'
           \/ Is(i, {"blank"})' /\ c \in Starts(i)' + 1 .. Starts(i + 1)' - 1
    BY SameFile
  <2> QED
    BY <2>1 DEF Reached
<1>2. Holds(b)' /\ (read < Len(text) => read + 1 \in ReadFrom)'
  <2>1. ReadFrom' = ReadFrom
    BY SameFile
  <2> QED
    BY <2>1 DEF Holds
<1>3. (ptr \in 1 .. read - b + 2 /\ Reached(i, b + ptr - 1))'
  BY <1>1
<1>4. (\E bb \in 1 .. read, j \in 1 .. Len(lexemes) + 1 :
         Holds(bb) /\ ptr \in 1 .. read - bb + 2 /\ Reached(j, bb + ptr - 1))'
  BY <1>2, <1>3
<1> QED
  BY <1>2, <1>4 DEF Follows

(* Once a lexeme is passed and its tokens are in the list, the lexer is at *)
(* the next.                                                               *)
LEMMA Passed ==
  ASSUME NEW b, NEW i, Meets(b, i), Good(i), ~Is(i, {"negative"}),
         tokens' = tokens \o Meant(lexemes[i]), ptr' = ptr + Len(lexemes[i].text),
         UNCHANGED <<text, read, buffer, at, lexemes>>
  PROVE  Follows'
<1> DEFINE p == ptr + Len(lexemes[i].text)
<1>1. Starts(i + 1) = b + p - 1 /\ p \in 1 .. read - b + 2
  <2>1. BufferInv /\ FileInv /\ StandsAt(b, i) /\ InOnePiece(i)
    BY DEF Meets, TypeInv, Good, Whole
  <2> QED
    BY <2>1, LexemeInBuffer
<1>2. lexemes \in Seq(LexemeSet) /\ i \in 1 .. Len(lexemes)
  BY LexemesStand DEF Meets, StandsAt
<1>3. /\ i + 1 \in 1 .. Len(lexemes) + 1 /\ (i + 1) - 1 = i
      /\ \A j \in 1 .. (i + 1) - 1 : j = i \/ j \in 1 .. i - 1
  BY <1>2
<1>4. GoodBefore(i + 1)
  BY <1>3 DEF GoodBefore, Meets
<1>5. tokens' = TokensTo(i)
  <2>1. TokensTo(i) = TokensTo(i - 1) \o TokensOf(i)
    BY <1>2, TokensAre DEF Meets
  <2>2. TokensOf(i) = Meant(lexemes[i])
    BY DEF TokensOf, SkippedNewline, Meets
  <2> QED
    BY <2>1, <2>2 DEF Meets
<1> DEFINE j == i + 1
           c == b + p - 1
<1>6. j \in 1 .. Len(lexemes) + 1 /\ j - 1 = i /\ GoodBefore(j) /\ c = Starts(j) /\ ptr' = p
  BY <1>1, <1>3, <1>4
<1>7. ~Is(j - 1, {"negative"}) /\ tokens' = TokensTo(j - 1)
  BY <1>5, <1>6
<1>8. /\ TypeInv /\ FileInv /\ b \in 1 .. read /\ Holds(b) /\ at = "line"
      /\ (read < Len(text) => read + 1 \in ReadFrom)
  BY DEF Meets, StandsAt
<1>9. p \in 1 .. read - b + 2 /\ c = b + p - 1
  BY <1>1
<1> HIDE DEF p, j, c
<1> QED
  BY <1>6, <1>7, <1>8, <1>9, Continues

(* What there is of a lexeme that is read as itself, and what is behind it.*)
Ahead(i, c) ==
  \/ c = NUL
  \/ i + 1 \in DOMAIN lexemes /\ IsLexeme(lexemes[i + 1]) /\ c = lexemes[i + 1].text[1]

LEMMA MetGood ==
  ASSUME NEW b, NEW i, Meets(b, i), Good(i)
  PROVE  LET t == lexemes[i].text
         IN  /\ t \in Seq(STRING) /\ Len(t) \in Nat \ {0}
             /\ ptr \in 1 .. BufferSize /\ ptr + Len(t) \in ptr .. BufferSize
             /\ \A k \in 1 .. Len(t) : Char(ptr + k - 1) = t[k]
             /\ \A k \in 1 .. Len(t) : t[k] \notin {NUL, "OUTSIDE"}
             /\ Ahead(i, Char(ptr + Len(t)))
<1> DEFINE t == lexemes[i].text
           n == Len(t)
<1>1. BufferInv /\ FileInv /\ StandsAt(b, i) /\ InOnePiece(i)
  BY DEF Meets, TypeInv, Good, Whole
<1>2. /\ ptr + n \in 1 .. read - b + 2
      /\ \A k \in 1 .. n : Char(ptr + k - 1) = t[k]
      /\ \/ Char(ptr + n) = NUL
         \/ i + 1 \in DOMAIN lexemes /\ Char(ptr + n) = lexemes[i + 1].text[1]
  BY <1>1, LexemeInBuffer
<1>3. /\ lexemes[i] \in LexemeSet /\ IsLexeme(lexemes[i])
      /\ \A k \in 1 .. n : t[k] \notin {NUL, "OUTSIDE"}
  BY MetLexeme
<1>4. t \in Seq(STRING) /\ n \in Nat \ {0}
  <2>1. Len(t) > 0
    BY <1>3, KindByFirst
  <2>2. t \in Seq(STRING)
    BY <1>3 DEF LexemeSet
  <2> QED
    BY <2>1, <2>2
<1>5. read - b + 2 \in 1 .. BufferSize /\ b \in Nat /\ read \in Nat /\ BufferSize \in Nat
  <2>1. read - b + 2 \in 1 .. BufferSize
    BY <1>1, LineHolds DEF StandsAt
  <2> QED
    BY <1>1, <2>1, LexerAssumption DEF StandsAt, BufferInv
<1>6. ptr \in 1 .. read - b + 1
  BY <1>1 DEF StandsAt
<1> HIDE DEF n
<1>7. ptr \in 1 .. BufferSize /\ ptr + n \in ptr .. BufferSize
  BY <1>2, <1>4, <1>5, <1>6
<1>8. i + 1 \in DOMAIN lexemes => IsLexeme(lexemes[i + 1])
  BY <1>1, SourcesAssumption DEF FileInv
<1> QED
  BY <1>2, <1>3, <1>4, <1>7, <1>8 DEF Ahead, n

(* The last character of a lexeme is before the place behind it.           *)
LEMMA InLexeme ==
  ASSUME NEW b, NEW i, Meets(b, i), Good(i), NEW q \in ptr .. ptr + Len(lexemes[i].text) - 1
  PROVE  /\ q - ptr + 1 \in 1 .. Len(lexemes[i].text)
         /\ Char(q) = lexemes[i].text[q - ptr + 1]
<1> DEFINE n == Len(lexemes[i].text)
           k == q - ptr + 1
<1>1. n \in Nat \ {0} /\ ptr \in Nat
  BY MetGood
<1>2. k \in 1 .. n /\ ptr + k - 1 = q
  BY <1>1
<1> HIDE DEF k
<1> QED
  BY <1>2, MetGood DEF k

(* A step that adds the one token of the lexeme and moves behind it, and   *)
(* one that only moves behind a lexeme without a token.                    *)
LEMMA EmitsIt ==
  ASSUME NEW b, NEW i, Meets(b, i), Good(i), ~Is(i, {"negative"}), NEW t, NEW q,
         Meant(lexemes[i]) = <<t>>, q = ptr + Len(lexemes[i].text), Emit(t, q),
         UNCHANGED lexemes
  PROVE  Follows'
<1>1. tokens \in Seq(TokenSet)
  BY DEF Meets, TypeInv
<1>2. Append(tokens, t) = tokens \o <<t>>
  BY <1>1, AppendIs
<1> QED
  BY <1>2, Passed DEF Emit

LEMMA SkipsIt ==
  ASSUME NEW b, NEW i, Meets(b, i), Good(i), ~Is(i, {"negative"}), NEW q,
         Meant(lexemes[i]) = << >>, q = ptr + Len(lexemes[i].text), Skip(q),
         UNCHANGED lexemes
  PROVE  Follows'
<1>1. tokens \in Seq(TokenSet)
  BY DEF Meets, TypeInv
<1>2. tokens \o << >> = tokens
  BY <1>1, AppendIs
<1> QED
  BY <1>2, Passed DEF Skip

(* A lexeme of one character.                                              *)
LEMMA NewlineFollows ==
  ASSUME NEW b, NEW i, Meets(b, i), Newline, UNCHANGED lexemes
  PROVE  Follows'
<1> DEFINE l == lexemes[i]
<1>1. IsLexeme(l) /\ l \in LexemeSet /\ i \in DOMAIN lexemes /\ Char(ptr) = l.text[1]
      /\ (l.is \notin {"open", "stray"} => Good(i))
  BY MetLexeme
<1>2. l.text[1] = NewLine
  BY <1>1 DEF Newline, At
<1>3. l.is = "newline"
  BY <1>1, <1>2, KindByFirst
<1>4. Good(i) /\ ~Is(i, {"negative"})
  BY <1>1, <1>3 DEF Is
<1>5. Len(l.text) = 1
  BY <1>1, <1>3 DEF IsLexeme
<1>6. l.text = <<NewLine>>
  BY <1>1, <1>2, <1>5 DEF LexemeSet
<1>7. Meant(l) = <<Tok("NEWLINE", <<NewLine>>)>>
  BY <1>3, <1>6 DEF Meant
<1> QED
  BY <1>4, <1>5, <1>7, EmitsIt DEF Newline

(* A mark.                                                                 *)
LEMMA MarkFollows ==
  ASSUME NEW b, NEW i, Meets(b, i), Mark, UNCHANGED lexemes
  PROVE  Follows'
<1> DEFINE l == lexemes[i]
           c == Char(ptr)
<1>1. IsLexeme(l) /\ l \in LexemeSet /\ i \in DOMAIN lexemes /\ c = l.text[1]
      /\ (l.is \notin {"open", "stray"} => Good(i))
  BY MetLexeme
<1>2. l.text[1] \in Marks
  BY <1>1 DEF Mark, At
<1>3. l.is = "mark"
  BY <1>1, <1>2, KindByFirst
<1>4. Good(i) /\ ~Is(i, {"negative"})
  BY <1>1, <1>3 DEF Is
<1>5. Len(l.text) = 1
  BY <1>1, <1>3 DEF IsLexeme
<1>6. l.text = <<c>> /\ Head(l.text) = c
  BY <1>1, <1>5 DEF LexemeSet
<1>7. Meant(l) = <<Tok(MarkType(c), <<c>>)>>
  <2> HIDE DEF c
  <2> QED
    BY <1>3, <1>6 DEF Meant
<1> QED
  BY <1>4, <1>5, <1>7, EmitsIt DEF Mark

(* A comment goes on to the end of its line.                               *)
LEMMA CommentFollows ==
  ASSUME NEW b, NEW i, Meets(b, i), Comment, UNCHANGED lexemes
  PROVE  Follows'
<1> DEFINE l == lexemes[i]
           n == Len(l.text)
           e == ptr + n
           stop == {NewLine} \union {NUL, "OUTSIDE"}
<1>1. IsLexeme(l) /\ i \in DOMAIN lexemes /\ Char(ptr) = l.text[1]
      /\ (l.is \notin {"open", "stray"} => Good(i)) /\ lexemes \in Seq(LexemeSet)
  BY MetLexeme, LexemesStand DEF Meets
<1>2. l.text[1] = ";"
  BY <1>1 DEF Comment, At
<1>3. l.is = "comment"
  BY <1>1, <1>2, KindByFirst
<1>4. Good(i) /\ ~Is(i, {"negative"}) /\ Is(i, {"comment"})
  BY <1>1, <1>3 DEF Is
<1>5. /\ n \in Nat \ {0} /\ ptr \in 1 .. BufferSize /\ e \in ptr .. BufferSize
      /\ \A k \in 1 .. n : l.text[k] \notin {NUL, "OUTSIDE"}
      /\ Ahead(i, Char(e))
  BY <1>4, MetGood
<1>6. BufferInv /\ BufferSize \in Nat /\ e \in ptr .. BufferSize + 1
  BY <1>5, LexerAssumption DEF Meets, TypeInv
<1>7. ASSUME NEW q \in ptr .. e - 1 PROVE Char(q) \notin stop
  <2>1. q - ptr + 1 \in 1 .. n /\ Char(q) = l.text[q - ptr + 1]
    <3>1. q \in ptr .. ptr + Len(lexemes[i].text) - 1
      BY <1>5
    <3>2. Meets(b, i) /\ Good(i)
      BY <1>4
    <3> HIDE DEF l, n, e
    <3>3. /\ q - ptr + 1 \in 1 .. Len(lexemes[i].text)
          /\ Char(q) = lexemes[i].text[q - ptr + 1]
      BY <3>1, <3>2, InLexeme
    <3> QED
      BY <3>3 DEF l, n
  <2>2. \A k \in 2 .. n : l.text[k] # NewLine
    BY <1>1, <1>3 DEF IsLexeme, Without
  <2>3. l.text[1] # NewLine
    BY <1>2, Classes
  <2>4. q - ptr + 1 = 1 \/ q - ptr + 1 \in 2 .. n
    BY <1>5, <2>1
  <2> DEFINE k == q - ptr + 1
  <2> HIDE DEF k
  <2> QED
    BY <1>5, <2>1, <2>2, <2>3, <2>4 DEF k
<1>8. Char(e) \in stop
  <2>1. SUFFICES ASSUME Char(e) # NUL PROVE Char(e) = NewLine
    OBVIOUS
  <2>2. i + 1 \in DOMAIN lexemes /\ IsLexeme(lexemes[i + 1])
        /\ Char(e) = lexemes[i + 1].text[1]
    BY <1>5, <2>1 DEF Ahead
  <2>3. i # Len(lexemes)
    BY <1>1, <2>2
  <2>4. lexemes[i + 1].is = "newline"
    BY <1>4, <2>3 DEF Good, Whole, Is
  <2> QED
    BY <2>2, <2>4 DEF IsLexeme, Opens
<1>9. Until(ptr, {NewLine}) = e
  <2> HIDE DEF e
  <2>1. ptr \in Nat /\ ptr \in 1 .. BufferSize
    BY <1>5, <1>6
  <2> QED
    BY <1>6, <1>7, <1>8, <2>1, UntilIs
<1>10. Meant(l) = << >>
  BY <1>3 DEF Meant
<1> QED
  BY <1>4, <1>9, <1>10, SkipsIt DEF Comment

(* The character behind a solid lexeme is in no word.                      *)
LEMMA BehindSolid ==
  ASSUME NEW i, NEW c, Ahead(i, c), ~Is(i + 1, Solid)
  PROVE  c \notin WordChars
<1> SUFFICES ASSUME c # NUL PROVE c \notin WordChars
  BY NoNul
<1>1. i + 1 \in DOMAIN lexemes /\ IsLexeme(lexemes[i + 1]) /\ c = lexemes[i + 1].text[1]
  BY DEF Ahead
<1>2. lexemes[i + 1].is \notin Solid
  BY <1>1 DEF Is
<1>3. c \notin WordStart /\ c \notin Digits
  BY <1>1, <1>2, KindByFirst DEF Solid
<1> QED
  BY <1>3 DEF WordChars

(* What fits is not cut.                                                   *)
LEMMA CutWhole ==
  ASSUME NEW S, NEW str \in Seq(S), NEW spare \in 1 .. 3, Len(str) <= MaxTokenLen - spare
  PROVE  Cut(str, spare) = str
<1> DEFINE M == {Len(str), MaxTokenLen - spare}
<1>1. M \in SUBSET Nat /\ M # {} /\ Len(str) \in M /\ Len(str) \in Nat
  BY LexerAssumption
<1>2. Min(M) \in M /\ Min(M) <= Len(str)
  BY <1>1, MinIsLeast
<1>3. Min(M) = Len(str)
  BY <1>1, <1>2, LexerAssumption
<1>4. Cut(str, spare) = SubSeq(str, 1, Len(str))
  BY <1>3 DEF Cut
<1> QED
  BY <1>1, <1>4

(* The run of a class that makes up the rest of a lexeme.                  *)
LEMMA RunOfLexeme ==
  ASSUME NEW b, NEW i, Meets(b, i), Good(i), NEW s \in 1 .. Len(lexemes[i].text) + 1, NEW class,
         \A k \in s .. Len(lexemes[i].text) : lexemes[i].text[k] \in class,
         Char(ptr + Len(lexemes[i].text)) \notin class
  PROVE  /\ After(ptr + s - 1, class) = ptr + Len(lexemes[i].text)
         /\ Slice(ptr + s - 1, ptr + Len(lexemes[i].text))
              = SubSeq(lexemes[i].text, s, Len(lexemes[i].text))
<1> DEFINE t == lexemes[i].text
           n == Len(t)
           e == ptr + n
           a == ptr + s - 1
<1>1. /\ t \in Seq(STRING) /\ n \in Nat \ {0} /\ ptr \in 1 .. BufferSize
      /\ e \in ptr .. BufferSize /\ \A k \in 1 .. n : Char(ptr + k - 1) = t[k]
  BY MetGood
<1>2. BufferInv /\ BufferSize \in Nat
  BY LexerAssumption DEF Meets, TypeInv
<1> HIDE DEF t, n
<1>3. a \in Nat /\ e \in a .. BufferSize + 1
  BY <1>1, <1>2 DEF n, t
<1>4. ASSUME NEW q \in a .. e - 1 PROVE Char(q) \in class
  <2> DEFINE k == q - ptr + 1
  <2>1. q \in ptr .. ptr + n - 1 /\ k \in s .. n
    BY <1>1, <1>2 DEF n, t
  <2>2. Char(q) = t[k]
    BY <2>1, InLexeme DEF n, t
  <2> HIDE DEF k
  <2> QED
    BY <2>1, <2>2 DEF n, t
<1>5. Char(e) \notin class
  BY DEF n, t
<1>6. After(a, class) = e
  <2> HIDE DEF a, e
  <2> QED
    BY <1>2, <1>3, <1>4, <1>5, RunIs
<1>7. Slice(ptr + s - 1, ptr + n) = SubSeq(t, s, n)
  <2>1. s \in 1 .. Len(t) + 1 /\ n \in s - 1 .. Len(t) /\ ptr \in Nat \ {0}
        /\ ptr + Len(t) - 1 <= BufferSize /\ Len(t) = n
    BY <1>1, <1>2 DEF n, t
  <2> QED
    BY <1>1, <1>2, <2>1, SliceHolds
<1> QED
  BY <1>6, <1>7 DEF n, t

(* A word.  Names in the tables fit a token, other words are cut.          *)
LEMMA WordFollows ==
  ASSUME NEW b, NEW i, Meets(b, i), Register \/ Instruction \/ Identifier, UNCHANGED lexemes
  PROVE  Follows'
<1> DEFINE l == lexemes[i]
           t == l.text
           n == Len(t)
<1>1. IsLexeme(l) /\ i \in DOMAIN lexemes /\ Char(ptr) = t[1]
      /\ (l.is \notin {"open", "stray"} => Good(i))
  BY MetLexeme
<1>2. t[1] \in WordStart
  BY <1>1 DEF Register, Instruction, Identifier, At
<1>3. l.is = "word"
  BY <1>1, <1>2, KindByFirst
<1>4. Good(i) /\ ~Is(i, {"negative"}) /\ ~Is(i + 1, Solid)
  <2>1. Good(i) /\ Is(i, Solid) /\ ~Is(i, {"negative"})
    BY <1>1, <1>3 DEF Is, Solid
  <2> QED
    BY <2>1 DEF Good, Whole
<1>5. /\ t \in Seq(STRING) /\ n \in Nat \ {0} /\ ptr \in 1 .. BufferSize
      /\ Ahead(i, Char(ptr + n))
  BY <1>4, MetGood
<1>6. Word = t
  <2>1. \A k \in 1 .. n : t[k] \in WordChars
    <3>1. \A k \in 2 .. n : t[k] \in WordChars
      BY <1>1, <1>3 DEF IsLexeme, From
    <3>2. t[1] \in WordChars
      BY <1>2 DEF WordChars
    <3>3. \A k \in 1 .. n : k = 1 \/ k \in 2 .. n
      BY <1>5
    <3> HIDE DEF t, n
    <3> QED
      BY <3>1, <3>2, <3>3
  <2>2. Char(ptr + n) \notin WordChars
    BY <1>4, <1>5, BehindSolid
  <2>3. 1 \in 1 .. n + 1 /\ ptr + 1 - 1 = ptr
    BY <1>5
  <2>4. /\ After(ptr + 1 - 1, WordChars) = ptr + n
        /\ Slice(ptr + 1 - 1, ptr + n) = SubSeq(t, 1, n)
    BY <1>4, <2>1, <2>2, <2>3, RunOfLexeme
  <2>5. SubSeq(t, 1, n) = t
    BY <1>5
  <2> QED
    BY <2>3, <2>4, <2>5 DEF Word
<1>7. t \in RegisterNames \union MnemonicNames => Cut(t, 1) = t
  <2>1. SUFFICES ASSUME t \in RegisterNames \union MnemonicNames PROVE Cut(t, 1) = t
    OBVIOUS
  <2>2. n < MaxTokenLen /\ MaxTokenLen \in Nat
    BY <2>1, FitAssumption, LexerAssumption
  <2>3. n <= MaxTokenLen - 1 /\ 1 \in 1 .. 3
    BY <1>5, <2>2
  <2> QED
    BY <1>5, <2>3, CutWhole
<1>8. Meant(l) = <<Tok(WordType(t), Cut(t, 1))>>
  BY <1>3 DEF Meant
<1> HIDE DEF t, n
<1>9. Emit(Tok(WordType(t), Cut(t, 1)), ptr + n)
  BY <1>6, <1>7 DEF Register, Instruction, Identifier, WordType, n
<1> QED
  BY <1>4, <1>8, <1>9, EmitsIt DEF n, t

(* A character of a number that follows the first digit.                   *)
LEMMA SecondOf ==
  ASSUME NEW b, NEW i, Meets(b, i), Good(i), Is(i, {"decimal"})
  PROVE  Char(ptr + 1) \notin {"x", "X"}
<1> DEFINE l == lexemes[i]
           t == l.text
           n == Len(t)
<1>1. IsLexeme(l) /\ l.is = "decimal"
  BY MetLexeme DEF Is
<1>2. ~Is(i + 1, Solid)
  BY DEF Good, Whole, Is, Solid
<1>3. /\ n \in Nat \ {0} /\ Ahead(i, Char(ptr + n)) /\ ptr \in 1 .. BufferSize
      /\ \A k \in 1 .. n : Char(ptr + k - 1) = t[k]
  BY MetGood
<1>4. {"x", "X"} \subseteq WordChars /\ {"x", "X"} \cap Digits = {}
  BY Classes DEF WordChars
<1>5. CASE n = 1
  <2>1. Char(ptr + n) \notin WordChars
    BY <1>2, <1>3, BehindSolid
  <2>2. Char(ptr + 1) \notin WordChars
    BY <1>5, <2>1
  <2> QED
    BY <1>4, <2>2
<1>6. CASE n # 1
  <2>1. 2 \in 1 .. n /\ 2 \in 2 .. n /\ ptr + 2 - 1 = ptr + 1
    <3> HIDE DEF n
    <3> QED
      BY <1>3, <1>6
  <2>2. t[2] \in Digits
    <3>1. \A k \in 2 .. n : t[k] \in Digits
      BY <1>1 DEF IsLexeme, From
    <3> QED
      BY <2>1, <3>1
  <2>3. Char(ptr + 2 - 1) = t[2]
    BY <1>3, <2>1
  <2> QED
    BY <1>4, <2>1, <2>2, <2>3
<1> QED
  BY <1>5, <1>6

(* A hexadecimal number shows at its first three characters.               *)
LEMMA HexShows ==
  ASSUME NEW b, NEW i, Meets(b, i), Good(i), Is(i, {"hex"})
  PROVE  IsHex
<1> DEFINE l == lexemes[i]
           t == l.text
           n == Len(t)
<1>1. IsLexeme(l) /\ l.is = "hex"
  BY MetLexeme DEF Is
<1>2. /\ t[1] = "0" /\ n > 2 /\ t[2] \in {"x", "X"} /\ \A k \in 3 .. n : t[k] \in HexDigits
  BY <1>1 DEF IsLexeme, Opens, From
<1>3. n \in Nat \ {0} /\ ptr \in 1 .. BufferSize /\ \A k \in 1 .. n : Char(ptr + k - 1) = t[k]
  BY MetGood
<1> HIDE DEF t, n
<1>4. /\ 1 \in 1 .. n /\ 2 \in 1 .. n /\ 3 \in 1 .. n /\ 3 \in 3 .. n
      /\ ptr + 1 - 1 = ptr /\ ptr + 2 - 1 = ptr + 1 /\ ptr + 3 - 1 = ptr + 2
  BY <1>2, <1>3
<1>5. Char(ptr + 1 - 1) = t[1] /\ Char(ptr + 2 - 1) = t[2] /\ Char(ptr + 3 - 1) = t[3]
  BY <1>3, <1>4
<1> QED
  BY <1>2, <1>4, <1>5 DEF IsHex

(* A decimal number.                                                       *)
LEMMA DecimalFollows ==
  ASSUME NEW b, NEW i, Meets(b, i), Decimal, UNCHANGED lexemes
  PROVE  Follows'
<1> DEFINE l == lexemes[i]
           t == l.text
           n == Len(t)
<1>1. IsLexeme(l) /\ i \in DOMAIN lexemes /\ Char(ptr) = t[1]
      /\ (l.is \notin {"open", "stray"} => Good(i))
  BY MetLexeme
<1>2. t[1] \in Digits
  BY <1>1 DEF Decimal, At
<1>3. l.is \in {"decimal", "hex"} /\ Good(i)
  <2>1. l.is \in {"decimal", "hex"}
    BY <1>1, <1>2, KindByFirst
  <2> QED
    BY <1>1, <2>1
<1>4. l.is = "decimal"
  <2>1. ~Is(i, {"hex"})
    BY <1>3, HexShows DEF Decimal
  <2> QED
    BY <1>1, <1>3, <2>1 DEF Is
<1>5. Is(i, {"decimal"}) /\ Is(i, Solid) /\ ~Is(i, {"negative"})
  BY <1>1, <1>4 DEF Is, Solid
<1>6. ~Is(i + 1, Solid) /\ n < MaxTokenLen
  BY <1>3, <1>5 DEF Good, Whole
<1>7. /\ t \in Seq(STRING) /\ n \in Nat \ {0} /\ ptr \in 1 .. BufferSize
      /\ Ahead(i, Char(ptr + n))
  BY <1>3, MetGood
<1>8. Slice(ptr, After(ptr, Digits)) = t
  <2>1. \A k \in 1 .. n : t[k] \in Digits
    <3>1. \A k \in 2 .. n : t[k] \in Digits
      BY <1>1, <1>4 DEF IsLexeme, From
    <3>2. \A k \in 1 .. n : k = 1 \/ k \in 2 .. n
      BY <1>7
    <3> HIDE DEF t, n
    <3> QED
      BY <1>2, <3>1, <3>2
  <2>2. Char(ptr + n) \notin Digits
    BY <1>6, <1>7, BehindSolid DEF WordChars
  <2>3. 1 \in 1 .. n + 1 /\ ptr + 1 - 1 = ptr
    BY <1>7
  <2>4. /\ After(ptr + 1 - 1, Digits) = ptr + n
        /\ Slice(ptr + 1 - 1, ptr + n) = SubSeq(t, 1, n)
    BY <1>3, <2>1, <2>2, <2>3, RunOfLexeme
  <2>5. SubSeq(t, 1, n) = t
    BY <1>7
  <2> QED
    BY <2>3, <2>4, <2>5
<1>9. Cut(t, 1) = t
  <2>1. n <= MaxTokenLen - 1 /\ 1 \in 1 .. 3
    BY <1>6, <1>7, LexerAssumption
  <2> QED
    BY <1>7, <2>1, CutWhole
<1>10. Meant(l) = <<Tok("NUMBER", t)>>
  BY <1>4 DEF Meant
<1> HIDE DEF t, n
<1>11. Emit(Tok("NUMBER", t), ptr + n)
  BY <1>8, <1>9 DEF Decimal, n
<1> QED
  BY <1>3, <1>5, <1>10, <1>11, EmitsIt DEF n, t

(* A hexadecimal number: what follows the prefix.                          *)
LEMMA HexadecimalFollows ==
  ASSUME NEW b, NEW i, Meets(b, i), Hexadecimal, UNCHANGED lexemes
  PROVE  Follows'
<1> DEFINE l == lexemes[i]
           t == l.text
           n == Len(t)
<1>1. IsLexeme(l) /\ i \in DOMAIN lexemes /\ Char(ptr) = t[1]
      /\ (l.is \notin {"open", "stray"} => Good(i))
  BY MetLexeme
<1>2. t[1] = "0" /\ IsHex /\ "0" \in Digits
  BY <1>1, Classes DEF Hexadecimal, At
<1>3. l.is \in {"decimal", "hex"} /\ Good(i)
  <2>1. l.is \in {"decimal", "hex"}
    BY <1>1, <1>2, KindByFirst
  <2> QED
    BY <1>1, <2>1
<1>4. l.is = "hex"
  <2>1. ~Is(i, {"decimal"})
    BY <1>2, <1>3, SecondOf DEF IsHex
  <2> QED
    BY <1>1, <1>3, <2>1 DEF Is
<1>5. Is(i, {"hex"}) /\ Is(i, Solid) /\ ~Is(i, {"negative"})
  BY <1>1, <1>4 DEF Is, Solid
<1>6. ~Is(i + 1, Solid) /\ n < MaxTokenLen /\ MaxTokenLen \in Nat
  BY <1>3, <1>5, LexerAssumption DEF Good, Whole
<1>7. /\ t \in Seq(STRING) /\ n \in Nat \ {0} /\ ptr \in 1 .. BufferSize
      /\ Ahead(i, Char(ptr + n))
  BY <1>3, MetGood
<1>8. n > 2 /\ \A k \in 3 .. n : t[k] \in HexDigits
  BY <1>1, <1>4 DEF IsLexeme, From
<1> DEFINE u == SubSeq(t, 3, n)
<1>9. Slice(ptr + 2, After(ptr + 2, HexDigits)) = u
  <2>1. Char(ptr + n) \notin HexDigits
    BY <1>6, <1>7, BehindSolid, Classes
  <2>2. 3 \in 1 .. n + 1 /\ ptr + 3 - 1 = ptr + 2
    BY <1>7, <1>8
  <2>3. /\ After(ptr + 3 - 1, HexDigits) = ptr + n
        /\ Slice(ptr + 3 - 1, ptr + n) = SubSeq(t, 3, n)
    BY <1>3, <1>8, <2>1, <2>2, RunOfLexeme
  <2> QED
    BY <2>2, <2>3
<1> HIDE DEF t, n
<1>10. u \in Seq(STRING) /\ Len(u) = n - 2 /\ Tail(Tail(t)) = u
  <2>1. n = Len(t) /\ 3 \in 1 .. Len(t) + 1 /\ n \in 3 - 1 .. Len(t)
    BY <1>7, <1>8 DEF n, t
  <2>2. u = [k \in 1 .. n - 3 + 1 |-> t[3 + k - 1]]
    BY <1>7, <2>1, PartIs
  <2>3. u \in Seq(STRING) /\ Len(u) = n - 2
    BY <1>7, <1>8, <2>1
  <2>4. Tail(Tail(t)) = [k \in 1 .. n - 2 |-> t[k + 2]]
    <3> DEFINE w == Tail(t)
    <3>1. w \in Seq(STRING) /\ Len(w) = n - 1 /\ \A k \in 1 .. n - 1 : w[k] = t[k + 1]
      BY <1>7, <1>8, <2>1
    <3> HIDE DEF w
    <3>2. w # << >> /\ \A k \in 1 .. n - 2 : k + 1 \in 1 .. n - 1 /\ (k + 1) + 1 = k + 2
      BY <1>7, <1>8, <3>1
    <3>3. Tail(w) = [k \in 1 .. n - 2 |-> w[k + 1]]
      <4> DEFINE v == Tail(w)
      <4>1. (n - 1) - 1 = n - 2 /\ n - 1 \in Nat \ {0}
        BY <1>7, <1>8
      <4>2. v \in Seq(STRING) /\ Len(v) = n - 2 /\ \A k \in 1 .. n - 2 : v[k] = w[k + 1]
        BY <3>1, <3>2, <4>1
      <4> HIDE DEF v
      <4>3. v = [k \in 1 .. n - 2 |-> w[k + 1]]
        BY <4>2
      <4> QED
        BY <4>3 DEF v
    <3>4. [k \in 1 .. n - 2 |-> w[k + 1]] = [k \in 1 .. n - 2 |-> t[k + 2]]
      BY <3>1, <3>2
    <3> QED
      BY <3>3, <3>4 DEF w
  <2>5. n - 3 + 1 = n - 2 /\ \A k \in 1 .. n - 2 : 3 + k - 1 = k + 2
    BY <1>7
  <2> HIDE DEF u
  <2> QED
    BY <2>2, <2>3, <2>4, <2>5
<1> HIDE DEF u
<1>11. Cut(u, 3) = u
  <2>1. Len(u) <= MaxTokenLen - 3 /\ 3 \in 1 .. 3
    BY <1>6, <1>7, <1>10
  <2> QED
    BY <1>10, <2>1, CutWhole
<1>12. Meant(l) = <<Tok("NUMBER", itostr[Strtol(u, 16)])>>
  <2>1. Meant(l) = <<Tok("NUMBER", itostr[Strtol(Tail(Tail(t)), 16)])>>
    BY <1>4 DEF Meant, t
  <2> QED
    BY <1>10, <2>1
<1>13. ptr + 2 + Len(u) = ptr + n
  BY <1>7, <1>10
<1>14. Emit(Tok("NUMBER", itostr[Strtol(u, 16)]), ptr + n)
  BY <1>9, <1>11, <1>13 DEF Hexadecimal
<1> QED
  BY <1>3, <1>5, <1>12, <1>14, EmitsIt DEF n, t

(* A string ends at its second quotation mark.                             *)
LEMMA StringEndIs ==
  ASSUME NEW b, NEW i, Meets(b, i), Good(i), Is(i, {"string"})
  PROVE  LET t == lexemes[i].text
             n == Len(t)
         IN  /\ n > 1 /\ StringEnd = ptr + n - 1 /\ Char(StringEnd) = Quote
             /\ Slice(ptr + 1, StringEnd) = SubSeq(t, 2, n - 1)
<1> DEFINE l == lexemes[i]
           t == l.text
           n == Len(t)
           e == ptr + n - 1
           stop == {Quote} \union {NUL, "OUTSIDE"}
<1>1. IsLexeme(l) /\ l.is = "string"
  BY MetLexeme DEF Is
<1>2. /\ n > 1 /\ t[n] = Quote /\ \A k \in 2 .. n - 1 : t[k] # Quote
  BY <1>1 DEF IsLexeme, Without
<1>3. /\ t \in Seq(STRING) /\ n \in Nat \ {0} /\ ptr \in 1 .. BufferSize
      /\ ptr + n \in ptr .. BufferSize
      /\ \A k \in 1 .. n : Char(ptr + k - 1) = t[k]
      /\ \A k \in 1 .. n : t[k] \notin {NUL, "OUTSIDE"}
  BY MetGood
<1>4. BufferInv /\ BufferSize \in Nat
  BY LexerAssumption DEF Meets, TypeInv
<1> HIDE DEF t, n
<1>5. ptr + 1 \in Nat /\ e \in ptr + 1 .. BufferSize + 1
  BY <1>2, <1>3, <1>4
<1>6. ASSUME NEW q \in ptr + 1 .. e - 1 PROVE Char(q) \notin stop
  <2> DEFINE k == q - ptr + 1
  <2>1. k \in 2 .. n - 1 /\ k \in 1 .. n /\ ptr + k - 1 = q
    BY <1>2, <1>3, <1>4
  <2> HIDE DEF k
  <2>2. Char(q) = t[k]
    BY <1>3, <2>1
  <2> QED
    BY <1>2, <1>3, <2>1, <2>2
<1>7. Char(e) = Quote
  <2>1. n \in 1 .. n
    BY <1>3
  <2> QED
    BY <1>2, <1>3, <2>1
<1>8. StringEnd = e
  <2> HIDE DEF e
  <2>1. Char(e) \in stop
    BY <1>7
  <2>2. Until(ptr + 1, {Quote}) = e
    BY <1>4, <1>5, <1>6, <2>1, UntilIs
  <2> QED
    BY <2>2 DEF StringEnd
<1>9. Slice(ptr + 1, e) = SubSeq(t, 2, n - 1)
  <2>1. /\ 2 \in 1 .. Len(t) + 1 /\ n - 1 \in 2 - 1 .. Len(t) /\ ptr \in Nat \ {0}
        /\ ptr + Len(t) - 1 <= BufferSize /\ Len(t) = n
        /\ ptr + 2 - 1 = ptr + 1 /\ ptr + (n - 1) = e
    BY <1>2, <1>3, <1>4 DEF n
  <2>2. Slice(ptr + 2 - 1, ptr + (n - 1)) = SubSeq(t, 2, n - 1)
    BY <1>3, <1>4, <2>1, SliceHolds
  <2> QED
    BY <2>1, <2>2
<1> QED
  BY <1>2, <1>7, <1>8, <1>9 DEF n, t

(* The lexeme that a place of the text is in.                              *)
LEMMA Located ==
  ASSUME FileInv, NEW i \in 1 .. Len(lexemes), NEW p \in Starts(i) .. Len(text)
  PROVE  \E j \in i .. Len(lexemes) :
           /\ p - Starts(j) + 1 \in 1 .. Len(lexemes[j].text)
           /\ text[p] = lexemes[j].text[p - Starts(j) + 1]
<1> DEFINE n == Len(lexemes)
           S == {j \in i .. n : p < Starts(j + 1)}
<1>1. /\ lexemes \in Seq(LexemeSet) /\ n \in Nat /\ Len(text) \in Nat
      /\ Starts(n + 1) = Len(text) + 1
      /\ \A j \in 1 .. n : /\ Starts(j) \in Nat /\ Starts(j + 1) \in Nat
                           /\ Starts(j + 1) = Starts(j) + Len(lexemes[j].text)
  BY LexemesStand
<1>2. n \in S /\ S \in SUBSET Nat
  BY <1>1
<1>3. PICK j \in S : \A k \in S : j <= k
  BY <1>2, LeastOf
<1>4. j \in i .. n /\ j \in 1 .. n /\ p < Starts(j + 1) /\ p \in Nat
  BY <1>1, <1>3
<1>5. Starts(j) <= p
  <2>1. CASE j = i
    BY <2>1, <1>1
  <2>2. CASE j # i
    <3>1. j - 1 \in i .. n /\ j - 1 \in 1 .. n /\ (j - 1) + 1 = j /\ ~(j <= j - 1)
      BY <1>1, <1>4, <2>2
    <3>2. ~(p < Starts((j - 1) + 1))
      BY <1>3, <3>1
    <3>3. ~(p < Starts(j)) /\ Starts(j) \in Nat
      BY <1>1, <1>4, <3>1, <3>2
    <3> QED
      BY <1>4, <3>3
  <2> QED
    BY <2>1, <2>2
<1> DEFINE m == p - Starts(j) + 1
           d == Len(lexemes[j].text)
<1>6. d \in Nat
  <2>1. lexemes[j] \in LexemeSet
    BY <1>1, <1>4
  <2> QED
    BY <2>1 DEF LexemeSet
<1>7. m \in 1 .. d /\ Starts(j) + m - 1 = p
  <2>1. Starts(j) \in Nat /\ Starts(j + 1) = Starts(j) + d
    BY <1>1, <1>4
  <2> HIDE DEF d
  <2> QED
    BY <1>4, <1>5, <1>6, <2>1
<1>8. text[p] = lexemes[j].text[m]
  <2>1. \A k \in 1 .. d : text[Starts(j) + k - 1] = lexemes[j].text[k]
    BY <1>4, LexemesStand
  <2> HIDE DEF m, d
  <2> QED
    BY <1>7, <2>1
<1> QED
  BY <1>4, <1>7, <1>8

(* In a string without an end there is none to find: the line's NUL comes  *)
(* first.                                                                  *)
LEMMA OpenEnds ==
  ASSUME NEW b, NEW i, Meets(b, i), Hopeless(i), Is(i, {"open"})
  PROVE  Char(StringEnd) = NUL /\ StringEnd \in DOMAIN buffer
<1> DEFINE e == read - b + 2
           stop == {Quote} \union {NUL, "OUTSIDE"}
<1>1. /\ TypeInv /\ BufferInv /\ FileInv /\ b \in 1 .. read /\ Holds(b)
      /\ i \in 1 .. Len(lexemes) /\ ptr \in 1 .. read - b + 1 /\ b + ptr - 1 = Starts(i)
  BY DEF Meets, StandsAt, TypeInv
<1>2. /\ \A q \in 1 .. read - b + 1 : Char(q) = text[b + q - 1]
      /\ Char(e) = NUL /\ e \in 1 .. BufferSize
  BY <1>1, LineHolds
<1>3. read \in Nat /\ b \in Nat /\ Len(text) \in Nat /\ read <= Len(text) /\ BufferSize \in Nat
  BY <1>1, LexerAssumption DEF BufferInv, Holds
<1>4. lexemes[i].is = "open" /\ Without(lexemes[i], 1, Len(lexemes[i].text), {NUL, "OUTSIDE"})
      /\ IsLexeme(lexemes[i]) /\ lexemes \in Seq(LexemeSet)
      /\ \A j \in DOMAIN lexemes : Without(lexemes[j], 1, Len(lexemes[j].text), {NUL, "OUTSIDE"})
  BY <1>1, SourcesAssumption, LexemesStand DEF Is, FileInv
<1>5. ASSUME NEW q \in ptr + 1 .. e - 1 PROVE Char(q) \notin stop
  <2> DEFINE p == b + q - 1
  <2>1. q \in 1 .. read - b + 1 /\ p \in Starts(i) .. Len(text) /\ p \in Starts(i) + 1 .. Len(text)
    BY <1>1, <1>3
  <2>2. Char(q) = text[p]
    BY <1>2, <2>1
  <2> HIDE DEF p
  <2>3. PICK j \in i .. Len(lexemes) :
          /\ p - Starts(j) + 1 \in 1 .. Len(lexemes[j].text)
          /\ text[p] = lexemes[j].text[p - Starts(j) + 1]
    BY <1>1, <2>1, Located
  <2> DEFINE m == p - Starts(j) + 1
  <2>4. m \in 1 .. Len(lexemes[j].text) /\ text[p] = lexemes[j].text[m]
    BY <2>3
  <2>5. j = i \/ j \in i + 1 .. Len(lexemes)
    BY <1>1, <1>4
  <2>6. j = i => m \in 2 .. Len(lexemes[j].text)
    <3> SUFFICES ASSUME j = i PROVE m \in 2 .. Len(lexemes[j].text)
      OBVIOUS
    <3>1. Starts(i) \in Nat /\ p >= Starts(i) + 1 /\ p \in Nat
      BY <1>1, <2>1, LexemesStand
    <3>2. m >= 2
      BY <3>1
    <3> HIDE DEF m
    <3> QED
      BY <2>4, <3>2
  <2>7. j \in DOMAIN lexemes /\ lexemes[j].text \in Seq(STRING)
    <3>1. j \in DOMAIN lexemes
      BY <1>1, <1>4, <2>5
    <3>2. lexemes[j] \in LexemeSet
      BY <1>4, <3>1
    <3> QED
      BY <3>1, <3>2 DEF LexemeSet
  <2> HIDE DEF m
  <2>8. text[p] \notin {NUL, "OUTSIDE"}
    BY <1>4, <2>4, <2>7 DEF Without
  <2>9. text[p] # Quote
    <3>1. CASE j = i
      <4>1. \A k \in 2 .. Len(lexemes[i].text) : lexemes[i].text[k] # Quote
        BY <1>4 DEF IsLexeme, Without
      <4> QED
        BY <2>4, <2>6, <3>1, <4>1
    <3>2. CASE j \in i + 1 .. Len(lexemes)
      <4>1. Quote \notin Range(lexemes[j].text)
        BY <1>4, <3>2 DEF Hopeless, Is
      <4>2. m \in DOMAIN lexemes[j].text
        BY <2>4, <2>7
      <4> QED
        BY <2>4, <4>1, <4>2 DEF Range
    <3> QED
      BY <2>5, <3>1, <3>2
  <2> QED
    BY <2>2, <2>8, <2>9
<1>6. Until(ptr + 1, {Quote}) = e
  <2>1. ptr + 1 \in Nat /\ e \in ptr + 1 .. BufferSize + 1
    BY <1>1, <1>2, <1>3
  <2> HIDE DEF e
  <2>2. Char(e) \in stop
    BY <1>2
  <2> QED
    BY <1>1, <1>5, <2>1, <2>2, UntilIs
<1>7. StringEnd = e
  BY <1>6 DEF StringEnd
<1> QED
  BY <1>1, <1>2, <1>7 DEF BufferInv
(* A string, or one without an end, which ends the process.                *)
LEMMA StringFollows ==
  ASSUME NEW b, NEW i, Meets(b, i), StringLiteral \/ UnterminatedString \/ OverlongString,
         UNCHANGED lexemes
  PROVE  Follows'
<1> DEFINE l == lexemes[i]
           t == l.text
           n == Len(t)
<1>1. IsLexeme(l) /\ i \in DOMAIN lexemes /\ Char(ptr) = t[1]
      /\ (l.is \notin {"open", "stray"} => Good(i)) /\ (Good(i) \/ Hopeless(i))
      /\ TypeInv /\ FileInv
  BY MetLexeme DEF Meets
<1>2. t[1] = Quote
  BY <1>1 DEF StringLiteral, UnterminatedString, OverlongString, At
<1>3. l.is \in {"string", "open"}
  BY <1>1, <1>2, KindByFirst
<1>4. Quote # NUL
  BY NoNul
<1>5. CASE l.is = "string"
  <2>1. Good(i) /\ Is(i, {"string"}) /\ ~Is(i, {"negative"})
    BY <1>1, <1>5 DEF Is
  <2>2. /\ n > 1 /\ StringEnd = ptr + n - 1 /\ Char(StringEnd) = Quote
        /\ Slice(ptr + 1, StringEnd) = SubSeq(t, 2, n - 1)
    BY <2>1, StringEndIs
  <2>3. n \in Nat /\ ptr \in 1 .. BufferSize /\ ptr + n \in ptr .. BufferSize
        /\ BufferSize \in Nat /\ DOMAIN buffer = 1 .. BufferSize
    BY <1>1, <2>1, MetGood, LexerAssumption DEF TypeInv, BufferInv
  <2>4. Char(StringEnd) # NUL /\ StringEnd \in DOMAIN buffer
    BY <1>4, <2>2, <2>3
  <2>5. StringLiteral
    BY <2>4 DEF UnterminatedString, OverlongString
  <2>6. StringEnd + 1 = ptr + n
    BY <2>2, <2>3
  <2> DEFINE s == Cut(SubSeq(t, 2, n - 1), 1)
  <2>7. Meant(l) = <<Tok("STRING_LITERAL", s)>>
    BY <1>5 DEF Meant
  <2>8. Emit(Tok("STRING_LITERAL", s), ptr + n)
    BY <2>2, <2>5, <2>6 DEF StringLiteral
  <2> HIDE DEF s
  <2> QED
    BY <2>1, <2>7, <2>8, EmitsIt
<1>6. CASE l.is = "open"
  <2>1. ~Good(i) /\ Is(i, {"open"})
    BY <1>1, <1>6 DEF Is, Good, Whole
  <2>2. Hopeless(i)
    BY <1>1, <2>1
  <2>3. Char(StringEnd) = NUL /\ StringEnd \in DOMAIN buffer
    BY <2>1, <2>2, OpenEnds
  <2>4. UnterminatedString
    BY <1>4, <2>3 DEF StringLiteral, OverlongString
  <2>5. at' = "error" /\ UNCHANGED <<text, read>>
    BY <2>4 DEF UnterminatedString, Leave
  <2>6. (\E j \in DOMAIN lexemes : GoodBefore(j) /\ Hopeless(j))'
    <3>1. GoodBefore(i)' /\ Hopeless(i)' /\ i \in DOMAIN lexemes'
      BY <1>1, <2>2, <2>5, SameFile DEF Meets
    <3> QED
      BY <3>1
  <2>7. (read < Len(text) => read + 1 \in ReadFrom)'
    BY <2>5, SameFile DEF Meets, StandsAt
  <2> QED
    BY <2>5, <2>6, <2>7 DEF Follows
<1> QED
  BY <1>3, <1>5, <1>6

(* A character of no lexeme ends the process.                              *)
LEMMA UnknownFollows ==
  ASSUME NEW b, NEW i, Meets(b, i), UnknownCharacter, UNCHANGED lexemes
  PROVE  Follows'
<1> DEFINE l == lexemes[i]
           t == l.text
           n == Len(t)
<1>1. IsLexeme(l) /\ i \in DOMAIN lexemes /\ Char(ptr) = t[1]
      /\ (l.is \notin {"open", "stray"} => Good(i)) /\ (Good(i) \/ Hopeless(i))
  BY MetLexeme DEF Meets
<1>2. t[1] \notin Known /\ at' = "error" /\ UNCHANGED <<text, read>>
  BY <1>1 DEF UnknownCharacter, Leave
<1>3. t[1] # "-"
  <2> SUFFICES ASSUME t[1] = "-" PROVE FALSE
    OBVIOUS
  <2>1. l.is = "negative"
    BY <1>1, KindByFirst
  <2>2. Good(i) /\ n > 1 /\ \A k \in 2 .. n : t[k] \in Digits
    BY <1>1, <2>1 DEF IsLexeme, From
  <2>3. ptr \in 1 .. BufferSize /\ n \in Nat /\ \A k \in 1 .. n : Char(ptr + k - 1) = t[k]
    BY <2>2, MetGood
  <2> HIDE DEF n, t
  <2>4. 2 \in 1 .. n /\ 2 \in 2 .. n /\ ptr + 2 - 1 = ptr + 1
    BY <2>2, <2>3
  <2>5. Char(ptr + 1) \in Digits
    BY <2>2, <2>3, <2>4
  <2> QED
    BY <1>1, <2>5 DEF UnknownCharacter, t
<1>4. l.is = "stray"
  BY <1>1, <1>2, <1>3, KindByFirst
<1>5. Hopeless(i)
  <2>1. ~Good(i)
    BY <1>1, <1>4 DEF Is, Good, Whole
  <2> QED
    BY <1>1, <2>1
<1>6. (\E j \in DOMAIN lexemes : GoodBefore(j) /\ Hopeless(j))'
  <2>1. GoodBefore(i)' /\ Hopeless(i)' /\ i \in DOMAIN lexemes'
    BY <1>1, <1>2, <1>5, SameFile DEF Meets
  <2> QED
    BY <2>1
<1>7. (read < Len(text) => read + 1 \in ReadFrom)'
  BY <1>2, SameFile DEF Meets, StandsAt
<1> QED
  BY <1>2, <1>6, <1>7 DEF Follows

(* A negative number is written as it is in the file.                      *)
LEMMA NegativeIs ==
  ASSUME NEW b, NEW i, Meets(b, i), Negative
  PROVE  /\ Is(i, {"negative"}) /\ Good(i)
         /\ NegativeText = lexemes[i].text
         /\ Meant(lexemes[i]) = <<Tok("NEGATIVE_NUMBER", NegativeText)>>
<1> DEFINE l == lexemes[i]
           t == l.text
           n == Len(t)
           u == Tail(t)
<1>1. IsLexeme(l) /\ i \in DOMAIN lexemes /\ Char(ptr) = t[1]
      /\ (l.is \notin {"open", "stray"} => Good(i))
  BY MetLexeme
<1>2. t[1] = "-"
  BY <1>1 DEF Negative, At
<1>3. l.is = "negative" /\ Good(i) /\ Is(i, {"negative"})
  <2>1. l.is = "negative"
    BY <1>1, <1>2, KindByFirst
  <2> QED
    BY <1>1, <2>1 DEF Is
<1>4. u = itostr[Strtol(u, 10)] /\ Is(i + 1, {"blank", "newline"})
  BY <1>3 DEF Good, Spaced, Canonical
<1>5. n > 1 /\ \A k \in 2 .. n : t[k] \in Digits
  BY <1>1, <1>3 DEF IsLexeme, From
<1>6. /\ t \in Seq(STRING) /\ n \in Nat \ {0} /\ ptr \in 1 .. BufferSize
      /\ Ahead(i, Char(ptr + n))
  BY <1>3, MetGood
<1>7. Char(ptr + n) \notin Digits
  <2>1. ~Is(i + 1, Solid)
    BY <1>4 DEF Is, Solid
  <2> QED
    BY <1>6, <2>1, BehindSolid DEF WordChars
<1>8. u \in Seq(Digits) /\ u \in Seq(STRING) /\ Len(u) = n - 1 /\ SubSeq(t, 2, n) = u
      /\ t = <<"-">> \o u
  <2>1. u \in Seq(STRING) /\ Len(u) = n - 1 /\ \A k \in 1 .. n - 1 : u[k] = t[k + 1]
    <3>1. n = Len(t) /\ t # << >>
      BY <1>5, <1>6
    <3> HIDE DEF t, n
    <3> QED
      BY <1>5, <1>6, <3>1 DEF u
  <2> HIDE DEF u
  <2>2. \A k \in 1 .. n - 1 : k + 1 \in 2 .. n
    BY <1>5, <1>6
  <2>3. \A k \in 1 .. n - 1 : u[k] \in Digits
    BY <1>5, <2>1, <2>2
  <2>4. u \in Seq(Digits)
    BY <2>1, <2>3
  <2>5. SubSeq(t, 2, n) = [k \in 1 .. n - 2 + 1 |-> t[2 + k - 1]]
    <3>1. 2 \in 1 .. Len(t) + 1 /\ n \in 2 - 1 .. Len(t)
      BY <1>5, <1>6
    <3> HIDE DEF t, n
    <3> QED
      BY <1>6, <3>1, PartIs DEF t
  <2>6. n - 2 + 1 = n - 1 /\ \A k \in 1 .. n - 1 : 2 + k - 1 = k + 1
    BY <1>6
  <2>7. u = [k \in 1 .. n - 1 |-> u[k]]
    BY <2>1
  <2>8. SubSeq(t, 2, n) = u
    BY <2>1, <2>5, <2>6, <2>7
  <2>9. t = <<"-">> \o u
    <3> DEFINE v == <<"-">> \o u
    <3>1. /\ DOMAIN v = 1 .. n /\ v[1] = t[1]
          /\ \A k \in 2 .. n : v[k] = u[k - 1]
      BY <1>2, <1>6, <2>1
    <3>2. \A k \in 2 .. n : k - 1 \in 1 .. n - 1 /\ (k - 1) + 1 = k
      BY <1>6
    <3>3. \A k \in 1 .. n : k = 1 \/ k \in 2 .. n
      BY <1>6
    <3>4. v = [k \in 1 .. n |-> v[k]] /\ t = [k \in 1 .. n |-> t[k]]
      BY <1>6, <2>1
    <3> HIDE DEF v, t, n
    <3>5. \A k \in 1 .. n : v[k] = t[k]
      BY <2>1, <3>1, <3>2, <3>3
    <3>6. v = t
      BY <3>4, <3>5
    <3> QED
      BY <3>6 DEF v, t, n
  <2> QED
    BY <2>1, <2>4, <2>8, <2>9
<1> HIDE DEF u
<1>9. Slice(ptr + 1, After(ptr + 1, Digits)) = u
  <2>1. 2 \in 1 .. n + 1 /\ ptr + 2 - 1 = ptr + 1
    BY <1>5, <1>6
  <2>2. /\ After(ptr + 2 - 1, Digits) = ptr + n
        /\ Slice(ptr + 2 - 1, ptr + n) = SubSeq(t, 2, n)
    BY <1>3, <1>5, <1>7, <2>1, RunOfLexeme
  <2> QED
    BY <1>8, <2>1, <2>2
<1>10. Cut(u, 1) = u
  <2>1. Seq(Digits) \subseteq Seq(HexDigits)
    <3>1. Digits \subseteq HexDigits
      BY Classes
    <3> QED
      BY <3>1
  <2>2. Strtol(u, 10) \in 0 .. LongMax
    BY <1>8, <2>1, StrtolFits
  <2>3. Len(itostr[Strtol(u, 10)]) < MaxTokenLen /\ Len(u) \in Nat
    BY <1>8, <2>2, WrittenFits
  <2>4. Len(u) < MaxTokenLen
    BY <1>4, <2>3
  <2>5. Len(u) <= MaxTokenLen - 1 /\ 1 \in 1 .. 3
    BY <2>3, <2>4, LexerAssumption
  <2> QED
    BY <1>8, <2>5, CutWhole
<1>11. NegativeText = <<"-">> \o itostr[Strtol(u, 10)]
  BY <1>9, <1>10 DEF NegativeText
<1>12. NegativeText = t
  BY <1>4, <1>8, <1>11
<1>13. Meant(l) = <<Tok("NEGATIVE_NUMBER", t)>>
  BY <1>3 DEF Meant
<1> QED
  BY <1>3, <1>12, <1>13

(* Blanks are passed over one at a time.                                   *)
LEMMA BlankFollows ==
  ASSUME TypeInv, FileInv, Decided, NEW b \in 1 .. read, NEW i \in 1 .. Len(lexemes),
         NEW q \in 1 .. read - b + 2, NEW c, c = b + q - 1,
         Holds(b), read < Len(text) => read + 1 \in ReadFrom, at = "line",
         UNCHANGED <<text, read, buffer, at, lexemes>>, ptr' = q,
         GoodBefore(i), NEW S, tokens' \in Seq(S), tokens' = TokensTo(i - 1),
         Is(i, {"blank"}), c \in Starts(i) + 1 .. Starts(i + 1)
  PROVE  Follows'
<1>1. i \in Nat \ {0} /\ Len(lexemes) \in Nat /\ i \in 1 .. Len(lexemes) + 1 /\ i \in DOMAIN lexemes
      /\ Starts(i) \in Nat /\ Starts(i + 1) \in Nat /\ c \in Nat
  BY LexemesStand
<1>2. CASE c # Starts(i + 1)
  <2>1. c \in Starts(i) + 1 .. Starts(i + 1) - 1
    BY <1>1, <1>2
  <2> QED
    BY <1>1, <2>1, Continues
<1>3. CASE c = Starts(i + 1)
  <2> DEFINE j == i + 1
  <2>1. j \in 1 .. Len(lexemes) + 1 /\ j - 1 = i /\ \A k \in 1 .. j - 1 : k = i \/ k \in 1 .. i - 1
    BY <1>1
  <2>2. lexemes[i].is = "blank"
    BY DEF Is
  <2>3. Good(i)
    BY <1>1, <2>2 DEF Decided, Hopeless, Is
  <2>4. GoodBefore(j)
    BY <2>1, <2>3 DEF GoodBefore
  <2>5. TokensOf(i) = << >>
    BY <2>2 DEF TokensOf, Meant
  <2>6. TokensTo(i) = TokensTo(i - 1) \o << >>
    BY <2>5, TokensAre
  <2>7. tokens' = TokensTo(j - 1)
    BY <2>1, <2>6, AppendIs
  <2>8. ~Is(j - 1, {"negative"}) /\ c = Starts(j)
    BY <1>3, <2>1, <2>2 DEF Is
  <2> HIDE DEF j
  <2> QED
    BY <2>1, <2>4, <2>7, <2>8, Continues
<1> QED
  BY <1>2, <1>3

(* A negative number takes with it the character behind it.                *)
LEMMA NegativeFollows ==
  ASSUME NEW b, NEW i, Meets(b, i), Decided, Negative, UNCHANGED lexemes
  PROVE  Follows'
<1> DEFINE l == lexemes[i]
           n == Len(l.text)
           tok == Tok("NEGATIVE_NUMBER", NegativeText)
           j == i + 1
           q == ptr + n + 1
           c == b + q - 1
           S == TokenSet \union {tok}
<1>1. /\ Is(i, {"negative"}) /\ Good(i) /\ NegativeText = l.text /\ Meant(l) = <<tok>>
  BY NegativeIs
<1>2. Is(j, {"blank", "newline"}) /\ Starts(j) \notin ReadFrom
  BY <1>1 DEF Good, Spaced
<1>3. /\ TypeInv /\ BufferInv /\ FileInv /\ at = "line" /\ GoodBefore(i) /\ b \in 1 .. read
      /\ Holds(b) /\ (read < Len(text) => read + 1 \in ReadFrom)
      /\ i \in 1 .. Len(lexemes) /\ StandsAt(b, i) /\ tokens = TokensTo(i - 1)
      /\ ~Is(i - 1, {"negative"}) /\ InOnePiece(i)
  BY <1>1 DEF Meets, StandsAt, TypeInv, Good, Whole
<1>4. n \in Nat /\ ptr \in Nat /\ b \in Nat /\ read \in Nat /\ read <= Len(text)
      /\ Len(text) \in Nat
  BY <1>1, <1>3, MetGood DEF BufferInv, Holds
<1>5. Starts(j) = b + (ptr + n) - 1 /\ ptr + n \in 1 .. read - b + 2
  BY <1>3, LexemeInBuffer
<1>6. /\ tokens' = Append(tokens, tok) /\ ptr' = q
      /\ UNCHANGED <<text, read, buffer, at>>
  BY <1>1 DEF Negative, Emit
<1>7. /\ j \in DOMAIN lexemes /\ j \in 1 .. Len(lexemes) /\ j - 1 = i /\ IsLexeme(lexemes[j])
      /\ lexemes[j].is \in {"blank", "newline"} /\ lexemes \in Seq(LexemeSet)
  <2>1. j \in DOMAIN lexemes /\ lexemes[j].is \in {"blank", "newline"}
    BY <1>2 DEF Is
  <2>2. lexemes \in Seq(LexemeSet)
    BY <1>3, LexemesStand
  <2>3. IsLexeme(lexemes[j])
    BY <1>3, <2>1, SourcesAssumption DEF FileInv
  <2> QED
    BY <1>3, <2>1, <2>2, <2>3
<1> DEFINE m == Len(lexemes[j].text)
<1>8. m \in Nat \ {0} /\ Starts(j + 1) = Starts(j) + m /\ Starts(j + 1) \in 1 .. Len(text) + 1
      /\ Starts(j) \in Nat
  <2>1. lexemes[j] \in LexemeSet
    BY <1>7
  <2>2. m > 0
    BY <1>7, KindByFirst
  <2>3. m \in Nat
    BY <2>1 DEF LexemeSet
  <2> HIDE DEF j
  <2> QED
    BY <1>3, <1>7, <2>2, <2>3, LexemesStand
<1> HIDE DEF m, n
<1>9. ptr + n \in 1 .. read - b + 1
  <2> SUFFICES ASSUME ptr + n = read - b + 2 PROVE FALSE
    BY <1>4, <1>5
  <2>1. Starts(j) = read + 1
    BY <1>4, <1>5
  <2>2. read + 1 <= Len(text)
    BY <1>4, <1>8, <2>1
  <2> QED
    BY <1>2, <1>3, <1>4, <2>1, <2>2
<1>10. q \in 1 .. read - b + 2 /\ c = Starts(j) + 1
  BY <1>4, <1>5, <1>9
<1>11. GoodBefore(j) /\ Good(j)
  <2>1. \A k \in 1 .. j - 1 : k = i \/ k \in 1 .. i - 1
    BY <1>3
  <2>2. GoodBefore(j)
    BY <1>1, <1>3, <2>1 DEF GoodBefore
  <2>3. ~Hopeless(j)
    BY <1>7 DEF Hopeless, Is
  <2> QED
    BY <1>7, <2>2, <2>3 DEF Decided
<1>12. tokens' = TokensTo(i) /\ tokens' \in Seq(S)
  <2>1. tokens \in Seq(TokenSet)
    BY <1>3 DEF TypeInv
  <2>2. Seq(TokenSet) \subseteq Seq(S) /\ tok \in S
    OBVIOUS
  <2>3. TokensOf(i) = <<tok>>
    BY <1>1, <1>3 DEF TokensOf, SkippedNewline
  <2>4. TokensTo(i) = TokensTo(i - 1) \o TokensOf(i)
    BY <1>3, TokensAre
  <2> HIDE DEF S, tok
  <2>5. Append(tokens, tok) = tokens \o <<tok>>
    BY <2>1, AppendIs
  <2>6. tokens' \in Seq(S)
    BY <1>6, <2>1, <2>2
  <2> QED
    BY <1>3, <1>6, <2>3, <2>4, <2>5, <2>6
<1>13. tokens' = TokensTo(j - 1)
  BY <1>7, <1>12
<1>14. CASE lexemes[j].is = "blank"
  <2>1. Is(j, {"blank"}) /\ c \in Starts(j) + 1 .. Starts(j + 1)
    BY <1>7, <1>8, <1>10, <1>14 DEF Is
  <2>2. ptr' = q /\ c = b + q - 1 /\ UNCHANGED <<text, read, buffer, at, lexemes>>
    BY <1>6
  <2> HIDE DEF j, q, c, S
  <2> QED
    BY <1>3, <1>7, <1>10, <1>11, <1>12, <1>13, <2>1, <2>2, BlankFollows
<1>15. CASE lexemes[j].is = "newline"
  <2> DEFINE k == j + 1
  <2>1. m = 1
    BY <1>7, <1>15 DEF IsLexeme, m
  <2>2. /\ k \in 1 .. Len(lexemes) + 1 /\ k - 1 = j
        /\ \A h \in 1 .. k - 1 : h = j \/ h \in 1 .. j - 1
    BY <1>3, <1>7
  <2>3. GoodBefore(k)
    BY <1>11, <2>2 DEF GoodBefore
  <2>4. c = Starts(k) /\ ~Is(k - 1, {"negative"})
    BY <1>8, <1>10, <1>15, <2>1, <2>2 DEF Is
  <2>5. TokensOf(j) = << >>
    <3>1. Is(j, {"newline"}) /\ j > 1 /\ Is(j - 1, {"negative"})
      BY <1>1, <1>3, <1>7, <1>15 DEF Is
    <3> QED
      BY <3>1 DEF TokensOf, SkippedNewline
  <2>6. TokensTo(j) = TokensTo(j - 1) \o TokensOf(j)
    <3> HIDE DEF j
    <3> QED
      BY <1>3, <1>7, TokensAre
  <2>7. tokens' = TokensTo(k - 1)
    BY <1>12, <1>13, <2>2, <2>5, <2>6, AppendIs
  <2>8. ptr' = q /\ c = b + q - 1 /\ UNCHANGED <<text, read, buffer, at, lexemes>>
    BY <1>6
  <2> HIDE DEF k, j, q, c
  <2> QED
    BY <1>3, <1>10, <2>2, <2>3, <2>4, <2>7, <2>8, Continues
<1> QED
  BY <1>7, <1>14, <1>15

(* What no action takes for itself at the pointer of another.              *)
LEMMA OnlyBlank ==
  ASSUME Lexeme, Char(ptr) \in Blanks
  PROVE  Blank
<1> DEFINE c == Char(ptr)
<1>1. /\ c \notin WordStart /\ c \notin Digits /\ c \notin Marks /\ c \notin Others /\ c # NUL
      /\ c \in Known
  BY Classes, NoNul DEF Known
<1>2. c \notin {NewLine, ";", Quote, "-"} /\ c # "0"
  BY <1>1, Classes DEF Others
<1> HIDE DEF c
<1>3. /\ ~Newline /\ ~Mark /\ ~Comment /\ ~StringLiteral /\ ~UnterminatedString
      /\ ~OverlongString
  BY <1>1, <1>2 DEF c, Newline, Mark, Comment, StringLiteral, UnterminatedString,
    OverlongString, At
<1>4. /\ ~Hexadecimal /\ ~Decimal /\ ~Negative /\ ~Register /\ ~Instruction /\ ~Identifier
      /\ ~UnknownCharacter
  BY <1>1, <1>2 DEF c, Hexadecimal, Decimal, Negative, Register, Instruction, Identifier,
    UnknownCharacter, At
<1> QED
  BY <1>3, <1>4 DEF Lexeme

(* At the NUL nothing is lexed.                                            *)
LEMMA NoneAtNul ==
  ASSUME Char(ptr) = NUL
  PROVE  ~Lexeme
<1>1. NUL \in Known
  BY DEF Known
<1>2. /\ ~Newline /\ ~Mark /\ ~Comment /\ ~StringLiteral /\ ~UnterminatedString
      /\ ~OverlongString /\ ~Blank
  BY NoNul DEF Newline, Mark, Comment, StringLiteral, UnterminatedString,
    OverlongString, Blank, At
<1>3. /\ ~Hexadecimal /\ ~Decimal /\ ~Negative /\ ~Register /\ ~Instruction /\ ~Identifier
      /\ ~UnknownCharacter
  BY <1>1, NoNul DEF Hexadecimal, Decimal, Negative, Register, Instruction, Identifier,
    UnknownCharacter, At
<1> QED
  BY <1>2, <1>3 DEF Lexeme

(* No character of the file is a NUL.                                      *)
LEMMA NoNulInFile ==
  ASSUME FileInv, NEW p \in 1 .. Len(text)
  PROVE  text[p] # NUL
<1>1. /\ Starts(1) = 1 /\ lexemes \in Seq(LexemeSet) /\ Len(text) \in Nat
      /\ Starts(Len(lexemes) + 1) = Len(text) + 1
  BY LexemesStand
<1>2. 1 \in 1 .. Len(lexemes)
  <2> SUFFICES ASSUME Len(lexemes) = 0 PROVE FALSE
    BY <1>1
  <2>1. Len(lexemes) + 1 = 1
    OBVIOUS
  <2>2. Starts(1) = Len(text) + 1
    BY <1>1, <2>1
  <2> QED
    BY <1>1, <2>2
<1> DEFINE o == 1
<1>3. o \in 1 .. Len(lexemes) /\ p \in Starts(o) .. Len(text)
  BY <1>1, <1>2
<1> HIDE DEF o
<1>4. PICK j \in o .. Len(lexemes) :
        /\ p - Starts(j) + 1 \in 1 .. Len(lexemes[j].text)
        /\ text[p] = lexemes[j].text[p - Starts(j) + 1]
  BY <1>3, Located
<1>5. j \in DOMAIN lexemes
  BY <1>1, <1>3
<1>6. Without(lexemes[j], 1, Len(lexemes[j].text), {NUL, "OUTSIDE"})
  BY <1>5, SourcesAssumption DEF FileInv
<1> QED
  BY <1>4, <1>6 DEF Without

(* Every iteration of lexer()'s loop follows the lexemes.                  *)
LEMMA LineFollows ==
  ASSUME TypeInv, FileInv, Decided, Follows, at = "line",
         Lexeme \/ EndOfLine \/ LeaveBuffer, UNCHANGED lexemes
  PROVE  Follows'
<1>1. PICK b \in 1 .. read, i \in 1 .. Len(lexemes) + 1 :
        Holds(b) /\ ptr \in 1 .. read - b + 2 /\ Reached(i, b + ptr - 1)
  BY DEF Follows
<1> DEFINE c == b + ptr - 1
<1>2. /\ BufferInv /\ read \in Nat /\ b \in Nat /\ ptr \in Nat /\ BufferSize \in Nat
      /\ DOMAIN buffer = 1 .. BufferSize /\ read <= Len(text) /\ Len(text) \in Nat
      /\ (read < Len(text) => read + 1 \in ReadFrom)
  BY <1>1, LexerAssumption DEF TypeInv, BufferInv, Follows, Holds
<1>3. /\ \A q \in 1 .. read - b + 1 : Char(q) = text[b + q - 1]
      /\ Char(read - b + 2) = NUL /\ read - b + 2 \in 1 .. BufferSize
  BY <1>1, <1>2, LineHolds
<1>4. ~LeaveBuffer
  BY <1>1, <1>2, <1>3 DEF LeaveBuffer
<1>5. /\ lexemes \in Seq(LexemeSet) /\ Len(lexemes) \in Nat
      /\ Starts(Len(lexemes) + 1) = Len(text) + 1
      /\ \A k \in 1 .. Len(lexemes) : Starts(k) \in Nat /\ Starts(k + 1) \in Nat
  BY LexemesStand
<1>6. CASE ptr = read - b + 2
  <2>1. EndOfLine
    BY <1>3, <1>4, <1>6, NoneAtNul
  <2>2. at' = "file" /\ UNCHANGED <<text, read, buffer, ptr, tokens, lexemes>>
    BY <2>1 DEF EndOfLine, Leave
  <2> DEFINE p == read + 1
  <2>3. c = p
    BY <1>2, <1>6
  <2>4. Reached(i, p)
    BY <1>1, <2>3
  <2>5. Reached(i, p)'
    <3> HIDE DEF p
    <3>1. p' = p
      BY <2>2 DEF p
    <3> QED
      BY <2>2, <2>4, <3>1, SameFile DEF Reached
  <2>6. (read < Len(text) => read + 1 \in ReadFrom)'
    BY <1>2, <2>2, SameFile
  <2>7. (\E k \in 1 .. Len(lexemes) + 1 : Reached(k, read + 1))'
    BY <2>2, <2>5
  <2>8. read # 0
    BY <1>1, <1>2
  <2> QED
    BY <2>2, <2>6, <2>7, <2>8 DEF Follows
<1>7. CASE ptr # read - b + 2
  <2>1. ptr \in 1 .. read - b + 1 /\ c \in 1 .. Len(text) /\ c \in Nat
    BY <1>1, <1>2, <1>7
  <2>2. Char(ptr) = text[c] /\ Char(ptr) # NUL
    BY <1>3, <2>1, NoNulInFile
  <2>3. Lexeme
    BY <1>4, <2>2 DEF EndOfLine, At
  <2>4. GoodBefore(i) /\ tokens = TokensTo(i - 1)
        /\ \/ c = Starts(i) /\ ~Is(i - 1, {"negative"})
           \/ Is(i, {"blank"}) /\ c \in Starts(i) + 1 .. Starts(i + 1) - 1
    BY <1>1 DEF Reached
  <2>5. i \in 1 .. Len(lexemes)
    <3>1. CASE Is(i, {"blank"})
      BY <1>5, <3>1 DEF Is
    <3>2. CASE c = Starts(i)
      <4>1. i # Len(lexemes) + 1
        BY <1>2, <1>5, <2>1, <3>2
      <4> QED
        BY <1>1, <1>5, <4>1
    <3> QED
      BY <2>4, <3>1, <3>2
  <2>6. i \in DOMAIN lexemes
    BY <1>5, <2>5
  <2>7. ASSUME Blank, Is(i, {"blank"}), c \in Starts(i) .. Starts(i + 1) - 1
        PROVE  Follows'
    <3> DEFINE q == ptr + 1
               d == b + q - 1
               S == TokenSet
    <3>1. q \in 1 .. read - b + 2 /\ d \in Starts(i) + 1 .. Starts(i + 1) /\ d = b + q - 1
      BY <1>2, <1>5, <2>1, <2>5, <2>7
    <3>2. ptr' = q /\ UNCHANGED <<text, read, buffer, at, lexemes>> /\ tokens' = TokensTo(i - 1)
      BY <2>4, <2>7 DEF Blank, Skip
    <3>3. tokens' \in Seq(S)
      BY <2>7 DEF Blank, Skip, TypeInv
    <3> HIDE DEF q, d, S
    <3> QED
      BY <1>1, <1>2, <2>4, <2>5, <2>7, <3>1, <3>2, <3>3, BlankFollows
  <2>8. CASE c = Starts(i) /\ ~Is(i - 1, {"negative"})
    <3>1. Meets(b, i)
      <4>1. Good(i) \/ Hopeless(i)
        BY <2>4, <2>6 DEF Decided
      <4> QED
        BY <1>1, <1>2, <2>1, <2>4, <2>5, <2>8, <4>1 DEF Meets, StandsAt
    <3>2. CASE Blank
      <4>1. IsLexeme(lexemes[i]) /\ Char(ptr) = lexemes[i].text[1]
        BY <3>1, MetLexeme
      <4>2. lexemes[i].is = "blank"
        BY <3>2, <4>1, KindByFirst DEF Blank, At
      <4>3. Starts(i) < Starts(i + 1)
        <5>1. Good(i)
          BY <3>1, <4>2, MetLexeme
        <5>2. Len(lexemes[i].text) \in Nat \ {0}
          BY <3>1, <5>1, MetGood
        <5>3. Starts(i + 1) = Starts(i) + Len(lexemes[i].text) /\ Starts(i) \in Nat
          BY <2>5, LexemesStand
        <5> QED
          BY <5>2, <5>3
      <4>4. c \in Starts(i) .. Starts(i + 1) - 1
        BY <1>5, <2>5, <2>8, <4>3
      <4> QED
        BY <2>6, <2>7, <3>2, <4>2, <4>4 DEF Is
    <3> QED
      BY <2>3, <3>1, <3>2, NewlineFollows, MarkFollows, CommentFollows, StringFollows,
        HexadecimalFollows, DecimalFollows, NegativeFollows, WordFollows, UnknownFollows
      DEF Lexeme
  <2>9. CASE Is(i, {"blank"}) /\ c \in Starts(i) + 1 .. Starts(i + 1) - 1
    <3> DEFINE k == c - Starts(i) + 1
               t == lexemes[i].text
    <3>1. lexemes[i] \in LexemeSet /\ IsLexeme(lexemes[i]) /\ lexemes[i].is = "blank"
      BY <1>5, <2>6, <2>9, SourcesAssumption DEF FileInv, Is
    <3>2. /\ Len(t) \in Nat /\ Len(t) > 0 /\ t[1] \in Blanks
          /\ \A h \in 2 .. Len(t) : t[h] \in Blanks
      BY <3>1 DEF IsLexeme, Opens, From, LexemeSet
    <3>3. /\ Starts(i + 1) = Starts(i) + Len(t) /\ Starts(i) \in Nat
          /\ \A h \in 1 .. Len(t) : text[Starts(i) + h - 1] = t[h]
      <4>1. FileInv /\ i \in 1 .. Len(lexemes)
        BY <2>5
      <4> HIDE DEF t, k, c
      <4>2. \A j \in 1 .. Len(lexemes) :
              /\ Starts(j) \in 1 .. Len(text) + 1
              /\ Starts(j + 1) = Starts(j) + Len(lexemes[j].text)
              /\ \A h \in 1 .. Len(lexemes[j].text) :
                   text[Starts(j) + h - 1] = lexemes[j].text[h]
        BY <4>1, LexemesStand
      <4>3. Starts(i) \in 1 .. Len(text) + 1
        BY <4>1, <4>2
      <4>4. Starts(i) \in Nat
        BY <4>3, SMT
      <4> QED
        BY <4>1, <4>2, <4>4, Zenon DEF t
    <3>4. k \in 2 .. Len(t) /\ k \in 1 .. Len(t) /\ Starts(i) + k - 1 = c
      <4> DEFINE n == Len(t)
                 s == Starts(i)
                 e == Starts(i + 1)
      <4>1. /\ n \in Nat /\ s \in Nat /\ e = s + n /\ c \in s + 1 .. e - 1 /\ c \in Nat
        BY <2>1, <2>9, <3>2, <3>3
      <4> HIDE DEF n, s, e, c
      <4>2. c - s + 1 \in 2 .. n /\ c - s + 1 \in 1 .. n /\ s + (c - s + 1) - 1 = c
        BY <4>1
      <4> QED
        BY <4>2 DEF n, s
    <3> HIDE DEF k, c
    <3>5. text[c] \in Blanks
      BY <3>2, <3>3, <3>4
    <3>6. Blank
      BY <2>2, <2>3, <3>5, OnlyBlank
    <3>7. c \in Starts(i) .. Starts(i + 1) - 1
      BY <2>9, <3>3
    <3> QED
      BY <2>7, <2>9, <3>6, <3>7
  <2> QED
    BY <2>4, <2>8, <2>9
<1> QED
  BY <1>6, <1>7

---------------------------------------------------------------------------
(* A multiple and one more of the same.                                    *)
LEMMA NextMultiple ==
  ASSUME NEW k \in Nat \ {0}, NEW x \in Nat, x % k = 0
  PROVE  (x + k) % k = 0
<1>1. x \div k \in Nat
  OBVIOUS
<1>2. x = k * (x \div k) + (x % k)
  OBVIOUS
<1>3. PICK q \in Nat : x = k * q + 0
  BY <1>1, <1>2
<1>4. k * q + k = k * (q + 1)
  OBVIOUS
<1>5. k * q \in Nat
  BY ProductIsNat
<1>6. x + k = k * (q + 1)
  BY <1>3, <1>4, <1>5
<1>7. (k * (q + 1)) % k = 0
  OBVIOUS
<1> QED
  BY <1>6, <1>7

(* The greatest of a set of numbers that have a bound.                     *)
LEMMA MaxIsGreatest ==
  ASSUME NEW m \in Nat, NEW S \in SUBSET (0 .. m), S # {}
  PROVE  Max(S) \in S /\ \A y \in S : Max(S) >= y
  BY GreatestOf DEF Max

LEMMA GreatestIs ==
  ASSUME NEW m \in Nat, NEW S \in SUBSET (0 .. m), NEW x \in S, \A y \in S : x >= y
  PROVE  Max(S) = x
<1>1. S # {}
  OBVIOUS
<1>2. Max(S) \in S /\ Max(S) >= x
  BY <1>1, MaxIsGreatest
<1>3. x >= Max(S)
  BY <1>2
<1>4. \A y \in S : y \in Nat
  OBVIOUS
<1>5. Max(S) \in Nat /\ x \in Nat
  BY <1>2, <1>4
<1> QED
  BY <1>2, <1>3, <1>5

(* The newline before a place of the text, and where fgets starts.         *)
LineBreaks(p) == {0} \union {q \in 1 .. p - 1 : text[q] = NewLine}

LEMMA StartIs ==
  ASSUME NEW p
  PROVE  p \in ReadFrom <=>
           p \in DOMAIN text /\ (p - Max(LineBreaks(p)) - 1) % (BufferSize - 1) = 0
  BY DEF ReadFrom, LineBreaks

(* What fgets reads: to a newline, the end of the file, or what fits.      *)
LEMMA ReadLineIs ==
  ASSUME TypeInv, ReadLine
  PROVE  LET m == LineLength
         IN  /\ m \in 1 .. BufferSize - 1 /\ read + m \in 1 .. Len(text)
             /\ \A k \in 1 .. m - 1 : text[read + k] # NewLine
             /\ text[read + m] = NewLine \/ m = BufferSize - 1 \/ read + m = Len(text)
             /\ \A k \in 1 .. m : buffer'[k] = text[read + k]
             /\ buffer'[m + 1] = NUL
             /\ read' = read + m
<1> DEFINE m == LineLength
           N == {i \in DOMAIN Unread : Unread[i] = NewLine}
           S == {Len(Unread), BufferSize - 1} \union N
           w == Len(text) - read
<1>1. /\ text \in Seq(STRING) /\ Len(text) \in Nat /\ read \in 0 .. Len(text) /\ read \in Nat
      /\ BufferSize \in Nat /\ BufferSize > 1 /\ w \in Nat
  BY LexerAssumption DEF TypeInv, BufferInv, LexerTypeOK
<1>2. Unread = [k \in 1 .. w |-> text[read + k]]
  <2>1. read + 1 \in 1 .. Len(text) + 1 /\ Len(text) \in (read + 1) - 1 .. Len(text)
    BY <1>1
  <2>2. SubSeq(text, read + 1, Len(text))
          = [k \in 1 .. Len(text) - (read + 1) + 1 |-> text[read + 1 + k - 1]]
    BY <1>1, <2>1, PartIs
  <2>3. Len(text) - (read + 1) + 1 = w /\ \A k \in 1 .. w : read + 1 + k - 1 = read + k
    BY <1>1
  <2> HIDE DEF w
  <2> QED
    BY <2>2, <2>3 DEF Unread
<1>3. Len(Unread) = w /\ DOMAIN Unread = 1 .. w /\ w # 0
  <2> HIDE DEF w
  <2>1. Len(Unread) = w /\ DOMAIN Unread = 1 .. w
    BY <1>1, <1>2
  <2>2. w = 0 => Unread = << >>
    BY <1>2
  <2> QED
    BY <2>1, <2>2 DEF ReadLine
<1>4. S \in SUBSET Nat /\ S # {} /\ \A x \in S : x >= 1
  <2> HIDE DEF w
  <2> QED
    BY <1>1, <1>3
<1>5. m \in S /\ \A x \in S : m <= x
  <2>1. m = Min(S)
    BY DEF LineLength
  <2> HIDE DEF S
  <2> QED
    BY <1>4, <2>1, MinIsLeast
<1> HIDE DEF m
<1>6. m \in 1 .. BufferSize - 1 /\ m \in 1 .. w /\ (m \in N \/ m = BufferSize - 1 \/ m = w)
  <2> HIDE DEF w
  <2> QED
    BY <1>1, <1>3, <1>4, <1>5
<1>7. read + m \in 1 .. Len(text) /\ (m = w => read + m = Len(text))
  BY <1>1, <1>6
<1>8. \A k \in 1 .. w : Unread[k] = text[read + k]
  <2> HIDE DEF w
  <2> QED
    BY <1>2
<1> HIDE DEF w
<1>9. ASSUME NEW k \in 1 .. m - 1 PROVE text[read + k] # NewLine
  <2>1. k \in 1 .. w /\ ~(m <= k)
    BY <1>1, <1>6
  <2>2. k \notin N
    BY <1>5, <2>1
  <2> QED
    BY <1>3, <1>8, <2>1, <2>2
<1>10. text[read + m] = NewLine \/ m = BufferSize - 1 \/ read + m = Len(text)
  BY <1>6, <1>7, <1>8
<1>11. /\ buffer' = [i \in 1 .. BufferSize |->
                       IF i <= m THEN Unread[i] ELSE IF i = m + 1 THEN NUL ELSE buffer[i]]
       /\ read' = read + m
  BY DEF ReadLine, m
<1>12. ASSUME NEW k \in 1 .. m PROVE buffer'[k] = text[read + k]
  <2>1. k \in 1 .. BufferSize /\ k <= m /\ k \in 1 .. w
    BY <1>1, <1>6
  <2> QED
    BY <1>8, <1>11, <2>1
<1>13. buffer'[m + 1] = NUL
  <2>1. m + 1 \in 1 .. BufferSize /\ ~(m + 1 <= m)
    BY <1>1, <1>6
  <2> QED
    BY <1>11, <2>1
<1> QED
  BY <1>6, <1>7, <1>9, <1>10, <1>11, <1>12, <1>13 DEF m

(* So what fgets reads next is at one of the places where it starts.       *)
LEMMA NextStart ==
  ASSUME text \in Seq(STRING), NEW a \in ReadFrom, NEW m \in 1 .. BufferSize - 1,
         a + m \in DOMAIN text, \A k \in 1 .. m - 1 : text[a + k - 1] # NewLine,
         text[a + m - 1] = NewLine \/ m = BufferSize - 1
  PROVE  a + m \in ReadFrom
<1> DEFINE p == a + m
           L(x) == LineBreaks(x)
           k == BufferSize - 1
<1>1. k \in Nat \ {0} /\ a \in Nat \ {0} /\ m \in Nat \ {0} /\ p \in Nat \ {0}
  BY LexerAssumption DEF ReadFrom
<1>2. L(a) \in SUBSET (0 .. a) /\ L(p) \in SUBSET (0 .. p) /\ L(a) # {} /\ 0 \in L(p)
  BY <1>1 DEF LineBreaks
<1>3. CASE text[a + m - 1] = NewLine
  <2> DEFINE x == a + m - 1
  <2>1. x \in 1 .. p - 1 /\ \A y \in 0 .. p - 1 : x >= y
    BY <1>1
  <2>2. x \in L(p) /\ \A y \in L(p) : x >= y
    BY <1>3, <2>1 DEF LineBreaks
  <2>3. Max(L(p)) = x
    <3> HIDE DEF x, L, p
    <3> QED
      BY <1>1, <1>2, <2>2, GreatestIs
  <2>4. p - x - 1 = 0 /\ 0 % k = 0
    BY <1>1
  <2> QED
    BY <2>3, <2>4, StartIs
<1>4. CASE text[a + m - 1] # NewLine
  <2> DEFINE x == Max(L(a))
  <2>1. x \in L(a) /\ \A y \in L(a) : x >= y
    <3> HIDE DEF L
    <3> QED
      BY <1>1, <1>2, MaxIsGreatest
  <2>2. L(p) = L(a)
    <3>1. ASSUME NEW q \in 1 .. p - 1, text[q] = NewLine PROVE q \in 1 .. a - 1
      <4> SUFFICES ASSUME q \notin 1 .. a - 1 PROVE FALSE
        OBVIOUS
      <4> DEFINE h == q - a + 1
      <4>1. h \in 1 .. m /\ a + h - 1 = q
        BY <1>1, <3>1
      <4>2. h = m \/ h \in 1 .. m - 1
        BY <1>1, <4>1
      <4> HIDE DEF h
      <4> QED
        BY <1>4, <3>1, <4>1, <4>2
    <3>2. \A q \in 1 .. a - 1 : q \in 1 .. p - 1
      BY <1>1
    <3> QED
      BY <3>1, <3>2 DEF LineBreaks
  <2>3. a - x - 1 \in Nat /\ (a - x - 1) % k = 0
    <3>1. x \in 0 .. a - 1
      BY <1>1, <2>1 DEF LineBreaks
    <3>2. (a - x - 1) % k = 0
      BY StartIs
    <3> HIDE DEF x, k
    <3> QED
      BY <1>1, <3>1, <3>2
  <2>4. m = k
    BY <1>4
  <2> DEFINE y == a - x - 1
  <2>5. x \in Nat
    BY <1>1, <2>1 DEF LineBreaks
  <2> HIDE DEF x, k
  <2>6. p - x - 1 = y + k
    BY <1>1, <2>4, <2>5
  <2>7. (y + k) % k = 0
    <3> HIDE DEF y
    <3> QED
      BY <1>1, <2>3, NextMultiple DEF y
  <2>8. (p - x - 1) % k = 0
    BY <2>6, <2>7
  <2> QED
    BY <2>2, <2>8, StartIs DEF x, k
<1> QED
  BY <1>3, <1>4

(* fgets goes on where the lexer has come to.                              *)
LEMMA ReadLineFollows ==
  ASSUME TypeInv, FileInv, Follows, ReadLine, UNCHANGED lexemes
  PROVE  Follows'
<1> DEFINE m == LineLength
           a == read + 1
           e == read + m
<1>1. /\ m \in 1 .. BufferSize - 1 /\ e \in 1 .. Len(text)
      /\ \A k \in 1 .. m - 1 : text[read + k] # NewLine
      /\ text[e] = NewLine \/ m = BufferSize - 1 \/ e = Len(text)
      /\ \A k \in 1 .. m : buffer'[k] = text[read + k]
      /\ buffer'[m + 1] = NUL
      /\ read' = e
  BY ReadLineIs
<1>2. /\ at = "file" /\ at' = "line" /\ ptr' = 1 /\ text' = text
      /\ tokens' = IF tokens = << >> THEN <<Tok("HEAD", << >>)>> ELSE tokens
  BY DEF ReadLine
<1>3. /\ text \in Seq(STRING) /\ Len(text) \in Nat /\ read \in Nat /\ BufferSize \in Nat
      /\ DOMAIN text = 1 .. Len(text)
      /\ lexemes \in Seq(LexemeSet) /\ Len(lexemes) \in Nat /\ Starts(1) = 1
  BY LexemesStand, LexerAssumption DEF TypeInv, BufferInv
<1> HIDE DEF m
<1>4. /\ a \in 1 .. e /\ e - a + 2 = m + 1 /\ m \in Nat \ {0} /\ a \in Nat \ {0}
      /\ e \in Nat /\ a + m = e + 1 /\ a + m - 1 = e /\ e <= Len(text)
      /\ e - a + 2 <= BufferSize
      /\ \A k \in 1 .. m - 1 : a + k - 1 = read + k
  <2> DEFINE N == Len(text)
  <2>1. /\ m \in 1 .. BufferSize - 1 /\ e \in 1 .. N /\ N \in Nat /\ read \in Nat
        /\ BufferSize \in Nat
    BY <1>1, <1>3
  <2> HIDE DEF N
  <2>2. m \in Nat \ {0} /\ m <= BufferSize - 1
    BY <2>1
  <2> QED
    BY <2>1, <2>2 DEF N
<1>5. PICK c \in Nat \ {0} : c = a
  BY <1>4
<1>6. Holds(c)'
  <2>1. ASSUME NEW p \in c .. e PROVE buffer'[p - c + 1] = text[p]
    <3> DEFINE k == p - c + 1
    <3>1. k \in 1 .. m /\ read + k = p
      BY <1>3, <1>4, <1>5
    <3> HIDE DEF k
    <3> QED
      BY <1>1, <3>1 DEF k
  <2>2. e <= Len(text) /\ e - c + 2 <= BufferSize
    BY <1>4, <1>5
  <2>3. buffer'[e - c + 2] = NUL
    BY <1>1, <1>4, <1>5
  <2> HIDE DEF e
  <2> QED
    BY <1>1, <1>2, <2>1, <2>2, <2>3 DEF Holds
<1>7. (read < Len(text) => read + 1 \in ReadFrom)'
  <2> SUFFICES ASSUME e < Len(text) PROVE e + 1 \in ReadFrom
    BY <1>1, <1>2, SameFile
  <2>1. a \in ReadFrom
    BY <1>1, <1>3 DEF Follows
  <2>2. a + m \in DOMAIN text /\ a + m = e + 1 /\ a + m - 1 = e
    <3>1. e + 1 \in DOMAIN text
      BY <1>3, <1>4
    <3> HIDE DEF a, e
    <3> QED
      BY <1>4, <3>1
  <2>3. \A k \in 1 .. m - 1 : text[a + k - 1] # NewLine
    <3> HIDE DEF a
    <3> QED
      BY <1>1, <1>4
  <2>4. text[a + m - 1] = NewLine \/ m = BufferSize - 1
    BY <1>1, <1>3, <2>2
  <2> HIDE DEF a, e
  <2>5. a + m \in ReadFrom
    BY <1>1, <1>3, <2>1, <2>2, <2>3, <2>4, NextStart
  <2> QED
    BY <2>2, <2>5
<1>8. \E i \in 1 .. Len(lexemes) + 1 : Reached(i, c)'
  <2>1. CASE read = 0
    <3> DEFINE i == 1
    <3>1. c = 1 /\ tokens = << >> /\ i - 1 = 0
      BY <1>2, <1>5, <2>1 DEF Follows
    <3>2. tokens' = TokensTo(0)
      BY <1>2, <3>1, TokensAre
    <3>3. ~Is(0, {"negative"})
      BY <1>3 DEF Is
    <3>4. i \in 1 .. Len(lexemes) + 1 /\ c = Starts(i) /\ GoodBefore(i)
      BY <1>3, <3>1 DEF GoodBefore
    <3> HIDE DEF i
    <3>5. /\ GoodBefore(i)' /\ tokens' = TokensTo(i - 1)' /\ c = Starts(i)'
          /\ ~Is(i - 1, {"negative"})'
      BY <1>2, <3>1, <3>2, <3>3, <3>4, SameFile
    <3>6. Reached(i, c)'
      BY <3>5 DEF Reached
    <3> QED
      BY <3>4, <3>6
  <2>2. CASE read # 0
    <3>1. PICK i \in 1 .. Len(lexemes) + 1 : Reached(i, c)
      BY <1>2, <1>5, <2>2 DEF Follows
    <3>2. tokens = TokensTo(i - 1) /\ i - 1 \in 0 .. Len(lexemes)
      BY <1>3, <3>1 DEF Reached
    <3>3. tokens' = tokens
      BY <1>2, <3>2, TokensAre
    <3>4. Reached(i, c)'
      BY <1>2, <3>1, <3>3, SameFile DEF Reached
    <3> QED
      BY <3>4
  <2> QED
    BY <2>1, <2>2
<1>9. (ptr \in 1 .. read - c + 2)' /\ c \in 1 .. e /\ c + ptr' - 1 = c
  <2>1. c \in 1 .. e /\ e - c + 2 \in Nat \ {0} /\ c + 1 - 1 = c
    <3> HIDE DEF a, e
    <3> QED
      BY <1>4, <1>5
  <2> HIDE DEF e
  <2> QED
    BY <1>1, <1>2, <2>1
<1>10. PICK i \in 1 .. Len(lexemes) + 1 : Reached(i, c)'
  BY <1>8
<1>11. Reached(i, c + ptr - 1)'
  BY <1>9, <1>10 DEF Reached
<1>12. (\E b \in 1 .. read, j \in 1 .. Len(lexemes) + 1 :
          Holds(b) /\ ptr \in 1 .. read - b + 2 /\ Reached(j, b + ptr - 1))'
  BY <1>1, <1>6, <1>9, <1>10, <1>11
<1> QED
  BY <1>2, <1>7, <1>12 DEF Follows

(* At the end of the file all its lexemes have been read.                  *)
LEMMA EndFollows ==
  ASSUME TypeInv, FileInv, Follows, EndOfFile, UNCHANGED lexemes
  PROVE  Follows'
<1> DEFINE n == Len(lexemes)
           N == Len(text)
<1>1. /\ lexemes \in Seq(LexemeSet) /\ n \in Nat /\ DOMAIN lexemes = 1 .. n
      /\ text \in Seq(STRING) /\ N \in Nat /\ Starts(1) = 1 /\ Starts(n + 1) = N + 1
      /\ \A i \in 1 .. n : Starts(i) \in 1 .. N + 1 /\ Starts(i + 1) \in 1 .. N + 1
  BY LexemesStand
<1>2. ASSUME NEW i \in 1 .. n PROVE Starts(i) < Starts(i + 1)
  <2>1. IsLexeme(lexemes[i]) /\ lexemes[i] \in LexemeSet
    BY <1>1, SourcesAssumption DEF FileInv
  <2> DEFINE d == Len(lexemes[i].text)
  <2>2. d > 0
    BY <2>1, KindByFirst
  <2>3. d \in Nat
    BY <2>1 DEF LexemeSet
  <2>4. Starts(i + 1) = Starts(i) + d
    BY LexemesStand
  <2> HIDE DEF d, n, N
  <2> QED
    BY <1>1, <2>2, <2>3, <2>4
<1>3. read = N
  <2>1. read \in 0 .. N /\ read \in Nat
    BY DEF TypeInv, BufferInv, LexerTypeOK
  <2> SUFFICES ASSUME read < N PROVE FALSE
    BY <1>1, <2>1
  <2>2. Unread = [k \in 1 .. N - (read + 1) + 1 |-> text[read + 1 + k - 1]]
    <3>1. read + 1 \in 1 .. N + 1 /\ N \in (read + 1) - 1 .. N
      BY <1>1, <2>1
    <3> QED
      BY <1>1, <3>1, PartIs DEF Unread
  <2>3. 1 \in 1 .. N - (read + 1) + 1
    BY <1>1, <2>1
  <2>4. 1 \in DOMAIN Unread
    BY <2>2, <2>3
  <2> QED
    BY <2>4 DEF EndOfFile
<1>4. at = "file" /\ at' = "done" /\ UNCHANGED <<text, read, buffer, ptr, tokens>>
  BY DEF EndOfFile, Leave
<1>5. (\A i \in DOMAIN lexemes : Good(i)) /\ tokens = TokensMeant
  <2>1. CASE read = 0
    <3>1. n = 0
      <4> SUFFICES ASSUME n # 0 PROVE FALSE
        OBVIOUS
      <4> DEFINE o == 1
      <4>1. o \in 1 .. n /\ Starts(o) = 1
        BY <1>1
      <4> HIDE DEF o
      <4>2. Starts(o) < Starts(o + 1) /\ Starts(o + 1) \in 1 .. N + 1
        BY <1>1, <1>2, <4>1
      <4> QED
        BY <1>3, <2>1, <4>1, <4>2
    <3>2. lexemes = << >> /\ DOMAIN lexemes = {}
      BY <1>1, <3>1
    <3>3. tokens = << >>
      BY <1>4, <2>1 DEF Follows
    <3> QED
      BY <3>2, <3>3, TokensAre
  <2>2. CASE read # 0
    <3> DEFINE p == N + 1
    <3>1. PICK i \in 1 .. n + 1 : Reached(i, p)
      BY <1>3, <1>4, <2>2 DEF Follows
    <3>2. ~(i \in 1 .. n /\ p \in Starts(i) .. Starts(i + 1) - 1)
      <4> SUFFICES ASSUME i \in 1 .. n, p \in Starts(i) .. Starts(i + 1) - 1 PROVE FALSE
        OBVIOUS
      <4>1. Starts(i + 1) \in 1 .. N + 1
        BY <1>1
      <4> HIDE DEF N
      <4> QED
        BY <1>1, <4>1
    <3>3. i = n + 1
      <4>1. p = Starts(i) \/ (i \in 1 .. n /\ p \in Starts(i) + 1 .. Starts(i + 1) - 1)
        BY <1>1, <3>1 DEF Reached, Is
      <4>2. i \in 1 .. n => p # Starts(i)
        <5> SUFFICES ASSUME i \in 1 .. n, p = Starts(i) PROVE FALSE
          OBVIOUS
        <5>1. Starts(i) < Starts(i + 1) /\ Starts(i + 1) \in 1 .. N + 1
          BY <1>1, <1>2
        <5> HIDE DEF N
        <5> QED
          BY <1>1, <5>1
      <4>3. i \in 1 .. n => p \notin Starts(i) + 1 .. Starts(i + 1) - 1
        <5>1. i \in 1 .. n => Starts(i) \in Nat /\ Starts(i + 1) \in Nat
          BY <1>1
        <5> HIDE DEF p
        <5> QED
          BY <3>2, <5>1
      <4> HIDE DEF p
      <4> QED
        BY <1>1, <3>1, <4>1, <4>2, <4>3
    <3>4. /\ \A k \in 1 .. n : Good(k)
          /\ tokens = TokensTo(n)
      <4>1. i - 1 = n
        BY <1>1, <3>3
      <4> HIDE DEF n
      <4> QED
        BY <3>1, <4>1 DEF Reached, GoodBefore
    <3>5. lexemes # << >>
      <4> SUFFICES ASSUME n = 0 PROVE FALSE
        BY <1>1
      <4>1. n + 1 = 1
        OBVIOUS
      <4>2. Starts(1) = N + 1
        BY <1>1, <4>1
      <4> HIDE DEF N
      <4> QED
        BY <1>1, <1>3, <2>2, <4>2
    <3> QED
      BY <1>1, <3>4, <3>5, TokensAre
  <2> QED
    BY <2>1, <2>2
<1>6. ((\A i \in DOMAIN lexemes : Good(i)) /\ tokens = TokensMeant)'
  <2>1. lexemes' = lexemes /\ \A i \in DOMAIN lexemes : Good(i)'
    BY <1>4, <1>5, SameFile
  <2> QED
    BY <1>4, <1>5, <2>1, SameFile
<1>7. (read < Len(text) => read + 1 \in ReadFrom)'
  BY <1>1, <1>3, <1>4
<1> QED
  BY <1>4, <1>6, <1>7 DEF Follows

(* The first line is read from the first place.                            *)
LEMMA FirstStart ==
  ASSUME text \in Seq(STRING), Len(text) > 0
  PROVE  1 \in ReadFrom
<1> DEFINE p == 1
           k == BufferSize - 1
<1>1. k \in Nat \ {0} /\ 0 % k = 0 /\ p \in DOMAIN text
  BY LexerAssumption
<1>2. LineBreaks(p) = {0}
  BY DEF LineBreaks
<1>3. Max(LineBreaks(p)) = 0
  <2> DEFINE S == LineBreaks(p)
             z == 0
  <2>1. z \in Nat /\ S \in SUBSET (0 .. z) /\ z \in S /\ \A y \in S : z >= y
    BY <1>2
  <2> HIDE DEF S, z
  <2>2. Max(S) = z
    BY <2>1, GreatestIs
  <2> QED
    BY <2>2 DEF S, z
<1>4. p - 0 - 1 = 0
  OBVIOUS
<1>5. p \in ReadFrom
  <2> HIDE DEF p, k
  <2> QED
    BY <1>1, <1>3, <1>4, StartIs DEF k
<1> QED
  BY <1>5

(* Every step of the lexer follows the lexemes of a file.                  *)
LEMMA FollowsNext ==
  ASSUME TypeInv, FileInv, FollowsLexemes, [Next /\ UNCHANGED lexemes]_<<vars, lexemes>>
  PROVE  FileInv' /\ FollowsLexemes'
<1>1. text' = text /\ lexemes' = lexemes
  BY DEF Next, Step, Lexeme, ReadLine, EndOfFile, EndOfLine, LeaveBuffer, Newline, Blank, Mark,
    Comment, StringLiteral, UnterminatedString, OverlongString, Hexadecimal, Decimal, Negative,
    Register, Instruction, Identifier, UnknownCharacter, Terminated, Emit, Skip, Leave, vars
<1>2. FileInv'
  BY <1>1, SameFile
<1>3. ASSUME Decided PROVE Follows'
  <2>1. Follows
    BY <1>3 DEF FollowsLexemes
  <2>2. CASE ReadLine
    BY <1>1, <2>1, <2>2, ReadLineFollows
  <2>3. CASE EndOfFile
    BY <1>1, <2>1, <2>3, EndFollows
  <2>4. CASE Lexeme \/ EndOfLine \/ LeaveBuffer
    <3>1. at = "line"
      BY <2>4 DEF Lexeme, EndOfLine, LeaveBuffer, Newline, Blank, Mark, Comment,
        StringLiteral, UnterminatedString, OverlongString, Hexadecimal, Decimal, Negative,
        Register, Instruction, Identifier, UnknownCharacter, At
    <3> QED
      BY <1>1, <1>3, <2>1, <2>4, <3>1, LineFollows
  <2>5. CASE UNCHANGED vars
    <3>1. UNCHANGED <<text, read, buffer, ptr, tokens, at>>
      BY <2>5 DEF vars
    <3>2. \A b : Holds(b)' <=> Holds(b)
      BY <3>1 DEF Holds
    <3>3. \A i, p : Reached(i, p)' <=> Reached(i, p)
      BY <1>1, <3>1, SameFile DEF Reached
    <3>4. (read < Len(text) => read + 1 \in ReadFrom)'
      BY <1>1, <2>1, <3>1, SameFile DEF Follows
    <3>5. (at = "done" => (\A i \in DOMAIN lexemes : Good(i)) /\ tokens = TokensMeant)'
      BY <1>1, <2>1, <3>1, SameFile DEF Follows
    <3>6. (at = "error" => \E i \in DOMAIN lexemes : GoodBefore(i) /\ Hopeless(i))'
      BY <1>1, <2>1, <3>1, SameFile DEF Follows
    <3>7. (at = "line" => \E b \in 1 .. read, i \in 1 .. Len(lexemes) + 1 :
             Holds(b) /\ ptr \in 1 .. read - b + 2 /\ Reached(i, b + ptr - 1))'
      <4> SUFFICES ASSUME at = "line"
                   PROVE  (\E b \in 1 .. read, i \in 1 .. Len(lexemes) + 1 :
                             Holds(b) /\ ptr \in 1 .. read - b + 2 /\ Reached(i, b + ptr - 1))'
        BY <3>1
      <4>1. PICK b \in 1 .. read, i \in 1 .. Len(lexemes) + 1 :
              Holds(b) /\ ptr \in 1 .. read - b + 2 /\ Reached(i, b + ptr - 1)
        BY <2>1 DEF Follows
      <4>2. Reached(i, b + ptr - 1)'
        BY <1>1, <3>1, <4>1, SameFile DEF Reached
      <4>3. Holds(b)' /\ (ptr \in 1 .. read - b + 2)'
        BY <3>1, <3>2, <4>1
      <4> QED
        BY <1>1, <3>1, <4>1, <4>2, <4>3
    <3>8. (at = "file" /\ read # 0 =>
             \E i \in 1 .. Len(lexemes) + 1 : Reached(i, read + 1))'
      <4> SUFFICES ASSUME at = "file", read # 0
                   PROVE  (\E i \in 1 .. Len(lexemes) + 1 : Reached(i, read + 1))'
        BY <3>1
      <4>1. PICK i \in 1 .. Len(lexemes) + 1 : Reached(i, read + 1)
        BY <2>1 DEF Follows
      <4>2. Reached(i, read + 1)'
        BY <1>1, <3>1, <4>1, SameFile DEF Reached
      <4> QED
        BY <1>1, <4>1, <4>2
    <3>9. (at = "file" /\ read = 0 => tokens = << >>)' /\ (at # "outside")'
      BY <2>1, <3>1 DEF Follows
    <3> QED
      BY <3>4, <3>5, <3>6, <3>7, <3>8, <3>9 DEF Follows
  <2> QED
    BY <2>2, <2>3, <2>4, <2>5 DEF Next, Step, Terminated, vars
<1> QED
  BY <1>1, <1>2, <1>3, SameFile DEF FollowsLexemes

(* What the lexer has come to when it ends is what the lexemes say.        *)
LEMMA FollowedIsWritten ==
  ASSUME FileInv, FollowsLexemes
  PROVE  LexesAsWritten
<1>1. \A i : Good(i) => ~Hopeless(i)
  BY DEF Good, Whole, Hopeless, Is
<1>2. lexemes \in Seq(LexemeSet) /\ DOMAIN lexemes = 1 .. Len(lexemes) /\ Len(lexemes) \in Nat
  BY LexemesStand
<1>3. ASSUME at \in Ends, \A i \in DOMAIN lexemes : Good(i)
      PROVE  at = "done" /\ tokens = TokensMeant
  <2>1. Follows
    BY <1>3 DEF FollowsLexemes, Decided
  <2>2. at # "error"
    BY <1>1, <1>3, <2>1 DEF Follows
  <2> QED
    BY <1>3, <2>1, <2>2 DEF Follows, Ends
<1>4. ASSUME at \in Ends, NEW i \in DOMAIN lexemes, Hopeless(i), GoodBefore(i)
      PROVE  at = "error"
  <2>1. ASSUME NEW k \in DOMAIN lexemes, GoodBefore(k) PROVE Good(k) \/ Hopeless(k)
    <3>1. k = i \/ k \in 1 .. i - 1 \/ i \in 1 .. k - 1
      BY <1>2
    <3>2. i \in 1 .. k - 1 => Good(i)
      BY <2>1 DEF GoodBefore
    <3>3. k \in 1 .. i - 1 => Good(k)
      BY <1>4 DEF GoodBefore
    <3> QED
      BY <1>1, <1>4, <3>1, <3>2, <3>3
  <2>2. Follows
    BY <2>1 DEF FollowsLexemes, Decided
  <2>3. at # "done"
    BY <1>1, <1>4, <2>2 DEF Follows
  <2> QED
    BY <1>4, <2>2, <2>3 DEF Follows, Ends
<1> QED
  BY <1>3, <1>4 DEF LexesAsWritten, Good, GoodBefore

(* For every file that is written as lexemes, every size of the line       *)
(* buffer and whatever was in it: if all lexemes can be read as themselves *)
(* the lexer ends with the tokens of the grammar, and at the first that is *)
(* no lexeme it ends the process.                                          *)
THEOREM LexerMeansItsGrammar == MeaningSpec => []LexesAsWritten
<1> DEFINE MInv == LineInv /\ TypeInv /\ FileInv /\ FollowsLexemes
<1>1. MeaningInit => MInv
  <2> SUFFICES ASSUME MeaningInit PROVE MInv
    OBVIOUS
  <2>1. FileInv
    BY DEF MeaningInit, FileInv
  <2>2. text \in Seq(STRING) /\ Opened
    BY <2>1, LexemesStand DEF MeaningInit
  <2>3. LineInv /\ TypeInv
    BY <2>2, OpenedInLine, OpenedTypes
  <2>4. read = 0 /\ at = "file" /\ tokens = << >>
    BY <2>2 DEF Opened
  <2>5. read < Len(text) => read + 1 \in ReadFrom
    BY <2>2, <2>4, FirstStart
  <2>6. Follows
    BY <2>4, <2>5 DEF Follows
  <2> QED
    BY <2>1, <2>3, <2>6 DEF FollowsLexemes
<1>2. MInv /\ [Next /\ UNCHANGED lexemes]_<<vars, lexemes>> => MInv'
  <2> SUFFICES ASSUME MInv, [Next /\ UNCHANGED lexemes]_<<vars, lexemes>> PROVE MInv'
    OBVIOUS
  <2>1. [Next]_vars
    BY DEF vars
  <2>2. LineInv'
    BY <2>1, LineInvNext
  <2>3. TypeInv'
    BY <2>1, <2>2, TypeInvNext
  <2>4. FileInv' /\ FollowsLexemes'
    BY FollowsNext
  <2> QED
    BY <2>2, <2>3, <2>4
<1>3. MInv => LexesAsWritten
  BY FollowedIsWritten
<1> HIDE DEF MInv
<1> QED
  BY <1>1, <1>2, <1>3, PTL DEF MeaningSpec
===========================================================================
