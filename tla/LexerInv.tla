----------------------------- MODULE LexerInv -----------------------------
(***************************************************************************)
(* What ties the lexer's pointer to the lexemes of the file: the inductive *)
(* invariant of LexerProofs for files whose first lexeme that is not read  *)
(* as itself, if there is one, ends the process.                           *)
(***************************************************************************)
EXTENDS LexerMeaning

Good(i) == Whole(i) /\ Spaced(i)
GoodBefore(i) == \A j \in 1 .. i - 1 : Good(j)
Decided == \A i \in DOMAIN lexemes : GoodBefore(i) => Good(i) \/ Hopeless(i)

(* The tokens of the first i lexemes.                                      *)
TokensOf(i) == IF SkippedNewline(i) THEN << >> ELSE Meant(lexemes[i])
TokensTo(i) == <<Tok("HEAD", << >>)>> \o FlattenSeq([j \in 1 .. i |-> TokensOf(j)])

(* The buffer holds the text from b on, as far as it has been read.        *)
Holds(b) ==
  /\ read <= Len(text) /\ read - b + 2 <= BufferSize
  /\ \A p \in b .. read : buffer[p - b + 1] = text[p]
  /\ buffer[read - b + 2] = NUL

(* All before position p of the text has been read as the lexemes before   *)
(* the i-th; of a blank one, some may have been passed over.               *)
Reached(i, p) ==
  /\ GoodBefore(i)
  /\ tokens = TokensTo(i - 1)
  /\ \/ p = Starts(i) /\ ~Is(i - 1, {"negative"})
     \/ Is(i, {"blank"}) /\ p \in Starts(i) + 1 .. Starts(i + 1) - 1

Follows ==
  /\ read < Len(text) => read + 1 \in ReadFrom
  /\ at = "file" /\ read = 0 => tokens = << >>
  /\ at = "file" /\ read # 0 => \E i \in 1 .. Len(lexemes) + 1 : Reached(i, read + 1)
  /\ at = "line" => \E b \in 1 .. read, i \in 1 .. Len(lexemes) + 1 :
       Holds(b) /\ ptr \in 1 .. read - b + 2 /\ Reached(i, b + ptr - 1)
  /\ at = "done" => (\A i \in DOMAIN lexemes : Good(i)) /\ tokens = TokensMeant
  /\ at = "error" => \E i \in DOMAIN lexemes : GoodBefore(i) /\ Hopeless(i)
  /\ at # "outside"

FollowsLexemes == Decided => Follows
===========================================================================
