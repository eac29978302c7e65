------------------------------ MODULE MCLexer ------------------------------
(***************************************************************************)
(* Files for the lexer: up to three lexemes of every kind, and up to five  *)
(* of the few that a cut line or a negative number gets wrong.  A line     *)
(* buffer of 12 and tokens of 7 characters, so both are overrun; LONG_MAX  *)
(* is 9999, so strtol saturates within a token.                            *)
(***************************************************************************)
EXTENDS LexerMeaning

MCRegisterNames == {<<"r", "0">>, <<"s", "p">>}
MCMnemonicNames == {<<"a", "d", "d">>, <<"a", "d", "d", "i">>}

L(is, chars) == [is |-> is, text |-> chars]

Words ==
  {L("word", w) : w \in
     {<<"r", "0">>, <<"r", "0", "x">>, <<"a", "d", "d">>, <<"a", "d", "d", "i">>,
      <<"_", "7">>, <<"f", "r", "o", "m">>, <<"i", "m", "p", "o", "r", "t">>,
      <<"e", "x", "p", "o", "r", "t">>, <<"l", "o", "n", "g", "e", "s", "t">>}}
Numbers ==
  {L("decimal", <<"0">>), L("decimal", <<"0", "1", "7">>),
   L("decimal", <<"1", "2", "3", "4", "5", "6", "7">>),
   L("hex", <<"0", "x", "1", "F">>), L("hex", <<"0", "X", "a", "b", "c", "d">>),
   L("negative", <<"-", "7">>), L("negative", <<"-", "0", "7">>),
   L("negative", <<"-", "9", "9", "9", "9", "9">>)}
Strings ==
  {L("string", <<Quote, Quote>>), L("string", <<Quote, "a", ";", Quote>>),
   L("string", <<Quote, "a", "b", "c", "d", "e", "f", "g", Quote>>)}
Others ==
  {L("mark", <<":">>), L("mark", <<",">>),
   L("blank", <<" ">>), L("blank", <<"\t", "VT">>), L("comment", <<";">>),
   L("comment", <<";", "-", "7", Quote>>), L("newline", <<NewLine>>),
   L("stray", <<"#">>), L("open", <<Quote, "x">>)}

Few ==
  {L("word", <<"r", "0">>), L("negative", <<"-", "7">>), L("mark", <<",">>),
   L("blank", <<" ">>), L("comment", <<";", "a">>), L("newline", <<NewLine>>)}

SeqsUpTo(n, S) == UNION {[1 .. m -> S] : m \in 0 .. n}

MCSources ==
  SeqsUpTo(3, Words \union Numbers \union Strings \union Others) \union SeqsUpTo(5, Few)
  \union {<<L("mark", <<m>>)>> : m \in Marks}
MCTexts == {Written(ls) : ls \in Sources}

(* The stack before the first line holds no end of one.                    *)
MCLitter == {[i \in 1 .. BufferSize |-> c] : c \in {Quote, "7"}}

(* ".byte -1, 2".                                                          *)
NegativeSources ==
  {<<L("mark", <<".">>), L("word", <<"b", "y", "t", "e">>), L("blank", <<" ">>),
     L("negative", <<"-", "1">>), L("mark", <<",">>), L("blank", <<" ">>),
     L("decimal", <<"2">>), L("newline", <<NewLine>>)>>}
===========================================================================
