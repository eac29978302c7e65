---------------------------- MODULE MCObjectWriter --------------------------
(***************************************************************************)
(* Every combination of up to two bytes or entries of each sort, with      *)
(* names of 0, 2, 3 and 4 characters for a field of 3 and its terminator.  *)
(***************************************************************************)
EXTENDS ObjectWriterProps

SeqsUpTo(n, S) == UNION {[1 .. m -> S] : m \in 0 .. n}

Names == {<<"a", "b">>, <<"a", "b", "c">>, <<"a", "b", "c", "d">>, <<"a", "b", "c", "e">>}
Symbols ==
  {[name |-> n, type |-> "DEFINED", section |-> "TEXT", offset |-> "4"] : n \in Names}
Relocs ==
  {[offset |-> "0", symbol_name |-> n, type |-> "WORD32", section |-> "DATA"] : n \in Names}
Collects == {[name |-> << >>, offset |-> "0", size |-> "4"],
             [name |-> <<"a", "b", "c", "d">>, offset |-> "4", size |-> "8"]}

MCCharacter == {"a", "b", "c", "d", "e"}
MCValue     == {"DEFINED", "TEXT", "WORD32", "DATA", "0", "4", "8"}
B(n)        == [byte |-> n]
MCByte      == {B(n) : n \in 1 .. 5}

MCMachineCodes ==
  [code : {<< >>, <<B(1)>>, <<B(1), B(2)>>}, data : {<< >>, <<B(3)>>},
   blob : {<< >>, <<B(4), B(5)>>},
   symbols : SeqsUpTo(2, Symbols), relocs : SeqsUpTo(2, Relocs),
   collects : SeqsUpTo(1, Collects)]
=============================================================================
