----------------------------- MODULE MCAssembler ----------------------------
(***************************************************************************)
(* Files of up to three statements after a label, with an import before it *)
(* or not, in four layouts: tight lines; blanks and comments everywhere;   *)
(* carriage returns and no newline at the end; a character of no lexeme.   *)
(***************************************************************************)
EXTENDS AssemblerMeaning
LOCAL INSTANCE SequencesExt
LOCAL INSTANCE TLC

MCMnemonics == {"mov", "movi", "jmp"}
MCOpcode    == [m \in MCMnemonics |-> CASE m = "mov" -> 1 [] m = "movi" -> 2 [] m = "jmp" -> 3]
MCRegisters == [r \in {"r0", "sp"} |-> IF r = "r0" THEN 0 ELSE 9]
MCNumerals  == {"7", "010", "16", "-1"}
MCLiterals  == {"7", "010", "0x10", "-1"}
MCLabels == MCMnemonics \union {"byte", "word", "section", "data", "text"}
              \union {"a", "f_b", "x"}
MCCutTo == [l \in {} |-> l]

MCSpelling ==
  ("mov" :> <<"m", "o", "v">>) @@ ("movi" :> <<"m", "o", "v", "i">>)
  @@ ("jmp" :> <<"j", "m", "p">>) @@ ("r0" :> <<"r", "0">>) @@ ("sp" :> <<"s", "p">>)
  @@ ("7" :> <<"7">>) @@ ("010" :> <<"0", "1", "0">>) @@ ("16" :> <<"1", "6">>)
  @@ ("0x10" :> <<"0", "x", "1", "0">>) @@ ("-1" :> <<"-", "1">>)
  @@ ("byte" :> <<"b", "y", "t", "e">>) @@ ("word" :> <<"w", "o", "r", "d">>)
  @@ ("section" :> <<"s", "e", "c", "t", "i", "o", "n">>)
  @@ ("data" :> <<"d", "a", "t", "a">>) @@ ("text" :> <<"t", "e", "x", "t">>)
  @@ ("a" :> <<"a">>) @@ ("f_b" :> <<"f", "_", "b">>) @@ ("x" :> <<"x">>)
  @@ ("./p" :> <<".", "/", "p">>)
  @@ ("IMPORT" :> <<"i", "m", "p", "o", "r", "t">>)
  @@ ("EXPORT" :> <<"e", "x", "p", "o", "r", "t">>)
  @@ ("FROM" :> <<"f", "r", "o", "m">>)

Plain(is)       == [is |-> is]
Named(is, n)    == [is |-> is, name |-> n]
Import(ns, from) == [is |-> "import", names |-> ns, braces |-> from # "", from |-> from]
InstrS(op, as)  == [is |-> "instr", op |-> op, args |-> as]
Items(is, ns)   == [is |-> is, items |-> ns]
A == Named("label", "a")

Imports == <<Import(<<"x">>, "./p")>>

Contents ==
  {Plain("blank"), Named("label", "f_b"), Plain("data"),
   InstrS("mov", <<"sp", "a">>), InstrS("jmp", <<"x">>), InstrS("mov", <<"r0", "-1">>),
   Items("byte", <<"-1", "0x10">>), Items("word", <<"010", "f_b", "-1">>)}

SeqsUpTo(n, S) == UNION {[1 .. m -> S] : m \in 0 .. n}

MCFiles ==
  {Imports \o <<A>> \o ss : ss \in SeqsUpTo(2, Contents)}
  \union {<<A>> \o ss : ss \in [1 .. 3 -> Contents]}
  \union {<< >>, <<Plain("blank")>>, <<[is |-> "export", names |-> <<"a">>, braces |-> FALSE], A,
            Items("byte", <<"7">>)>>, <<Plain("text"), Items("byte", <<"7">>)>>,
          <<Named("section", "a"), A, Items("word", <<"f_b">>)>>}

Lay(indent, gap, tail, tight, ended) ==
  [indent |-> indent, gap |-> gap, tail |-> tail, tight |-> tight, ended |-> ended]

MCLayouts ==
  {Lay(<<"\t">>, <<" ">>, << >>, TRUE, TRUE),
   Lay(<< >>, <<" ", "\t">>, <<" ", ";", "-", ",">>, FALSE, TRUE),
   Lay(<< >>, <<" ">>, <<"\r">>, TRUE, FALSE),
   Lay(<< >>, <<" ">>, <<" ", "#">>, TRUE, TRUE)}

MCTexts == Seq(STRING)
MCLitter == {[i \in 1 .. BufferSize |-> ","]}
=============================================================================
