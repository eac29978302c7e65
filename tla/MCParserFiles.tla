-------------------------- MODULE MCParserFiles ---------------------------
(***************************************************************************)
(* Files of statements for the parser: every file of up to four statements *)
(* that shape a program, and every block of up to three that fill it.      *)
(***************************************************************************)
EXTENDS MCParser, ParserMeaning

Plain(is)       == [is |-> is]
Named(is, n)    == [is |-> is, name |-> n]
Import(ns, from) == [is |-> "import", names |-> ns, braces |-> from # "", from |-> from]
Export(ns)      == [is |-> "export", names |-> ns, braces |-> Len(ns) > 1]
InstrS(op, as)  == [is |-> "instr", op |-> op, args |-> as]
Data(is, items) == [is |-> is, items |-> items]

Structure ==
  {Import(<<"f_b", "a">>, "p"), Import(<<"a">>, ""), Export(<<"a">>),
   Named("section", "s"), Plain("data"), Plain("text"), Plain("blank"),
   Named("label", "a"), Named("label", "mov"), Data("byte", <<"300", "-1">>)}

Shape ==
  {Named("section", "s"), Plain("data"), Plain("text"), Plain("blank"),
   Named("label", "a"), Named("label", "mov")}

InstrStatements ==
  {InstrS("mov", << >>), InstrS("mov", <<"sp">>), InstrS("mov", <<"010">>),
   InstrS("mov", <<"a">>), InstrS("mov", <<"sp", "r0">>), InstrS("mov", <<"sp", "-1">>),
   InstrS("mov", <<"sp", "a">>), InstrS("mov", <<"mov">>)}
DataStatements ==
  {Data("byte", <<"7">>), Data("byte", << >>), Data("word", <<"010", "a", "-1">>),
   Data("word", <<"mov">>), Named("label", "f_b"), Plain("blank")}

MCFiles ==
  SeqsUpTo(4, Structure) \union SeqsUpTo(5, Shape) \union
  {<<Named("label", "a")>> \o ss : ss \in SeqsUpTo(3, InstrStatements \union DataStatements)}

(* A label, and nothing after its colon.                                   *)
ColonFiles == {<<Named("label", "a")>>}

MCTokenStreams == {TokensOf(f) : f \in MCFiles}
===========================================================================
