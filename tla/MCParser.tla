------------------------------ MODULE MCParser ----------------------------
(***************************************************************************)
(* Constants of the parser's instances: two mnemonics, two registers, and  *)
(* numerals of every sort, one that atoi and strtol read differently.      *)
(***************************************************************************)
EXTENDS ParserProps

MCMnemonics == {"mov", "movi"}
MCOpcode    == [m \in MCMnemonics |-> IF m = "mov" THEN 1 ELSE 2]
MCRegisters == [r \in {"r0", "sp"} |-> IF r = "r0" THEN 0 ELSE 9]
MCNumerals  == {"7", "010", "300", "-1"}
MCAtoi   == [n \in MCNumerals |->
              CASE n = "7" -> 7 [] n = "010" -> 10 [] n = "300" -> 300 [] n = "-1" -> -1]
MCStrtol == [MCAtoi EXCEPT !["010"] = 8]
MCLabels == MCMnemonics \union {"byte", "word", "section", "data", "text"}
              \union {"a", "f_b", "s"}
MCCutTo == [l \in {} |-> l]

SeqsUpTo(n, S) == UNION {[1 .. m -> S] : m \in 0 .. n}
===========================================================================
