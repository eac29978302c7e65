--------------------------- MODULE ParserMeaning --------------------------
(***************************************************************************)
(* The assembly language of the README and the tests, and the parser       *)
(* against it: a file is a sequence of statements, TokensOf gives its      *)
(* tokens, and its blocks, imports and exports are described statement by  *)
(* statement, with no parser state.  MeaningInit chooses a file, and the   *)
(* parser runs on what TokensOf makes of it.                               *)
(***************************************************************************)
EXTENDS ParserProps
LOCAL INSTANCE SequencesExt

CONSTANT Files   (* the files, sequences of statements                     *)

VARIABLE stmts   (* the file the tokens were printed from                  *)

Tok(type, str) == [type |-> type, str |-> str]
Mark(type) == Tok(type, "")
NewlineTok == Mark("NEWLINE")

Commas(items) ==
  [k \in 1 .. 2 * Len(items) - 1 |->
     IF k % 2 = 1 THEN items[(k + 1) \div 2] ELSE Mark("COMMA")]

Symbol(n) == Tok(IF n \in Mnemonics THEN "INSTRUCTION" ELSE "LABEL", n)
Number(n) == Tok(IF Atoi[n] < 0 THEN "NEGATIVE_NUMBER" ELSE "NUMBER", n)
Operand(n) == IF n \in Numerals THEN Number(n)
              ELSE IF n \in DOMAIN Registers THEN Tok("REGISTER", n)
              ELSE Symbol(n)

(***************************************************************************)
(* Statements.  Each is on a line of its own, but for a label, which may   *)
(* share its line with the statement after it.  A name used as an operand  *)
(* is neither a register nor a number, and numbers fit what they are for:  *)
(* an operand alone is not negative, the least byte is -256.               *)
(***************************************************************************)
Words == Labels \ (Numerals \union DOMAIN Registers)
NumbersFrom(low) == {n \in Numerals : Atoi[n] \in low .. WordSpan - 1}
ByteNumbers == {n \in Numerals : Atoi[n] >= -256}
WordNumbers == {n \in Numerals : Strtol[n] \in -WordSpan .. WordSpan - 1}

Arguments ==
  {<< >>}
  \union {<<x>> : x \in DOMAIN Registers \union Words \union NumbersFrom(0)}
  \union {<<r, x>> : r \in DOMAIN Registers,
                    x \in DOMAIN Registers \union Words \union NumbersFrom(-ImmSpan)}

StatementSet ==
  [is : {"import"}, names : Seq(Labels) \ {<< >>}, braces : BOOLEAN, from : STRING]
  \union [is : {"export"}, names : Seq(Labels) \ {<< >>}, braces : BOOLEAN]
  \union [is : {"section", "label"}, name : Labels]
  \union [is : {"data", "text", "blank"}]
  \union [is : {"instr"}, op : Mnemonics, args : Arguments]
  \union [is : {"byte"}, items : Seq(ByteNumbers)]
  \union [is : {"word"}, items : Seq(WordNumbers \union Words)]

Names(s) ==
  IF s.braces THEN <<Mark("L_BRACE")>> \o Commas([k \in DOMAIN s.names |-> Symbol(s.names[k])])
                     \o <<Mark("R_BRACE")>>
  ELSE Commas([k \in DOMAIN s.names |-> Symbol(s.names[k])])

Operands(items) == Commas([k \in DOMAIN items |-> Operand(items[k])])
Dot(word) == <<Mark("PERIOD"), Tok("LABEL", word)>>

Line(s) ==
  CASE s.is = "import" ->
         <<Mark("IMPORT")>> \o Names(s)
         \o IF s.from = "" THEN << >> ELSE <<Mark("FROM"), Tok("STRING_LITERAL", s.from)>>
    [] s.is = "export"  -> <<Mark("EXPORT")>> \o Names(s)
    [] s.is = "section" -> Dot("section") \o <<Symbol(s.name)>>
    [] s.is \in {"data", "text"} -> Dot(s.is)
    [] s.is = "label"   -> <<Symbol(s.name), Mark("COLON")>>
    [] s.is = "blank"   -> << >>
    [] s.is = "instr"   -> <<Symbol(s.op)>> \o Operands(s.args)
    [] s.is \in {"byte", "word"} -> Dot(s.is) \o Operands(s.items)

Printed(s) == Line(s) \o IF s.is = "label" THEN << >> ELSE <<NewlineTok>>

TokensOf(file) ==
  <<Mark("HEAD")>> \o FlattenSeq([i \in DOMAIN file |-> Printed(file[i])])

ASSUME FilesAssumption ==
  /\ Numerals \intersect DOMAIN Registers = {}
  /\ \A f \in Files : f \in Seq(StatementSet)

---------------------------------------------------------------------------
(* The block a statement is in: the last label before it, unless a         *)
(* directive that ends blocks comes in between.  0 is none.                *)

Is(i, kinds) == stmts[i].is \in kinds
Enders == {"label", "section", "data", "text"}

Opener(i) ==
  LET before == {j \in 1 .. i - 1 : Is(j, Enders)}
  IN  IF before = {} THEN 0
      ELSE LET j == CHOOSE j \in before : \A k \in before : k <= j
           IN  IF Is(j, {"label"}) THEN j ELSE 0

(* A file is legal when contents are in blocks and imports are not.        *)
LegalAt(i) ==
  /\ Is(i, {"instr", "byte", "word"}) => Opener(i) # 0
  /\ Is(i, {"import", "export"}) => Opener(i) = 0

LegalFile == \A i \in DOMAIN stmts : LegalAt(i)

(***************************************************************************)
(* What each form means.  A number is 21 or 26 bits of an instruction, a   *)
(* byte or a word; a register's number, a label and a mnemonic are the     *)
(* text's own.                                                             *)
(***************************************************************************)
Registered(n) == n \in DOMAIN Registers
InstrMeant(s) ==
  LET n == Len(s.args)
      last == IF n = 0 THEN "" ELSE s.args[n]
      form == IF n = 0 THEN "NO_OPERAND"
              ELSE IF n = 1 THEN IF Registered(last) THEN "REG"
                                 ELSE IF last \in Numerals THEN "IMM26" ELSE "LABEL"
              ELSE IF Registered(last) THEN "REGREG"
                   ELSE IF last \in Numerals THEN "REGIMM21" ELSE "REGLABEL"
  IN  [kind |-> form,
       opcode |-> IF form = "REGLABEL" /\ s.op = Mov THEN Opcode[Movi] ELSE Opcode[s.op],
       reg1 |-> IF n > 0 /\ Registered(s.args[1]) THEN Registers[s.args[1]] ELSE 0,
       reg2 |-> IF form = "REGREG" THEN Registers[last] ELSE 0,
       imm |-> IF form \in {"IMM26", "REGIMM21"}
               THEN IF Atoi[last] >= 0 THEN Atoi[last] ELSE ImmSpan + Atoi[last]
               ELSE 0,
       label |-> IF form \in {"LABEL", "REGLABEL"} THEN last ELSE NoLabel]

ByteMeant(n) == IF Atoi[n] >= 0 THEN Atoi[n] % 256 ELSE 256 + Atoi[n]

WordMeant(n) ==
  IF n \in Numerals
  THEN [value |-> IF Strtol[n] >= 0 THEN Strtol[n] ELSE WordSpan + Strtol[n],
        symbol |-> NoLabel]
  ELSE [value |-> 0, symbol |-> n]

(* The contents of the block opened at o, statement by statement.          *)
InstrsOf(o) ==
  [j \in DOMAIN stmts |->
     IF Is(j, {"instr"}) /\ Opener(j) = o THEN <<InstrMeant(stmts[j])>> ELSE << >>]
BytesOf(o) ==
  [j \in DOMAIN stmts |->
     IF Is(j, {"byte"}) /\ Opener(j) = o
     THEN [k \in DOMAIN stmts[j].items |-> ByteMeant(stmts[j].items[k])] ELSE << >>]
WordsOf(o) ==
  [j \in DOMAIN stmts |->
     IF Is(j, {"word"}) /\ Opener(j) = o
     THEN [k \in DOMAIN stmts[j].items |-> WordMeant(stmts[j].items[k])] ELSE << >>]

(* The settings at o: a .section since the last label, and the last .data  *)
(* or .text of all.                                                        *)
LastOf(S) == CHOOSE j \in S : \A k \in S : k <= j

SectionAt(o) ==
  LET since == {j \in 1 .. o - 1 : /\ Is(j, {"section"})
                                   /\ \A k \in 1 .. o - 1 : Is(k, {"label"}) => k < j}
  IN  IF since = {} THEN NoSection ELSE stmts[LastOf(since)].name

DataAt(o) ==
  LET modes == {j \in 1 .. o - 1 : Is(j, {"data", "text"})}
  IN  modes # {} /\ Is(LastOf(modes), {"data"})

BlockMeant(o) ==
  [label   |-> stmts[o].name,
   instrs  |-> FlattenSeq(InstrsOf(o)),
   data    |-> FlattenSeq(BytesOf(o)),
   words   |-> FlattenSeq(WordsOf(o)),
   section |-> SectionAt(o),
   in_data |-> SectionAt(o) = NoSection /\ DataAt(o)]

BlocksOf ==
  [j \in DOMAIN stmts |-> IF Is(j, {"label"}) THEN <<BlockMeant(j)>> ELSE << >>]
BlocksMeant == FlattenSeq(BlocksOf)

(* The names of the import or export statements, each once.                *)
Distinct(seq) ==
  FlattenSeq([k \in DOMAIN seq |->
    IF \E j \in 1 .. k - 1 : seq[j] = seq[k] THEN << >> ELSE <<seq[k]>>])

NamesOf(kind) ==
  [j \in DOMAIN stmts |-> IF Is(j, {kind}) THEN stmts[j].names ELSE << >>]
NamesMeant(kind) == Distinct(FlattenSeq(NamesOf(kind)))

PathsOf ==
  [j \in DOMAIN stmts |->
     IF Is(j, {"import"}) /\ stmts[j].from # "" THEN <<stmts[j].from>> ELSE << >>]
PathsMeant == Distinct(FlattenSeq(PathsOf))

---------------------------------------------------------------------------
MeaningInit == stmts \in Files /\ toks = TokensOf(stmts) /\ Called
MeaningSpec ==
  MeaningInit /\ [][Next /\ UNCHANGED stmts]_<<vars, stmts>>
              /\ WF_<<vars, stmts>>(Step /\ UNCHANGED stmts)

(* A legal file is parsed to exactly the blocks, imports, paths and        *)
(* exports that its statements describe, and an illegal one is refused.    *)
ParsesAsWritten ==
  /\ at = "done" =>
       /\ LegalFile
       /\ blocks = BlocksMeant
       /\ g_imports = NamesMeant("import")
       /\ g_exports = NamesMeant("export")
       /\ g_import_paths = PathsMeant
  /\ at = "error" => ~LegalFile

(* A file that ends inside a block, as compilers write them, is never      *)
(* parsed beyond its end.                                                  *)
EndsWellInABlock ==
  at = "crash" =>
    \/ Is(Len(stmts), {"label"})
    \/ Opener(Len(stmts) + 1) = 0
===========================================================================
