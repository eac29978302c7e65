----------------------------- MODULE ParserInv ----------------------------
(***************************************************************************)
(* What ties the parser's state to the tokens behind it, and to the        *)
(* statements of the file when it is one: the inductive invariants of      *)
(* ParserProofs.                                                           *)
(***************************************************************************)
EXTENDS ParserMeaning
LOCAL INSTANCE SequencesExt

(* Between two tokens no statement of the top level begins: no directive   *)
(* that ends a block, and no label unless the parser is left at its colon. *)
Quiet(from, to) ==
  \A q \in from .. to - 1 :
    /\ ~IsDirective(q, {"section", "data", "text"})
    /\ IsLabelDeclaration(q) => Type(to) = "COLON"

(* The labels before c.                                                    *)
Below(c) == {q \in 1 .. c - 1 : IsLabelDeclaration(q)}

(* The settings that the directives before c leave.                        *)
SectionSays(c, name) ==
  LET s == LastBefore(c, {"section"})
  IN  IF s > PreviousDeclaration(c) THEN name = Text(s + 2) /\ name # NoSection
                                    ELSE name = NoSection

DataSays(c, data) ==
  LET d == LastBefore(c, {"data", "text"}) IN data = (d > 0 /\ Text(d + 1) = "data")

BlockSays(p, b) ==
  /\ b.label = Text(p)
  /\ SectionSays(p, b.section)
  /\ \E data \in BOOLEAN : /\ DataSays(p, data)
                           /\ b.in_data = (b.section = NoSection /\ data)

(* The blocks are those of the labels before c.                            *)
BlocksSay(c, bs) ==
  /\ Len(bs) = Cardinality(Below(c))
  /\ \A p \in Below(c) : BlockSays(p, bs[Rank(p)])

(* At a colon the parser is behind a name it took for something else; it   *)
(* goes no further.                                                        *)
TopPlaced(c, bs, name, data) ==
  \/ Type(c) = "COLON"
  \/ BlocksSay(c, bs) /\ SectionSays(c, name) /\ DataSays(c, data)

(* In a block, c is behind the block's label d and no other.               *)
BlockPlaced(c, bs, b, name, data) ==
  \/ Type(c) = "COLON"
  \/ \E d \in Below(c) :
       /\ Quiet(d + 1, c)
       /\ b.label = Text(d)
       /\ BlocksSay(d, bs) /\ SectionSays(d, name) /\ DataSays(d, data)

Placed ==
  /\ at \in {"top", "done"} => TopPlaced(cur, blocks, pending_section, in_data)
  /\ at = "block" => BlockPlaced(cur, blocks, block, pending_section, in_data)
  /\ at = "done" => cur > Len(toks)

(* The tokens of some types from one position to before another.           *)
Tokens(from, to, types) == {q \in from .. to - 1 : Type(q) \in types}

(* The blocks have a place for every number and every register before c.   *)
Counts(c, bs) ==
  /\ Cardinality(Tokens(1, c, NumberTypes)) = Cardinality(NumberPlaces(bs))
  /\ Cardinality(Tokens(1, c, {"REGISTER"})) = Cardinality(RegisterPlaces(bs))

(* The block that is being built counts with those that are complete.      *)
Counted ==
  /\ at \in {"top", "done"} => Counts(cur, blocks)
  /\ at = "block" => Counts(cur, Append(blocks, block))

---------------------------------------------------------------------------
(* Files of statements: where the i-th begins, and what a family of        *)
(* sequences, one for each statement, comes to after i of them.            *)
Start(i)   == Len(TokensOf(SubSeq(stmts, 1, i - 1))) + 1
Upto(f, i) == FlattenSeq([j \in 1 .. i |-> f[j]])

(* What the statements before the i-th leave in the lists of names.        *)
Read(i, imports, exports, paths) ==
  /\ \A j \in 1 .. i - 1 : LegalAt(j)
  /\ imports = Distinct(Upto(NamesOf("import"), i - 1))
  /\ exports = Distinct(Upto(NamesOf("export"), i - 1))
  /\ paths = Distinct(Upto(PathsOf, i - 1))

(* At c the statements before the i-th have been read, and line ends       *)
(* before it perhaps not.                                                  *)
Reached(i, c) ==
  /\ i \in 1 .. Len(stmts) + 1
  /\ c <= Start(i) /\ \A p \in c .. Start(i) - 1 : Type(p) = "NEWLINE"

(* Outside a block: all blocks before are complete, the last one just so.  *)
AtTop(i, c, bs, name, data) ==
  /\ \/ Opener(i) = 0
     \/ i \in DOMAIN stmts /\ Is(i, Enders)
     \/ c > Len(toks)
  /\ bs = Upto(BlocksOf, i - 1)
  /\ name = SectionAt(i) /\ data = DataAt(i)

(* In a block, the one opened at o: it has the contents of its statements  *)
(* so far.                                                                 *)
ContentsOf(o, i) ==
  [label |-> stmts[o].name, instrs |-> Upto(InstrsOf(o), i - 1),
   data |-> Upto(BytesOf(o), i - 1), words |-> Upto(WordsOf(o), i - 1),
   section |-> NoSection, in_data |-> FALSE]

AtBlock(i, bs, b, name, data) ==
  LET o == Opener(i)
  IN  /\ o # 0
      /\ bs = Upto(BlocksOf, o - 1) /\ b = ContentsOf(o, i)
      /\ name = SectionAt(o) /\ data = DataAt(o)

ReadsStatements ==
  /\ at = "top" =>
       Called \/ \E i \in 1 .. Len(stmts) + 1 :
                   /\ Reached(i, cur) /\ Read(i, g_imports, g_exports, g_import_paths)
                   /\ AtTop(i, cur, blocks, pending_section, in_data)
  /\ at = "block" =>
       \E i \in 1 .. Len(stmts) + 1 :
         /\ Reached(i, cur) /\ Read(i, g_imports, g_exports, g_import_paths)
         /\ AtBlock(i, blocks, block, pending_section, in_data)
  /\ ParsesAsWritten /\ EndsWellInABlock
===========================================================================
