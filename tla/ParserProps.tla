---------------------------- MODULE ParserProps ---------------------------
(***************************************************************************)
(* What the parser must get right for any list of tokens: what the result  *)
(* says of a file is what can be read off the positions of its tokens,     *)
(* with no parser state involved.                                          *)
(***************************************************************************)
EXTENDS Parser, FiniteSets
LOCAL INSTANCE FiniteSetsExt

Positions == DOMAIN toks

(* The parser's variables have their types, and the result is a program    *)
(* codeGen may be called with.                                             *)
ParserTypeOK ==
  /\ cur \in 1 .. Len(toks) + 1
  /\ at \in Places
  /\ [blocks |-> blocks, imports |-> g_imports, exports |-> g_exports] \in Source
  /\ block \in AsmBlock
  /\ pending_section \in SectionNames \union {NoSection}
  /\ in_data \in BOOLEAN

---------------------------------------------------------------------------
(* The blocks, by position.                                                *)

Declarations == {p \in Positions : IsLabelDeclaration(p)}

(* The block of a label: the n-th block for the n-th label.                *)
Rank(p)    == Cardinality({q \in Declarations : q <= p})
BlockOf(p) == blocks[Rank(p)]

(* The last position before p where a directive of one of the words is,    *)
(* 0 when there is none.                                                   *)
LastBefore(p, words) ==
  Max({q \in 1 .. p - 1 : IsDirective(q, words)} \union {0})

PreviousDeclaration(p) ==
  Max({q \in 1 .. p - 1 : IsLabelDeclaration(q)} \union {0})

(* When parsing ends well, every "name:" of the file has begun a block, in *)
(* order, and nothing else has: no operand position swallows a label, so   *)
(* pass 1 of codeGen will see every label of the file.                     *)
EveryLabelBeginsABlock ==
  at = "done" =>
    /\ Len(blocks) = Cardinality(Declarations)
    /\ \A p \in Declarations : BlockOf(p).label = Text(p)

(* A block is in a named section exactly when a .section stands between    *)
(* the label before it and its own, and the last such one names it;        *)
(* otherwise it is in DATA exactly when the last .data or .text before it  *)
(* is a .data, however many blocks, sections and imports lie between.      *)
SectionsByPosition ==
  at = "done" =>
    \A p \in Declarations :
      LET s == LastBefore(p, {"section"})
          d == LastBefore(p, {"data", "text"})
          named == s > PreviousDeclaration(p)
      IN  /\ BlockOf(p).section = IF named THEN Text(s + 2) ELSE NoSection
          /\ BlockOf(p).in_data = (~named /\ d > 0 /\ Text(d + 1) = "data")

(* The places in a block that a number came to: bytes, words that are not  *)
(* symbols, and immediates.  And those that a register came to.            *)
OfKind(instrs, kinds) == {j \in DOMAIN instrs : instrs[j].kind \in kinds}
Values(words)         == {j \in DOMAIN words : words[j].symbol = NoLabel}

NumbersOf(b) ==
  ({"data"} \X DOMAIN b.data) \union ({"words"} \X Values(b.words))
  \union ({"imm"} \X OfKind(b.instrs, {"REGIMM21", "IMM26"}))

RegistersOf(b) ==
  ({"reg1"} \X OfKind(b.instrs, {"REG", "REGREG", "REGIMM21", "REGLABEL"}))
  \union ({"reg2"} \X OfKind(b.instrs, {"REGREG"}))

(* The places of each block, with the block's number.                      *)
Numbered(places) == UNION {{k} \X places[k] : k \in DOMAIN places}

NumberPlaces(bs)   == Numbered([k \in DOMAIN bs |-> NumbersOf(bs[k])])
RegisterPlaces(bs) == Numbered([k \in DOMAIN bs |-> RegistersOf(bs[k])])

(* No operand is dropped or used twice: an accepted file has as many       *)
(* numbers and registers as its blocks have places that one came to.       *)
OperandsAccounted ==
  at = "done" =>
    /\ Cardinality({p \in Positions : IsNumber(p)}) = Cardinality(NumberPlaces(blocks))
    /\ Cardinality({p \in Positions : Type(p) = "REGISTER"})
         = Cardinality(RegisterPlaces(blocks))

(* The parser never reads past the end of the token list.                  *)
NeverCrashes == at # "crash"

(* The parser returns, or the process ends.                                *)
ParserTermination == <>(at \in {"done", "error", "crash"})
===========================================================================
