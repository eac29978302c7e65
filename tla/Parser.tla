------------------------------ MODULE Parser ------------------------------
(***************************************************************************)
(* parser(), the one-pass parser (src/parser.c): from the tokens of a file *)
(* to its blocks and the lists of imported and exported names.             *)
(*                                                                         *)
(* One step is one iteration of the loop of parser() over top-level        *)
(* statements or of the loop of label() over a block's statements, the     *)
(* calls it makes included.  A token is its type and its text; how a       *)
(* number's text is read is a constant for each of the two functions that  *)
(* read it.  "error" is error_with_context, which exits; "crash" is a      *)
(* dereference of the NULL that ends the token list.                       *)
(***************************************************************************)
EXTENDS AsmProgram, FiniteSets
LOCAL INSTANCE SequencesExt

CONSTANTS
  TokenStreams,  (* the token lists parser() may be called with              *)
  Mnemonics,     (* instruction_table                                        *)
  Opcode,        (* its opcodes, a function on Mnemonics                     *)
  Mov, Movi,     (* the two mnemonics the parser knows by name               *)
  Registers,     (* mapRegister, a function on register names                *)
  Numerals,      (* the texts of the number tokens                           *)
  Atoi,          (* what atoi makes of one                                   *)
  Strtol,        (* and strtol with base 0                                   *)
  WordSpan       (* number of values of a uint32_t                           *)

NumberTypes == {"NUMBER", "NEGATIVE_NUMBER"}
SymbolTypes == {"LABEL", "INSTRUCTION"}
WordTypes   == NumberTypes \union SymbolTypes
MarkTypes ==
  {"HEAD", "COLON", "COMMA", "PERIOD", "L_BRACE", "R_BRACE", "IMPORT", "EXPORT",
   "FROM", "STRING_LITERAL", "NEWLINE"}
TokenTypes == MarkTypes \union WordTypes \union {"REGISTER"}

(* The lexer's tokens: a type and a text that makes one of that type.      *)
IsToken(t) ==
  /\ t.type \in TokenTypes
  /\ t.type = "LABEL" => t.str \in Labels
  /\ t.type = "INSTRUCTION" => t.str \in Mnemonics
  /\ t.type \in NumberTypes => t.str \in Numerals
  /\ t.type = "REGISTER" => t.str \in DOMAIN Registers

(* Labels includes the mnemonics and the directives' words: the parser     *)
(* accepts them as names.                                                  *)
ASSUME ParserAssumption ==
  /\ \A s \in TokenStreams :
       s \in Seq([type : TokenTypes, str : STRING]) /\ \A k \in DOMAIN s : IsToken(s[k])
  /\ Mnemonics \subseteq Labels
  /\ {"byte", "word", "section", "data", "text"} \subseteq Labels
  /\ SectionNames = Labels
  /\ Opcode \in [Mnemonics -> Nat]
  /\ {Mov, Movi} \subseteq Mnemonics
  /\ DOMAIN Registers # {} /\ \A r \in DOMAIN Registers : Registers[r] \in 0 .. RegSpan - 1
  /\ Atoi \in [Numerals -> Int]
  /\ Strtol \in [Numerals -> Int]
  /\ WordSpan \in Nat \ {0}

VARIABLES
  toks,             (* the token list                                        *)
  cur,              (* index of the current token, past the end for NULL     *)
  at,               (* which loop control is in                              *)
  blocks,           (* the list parser() builds                              *)
  block,            (* the block label() builds                              *)
  pending_section, in_data,
  g_imports, g_import_paths, g_exports

globals == <<g_imports, g_import_paths, g_exports>>
vars == <<toks, cur, at, blocks, block, pending_section, in_data, globals>>

Places == {"top", "block", "done", "error", "crash"}

NewBlock(l) ==
  [label |-> l, instrs |-> << >>, data |-> << >>, words |-> << >>,
   section |-> NoSection, in_data |-> FALSE]

NoBlock == NewBlock(CHOOSE l \in Labels : TRUE)

(* reset_symbols comes first, so the lists start empty in every call.      *)
Called ==
  /\ cur = 1
  /\ at = "top"
  /\ blocks = << >>
  /\ block = NoBlock
  /\ pending_section = NoSection
  /\ in_data = FALSE
  /\ g_imports = << >>
  /\ g_import_paths = << >>
  /\ g_exports = << >>

Init == toks \in TokenStreams /\ Called

---------------------------------------------------------------------------
(* Looking at tokens.                                                      *)

Type(p) == IF p \in DOMAIN toks THEN toks[p].type ELSE "NULL"
Text(p) == toks[p].str

IsSymbol(p) == Type(p) \in SymbolTypes
IsNumber(p) == Type(p) \in NumberTypes

IsLabelDeclaration(p) == IsSymbol(p) /\ Type(p + 1) = "COLON"

IsDirective(p, words) ==
  Type(p) = "PERIOD" /\ Type(p + 1) = "LABEL" /\ Text(p + 1) \in words

(* A symbol used as an operand: not the start of the next label's block,   *)
(* and not the last token of the file.                                     *)
IsOperand(p) == IsSymbol(p) /\ Type(p + 1) \notin {"NULL", "COLON"}

(* A comma-separated list from p: items of the given types at p, p+2, ...; *)
(* it ends after the first item that no comma follows, or where an item is *)
(* missing.                                                                *)
ItemCount(p, types, n) ==
  /\ \A k \in 0 .. n - 1 : Type(p + 2 * k) \in types
  /\ \A k \in 0 .. n - 2 : Type(p + 2 * k + 1) = "COMMA"
  /\ n = 0 \/ Type(p + 2 * n - 1) = "COMMA" => Type(p + 2 * n) \notin types

Items(p, types) == CHOOSE n \in 0 .. Len(toks) : ItemCount(p, types, n)

(* The token after the list; a trailing comma belongs to it.               *)
AfterItems(p, types) ==
  LET n == Items(p, types)
  IN  IF n = 0 THEN p
      ELSE IF Type(p + 2 * n - 1) = "COMMA" THEN p + 2 * n ELSE p + 2 * n - 1

SkipNewline(p) == IF Type(p) = "NEWLINE" THEN p + 1 ELSE p

(* The first token from the current one that is not a newline: where the   *)
(* top-level loop finds its next statement.                                *)
Here ==
  CHOOSE p \in cur .. Len(toks) + 1 :
    Type(p) # "NEWLINE" /\ \A q \in cur .. p - 1 : Type(q) = "NEWLINE"

(* Fault: names are added as they come.                                    *)
FaultNamesRepeat(list, names) == list \o names

(* add_symbol_name for every text of a list: no duplicates, so what is     *)
(* added is each name that is new, once, in the order of first mention.    *)
AddNames(list, names) ==
  list \o FlattenSeq([k \in DOMAIN names |->
    IF Contains(list, names[k]) \/ \E j \in 1 .. k - 1 : names[j] = names[k]
    THEN << >> ELSE <<names[k]>>])

Halted(where) ==
  /\ at' = where
  /\ UNCHANGED <<toks, cur, blocks, block, pending_section, in_data, globals>>

---------------------------------------------------------------------------
(* Top-level statements.                                                   *)

AtStatement(types) ==
  /\ at = "top" /\ cur <= Len(toks)
  /\ Type(Here) \in types

ReturnBlocks ==
  /\ at = "top" /\ cur > Len(toks)
  /\ Halted("done")

(* The loop that skips newlines may reach the end of the list; what        *)
(* follows it reads a token all the same.                                  *)
NewlinesAtEnd ==
  /\ AtStatement({"NULL"})
  /\ Halted("crash")

(* The lexer's list starts with an empty token of type 0.                  *)
SkipHead ==
  /\ AtStatement({"HEAD"})
  /\ cur' = Here + 1
  /\ UNCHANGED <<toks, at, blocks, block, pending_section, in_data, globals>>

(* The names of an import or an export, perhaps in braces.                 *)
Braced(p)    == Type(p + 1) = "L_BRACE"
ListStart(p) == IF Braced(p) THEN p + 2 ELSE p + 1
ListNames(p) == [k \in 1 .. Items(ListStart(p), SymbolTypes) |->
                   Text(ListStart(p) + 2 * (k - 1))]
ListClosed(p) ==
  /\ IsSymbol(ListStart(p))
  /\ Braced(p) => Type(AfterItems(ListStart(p), SymbolTypes)) = "R_BRACE"
ListEnd(p) == AfterItems(ListStart(p), SymbolTypes) + IF Braced(p) THEN 1 ELSE 0

HasFrom(p) == Type(ListEnd(p)) = "FROM"

ParseImport ==
  /\ AtStatement({"IMPORT"})
  /\ ListClosed(Here)
  /\ HasFrom(Here) => Type(ListEnd(Here) + 1) = "STRING_LITERAL"
  /\ g_imports' = AddNames(g_imports, ListNames(Here))
  /\ g_import_paths' =
       IF HasFrom(Here) THEN AddNames(g_import_paths, <<Text(ListEnd(Here) + 1)>>)
                        ELSE g_import_paths
  /\ cur' = SkipNewline(ListEnd(Here) + IF HasFrom(Here) THEN 2 ELSE 0)
  /\ UNCHANGED <<toks, at, blocks, block, pending_section, in_data, g_exports>>

ParseExport ==
  /\ AtStatement({"EXPORT"})
  /\ ListClosed(Here)
  /\ g_exports' = AddNames(g_exports, ListNames(Here))
  /\ cur' = SkipNewline(ListEnd(Here))
  /\ UNCHANGED <<toks, at, blocks, block, pending_section, in_data,
                 g_imports, g_import_paths>>

RejectNames ==
  /\ AtStatement({"IMPORT", "EXPORT"})
  /\ \/ ~ListClosed(Here)
     \/ Type(Here) = "IMPORT" /\ HasFrom(Here)
          /\ Type(ListEnd(Here) + 1) # "STRING_LITERAL"
  /\ Halted("error")

SectionDirective ==
  /\ AtStatement({"PERIOD"}) /\ IsDirective(Here, {"section"})
  /\ IsSymbol(Here + 2)
  /\ pending_section' = Text(Here + 2)
  /\ cur' = Here + 3
  /\ UNCHANGED <<toks, at, blocks, block, in_data, globals>>

RejectSection ==
  /\ AtStatement({"PERIOD"}) /\ IsDirective(Here, {"section"})
  /\ ~IsSymbol(Here + 2)
  /\ Halted("error")

DataOrText ==
  /\ AtStatement({"PERIOD"}) /\ IsDirective(Here, {"data", "text"})
  /\ in_data' = (Text(Here + 1) = "data")
  /\ cur' = Here + 2
  /\ UNCHANGED <<toks, at, blocks, block, pending_section, globals>>

BeginBlock ==
  /\ AtStatement(SymbolTypes) /\ IsLabelDeclaration(Here)
  /\ Type(Here + 2) # "NULL"
  /\ block' = NewBlock(Text(Here))
  /\ at' = "block"
  /\ cur' = Here + 2
  /\ UNCHANGED <<toks, blocks, pending_section, in_data, globals>>

(* label() returns NULL, and parser() stores the section through it.       *)
ColonAtEnd ==
  /\ AtStatement(SymbolTypes) /\ IsLabelDeclaration(Here)
  /\ Type(Here + 2) = "NULL"
  /\ Halted("crash")

RejectStatement ==
  /\ AtStatement(TokenTypes \ {"HEAD", "IMPORT", "EXPORT"})
  /\ ~IsLabelDeclaration(Here)
  /\ ~IsDirective(Here, {"section", "data", "text"})
  /\ Halted("error")

---------------------------------------------------------------------------
(* A block's statements.                                                   *)

BlockEnds ==
  \/ cur > Len(toks)
  \/ IsLabelDeclaration(cur)
  \/ IsDirective(cur, {"section", "data", "text"})

(* Faults: the pending section also holds for the blocks after the next;   *)
(* a block with nothing in it is dropped.                                  *)
FaultSectionKept ==
  /\ at = "block" /\ BlockEnds
  /\ blocks' = Append(blocks,
       [block EXCEPT !.section = pending_section,
                     !.in_data = pending_section = NoSection /\ in_data])
  /\ at' = "top"
  /\ UNCHANGED <<toks, cur, block, pending_section, in_data, globals>>

FaultEmptyBlockDropped ==
  /\ at = "block" /\ BlockEnds
  /\ blocks' = IF block = NewBlock(block.label) THEN blocks
               ELSE Append(blocks,
                 [block EXCEPT !.section = pending_section,
                               !.in_data = pending_section = NoSection /\ in_data])
  /\ pending_section' = NoSection
  /\ at' = "top"
  /\ UNCHANGED <<toks, cur, block, in_data, globals>>

EndBlock ==
  /\ at = "block" /\ BlockEnds
  /\ blocks' = Append(blocks,
       [block EXCEPT !.section = pending_section,
                     !.in_data = pending_section = NoSection /\ in_data])
  /\ pending_section' = NoSection
  /\ at' = "top"
  /\ UNCHANGED <<toks, cur, block, in_data, globals>>

InBlock == at = "block" /\ ~BlockEnds

(* Faults: the newline is not consumed; a blank line ends the block.       *)
FaultNewlineKept ==
  /\ InBlock /\ Type(cur) = "NEWLINE"
  /\ UNCHANGED vars

FaultBlankEndsBlock ==
  /\ InBlock /\ Type(cur) = "NEWLINE"
  /\ blocks' = Append(blocks, block)
  /\ at' = "top"
  /\ UNCHANGED <<toks, cur, block, pending_section, in_data, globals>>

BlankLine ==
  /\ InBlock /\ Type(cur) = "NEWLINE"
  /\ cur' = cur + 1
  /\ UNCHANGED <<toks, at, blocks, block, pending_section, in_data, globals>>

RejectToken ==
  /\ InBlock /\ Type(cur) \notin {"INSTRUCTION", "PERIOD", "NEWLINE"}
  /\ Halted("error")

(* Directives.                                                             *)
Grow(bytes, ws, next) ==
  /\ block' = [block EXCEPT !.data = @ \o bytes, !.words = @ \o ws]
  /\ cur' = next
  /\ UNCHANGED <<toks, at, blocks, pending_section, in_data, globals>>

(* Fault: a byte is not masked.                                            *)
FaultByteUnmasked ==
  /\ InBlock /\ IsDirective(cur, {"byte"})
  /\ Grow([k \in 1 .. Items(cur + 2, NumberTypes) |-> Atoi[Text(cur + 2 * k)]],
          << >>, SkipNewline(AfterItems(cur + 2, NumberTypes)))

ParseByte ==
  /\ InBlock /\ IsDirective(cur, {"byte"})
  /\ Grow([k \in 1 .. Items(cur + 2, NumberTypes) |->
             Atoi[Text(cur + 2 * k)] % 256],
          << >>, SkipNewline(AfterItems(cur + 2, NumberTypes)))

WordAt(p) ==
  IF IsSymbol(p) THEN [value |-> 0, symbol |-> Text(p)]
                 ELSE [value |-> Strtol[Text(p)] % WordSpan, symbol |-> NoLabel]

ParseWord ==
  /\ InBlock /\ IsDirective(cur, {"word"})
  /\ Grow(<< >>, [k \in 1 .. Items(cur + 2, WordTypes) |-> WordAt(cur + 2 * k)],
          SkipNewline(AfterItems(cur + 2, WordTypes)))

RejectDirective ==
  /\ InBlock /\ Type(cur) = "PERIOD" /\ ~IsDirective(cur, {"byte", "word"})
  /\ Halted("error")

(* Instructions: what follows the mnemonic chooses the form.               *)
AtMnemonic == InBlock /\ Type(cur) = "INSTRUCTION"

AddInstr(kind, opcode, reg1, reg2, imm, l, next) ==
  /\ block' = [block EXCEPT !.instrs = Append(@,
       [kind |-> kind, opcode |-> opcode, reg1 |-> reg1, reg2 |-> reg2,
        imm |-> imm, label |-> l])]
  /\ cur' = next
  /\ UNCHANGED <<toks, at, blocks, pending_section, in_data, globals>>

Op == Opcode[Text(cur)]
Reg(p) == Registers[Text(p)]

InstrNoOperand ==
  /\ AtMnemonic
  /\ Type(cur + 1) \notin {"REGISTER", "NUMBER"} /\ ~IsOperand(cur + 1)
  /\ AddInstr("NO_OPERAND", Op, 0, 0, 0, NoLabel, cur + 1)

InstrImm26 ==
  /\ AtMnemonic /\ Type(cur + 1) = "NUMBER"
  /\ AddInstr("IMM26", Op, 0, 0, Atoi[Text(cur + 1)] % WordSpan, NoLabel, cur + 2)

InstrLabel ==
  /\ AtMnemonic /\ IsOperand(cur + 1)
  /\ AddInstr("LABEL", Op, 0, 0, 0, Text(cur + 1), cur + 2)

InstrReg ==
  /\ AtMnemonic /\ Type(cur + 1) = "REGISTER" /\ Type(cur + 2) # "COMMA"
  /\ AddInstr("REG", Op, Reg(cur + 1), 0, 0, NoLabel, cur + 2)

AtSecondOperand ==
  AtMnemonic /\ Type(cur + 1) = "REGISTER" /\ Type(cur + 2) = "COMMA"

(* Fault: the second register is read and forgotten.                       *)
FaultSecondRegisterLost ==
  /\ AtSecondOperand /\ Type(cur + 3) = "REGISTER"
  /\ AddInstr("REG", Op, Reg(cur + 1), 0, 0, NoLabel, cur + 4)

InstrRegReg ==
  /\ AtSecondOperand /\ Type(cur + 3) = "REGISTER"
  /\ AddInstr("REGREG", Op, Reg(cur + 1), Reg(cur + 3), 0, NoLabel, cur + 4)

(* A negative number is masked to the field; a positive one is not.        *)
InstrRegImm21 ==
  /\ AtSecondOperand /\ IsNumber(cur + 3)
  /\ LET span == IF Type(cur + 3) = "NUMBER" THEN WordSpan ELSE ImmSpan
     IN  AddInstr("REGIMM21", Op, Reg(cur + 1), 0, Atoi[Text(cur + 3)] % span,
                  NoLabel, cur + 4)

(* mov with a label is movi.                                               *)
InstrRegLabel ==
  /\ AtSecondOperand /\ IsOperand(cur + 3)
  /\ AddInstr("REGLABEL", IF Text(cur) = Mov THEN Opcode[Movi] ELSE Op,
              Reg(cur + 1), 0, 0, Text(cur + 3), cur + 4)

CommaAtEnd ==
  /\ AtSecondOperand /\ Type(cur + 3) = "NULL"
  /\ Halted("crash")

RejectOperand ==
  /\ AtSecondOperand
  /\ Type(cur + 3) \notin {"NULL", "REGISTER"} \union NumberTypes
  /\ ~IsOperand(cur + 3)
  /\ Halted("error")

---------------------------------------------------------------------------
(* parser() has returned or the process has ended.                         *)
Terminated == at \in {"done", "error", "crash"} /\ UNCHANGED vars

Statement ==
  \/ SkipHead \/ ParseImport \/ ParseExport \/ RejectNames
  \/ SectionDirective \/ RejectSection \/ DataOrText
  \/ BeginBlock \/ ColonAtEnd \/ RejectStatement
  \/ NewlinesAtEnd \/ ReturnBlocks
Directive == ParseByte \/ ParseWord \/ RejectDirective
ParseInstruction ==
  \/ InstrNoOperand \/ InstrImm26 \/ InstrLabel \/ InstrReg
  \/ InstrRegReg \/ InstrRegImm21 \/ InstrRegLabel
  \/ CommaAtEnd \/ RejectOperand

Step ==
  \/ Statement
  \/ EndBlock \/ BlankLine \/ RejectToken
  \/ Directive \/ ParseInstruction

Next == Step \/ Terminated

Spec == Init /\ [][Next]_vars

(* Nothing in the parser waits.                                            *)
FairSpec == Spec /\ WF_vars(Step)
===========================================================================
