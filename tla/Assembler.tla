------------------------------ MODULE Assembler -----------------------------
(***************************************************************************)
(* assembler() (src/assembler.c): the lexer, the parser and the code       *)
(* generator one after another, each in its own module, each called with   *)
(* what the one before it left.                                            *)
(*                                                                         *)
(* The lexer's texts are sequences of characters, the names of the other   *)
(* two are values of their own; Spelling is the one-to-one table between   *)
(* them, and the only place where it matters is the parser's call.  The    *)
(* lexer and the parser look mnemonics and registers up in the same        *)
(* tables, and atoi and strtol are computed here from a token's text.      *)
(***************************************************************************)
EXTENDS AsmProgram

CONSTANTS
  Spelling,      (* the characters of every name and number                  *)
  Numerals,      (* the numbers, as the lexer writes them                    *)
  Mnemonics, Opcode, Mov, Movi,   (* instruction_table                       *)
  Registers,                      (* mapRegister                             *)
  Texts, Litter, BufferSize, MaxTokenLen, LongMax,
  WordSpan

VARIABLES
  text, read, buffer, ptr, tokens, lexer_at,
  toks, cur, parser_at, blocks, block, pending_section, in_data,
  g_imports, g_import_paths, g_exports,
  src, phase, line, item, cursor, size, local_label_counter,
  labelMap, labelSymbolMap, symbols, relocs, collects, out,
  stage      (* which of the three is running, or how assembler() ended      *)

RegisterNames == {Spelling[n] : n \in DOMAIN Registers}
MnemonicNames == {Spelling[n] : n \in Mnemonics}

Lexer == INSTANCE Lexer WITH at <- lexer_at

---------------------------------------------------------------------------
(* Numbers: atoi reads the digits in base 10, strtol with base 0 in base 8 *)
(* after a leading zero, up to the first that is no octal digit.           *)

Magnitude(chars) == IF chars[1] = "-" THEN Tail(chars) ELSE chars
Signed(chars, value) == IF chars[1] = "-" THEN -value ELSE value
OctalPart(digits) ==
  SubSeq(digits, 1, Lexer!Min({Len(digits)} \union
    {i - 1 : i \in {j \in DOMAIN digits : digits[j] \in {"8", "9"}}}))

Base10(chars) == Signed(chars, Lexer!Strtol(Magnitude(chars), 10))
Base0(chars) ==
  IF Magnitude(chars)[1] = "0"
  THEN Signed(chars, Lexer!Strtol(OctalPart(Magnitude(chars)), 8))
  ELSE Base10(chars)

AtoiOf   == [n \in Numerals |-> Base10(Spelling[n])]
StrtolOf == [n \in Numerals |-> Base0(Spelling[n])]

Parser ==
  INSTANCE Parser WITH at <- parser_at, TokenStreams <- {<< >>},
                       Atoi <- AtoiOf, Strtol <- StrtolOf

CodeGen ==
  INSTANCE CodeGen WITH Programs <- {[blocks |-> << >>, imports |-> << >>, exports |-> << >>]}

lexer_vars  == <<text, read, buffer, ptr, tokens, lexer_at>>
parser_call == <<cur, parser_at, blocks, block, pending_section, in_data,
                 g_imports, g_import_paths, g_exports>>
gen_call    == <<phase, line, item, cursor, size, local_label_counter, labelMap,
                 labelSymbolMap, symbols, relocs, collects, out>>
parser_vars == <<toks, parser_call>>
gen_vars    == <<src, gen_call>>
vars == <<lexer_vars, parser_vars, gen_vars, stage>>

---------------------------------------------------------------------------
(* The parser and the code generator wait in the states their calls start  *)
(* in, but for their arguments.                                            *)
Init ==
  /\ Lexer!Init
  /\ Parser!Init
  /\ CodeGen!Init
  /\ stage = "lexer"

Lex ==
  /\ stage = "lexer" /\ Lexer!Step
  /\ UNCHANGED <<parser_vars, gen_vars, stage>>

NoTokens ==
  /\ stage = "lexer" /\ lexer_at = "done" /\ tokens = << >>
  /\ stage' = "empty"
  /\ UNCHANGED <<lexer_vars, parser_vars, gen_vars>>

(* A token of the parser's.  The text of a mark says what its type says.   *)
NameOf(token) ==
  IF \E n \in DOMAIN Spelling : Spelling[n] = token.str
  THEN CHOOSE n \in DOMAIN Spelling : Spelling[n] = token.str ELSE ""
Token(token) == [type |-> token.type, str |-> NameOf(token)]

(* Fault: the empty token at the head of the list is not passed on.        *)
FaultHeadDropped ==
  /\ stage = "lexer" /\ lexer_at = "done" /\ tokens # << >>
  /\ toks' = [i \in 1 .. Len(tokens) - 1 |-> Token(tokens[i + 1])]
  /\ stage' = "parser"
  /\ UNCHANGED <<lexer_vars, parser_call, gen_vars>>

CallParser ==
  /\ stage = "lexer" /\ lexer_at = "done" /\ tokens # << >>
  /\ toks' = [i \in DOMAIN tokens |-> Token(tokens[i])]
  /\ stage' = "parser"
  /\ UNCHANGED <<lexer_vars, parser_call, gen_vars>>

Parse ==
  /\ stage = "parser" /\ Parser!Step
  /\ UNCHANGED <<lexer_vars, gen_vars, stage>>

(* Fault: imports and exports change places.                               *)
FaultListsSwapped ==
  /\ stage = "parser" /\ parser_at = "done"
  /\ src' = [blocks |-> blocks, imports |-> g_exports, exports |-> g_imports]
  /\ stage' = "codegen"
  /\ UNCHANGED <<lexer_vars, parser_vars, gen_call>>

CallCodeGen ==
  /\ stage = "parser" /\ parser_at = "done"
  /\ src' = [blocks |-> blocks, imports |-> g_imports, exports |-> g_exports]
  /\ stage' = "codegen"
  /\ UNCHANGED <<lexer_vars, parser_vars, gen_call>>

Generate ==
  /\ stage = "codegen" /\ CodeGen!Step
  /\ UNCHANGED <<lexer_vars, parser_vars, stage>>

Return ==
  /\ stage = "codegen" /\ phase = "done"
  /\ stage' = "done"
  /\ UNCHANGED <<lexer_vars, parser_vars, gen_vars>>

(* A stage has ended the process.                                          *)
Stopped ==
  \/ stage = "lexer"   /\ lexer_at \in {"error", "outside"}
  \/ stage = "parser"  /\ parser_at \in {"error", "crash"}
  \/ stage = "codegen" /\ phase = "error"

Exit ==
  /\ Stopped
  /\ stage' = "exit"
  /\ UNCHANGED <<lexer_vars, parser_vars, gen_vars>>

---------------------------------------------------------------------------
Step ==
  Lex \/ NoTokens \/ CallParser \/ Parse \/ CallCodeGen \/ Generate \/ Return \/ Exit

Ends == {"empty", "done", "exit"}
Terminated == stage \in Ends /\ UNCHANGED vars

Next == Step \/ Terminated

Spec == Init /\ [][Next]_vars

(* The stages are called in turn and none of them waits.                   *)
FairSpec == Spec /\ WF_vars(Step)
=============================================================================
