---------------------------- MODULE AsmProgram ----------------------------
(***************************************************************************)
(* The data that passes between the parts of the assembler: the parsed     *)
(* program (inc/parser.h), the object file's tables (inc/codeGen.h), and   *)
(* the arithmetic both the code generator and its specification use.       *)
(*                                                                         *)
(* Names are model values.  What matters about a label's text is kept as   *)
(* three constants: whether it is public by its spelling, whether it is so *)
(* long that the 96-byte buffer cuts the counter off its unique name, and  *)
(* what is left of it then.                                                *)
(***************************************************************************)
EXTENDS Integers, Sequences

CONSTANTS
  Labels,        (* the symbol names a program may use                       *)
  PublicLabels,  (* those spelled f_... or __START__                         *)
  CutTo,         (* for a label that leaves no room for all of the suffix:   *)
                 (* what is left of its unique name, without the counter     *)
  NoLabel,       (* no symbol in a .word or an instruction                   *)
  SectionNames,  (* the names used with .section                             *)
  NoSection,     (* AsmBlock.section = NULL                                  *)
  RegSpan,       (* number of values of a register field, 2^5 in the code    *)
  ImmSpan        (* number of values of an immediate field, 2^21 in the code *)

ASSUME LabelAssumption ==
  /\ PublicLabels \subseteq Labels
  /\ DOMAIN CutTo \subseteq Labels
  /\ \A l \in DOMAIN CutTo : CutTo[l] \in Labels
  /\ NoLabel \notin Labels
  /\ NoSection \notin SectionNames

ASSUME WidthAssumption ==
  /\ RegSpan \in Nat \ {0}
  /\ ImmSpan \in Nat \ {0}
  /\ RegSpan % 2 = 0
  /\ ImmSpan % RegSpan = 0

---------------------------------------------------------------------------
(* Sections of the object file.                                            *)

TEXT    == "TEXT"
DATA    == "DATA"
COLLECT == "COLLECT"
Sections == {TEXT, DATA, COLLECT}

(***************************************************************************)
(* The parsed program.  An instruction keeps the union of the fields of    *)
(* the code's Instr... structs; a field its kind lacks is 0 or NoLabel.    *)
(***************************************************************************)
FixupKinds   == {"LABEL", "REGLABEL"}
OperandKinds == {"REGREG", "REGIMM21", "REG", "IMM26", "NO_OPERAND"}

Instruction ==
  [kind : FixupKinds \union OperandKinds, opcode : Nat,
   reg1 : 0 .. RegSpan - 1, reg2 : 0 .. RegSpan - 1, imm : Nat,
   label : Labels \union {NoLabel}]

AsmWord == [value : Nat, symbol : Labels \union {NoLabel}]

AsmBlock ==
  [label : Labels, instrs : Seq(Instruction), data : Seq(Nat),
   words : Seq(AsmWord), section : SectionNames \union {NoSection},
   in_data : BOOLEAN]

(* What codeGen is called with.                                            *)
Source ==
  [blocks : Seq(AsmBlock), imports : Seq(Labels), exports : Seq(Labels)]

(* The section a block's payload goes to: .section wins over .data.        *)
SectionOf(b) ==
  IF b.section # NoSection THEN COLLECT ELSE IF b.in_data THEN DATA ELSE TEXT

(* Only TEXT may hold instructions.                                        *)
HoldsCodeOutsideText(b) == SectionOf(b) # TEXT /\ b.instrs # << >>

---------------------------------------------------------------------------
(* Sizes, in bytes.  Raw bytes are padded to a multiple of four.           *)

PaddedData(b) == 4 * ((Len(b.data) + 3) \div 4)

(* Faults: the bytes are not padded; they are padded even when they fill   *)
(* their last word.                                                        *)
FaultPayloadUnpadded(b) == Len(b.data) + 4 * Len(b.words)
FaultPayloadOverpadded(b) == 4 * (Len(b.data) \div 4 + 1) + 4 * Len(b.words)

Payload(b)    == PaddedData(b) + 4 * Len(b.words)
BlockSize(b)  == 4 * Len(b.instrs) + Payload(b)

(* A block is emitted as four-byte units: instructions, bytes, words.      *)
Units(b) == Len(b.instrs) + (Len(b.data) + 3) \div 4 + Len(b.words)

(* The byte addresses at which a unit of an n-byte buffer may start.       *)
UnitAddresses(n) == {a \in 0 .. n - 1 : a % 4 = 0}

---------------------------------------------------------------------------
(* Symbol names of the object file.  "<label>-[<module>:<n>]" is an        *)
(* injection of (label, n), because no label contains a '-', as long as    *)
(* it fits its 96-byte buffer; a name that is cut loses its counter here   *)
(* for every n (ObjectNames has it character by character).                *)

RawName(l) == [text |-> l, n |-> 0]

UniqueName(l, n) ==
  IF l \in DOMAIN CutTo THEN RawName(CutTo[l]) ELSE [text |-> l, n |-> n]

SymbolName == [text : Labels, n : Nat]

LabelAddressMapping == [label : Labels, address : Nat]
LabelSymbolMapping  == [source_label : Labels, symbol_name : SymbolName]

ObjSymbol ==
  [name : SymbolName, type : {"UNDEFINED", "DEFINED"}, section : Sections,
   offset : Nat]

ObjReloc ==
  [offset : Nat, symbol_name : SymbolName,
   type : {"ABSOLUTE", "RELATIVE", "WORD32"}, section : Sections]

ObjCollect == [name : SectionNames, offset : Nat, size : Nat]

(* Index of the first entry of a table that satisfies Test, 0 if none: the *)
(* code searches every one of its tables from the front.                   *)
FirstIndex(table, Test(_)) ==
  LET hits == {i \in DOMAIN table : Test(table[i])}
  IN  IF hits = {} THEN 0 ELSE CHOOSE i \in hits : \A j \in hits : i <= j

---------------------------------------------------------------------------
(* Encoded units.  A 32-bit instruction word is its opcode field and the   *)
(* 26 bits below it; RegSpan * ImmSpan is 2^26 in the code.                *)

RelSpan == RegSpan * ImmSpan
RelHalf == RelSpan \div 2

Uninit               == [unit |-> "uninit"]
InstrUnit(op, low)   == [unit |-> "instr", opcode |-> op, low |-> low]
WordUnit(v)          == [unit |-> "word", value |-> v]
BytesUnit(bytes)     == [unit |-> "bytes", bytes |-> bytes]

Unit ==
  {Uninit} \union [unit : {"instr"}, opcode : Nat, low : Nat]
           \union [unit : {"word"}, value : Nat]
           \union [unit : {"bytes"}, bytes : [0 .. 3 -> Nat]]

(* sign_extend_26bit of the low 26 bits of x.                              *)
SignExtend26(x) == ((x + RelHalf) % RelSpan) - RelHalf
Substraction26(a, b) == SignExtend26(a - b)

EncodeRegReg(i)   == InstrUnit(i.opcode,
                       i.reg1 * ImmSpan + i.reg2 * (ImmSpan \div RegSpan))
EncodeRegImm21(i) == InstrUnit(i.opcode, i.reg1 * ImmSpan + i.imm)
EncodeReg(i)      == InstrUnit(i.opcode, i.reg1 * ImmSpan)
EncodeImm26(i)    == InstrUnit(i.opcode, i.imm)
EncodeNoOperand(i) == InstrUnit(i.opcode, 0)

(* Faults: the offset is not masked to 26 bits; it is taken from the next  *)
(* instruction.                                                            *)
FaultJumpUnmasked(i, target, pc) ==
  InstrUnit(i.opcode, Substraction26(target, pc))
FaultJumpFromNext(i, target, pc) ==
  InstrUnit(i.opcode, Substraction26(target, pc + 4) % RelSpan)

EncodeJump(i, target, pc) ==
  InstrUnit(i.opcode, Substraction26(target, pc) % RelSpan)

(* encodeInstruction for the kinds that need no fixup, and the conditions  *)
(* whose failure ends the program (an exit or an assert).  Those on the    *)
(* register fields cannot fail: mapRegister yields at most 0x0C.           *)
EncodeOperands(i) ==
  CASE i.kind = "REGREG"     -> EncodeRegReg(i)
    [] i.kind = "REGIMM21"   -> EncodeRegImm21(i)
    [] i.kind = "REG"        -> EncodeReg(i)
    [] i.kind = "IMM26"      -> EncodeImm26(i)
    [] i.kind = "NO_OPERAND" -> EncodeNoOperand(i)

OperandsFit(i) ==
  /\ i.kind = "REGIMM21" => i.imm < ImmSpan
  /\ i.kind = "IMM26" => i.imm < RelSpan

(* Four bytes of a .byte payload, zero-padded past its end.                *)
DataUnit(data, k) ==
  BytesUnit([j \in 0 .. 3 |->
    IF 4 * (k - 1) + j + 1 <= Len(data) THEN data[4 * (k - 1) + j + 1] % 256
                                        ELSE 0])
===========================================================================
