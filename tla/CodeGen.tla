----------------------------- MODULE CodeGen ------------------------------
(***************************************************************************)
(* codeGen(), the two-pass code generator (src/codeGen.c).                 *)
(*                                                                         *)
(* Pass 1 walks the blocks and gives every label an address in one of      *)
(* three address spaces.  The exports are then checked and the imports     *)
(* entered in the symbol table, the buffers are allocated at the sizes     *)
(* pass 1 found, and pass 2 walks the same blocks again, writing at        *)
(* cursors of its own.  Nothing in pass 2 compares a cursor with an        *)
(* address or with the end of a buffer: that the two walks agree is what   *)
(* the invariants below are about.                                         *)
(*                                                                         *)
(* One step is one iteration of one of the function's loops.  "error"      *)
(* stands for every exit() and failed assert() in it.                      *)
(***************************************************************************)
EXTENDS AsmProgram

CONSTANT Programs  (* the sources codeGen may be called with *)

ASSUME ProgramsAssumption == Programs \subseteq Source

VARIABLES
  src,                  (* the blocks, imports and exports; never changes    *)
  phase,                (* where in the function control is                  *)
  line,                 (* index of the current block                        *)
  item,                 (* index within it (pass 2), or of the import        *)
  cursor,               (* per section: pc, data_pc and blob_pc in pass 1,   *)
                        (* pc, data_at and blob_at in pass 2                 *)
  size,                 (* per section: total_bytes and its two counterparts *)
  local_label_counter,
  labelMap, labelSymbolMap, symbols, relocs, collects,
  out                   (* per section: the buffer, a function from the      *)
                        (* address of each unit to what is stored there      *)

tables == <<labelMap, labelSymbolMap, symbols, collects, local_label_counter>>
vars == <<src, phase, line, item, cursor, size, tables, relocs, out>>

Phases == {"pass1", "exports", "imports", "pass2", "done", "error"}

Init ==
  /\ src \in Programs
  /\ phase = "pass1"
  /\ line = 1
  /\ item = 1
  /\ cursor = [s \in Sections |-> 0]
  /\ size = [s \in Sections |-> 0]
  /\ local_label_counter = 1
  /\ labelMap = << >>
  /\ labelSymbolMap = << >>
  /\ symbols = << >>
  /\ relocs = << >>
  /\ collects = << >>
  /\ out = [s \in Sections |-> [a \in UnitAddresses(0) |-> Uninit]]

Blocks == src.blocks
Block  == src.blocks[line]

Fail == phase' = "error" /\ UNCHANGED <<src, line, item, cursor, size, tables, relocs, out>>

---------------------------------------------------------------------------
(* Lookups in the tables.                                                  *)

IsImported(l) == \E i \in DOMAIN src.imports : src.imports[i] = l
IsExported(l) == \E i \in DOMAIN src.exports : src.exports[i] = l

IsPublic(l) == l \in PublicLabels \/ IsExported(l)

IsDefined(l) == \E i \in DOMAIN labelMap : labelMap[i].label = l

LabelAddress(l) ==
  labelMap[FirstIndex(labelMap, LAMBDA e : e.label = l)].address

(* Fault: the relocation names the label instead of its symbol.            *)
FaultLabelAsSymbol(l) == RawName(l)

(* labelsymbolmap_get, and the label itself when there is no entry.        *)
LabelSymbol(l) ==
  LET i == FirstIndex(labelSymbolMap, LAMBDA e : e.source_label = l)
  IN  IF i = 0 THEN RawName(l) ELSE labelSymbolMap[i].symbol_name

HasSymbol(name) == \E i \in DOMAIN symbols : symbols[i].name = name

---------------------------------------------------------------------------
(* Pass 1.                                                                 *)

(* Fault: .data blocks advance pc, not data_pc.                            *)
FaultAdvanceText(b) ==
  [cursor EXCEPT ![IF b.section # NoSection THEN COLLECT ELSE TEXT] = @ + BlockSize(b)]

(* Where the next block of b's section goes.                               *)
Advance(b) == [cursor EXCEPT ![SectionOf(b)] = @ + BlockSize(b)]

AssignAddress ==
  /\ phase = "pass1" /\ line <= Len(Blocks)
  /\ ~HoldsCodeOutsideText(Block)
  /\ LET s      == SectionOf(Block)
         at     == cursor[s]
         public == IsPublic(Block.label)
         name   == IF public THEN RawName(Block.label)
                   ELSE UniqueName(Block.label, local_label_counter)
     IN  /\ labelMap' = Append(labelMap, [label |-> Block.label, address |-> at])
         /\ labelSymbolMap' = Append(labelSymbolMap,
              [source_label |-> Block.label, symbol_name |-> name])
         /\ symbols' = Append(symbols,
              [name |-> name, type |-> "DEFINED", section |-> s, offset |-> at])
         /\ local_label_counter' = local_label_counter + IF public THEN 0 ELSE 1
         /\ collects' = IF s = COLLECT
              THEN Append(collects, [name |-> Block.section, offset |-> at,
                                     size |-> Payload(Block)])
              ELSE collects
  /\ cursor' = Advance(Block)
  /\ line' = line + 1
  /\ UNCHANGED <<src, phase, item, size, relocs, out>>

RejectCodeOutsideText ==
  /\ phase = "pass1" /\ line <= Len(Blocks)
  /\ HoldsCodeOutsideText(Block)
  /\ Fail

(* Fault: the totals of the data section and of the blob are swapped.      *)
FaultSwappedTotals ==
  /\ phase = "pass1" /\ line > Len(Blocks)
  /\ phase' = "exports"
  /\ size' = [cursor EXCEPT ![DATA] = cursor[COLLECT], ![COLLECT] = cursor[DATA]]
  /\ UNCHANGED <<src, line, item, cursor, tables, relocs, out>>

EndPass1 ==
  /\ phase = "pass1" /\ line > Len(Blocks)
  /\ phase' = "exports"
  /\ size' = cursor
  /\ UNCHANGED <<src, line, item, cursor, tables, relocs, out>>

---------------------------------------------------------------------------
(* Between the passes.                                                     *)

CheckExports ==
  /\ phase = "exports"
  /\ \A i \in DOMAIN src.exports : IsDefined(src.exports[i])
  /\ phase' = "imports"
  /\ item' = 1
  /\ UNCHANGED <<src, line, cursor, size, tables, relocs, out>>

RejectExport ==
  /\ phase = "exports"
  /\ \E i \in DOMAIN src.exports : ~IsDefined(src.exports[i])
  /\ Fail

(* Fault: an import is entered even when the file defines it.              *)
FaultImportAlways ==
  /\ phase = "imports" /\ item <= Len(src.imports)
  /\ symbols' = Append(symbols, [name |-> RawName(src.imports[item]),
                                 type |-> "UNDEFINED", section |-> TEXT, offset |-> 0])
  /\ item' = item + 1
  /\ UNCHANGED <<src, phase, line, cursor, size, labelMap, labelSymbolMap,
                 collects, local_label_counter, relocs, out>>

RecordImport ==
  /\ phase = "imports" /\ item <= Len(src.imports)
  /\ LET name == RawName(src.imports[item])
     IN  symbols' = IF HasSymbol(name) THEN symbols
                    ELSE Append(symbols, [name |-> name, type |-> "UNDEFINED",
                                          section |-> TEXT, offset |-> 0])
  /\ item' = item + 1
  /\ UNCHANGED <<src, phase, line, cursor, size, labelMap, labelSymbolMap,
                 collects, local_label_counter, relocs, out>>

(* The buffers come from malloc: nothing in them is initialised.           *)
AllocateBuffers ==
  /\ phase = "imports" /\ item > Len(src.imports)
  /\ phase' = "pass2"
  /\ line' = 1
  /\ item' = 1
  /\ cursor' = [s \in Sections |-> 0]
  /\ out' = [s \in Sections |-> [a \in UnitAddresses(size[s]) |-> Uninit]]
  /\ UNCHANGED <<src, size, tables, relocs>>

---------------------------------------------------------------------------
(* Pass 2.                                                                 *)

(* Store a unit at a section's cursor, wherever that is, and advance it.   *)
Store(buffer, at, u) ==
  [a \in DOMAIN buffer \union {at} |-> IF a = at THEN u ELSE buffer[a]]

Emit(s, u) ==
  /\ out' = [out EXCEPT ![s] = Store(@, cursor[s], u)]
  /\ cursor' = [cursor EXCEPT ![s] = @ + 4]
  /\ item' = item + 1
  /\ UNCHANGED <<src, phase, line, size, tables>>

Relocate(s, name, type) ==
  relocs' = Append(relocs, [offset |-> cursor[s], symbol_name |-> name,
                            type |-> type, section |-> s])

InBlock == phase = "pass2" /\ line <= Len(Blocks)

AtInstr(kinds) ==
  /\ InBlock /\ item <= Len(Block.instrs)
  /\ Block.instrs[item].kind \in kinds

Instr == Block.instrs[item]

(* Instructions always go to machineCode at pc, whatever the block.        *)
EmitOperands ==
  /\ AtInstr(OperandKinds)
  /\ OperandsFit(Instr)
  /\ Emit(TEXT, EncodeOperands(Instr))
  /\ UNCHANGED relocs

(* A jump to a label of this file: resolved here, no relocation.           *)
EmitJump ==
  /\ AtInstr({"LABEL"})
  /\ IsDefined(Instr.label)
  /\ Emit(TEXT, EncodeJump(Instr, LabelAddress(Instr.label), cursor[TEXT]))
  /\ UNCHANGED relocs

EmitExternalJump ==
  /\ AtInstr({"LABEL"})
  /\ ~IsDefined(Instr.label) /\ IsImported(Instr.label)
  /\ Emit(TEXT, InstrUnit(Instr.opcode, 0))
  /\ Relocate(TEXT, RawName(Instr.label), "RELATIVE")

EmitAddress ==
  /\ AtInstr({"REGLABEL"})
  /\ IsDefined(Instr.label)
  /\ LabelAddress(Instr.label) < ImmSpan
  /\ Emit(TEXT, EncodeRegImm21([Instr EXCEPT !.imm = LabelAddress(Instr.label)]))
  /\ Relocate(TEXT, LabelSymbol(Instr.label), "ABSOLUTE")

EmitExternalAddress ==
  /\ AtInstr({"REGLABEL"})
  /\ ~IsDefined(Instr.label) /\ IsImported(Instr.label)
  /\ Emit(TEXT, EncodeReg(Instr))
  /\ Relocate(TEXT, LabelSymbol(Instr.label), "ABSOLUTE")

RejectInstruction ==
  /\ AtInstr(OperandKinds \union FixupKinds)
  /\ CASE Instr.kind \in OperandKinds -> ~OperandsFit(Instr)
       [] Instr.kind = "LABEL" ->
            ~IsDefined(Instr.label) /\ ~IsImported(Instr.label)
       [] Instr.kind = "REGLABEL" ->
            IF IsDefined(Instr.label) THEN LabelAddress(Instr.label) >= ImmSpan
                                      ELSE ~IsImported(Instr.label)
  /\ Fail

(* The units of the payload, after the instructions.                       *)
DataItem == item - Len(Block.instrs)
WordItem == item - Len(Block.instrs) - (Len(Block.data) + 3) \div 4

EmitData ==
  /\ InBlock /\ DataItem > 0 /\ 4 * DataItem <= PaddedData(Block)
  /\ Emit(SectionOf(Block), DataUnit(Block.data, DataItem))
  /\ UNCHANGED relocs

AtWord == InBlock /\ WordItem \in 1 .. Len(Block.words)
Word   == Block.words[WordItem]

(* Fault: words always go to machineCode, like instructions.               *)
FaultNumberToText ==
  /\ AtWord /\ Word.symbol = NoLabel
  /\ Emit(TEXT, WordUnit(Word.value))
  /\ UNCHANGED relocs

EmitNumber ==
  /\ AtWord /\ Word.symbol = NoLabel
  /\ Emit(SectionOf(Block), WordUnit(Word.value))
  /\ UNCHANGED relocs

EmitSymbolWord ==
  /\ AtWord /\ Word.symbol # NoLabel
  /\ IsDefined(Word.symbol) \/ IsImported(Word.symbol)
  /\ Emit(SectionOf(Block), WordUnit(0))
  /\ Relocate(SectionOf(Block), LabelSymbol(Word.symbol), "WORD32")

RejectWord ==
  /\ AtWord /\ Word.symbol # NoLabel
  /\ ~IsDefined(Word.symbol) /\ ~IsImported(Word.symbol)
  /\ Fail

(* Faults: blob_at starts at zero in every block; an empty block is never  *)
(* left.                                                                   *)
FaultBlobRestarts ==
  /\ InBlock /\ item > Units(Block)
  /\ line' = line + 1
  /\ item' = 1
  /\ cursor' = [cursor EXCEPT ![COLLECT] = 0]
  /\ UNCHANGED <<src, phase, size, tables, relocs, out>>

FaultStuckOnEmpty ==
  /\ InBlock /\ item > Units(Block)
  /\ line' = IF Units(Block) = 0 THEN line ELSE line + 1
  /\ item' = 1
  /\ UNCHANGED <<src, phase, cursor, size, tables, relocs, out>>

NextBlock ==
  /\ InBlock /\ item > Units(Block)
  /\ line' = line + 1
  /\ item' = 1
  /\ UNCHANGED <<src, phase, cursor, size, tables, relocs, out>>

Return ==
  /\ phase = "pass2" /\ line > Len(Blocks)
  /\ phase' = "done"
  /\ UNCHANGED <<src, line, item, cursor, size, tables, relocs, out>>

---------------------------------------------------------------------------
(* codeGen has returned or the process has exited.                         *)
Terminated == phase \in {"done", "error"} /\ UNCHANGED vars

Pass1 == AssignAddress \/ RejectCodeOutsideText \/ EndPass1
Middle == CheckExports \/ RejectExport \/ RecordImport \/ AllocateBuffers
EmitInstruction ==
  \/ EmitOperands \/ EmitJump \/ EmitExternalJump
  \/ EmitAddress \/ EmitExternalAddress
EmitPayload == EmitData \/ EmitNumber \/ EmitSymbolWord
Pass2 ==
  \/ EmitInstruction \/ RejectInstruction
  \/ EmitPayload \/ RejectWord
  \/ NextBlock \/ Return

Step == Pass1 \/ Middle \/ Pass2
Next == Step \/ Terminated

Spec == Init /\ [][Next]_vars

(* Nothing in the function waits: a step that can be taken is taken.       *)
FairSpec == Spec /\ WF_vars(Step)
===========================================================================
