--------------------------- MODULE CodeGenProofs --------------------------
(***************************************************************************)
(* Proofs about the code generator, for every program, every set of names  *)
(* and every width of the fields: the variables keep their types, and the  *)
(* invariant of CodeGenInv is one.  What follows from it: the layout is    *)
(* contiguous, the passes agree, every store of pass 2 is inside its       *)
(* buffer, none is repeated and none is missing, every jump that fits its  *)
(* field reaches its label and every relocation names what it refers to.   *)
(* The last part proves that the generator implements ObjectSpec: the      *)
(* object grows, table by table, into the one the program determines.      *)
(***************************************************************************)
EXTENDS CodeGenImplements, NumberLemmas, FunctionTheorems

USE DEF TEXT, DATA, COLLECT

---------------------------------------------------------------------------
(* Lemmas about the data.                                                  *)

(* A block's section is one of the three, a named one for the collected.   *)
LEMMA SectionOfType ==
  ASSUME NEW b \in AsmBlock
  PROVE  /\ SectionOf(b) \in Sections
         /\ SectionOf(b) = COLLECT => b.section \in SectionNames
BY DEF SectionOf, Sections, AsmBlock

(* Sizes are natural numbers, multiples of four, and count four bytes for  *)
(* each of the block's units.                                              *)
LEMMA SizeType ==
  ASSUME NEW b \in AsmBlock
  PROVE  /\ PaddedData(b) \in Nat
         /\ Payload(b) \in Nat
         /\ BlockSize(b) \in Nat
         /\ Units(b) \in Nat
         /\ BlockSize(b) = 4 * Units(b)
         /\ PaddedData(b) = 4 * ((Len(b.data) + 3) \div 4)
         /\ (Len(b.data) + 3) \div 4 \in Nat
         /\ Len(b.instrs) \in Nat /\ Len(b.words) \in Nat
<1>1. /\ Len(b.instrs) \in Nat
      /\ Len(b.data) \in Nat
      /\ Len(b.words) \in Nat
  BY DEF AsmBlock
<1>2. \A n \in Nat : (n + 3) \div 4 \in Nat
  OBVIOUS
<1> DEFINE i == Len(b.instrs)
           g == (Len(b.data) + 3) \div 4
           w == Len(b.words)
<1>3. i \in Nat /\ g \in Nat /\ w \in Nat
  BY <1>1, <1>2
<1>4. /\ PaddedData(b) = 4 * g
      /\ Payload(b) = 4 * g + 4 * w
      /\ BlockSize(b) = 4 * i + (4 * g + 4 * w)
      /\ Units(b) = i + g + w
  BY DEF PaddedData, Payload, BlockSize, Units
<1> HIDE DEF i, g, w
<1>5. /\ 4 * g \in Nat /\ 4 * g + 4 * w \in Nat
      /\ 4 * i + (4 * g + 4 * w) \in Nat /\ i + g + w \in Nat
      /\ 4 * i + (4 * g + 4 * w) = 4 * (i + g + w)
  BY <1>3
<1>6. /\ PaddedData(b) \in Nat /\ Payload(b) \in Nat
      /\ BlockSize(b) \in Nat /\ Units(b) \in Nat
      /\ BlockSize(b) = 4 * Units(b)
  BY <1>4, <1>5, Zenon
<1> QED
  BY <1>3, <1>4, <1>6 DEF i, g, w

(* The names a label may get are symbol names.                             *)
LEMMA NameType ==
  ASSUME NEW l \in Labels, NEW n \in Nat
  PROVE  RawName(l) \in SymbolName /\ UniqueName(l, n) \in SymbolName
BY LabelAssumption DEF RawName, UniqueName, SymbolName

(* The widths of the fields and of a whole instruction are positive.       *)
LEMMA RelSpanType == RelSpan \in Nat \ {0} /\ ImmSpan \in Nat \ {0} /\ RegSpan \in Nat \ {0}
<1>1. ImmSpan \in Nat \ {0} /\ RegSpan \in Nat \ {0}
  BY WidthAssumption
<1>2. \A i, j \in Nat \ {0} : i * j \in Nat \ {0}
  OBVIOUS
<1> QED
  BY <1>1, <1>2 DEF RelSpan

(* What the encoders build is a unit.                                      *)
LEMMA EncodeType ==
  ASSUME NEW i \in Instruction
  PROVE  /\ i.kind \in OperandKinds => EncodeOperands(i) \in Unit
         /\ EncodeReg(i) \in Unit
         /\ InstrUnit(i.opcode, 0) \in Unit
         /\ \A n \in Nat : EncodeRegImm21([i EXCEPT !.imm = n]) \in Unit
         /\ \A m, n \in Nat : EncodeJump(i, m, n) \in Unit
<1>1. /\ i.opcode \in Nat /\ i.reg1 \in Nat /\ i.reg2 \in Nat /\ i.imm \in Nat
  BY RelSpanType DEF Instruction
<1>2. \A o, n \in Nat : InstrUnit(o, n) \in Unit
  BY DEF InstrUnit, Unit
<1>3. \A m, n \in Nat : m * n \in Nat /\ m + n \in Nat
  OBVIOUS
<1>4. ImmSpan \in Nat /\ ImmSpan \div RegSpan \in Nat
  BY RelSpanType
<1>5. EncodeReg(i) \in Unit
  BY <1>1, <1>2, <1>3, <1>4 DEF EncodeReg
<1>6. \A n \in Nat : EncodeRegImm21([i EXCEPT !.imm = n]) \in Unit
  BY <1>1, <1>2, <1>3, <1>4 DEF EncodeRegImm21, Instruction
<1>7. \A m, n \in Nat : EncodeJump(i, m, n) \in Unit
  <2>1. \A k \in Int : k % RelSpan \in Nat
    BY RelSpanType
  <2>2. RelHalf \in Nat
    BY RelSpanType DEF RelHalf
  <2>3. \A m, n \in Nat : Substraction26(m, n) \in Int
    BY <2>1, <2>2 DEF Substraction26, SignExtend26
  <2> QED
    BY <1>1, <1>2, <2>1, <2>3 DEF EncodeJump
<1>8. i.kind \in OperandKinds => EncodeOperands(i) \in Unit
  BY <1>1, <1>2, <1>3, <1>4, <1>5
  DEF EncodeOperands, OperandKinds, EncodeRegReg, EncodeRegImm21, EncodeImm26, EncodeNoOperand
<1> QED
  BY <1>1, <1>2, <1>5, <1>6, <1>7, <1>8

(* So are the words and the groups of four bytes.                          *)
LEMMA PayloadUnitType ==
  /\ \A v \in Nat : WordUnit(v) \in Unit
  /\ \A data \in Seq(Nat), k \in Nat \ {0} : DataUnit(data, k) \in Unit
<1>1. \A v \in Nat : WordUnit(v) \in Unit
  BY DEF WordUnit, Unit
<1>2. ASSUME NEW data \in Seq(Nat), NEW k \in Nat \ {0}
      PROVE  DataUnit(data, k) \in Unit
  <2> DEFINE byte(j) == IF 4 * (k - 1) + j + 1 <= Len(data)
                        THEN data[4 * (k - 1) + j + 1] % 256 ELSE 0
  <2>1. ASSUME NEW j \in 0 .. 3
        PROVE  byte(j) \in Nat
    <3>1. CASE 4 * (k - 1) + j + 1 <= Len(data)
      <4>1. 4 * (k - 1) + j + 1 \in 1 .. Len(data)
        BY <3>1
      <4>2. data[4 * (k - 1) + j + 1] \in Nat
        BY <4>1
      <4> QED
        BY <3>1, <4>2
    <3>2. CASE ~(4 * (k - 1) + j + 1 <= Len(data))
      BY <3>2
    <3> QED
      BY <3>1, <3>2
  <2>2. [j \in 0 .. 3 |-> byte(j)] \in [0 .. 3 -> Nat]
    BY <2>1
  <2>3. BytesUnit([j \in 0 .. 3 |-> byte(j)]) \in Unit
    BY <2>2 DEF BytesUnit, Unit
  <2> QED
    BY <2>3 DEF DataUnit
<1> QED
  BY <1>1, <1>2

---------------------------------------------------------------------------
(* Lemmas about the lookups.                                               *)

(* A defined label has an address.                                         *)
LEMMA LabelAddressType ==
  ASSUME NEW l, IsDefined(l), labelMap \in Seq(LabelAddressMapping)
  PROVE  LabelAddress(l) \in Nat
<1> DEFINE hits == {i \in DOMAIN labelMap : labelMap[i].label = l}
<1>1. hits \in SUBSET Nat /\ hits # {}
  BY DEF IsDefined
<1>2. \E i \in hits : \A j \in hits : i <= j
  BY <1>1, LeastOf
<1> DEFINE first == CHOOSE i \in hits : \A j \in hits : i <= j
<1>3. first \in hits
  BY <1>2
<1>4. LabelAddress(l) = labelMap[first].address
  BY <1>1 DEF LabelAddress, FirstIndex
<1>5. labelMap[first] \in LabelAddressMapping
  BY <1>3
<1> QED
  BY <1>4, <1>5 DEF LabelAddressMapping

(* A label's symbol has a name, defined or not.                            *)
LEMMA LabelSymbolType ==
  ASSUME NEW l \in Labels, labelSymbolMap \in Seq(LabelSymbolMapping)
  PROVE  LabelSymbol(l) \in SymbolName
<1> DEFINE hits == {i \in DOMAIN labelSymbolMap : labelSymbolMap[i].source_label = l}
           first == CHOOSE i \in hits : \A j \in hits : i <= j
<1>1. CASE hits = {}
  BY <1>1, NameType DEF LabelSymbol, FirstIndex
<1>2. CASE hits # {}
  <2>1. hits \in SUBSET Nat
    OBVIOUS
  <2>2. \E i \in hits : \A j \in hits : i <= j
    BY <1>2, <2>1, LeastOf
  <2>3. first \in hits
    BY <2>2
  <2>4. LabelSymbol(l) = labelSymbolMap[first].symbol_name
    <3>1. first # 0
      <4>1. 0 \notin hits
        OBVIOUS
      <4> QED
        BY <2>3, <4>1, Zenon
    <3> QED
      BY <1>2, <3>1 DEF LabelSymbol, FirstIndex
  <2>5. labelSymbolMap[first] \in LabelSymbolMapping
    BY <2>3
  <2> QED
    BY <2>4, <2>5 DEF LabelSymbolMapping
<1> QED
  BY <1>1, <1>2

---------------------------------------------------------------------------
(* Type correctness.                                                       *)

(* What the type invariant says of the block, instruction and word that    *)
(* control is at.                                                          *)
LEMMA CurrentType ==
  ASSUME TypeOK
  PROVE  /\ Blocks \in Seq(AsmBlock)
         /\ Len(Blocks) \in Nat /\ line \in Nat \ {0}
         /\ \A i \in DOMAIN Blocks : Blocks[i] \in AsmBlock
         /\ line <= Len(Blocks) => Block \in AsmBlock
         /\ line <= Len(Blocks) /\ item <= Len(Block.instrs) => Instr \in Instruction
         /\ AtWord => Word \in AsmWord
<1>1. Blocks \in Seq(AsmBlock)
  BY DEF TypeOK, Blocks, Source
<1>2. Len(Blocks) \in Nat /\ line \in Nat \ {0}
  BY <1>1 DEF TypeOK
<1>3. \A i \in DOMAIN Blocks : Blocks[i] \in AsmBlock
  BY <1>1
<1>4. line <= Len(Blocks) => Block \in AsmBlock
  <2>1. Block = Blocks[line]
    BY DEF Block, Blocks
  <2>2. line <= Len(Blocks) => line \in DOMAIN Blocks
    BY <1>1, <1>2
  <2> QED
    BY <1>3, <2>1, <2>2
<1>5. ASSUME line <= Len(Blocks), item <= Len(Block.instrs)
      PROVE  Instr \in Instruction
  <2>1. Block.instrs \in Seq(Instruction)
    BY <1>4, <1>5 DEF AsmBlock
  <2>2. item \in 1 .. Len(Block.instrs)
    BY <1>5, <2>1 DEF TypeOK
  <2> QED
    BY <2>1, <2>2 DEF Instr
<1>6. ASSUME AtWord PROVE Word \in AsmWord
  <2>1. Block.words \in Seq(AsmWord)
    BY <1>4, <1>6 DEF AsmBlock, AtWord, InBlock
  <2> QED
    BY <1>6, <2>1 DEF AtWord, Word
<1> QED
  BY <1>1, <1>2, <1>3, <1>4, <1>5, <1>6

(* Storing a unit keeps the buffers, cursors and positions well typed.     *)
LEMMA EmitType ==
  ASSUME TypeOK, NEW s \in Sections, NEW u \in Unit, Emit(s, u),
         relocs' \in Seq(ObjReloc)
  PROVE  TypeOK'
<1> USE DEF TypeOK, Emit, tables
<1>1. cursor[s] \in Nat
  OBVIOUS
<1>2. cursor' \in [Sections -> Nat]
  BY <1>1
<1>3. item' \in Nat \ {0}
  OBVIOUS
<1>4. DOMAIN out' = Sections
  OBVIOUS
<1>5. ASSUME NEW t \in Sections, NEW a \in DOMAIN out'[t]
      PROVE  a \in Nat /\ out'[t][a] \in Unit
  <2>1. CASE t = s
    <3>1. out'[t] = Store(out[s], cursor[s], u)
      BY <2>1
    <3>2. a \in DOMAIN out[s] \union {cursor[s]}
      BY <1>5, <3>1 DEF Store
    <3>3. out'[t][a] = IF a = cursor[s] THEN u ELSE out[s][a]
      BY <3>1, <3>2 DEF Store
    <3> QED
      BY <1>1, <3>2, <3>3
  <2>2. CASE t # s
    BY <1>5, <2>2
  <2> QED
    BY <2>1, <2>2
<1>6. Blocks' = Blocks
  BY DEF Blocks
<1> QED
  BY <1>2, <1>3, <1>4, <1>5, <1>6

(* A recorded relocation is one.                                           *)
LEMMA RelocateType ==
  ASSUME TypeOK, NEW s \in Sections, NEW name \in SymbolName,
         NEW type \in {"ABSOLUTE", "RELATIVE", "WORD32"}, Relocate(s, name, type)
  PROVE  relocs' \in Seq(ObjReloc)
BY DEF TypeOK, Relocate, ObjReloc

(* Every step, one by one, keeps the types.                                *)
LEMMA TypeStep ==
  ASSUME TypeOK, [Next]_vars
  PROVE  TypeOK'
<1>1. /\ Blocks \in Seq(AsmBlock) /\ Len(Blocks) \in Nat /\ line \in Nat \ {0}
      /\ line <= Len(Blocks) => Block \in AsmBlock
  BY CurrentType
<1>2. ASSUME Fail PROVE TypeOK'
  BY <1>2 DEF TypeOK, Fail, tables, Phases, Blocks
<1>3. ASSUME AssignAddress PROVE TypeOK'
  <2>1. Block \in AsmBlock /\ line + 1 \in 1 .. Len(Blocks) + 1
    BY <1>1, <1>3 DEF AssignAddress
  <2>2. /\ SectionOf(Block) \in Sections
        /\ SectionOf(Block) = COLLECT => Block.section \in SectionNames
        /\ BlockSize(Block) \in Nat /\ Payload(Block) \in Nat /\ Block.label \in Labels
    BY <2>1, SectionOfType, SizeType DEF AsmBlock
  <2> DEFINE s    == SectionOf(Block)
             name == IF IsPublic(Block.label) THEN RawName(Block.label)
                     ELSE UniqueName(Block.label, local_label_counter)
  <2>3. name \in SymbolName
    BY <2>2, NameType DEF TypeOK
  <2>4. cursor[s] \in Nat
    BY <2>2 DEF TypeOK
  <2> HIDE DEF name
  <2>5. labelMap' \in Seq(LabelAddressMapping)
    BY <1>3, <2>2, <2>4 DEF AssignAddress, TypeOK, LabelAddressMapping
  <2>6. labelSymbolMap' \in Seq(LabelSymbolMapping)
    BY <1>3, <2>2, <2>3 DEF AssignAddress, TypeOK, LabelSymbolMapping, name
  <2>7. symbols' \in Seq(ObjSymbol)
    BY <1>3, <2>2, <2>3, <2>4 DEF AssignAddress, TypeOK, ObjSymbol, name
  <2>8. collects' \in Seq(ObjCollect)
    <3>1. collects \in Seq(ObjCollect)
      BY DEF TypeOK
    <3>2. CASE s = COLLECT
      <4>1. [name |-> Block.section, offset |-> cursor[s], size |-> Payload(Block)] \in ObjCollect
        BY <2>2, <2>4, <3>2 DEF ObjCollect
      <4>2. collects' = Append(collects, [name |-> Block.section, offset |-> cursor[s],
                                          size |-> Payload(Block)])
        BY <1>3, <3>2 DEF AssignAddress
      <4> QED
        BY <3>1, <4>1, <4>2
    <3>3. CASE s # COLLECT
      BY <1>3, <3>1, <3>3 DEF AssignAddress
    <3> QED
      BY <3>2, <3>3
  <2>9. local_label_counter' \in Nat \ {0}
    BY <1>3 DEF AssignAddress, TypeOK
  <2>10. cursor' \in [Sections -> Nat]
    BY <1>3, <2>2, <2>4 DEF AssignAddress, Advance, TypeOK
  <2> QED
    BY <1>3, <2>1, <2>5, <2>6, <2>7, <2>8, <2>9, <2>10 DEF AssignAddress, TypeOK, Blocks
<1>4. ASSUME EndPass1 PROVE TypeOK'
  BY <1>4 DEF EndPass1, TypeOK, tables, Phases, Blocks
<1>5. ASSUME CheckExports PROVE TypeOK'
  BY <1>5 DEF CheckExports, TypeOK, tables, Phases, Blocks
<1>6. ASSUME RecordImport PROVE TypeOK'
  <2>1. src.imports \in Seq(Labels)
    BY DEF TypeOK, Source
  <2>2. src.imports[item] \in Labels
    BY <1>6, <2>1 DEF RecordImport, TypeOK
  <2>3. RawName(src.imports[item]) \in SymbolName
    BY <2>2, NameType
  <2>4. symbols' \in Seq(ObjSymbol)
    <3> DEFINE e == [name |-> RawName(src.imports[item]), type |-> "UNDEFINED",
                     section |-> TEXT, offset |-> 0]
    <3>1. e \in ObjSymbol
      BY <2>3 DEF ObjSymbol, Sections
    <3>2. symbols' = symbols \/ symbols' = Append(symbols, e)
      BY <1>6 DEF RecordImport
    <3>3. symbols \in Seq(ObjSymbol)
      BY DEF TypeOK
    <3> HIDE DEF e
    <3> QED
      BY <3>1, <3>2, <3>3
  <2> QED
    BY <1>6, <2>4 DEF RecordImport, TypeOK, Blocks
<1>7. ASSUME AllocateBuffers PROVE TypeOK'
  <2>1. \A s \in Sections : size[s] \in Nat
    BY DEF TypeOK
  <2>2. \A n \in Nat : UnitAddresses(n) \subseteq Nat
    BY DEF UnitAddresses
  <2>3. DOMAIN out' = Sections
    BY <1>7 DEF AllocateBuffers
  <2>4. ASSUME NEW s \in Sections, NEW a \in DOMAIN out'[s]
        PROVE  a \in Nat /\ out'[s][a] \in Unit
    <3>1. out'[s] = [c \in UnitAddresses(size[s]) |-> Uninit]
      BY <1>7 DEF AllocateBuffers
    <3> QED
      BY <2>1, <2>2, <2>4, <3>1 DEF Unit
  <2>5. cursor' \in [Sections -> Nat] /\ size' \in [Sections -> Nat]
    BY <1>7 DEF AllocateBuffers, TypeOK
  <2>6. line' \in 1 .. Len(Blocks') + 1
    BY <1>1, <1>7 DEF AllocateBuffers, Blocks
  <2> QED
    BY <1>7, <2>3, <2>4, <2>5, <2>6 DEF AllocateBuffers, TypeOK, tables, Phases
<1>8. ASSUME EmitInstruction PROVE TypeOK'
  <2>1. Instr \in Instruction /\ TEXT \in Sections /\ cursor[TEXT] \in Nat
    <3>1. line <= Len(Blocks) /\ item <= Len(Block.instrs)
      BY <1>8 DEF EmitInstruction, EmitOperands, EmitJump, EmitExternalJump,
                  EmitAddress, EmitExternalAddress, AtInstr, InBlock
    <3> QED
      BY <3>1, CurrentType DEF TypeOK, Sections
  <2>2. CASE EmitOperands
    <3>1. EncodeOperands(Instr) \in Unit
      BY <2>1, <2>2, EncodeType DEF EmitOperands, AtInstr, Instr
    <3> QED
      BY <2>1, <2>2, <3>1, EmitType DEF EmitOperands, TypeOK
  <2>3. CASE EmitJump
    <3>1. EncodeJump(Instr, LabelAddress(Instr.label), cursor[TEXT]) \in Unit
      BY <2>1, <2>3, EncodeType, LabelAddressType DEF EmitJump, TypeOK
    <3> QED
      BY <2>1, <2>3, <3>1, EmitType DEF EmitJump, TypeOK
  <2>4. ASSUME NEW u \in Unit, NEW l \in Labels, NEW name \in {RawName(l), LabelSymbol(l)},
               NEW type \in {"ABSOLUTE", "RELATIVE"}, NEW s \in Sections,
               Emit(s, u), Relocate(s, name, type)
        PROVE  TypeOK'
    <3>1. name \in SymbolName
      BY NameType, LabelSymbolType DEF TypeOK
    <3>2. relocs' \in Seq(ObjReloc)
      BY <2>4, <3>1, RelocateType
    <3> QED
      BY <2>4, <3>2, EmitType
  <2>5. (IsDefined(Instr.label) \/ IsImported(Instr.label)) => Instr.label \in Labels
    <3>1. IsDefined(Instr.label) => Instr.label \in Labels
      <4>1. \A i \in DOMAIN labelMap : labelMap[i] \in LabelAddressMapping
        BY DEF TypeOK
      <4> QED
        BY <4>1 DEF IsDefined, LabelAddressMapping
    <3>2. IsImported(Instr.label) => Instr.label \in Labels
      <4>1. \A i \in DOMAIN src.imports : src.imports[i] \in Labels
        BY DEF TypeOK, Source
      <4> QED
        BY <4>1 DEF IsImported
    <3> QED
      BY <3>1, <3>2
  <2>6. CASE EmitExternalJump
    <3>1. InstrUnit(Instr.opcode, 0) \in Unit
      BY <2>1, EncodeType
    <3> QED
      BY <2>1, <2>4, <2>5, <2>6, <3>1 DEF EmitExternalJump
  <2>7. CASE EmitAddress
    <3>1. EncodeRegImm21([Instr EXCEPT !.imm = LabelAddress(Instr.label)]) \in Unit
      BY <2>1, <2>7, EncodeType, LabelAddressType DEF EmitAddress, TypeOK
    <3> QED
      BY <2>1, <2>4, <2>5, <2>7, <3>1 DEF EmitAddress
  <2>8. CASE EmitExternalAddress
    <3>1. EncodeReg(Instr) \in Unit
      BY <2>1, EncodeType
    <3> QED
      BY <2>1, <2>4, <2>5, <2>8, <3>1 DEF EmitExternalAddress
  <2> QED
    BY <1>8, <2>2, <2>3, <2>6, <2>7, <2>8 DEF EmitInstruction
<1>9. ASSUME EmitPayload PROVE TypeOK'
  <2>1. Block \in AsmBlock /\ SectionOf(Block) \in Sections
    <3>1. line <= Len(Blocks)
      BY <1>9 DEF EmitPayload, EmitData, EmitNumber, EmitSymbolWord, AtWord, InBlock
    <3> QED
      BY <1>1, <3>1, SectionOfType
  <2>2. CASE EmitData
    <3>1. DataItem \in Nat \ {0}
      BY <2>1, <2>2, SizeType DEF EmitData, DataItem, TypeOK
    <3>2. DataUnit(Block.data, DataItem) \in Unit
      BY <2>1, <3>1, PayloadUnitType DEF AsmBlock
    <3> QED
      BY <2>1, <2>2, <3>2, EmitType DEF EmitData, TypeOK
  <2>3. CASE EmitNumber
    <3>1. WordUnit(Word.value) \in Unit
      BY <2>3, CurrentType, PayloadUnitType DEF EmitNumber, AsmWord
    <3> QED
      BY <2>1, <2>3, <3>1, EmitType DEF EmitNumber, TypeOK
  <2>4. CASE EmitSymbolWord
    <3>1. Word.symbol \in Labels /\ WordUnit(0) \in Unit
      BY <2>4, CurrentType, PayloadUnitType DEF EmitSymbolWord, AsmWord
    <3>2. relocs' \in Seq(ObjReloc)
      BY <2>1, <2>4, <3>1, LabelSymbolType, RelocateType DEF EmitSymbolWord, TypeOK
    <3> QED
      BY <2>1, <2>4, <3>1, <3>2, EmitType DEF EmitSymbolWord
  <2> QED
    BY <1>9, <2>2, <2>3, <2>4 DEF EmitPayload
<1>10. ASSUME NextBlock PROVE TypeOK'
  <2>1. line' \in 1 .. Len(Blocks') + 1
    BY <1>1, <1>10 DEF NextBlock, InBlock, Blocks
  <2> QED
    BY <1>10, <2>1 DEF NextBlock, TypeOK, tables
<1>11. ASSUME Return PROVE TypeOK'
  BY <1>11 DEF Return, TypeOK, tables, Phases, Blocks
<1>12. ASSUME UNCHANGED vars PROVE TypeOK'
  BY <1>12 DEF vars, tables, TypeOK, Blocks
<1>13. (RejectCodeOutsideText \/ RejectExport \/ RejectInstruction \/ RejectWord) => Fail
  BY DEF RejectCodeOutsideText, RejectExport, RejectInstruction, RejectWord
<1> QED
  BY <1>2, <1>3, <1>4, <1>5, <1>6, <1>7, <1>8, <1>9, <1>10, <1>11, <1>12, <1>13
  DEF Next, Step, Pass1, Middle, Pass2, Terminated

(* Everything the code generator keeps has its type in every state.        *)
THEOREM TypeCorrect == Spec => []TypeOK
<1>1. Init => TypeOK
  <2> SUFFICES ASSUME Init PROVE TypeOK
    OBVIOUS
  <2>1. src \in Source /\ Len(Blocks) \in Nat
    BY ProgramsAssumption DEF Init, Source, Blocks
  <2>2. UnitAddresses(0) = {}
    BY DEF UnitAddresses
  <2> QED
    BY <2>1, <2>2 DEF Init, TypeOK, Phases
<1>2. TypeOK /\ [Next]_vars => TypeOK'
  BY TypeStep
<1> QED
  BY <1>1, <1>2, PTL DEF Spec

---------------------------------------------------------------------------
(* Lemmas about where blocks end.                                          *)

(* There is one such place.                                                *)
LEMMA EndUnique ==
  ASSUME NEW blocks, NEW map, NEW s, NEW n \in Nat, NEW c, NEW d,
         BlocksEndAt(blocks, map, s, n, c), BlocksEndAt(blocks, map, s, n, d)
  PROVE  c = d
<1>1. CASE \A i \in 1 .. n : SectionOf(blocks[i]) # s
  BY <1>1 DEF BlocksEndAt
<1>2. CASE \E i \in 1 .. n : SectionOf(blocks[i]) = s
  <2>1. PICK i \in 1 .. n : /\ SectionOf(blocks[i]) = s
                            /\ \A k \in i + 1 .. n : SectionOf(blocks[k]) # s
                            /\ c = map[i].address + BlockSize(blocks[i])
    BY <1>2 DEF BlocksEndAt
  <2>2. PICK j \in 1 .. n : /\ SectionOf(blocks[j]) = s
                            /\ \A k \in j + 1 .. n : SectionOf(blocks[k]) # s
                            /\ d = map[j].address + BlockSize(blocks[j])
    BY <1>2 DEF BlocksEndAt
  <2>3. i = j
    BY <2>1, <2>2
  <2> QED
    BY <2>1, <2>2, <2>3
<1> QED
  BY <1>1, <1>2

(* No block, no end but zero.                                              *)
LEMMA EndEmpty ==
  ASSUME NEW blocks, NEW map, NEW s, NEW c
  PROVE  BlocksEndAt(blocks, map, s, 0, c) <=> c = 0
BY DEF BlocksEndAt

(* One more block moves the end of its own section to its own end...       *)
LEMMA EndOwn ==
  ASSUME NEW blocks, NEW map, NEW n \in Nat \ {0}
  PROVE  BlocksEndAt(blocks, map, SectionOf(blocks[n]), n,
                     map[n].address + BlockSize(blocks[n]))
BY DEF BlocksEndAt

(* ... and leaves the other sections alone.                                *)
LEMMA EndOther ==
  ASSUME NEW blocks, NEW map, NEW s, NEW n \in Nat \ {0}, NEW c,
         SectionOf(blocks[n]) # s, BlocksEndAt(blocks, map, s, n - 1, c)
  PROVE  BlocksEndAt(blocks, map, s, n, c)
<1>1. CASE c = 0 /\ \A i \in 1 .. n - 1 : SectionOf(blocks[i]) # s
  BY <1>1 DEF BlocksEndAt
<1>2. CASE \E i \in 1 .. n - 1 :
             /\ SectionOf(blocks[i]) = s
             /\ \A k \in i + 1 .. n - 1 : SectionOf(blocks[k]) # s
             /\ c = map[i].address + BlockSize(blocks[i])
  <2>1. PICK i \in 1 .. n - 1 :
               /\ SectionOf(blocks[i]) = s
               /\ \A k \in i + 1 .. n - 1 : SectionOf(blocks[k]) # s
               /\ c = map[i].address + BlockSize(blocks[i])
    BY <1>2
  <2>2. \A k \in i + 1 .. n : SectionOf(blocks[k]) # s
    BY <2>1
  <2> QED
    BY <2>1, <2>2 DEF BlocksEndAt
<1> QED
  BY <1>1, <1>2 DEF BlocksEndAt

(* Only the entries of those blocks matter.                                *)
LEMMA EndStable ==
  ASSUME NEW blocks, NEW map, NEW other, NEW s, NEW n \in Nat, NEW c,
         \A i \in 1 .. n : map[i] = other[i],
         BlocksEndAt(blocks, map, s, n, c)
  PROVE  BlocksEndAt(blocks, other, s, n, c)
BY DEF BlocksEndAt

---------------------------------------------------------------------------
(* Steps that do not touch the layout.                                     *)

(* Once pass 1 is over, or the process has exited, what it computed stays. *)
LEMMA LayoutKept ==
  ASSUME LayoutInv, UNCHANGED <<src, labelMap, size>>,
         phase' = "error" \/ (phase \in AfterPass1 /\ phase' \in AfterPass1)
  PROVE  /\ OneEntryPerBlock' /\ LayoutContiguous' /\ BlocksFit'
         /\ \A i \in DOMAIN labelMap' : labelMap'[i].address % 4 = 0
<1> Blocks' = Blocks
  BY DEF Blocks
<1> USE DEF LayoutInv, AfterPass1
<1>1. OneEntryPerBlock'
  BY DEF OneEntryPerBlock
<1>2. LayoutContiguous'
  BY DEF LayoutContiguous, EndsAt, SectionAt
<1>3. BlocksFit'
  BY DEF BlocksFit, SectionAt, SizeAt
<1>4. \A i \in DOMAIN labelMap' : labelMap'[i].address % 4 = 0
  BY DEF Aligned
<1> QED
  BY <1>1, <1>2, <1>3, <1>4

(* An exit leaves the invariant true.                                      *)
LEMMA FailKeeps ==
  ASSUME LayoutInv, Fail, TypeOK'
  PROVE  LayoutInv'
<1>1. phase' = "error" /\ UNCHANGED <<src, labelMap, size, cursor, out>>
  BY DEF Fail, tables
<1>2. OneEntryPerBlock' /\ LayoutContiguous' /\ BlocksFit'
  BY <1>1, LayoutKept
<1>3. Aligned'
  BY <1>1 DEF LayoutInv, Aligned
<1>4. WithinBlock' /\ PassesAgree' /\ WritesInBounds' /\ NothingUninitialised'
  BY <1>1 DEF WithinBlock, PassesAgree, WritesInBounds, NothingUninitialised
<1>5. WrittenBelowCursor'
  BY <1>1 DEF WrittenBelowCursor, BeforePass2
<1> QED
  BY <1>2, <1>3, <1>4, <1>5 DEF LayoutInv

---------------------------------------------------------------------------
(* Pass 1.                                                                 *)

(* Placing a block where its section's cursor is keeps the layout.         *)
LEMMA AssignKeeps ==
  ASSUME LayoutInv, AssignAddress, TypeOK'
  PROVE  LayoutInv'
<1> DEFINE s == SectionOf(Block)
           n == Len(labelMap)
<1>1. /\ phase = "pass1" /\ phase' = "pass1" /\ line' = line + 1
      /\ UNCHANGED <<src, out>> /\ Blocks' = Blocks
  BY DEF AssignAddress, Blocks
<1>2. /\ n \in Nat /\ line = n + 1 /\ line \in Nat \ {0}
      /\ Len(Blocks) \in Nat /\ n + 1 <= Len(Blocks)
      /\ Block = Blocks[n + 1] /\ Block \in AsmBlock
  <2>1. n \in Nat /\ Len(labelMap) = line - 1 /\ line <= Len(Blocks)
    BY <1>1 DEF LayoutInv, TypeOK, OneEntryPerBlock, AssignAddress
  <2>2. Len(Blocks) \in Nat /\ line \in Nat \ {0} /\ Block \in AsmBlock
    BY <2>1, CurrentType DEF LayoutInv
  <2> QED
    BY <2>1, <2>2 DEF Block, Blocks
<1>3. s \in Sections /\ BlockSize(Block) \in Nat /\ Units(Block) \in Nat
      /\ BlockSize(Block) = 4 * Units(Block)
  BY <1>2, SectionOfType, SizeType
<1>4. cursor[s] \in Nat /\ cursor \in [Sections -> Nat]
  BY <1>3 DEF LayoutInv, TypeOK
<1>5. /\ Len(labelMap') = n + 1 /\ DOMAIN labelMap' = 1 .. n + 1
      /\ DOMAIN labelMap = 1 .. n
      /\ \A i \in 1 .. n : labelMap'[i] = labelMap[i]
      /\ labelMap'[n + 1].address = cursor[s]
  <2> DEFINE e == [label |-> Block.label, address |-> cursor[s]]
  <2>1. labelMap' = Append(labelMap, e) /\ e.address = cursor[s]
    BY DEF AssignAddress
  <2>2. labelMap \in Seq(LabelAddressMapping)
    BY DEF LayoutInv, TypeOK
  <2> HIDE DEF e
  <2> QED
    BY <2>1, <2>2
<1>6. /\ cursor'[s] = cursor[s] + BlockSize(Block)
      /\ \A t \in Sections \ {s} : cursor'[t] = cursor[t]
  BY <1>3, <1>4 DEF AssignAddress, Advance
<1> HIDE DEF n, s
<1>7. OneEntryPerBlock'
  <2>1. \A i \in 1 .. n + 1 : ~HoldsCodeOutsideText(Blocks[i])
    <3>1. ~HoldsCodeOutsideText(Blocks[n + 1])
      BY <1>2 DEF AssignAddress
    <3>2. \A i \in 1 .. n : ~HoldsCodeOutsideText(Blocks[i])
      BY <1>5 DEF LayoutInv, OneEntryPerBlock
    <3> QED
      BY <1>2, <3>1, <3>2
  <2> QED
    BY <1>1, <1>2, <1>5, <2>1 DEF OneEntryPerBlock, AfterPass1
<1>8. Aligned'
  <2>1. cursor[s] % 4 = 0 /\ \A t \in Sections : cursor[t] % 4 = 0
    BY <1>3 DEF LayoutInv, Aligned
  <2>2. \A c, k \in Nat : c % 4 = 0 => (c + 4 * k) % 4 = 0
    OBVIOUS
  <2>3. cursor'[s] % 4 = 0
    BY <1>3, <1>4, <1>6, <2>1, <2>2
  <2>4. \A t \in Sections : cursor'[t] % 4 = 0
    BY <1>6, <2>1, <2>3
  <2>5. \A i \in 1 .. n : labelMap[i].address % 4 = 0
    BY <1>5 DEF LayoutInv, Aligned
  <2>6. \A i \in 1 .. n + 1 : labelMap'[i].address % 4 = 0
    BY <1>2, <1>5, <2>1, <2>5
  <2> QED
    BY <1>5, <2>4, <2>6 DEF Aligned
<1>9. LayoutContiguous'
  <2>1. \A t \in Sections : BlocksEndAt(Blocks, labelMap, t, n, cursor[t])
    BY <1>1 DEF LayoutInv, LayoutContiguous, EndsAt, n
  <2>2. \A i \in 1 .. n : BlocksEndAt(Blocks, labelMap, SectionOf(Blocks[i]), i - 1,
                                     labelMap[i].address)
    BY <1>5 DEF LayoutInv, LayoutContiguous, EndsAt, SectionAt
  <2>3. \A m \in 0 .. n : \A t, c : BlocksEndAt(Blocks, labelMap, t, m, c)
                                   => BlocksEndAt(Blocks, labelMap', t, m, c)
    <3> SUFFICES ASSUME NEW m \in 0 .. n, NEW t, NEW c,
                        BlocksEndAt(Blocks, labelMap, t, m, c)
                 PROVE  BlocksEndAt(Blocks, labelMap', t, m, c)
      OBVIOUS
    <3>1. m \in Nat /\ \A i \in 1 .. m : labelMap[i] = labelMap'[i]
      BY <1>2, <1>5
    <3> QED
      BY <3>1, EndStable
  <2>4. ASSUME NEW i \in 1 .. n + 1
        PROVE  BlocksEndAt(Blocks, labelMap', SectionOf(Blocks[i]), i - 1, labelMap'[i].address)
    <3>1. CASE i \in 1 .. n
      <4>1. i - 1 \in 0 .. n /\ labelMap'[i] = labelMap[i]
        BY <1>2, <1>5, <3>1
      <4> QED
        BY <2>2, <2>3, <3>1, <4>1
    <3>2. CASE i = n + 1
      <4>1. /\ SectionOf(Blocks[i]) = s /\ i - 1 = n /\ n \in 0 .. n
            /\ labelMap'[i].address = cursor[s]
        BY <1>2, <1>5, <3>2 DEF s
      <4> QED
        BY <1>3, <2>1, <2>3, <4>1
    <3> QED
      BY <1>2, <3>1, <3>2
  <2>5. ASSUME NEW t \in Sections
        PROVE  BlocksEndAt(Blocks, labelMap', t, n + 1, cursor'[t])
    <3>1. n + 1 \in Nat \ {0} /\ (n + 1) - 1 = n /\ n \in 0 .. n
      BY <1>2
    <3>2. SectionOf(Blocks[n + 1]) = s
      BY <1>2 DEF s
    <3>3. CASE t = s
      <4>1. cursor'[t] = labelMap'[n + 1].address + BlockSize(Blocks[n + 1])
        BY <1>2, <1>5, <1>6, <3>3
      <4> QED
        BY <3>1, <3>2, <3>3, <4>1, EndOwn
    <3>4. CASE t # s
      <4>1. BlocksEndAt(Blocks, labelMap', t, (n + 1) - 1, cursor'[t])
        BY <1>6, <2>1, <2>3, <3>1, <3>4
      <4> QED
        BY <3>1, <3>2, <3>4, <4>1, EndOther
    <3> QED
      BY <3>3, <3>4
  <2> QED
    BY <1>1, <1>5, <2>4, <2>5 DEF LayoutContiguous, EndsAt, SectionAt
<1>10. BlocksFit'
  <2>1. ASSUME NEW i \in 1 .. n + 1
        PROVE  labelMap'[i].address + BlockSize(Blocks[i]) <= cursor'[SectionOf(Blocks[i])]
    <3>1. CASE i = n + 1
      <4>1. SectionOf(Blocks[i]) = s /\ labelMap'[i].address = cursor[s] /\ Blocks[i] = Block
        BY <1>2, <1>5, <3>1 DEF s
      <4> QED
        BY <1>3, <1>4, <1>6, <4>1
    <3>2. CASE i \in 1 .. n
      <4> DEFINE t == SectionOf(Blocks[i])
                 end == labelMap[i].address + BlockSize(Blocks[i])
      <4>1. end <= cursor[t] /\ labelMap'[i] = labelMap[i]
        BY <1>1, <1>5, <3>2 DEF LayoutInv, BlocksFit, SectionAt, SizeAt
      <4>2. Blocks[i] \in AsmBlock /\ labelMap[i].address \in Nat
        <5>1. Blocks \in Seq(AsmBlock) /\ labelMap \in Seq(LabelAddressMapping)
          BY CurrentType DEF LayoutInv, TypeOK
        <5>2. i \in 1 .. Len(Blocks)
          BY <1>2, <3>2
        <5>3. Blocks[i] \in AsmBlock
          BY <5>1, <5>2
        <5>4. labelMap[i] \in LabelAddressMapping
          <6>1. \A j \in DOMAIN labelMap : labelMap[j] \in LabelAddressMapping
            BY <5>1
          <6> QED
            BY <1>5, <3>2, <6>1
        <5> QED
          BY <5>3, <5>4 DEF LabelAddressMapping
      <4>3. t \in Sections /\ BlockSize(Blocks[i]) \in Nat
        BY <4>2, SectionOfType, SizeType
      <4>4. cursor[t] \in Nat /\ end \in Nat
        BY <1>4, <4>2, <4>3
      <4>5. cursor'[t] = cursor[t] \/ cursor'[t] = cursor[t] + BlockSize(Block)
        BY <1>6, <4>3
      <4> HIDE DEF t, end
      <4>6. end <= cursor'[t]
        BY <1>3, <4>1, <4>4, <4>5
      <4> QED
        BY <4>1, <4>6 DEF t, end
    <3> QED
      BY <1>2, <3>1, <3>2
  <2> QED
    BY <1>1, <1>5, <2>1 DEF BlocksFit, AfterPass1, SectionAt, SizeAt
<1>11. WithinBlock' /\ PassesAgree' /\ WritesInBounds' /\ NothingUninitialised'
  BY <1>1 DEF WithinBlock, PassesAgree, WritesInBounds, NothingUninitialised
<1>12. WrittenBelowCursor'
  BY <1>1 DEF LayoutInv, WrittenBelowCursor, BeforePass2
<1> QED
  BY <1>7, <1>8, <1>9, <1>10, <1>11, <1>12 DEF LayoutInv

(* The totals are where the last blocks end.                               *)
LEMMA EndPass1Keeps ==
  ASSUME LayoutInv, EndPass1, TypeOK'
  PROVE  LayoutInv'
<1>1. /\ phase = "pass1" /\ phase' = "exports" /\ size' = cursor
      /\ UNCHANGED <<src, labelMap, cursor, out>> /\ Blocks' = Blocks
  BY DEF EndPass1, tables, Blocks
<1>2. Len(labelMap) = Len(Blocks)
  BY <1>1 DEF LayoutInv, TypeOK, OneEntryPerBlock, EndPass1, Source, Blocks
<1>3. OneEntryPerBlock'
  BY <1>1, <1>2 DEF LayoutInv, OneEntryPerBlock, AfterPass1
<1>4. Aligned'
  BY <1>1 DEF LayoutInv, Aligned
<1>5. LayoutContiguous'
  BY <1>1, <1>2 DEF LayoutInv, LayoutContiguous, EndsAt, SectionAt
<1>6. BlocksFit'
  BY <1>1 DEF LayoutInv, BlocksFit, AfterPass1, SectionAt, SizeAt
<1>7. WithinBlock' /\ PassesAgree' /\ WritesInBounds' /\ NothingUninitialised'
  BY <1>1 DEF WithinBlock, PassesAgree, WritesInBounds, NothingUninitialised
<1>8. WrittenBelowCursor'
  BY <1>1 DEF LayoutInv, WrittenBelowCursor, BeforePass2
<1> QED
  BY <1>3, <1>4, <1>5, <1>6, <1>7, <1>8 DEF LayoutInv

---------------------------------------------------------------------------
(* Between the passes.                                                     *)

(* The exports and imports leave layout and buffers alone.                 *)
LEMMA MiddleKeeps ==
  ASSUME LayoutInv, CheckExports \/ RecordImport, TypeOK'
  PROVE  LayoutInv'
<1>1. /\ phase \in {"exports", "imports"} /\ phase' = "imports"
      /\ UNCHANGED <<src, labelMap, size, cursor, out>>
  BY DEF CheckExports, RecordImport, tables
<1>2. OneEntryPerBlock' /\ LayoutContiguous' /\ BlocksFit'
  BY <1>1, LayoutKept DEF AfterPass1
<1>3. Aligned'
  BY <1>1 DEF LayoutInv, Aligned
<1>4. WithinBlock' /\ PassesAgree' /\ WritesInBounds' /\ NothingUninitialised'
  BY <1>1 DEF WithinBlock, PassesAgree, WritesInBounds, NothingUninitialised
<1>5. WrittenBelowCursor'
  BY <1>1 DEF LayoutInv, WrittenBelowCursor, BeforePass2
<1> QED
  BY <1>2, <1>3, <1>4, <1>5 DEF LayoutInv

(* The first block of every section is at zero, where pass 2 starts.       *)
LEMMA AllocateKeeps ==
  ASSUME LayoutInv, AllocateBuffers, TypeOK'
  PROVE  LayoutInv'
<1>1. /\ phase = "imports" /\ phase' = "pass2" /\ line' = 1 /\ item' = 1
      /\ cursor' = [s \in Sections |-> 0]
      /\ out' = [s \in Sections |-> [a \in UnitAddresses(size[s]) |-> Uninit]]
      /\ UNCHANGED <<src, labelMap, size>> /\ Blocks' = Blocks
  BY DEF AllocateBuffers, tables, Blocks
<1>2. /\ OneEntryPerBlock' /\ LayoutContiguous' /\ BlocksFit'
      /\ \A i \in DOMAIN labelMap' : labelMap'[i].address % 4 = 0
  BY <1>1, LayoutKept DEF AfterPass1
<1>3. Aligned'
  BY <1>1, <1>2 DEF Aligned
<1>4. Len(Blocks) \in Nat /\ \A i \in 1 .. Len(Blocks) : Blocks[i] \in AsmBlock
  BY CurrentType DEF LayoutInv
<1>5. WithinBlock'
  <2> SUFFICES ASSUME 1 <= Len(Blocks) PROVE 1 <= Units(Blocks[1]) + 1
    BY <1>1 DEF WithinBlock, Block, Blocks
  <2>1. Blocks[1] \in AsmBlock
    BY <1>4
  <2>2. Units(Blocks[1]) \in Nat
    BY <2>1, SizeType
  <2> QED
    BY <2>2
<1>6. PassesAgree'
  <2> SUFFICES ASSUME NEW s \in Sections
               PROVE  IF 1 <= Len(Blocks) /\ s = SectionAt(1)
                      THEN cursor'[s] = labelMap[1].address + 4 * (1 - 1)
                      ELSE EndsAt(s, 1 - 1, cursor[s])'
    BY <1>1 DEF PassesAgree, SectionAt, EndsAt
  <2>1. CASE 1 <= Len(Blocks) /\ s = SectionAt(1)
    <3>1. 1 \in DOMAIN labelMap
      BY <1>1, <1>4, <2>1 DEF LayoutInv, TypeOK, OneEntryPerBlock, AfterPass1
    <3>2. BlocksEndAt(Blocks, labelMap, SectionAt(1), 0, labelMap[1].address)
      BY <3>1 DEF LayoutInv, LayoutContiguous, EndsAt
    <3>3. labelMap[1].address = 0
      BY <3>2, EndEmpty
    <3> QED
      BY <1>1, <2>1, <3>3
  <2>2. CASE ~(1 <= Len(Blocks) /\ s = SectionAt(1))
    <3>1. BlocksEndAt(Blocks', labelMap', s, 0, cursor'[s])
      BY <1>1, EndEmpty
    <3> QED
      BY <2>2, <3>1 DEF EndsAt
  <2> QED
    BY <2>1, <2>2
<1>7. WritesInBounds'
  BY <1>1 DEF WritesInBounds
<1>8. WrittenBelowCursor'
  <2>1. \A s \in Sections : \A a \in UnitAddresses(size[s]) :
          out'[s][a] = Uninit /\ ~(a < cursor'[s])
    BY <1>1 DEF UnitAddresses
  <2> QED
    BY <1>1, <2>1 DEF WrittenBelowCursor, BeforePass2
<1>9. NothingUninitialised'
  BY <1>1 DEF NothingUninitialised
<1> QED
  BY <1>2, <1>3, <1>5, <1>6, <1>7, <1>8, <1>9 DEF LayoutInv

---------------------------------------------------------------------------
(* Pass 2.                                                                 *)

(* What is stored is never mistaken for a unit that was not.               *)
LEMMA UnitsAreNotUninit ==
  /\ \A op, low : InstrUnit(op, low) # Uninit
  /\ \A v : WordUnit(v) # Uninit
  /\ \A bytes : BytesUnit(bytes) # Uninit
<1>1. \A op, low : InstrUnit(op, low).unit = "instr"
  BY DEF InstrUnit
<1>2. \A v : WordUnit(v).unit = "word"
  BY DEF WordUnit
<1>3. \A bytes : BytesUnit(bytes).unit = "bytes"
  BY DEF BytesUnit
<1>4. Uninit.unit = "uninit"
  BY DEF Uninit
<1> QED
  BY <1>1, <1>2, <1>3, <1>4

(* Every store of pass 2 is of one of its block's units, to its block's    *)
(* own section: instructions go to TEXT because only TEXT blocks have any. *)
LEMMA EmitIs ==
  ASSUME LayoutInv, EmitInstruction \/ EmitPayload
  PROVE  /\ InBlock /\ item <= Units(Block) /\ Block \in AsmBlock
         /\ \E u : u # Uninit /\ Emit(SectionOf(Block), u)
<1>1. InBlock
  BY DEF EmitInstruction, EmitOperands, EmitJump, EmitExternalJump, EmitAddress,
         EmitExternalAddress, AtInstr, EmitPayload, EmitData, EmitNumber,
         EmitSymbolWord, AtWord
<1>2. Block \in AsmBlock /\ line \in Nat \ {0} /\ item \in Nat \ {0}
  BY <1>1, CurrentType DEF LayoutInv, InBlock, TypeOK
<1> DEFINE i == Len(Block.instrs)
           g == (Len(Block.data) + 3) \div 4
           w == Len(Block.words)
<1>3. i \in Nat /\ g \in Nat /\ w \in Nat /\ Units(Block) = i + g + w
      /\ PaddedData(Block) = 4 * g
  BY <1>2, SizeType DEF Units
<1>4. CASE EmitInstruction
  <2>1. item <= i
    BY <1>4 DEF EmitInstruction, EmitOperands, EmitJump, EmitExternalJump,
                EmitAddress, EmitExternalAddress, AtInstr
  <2>2. SectionOf(Block) = TEXT
    <3>1. ~HoldsCodeOutsideText(Block)
      <4>1. line \in DOMAIN labelMap
        BY <1>1, <1>2 DEF LayoutInv, TypeOK, OneEntryPerBlock, InBlock, AfterPass1
      <4> QED
        BY <4>1 DEF LayoutInv, OneEntryPerBlock, Block, Blocks
    <3>2. Block.instrs # << >>
      BY <1>2, <2>1
    <3> QED
      BY <3>1, <3>2 DEF HoldsCodeOutsideText
  <2>3. \E u : u # Uninit /\ Emit(TEXT, u)
    <3>1. CASE EmitOperands
      <4>1. EncodeOperands(Instr) # Uninit
        BY <3>1, UnitsAreNotUninit
        DEF EmitOperands, AtInstr, Instr, EncodeOperands, OperandKinds, EncodeRegReg,
            EncodeRegImm21, EncodeReg, EncodeImm26, EncodeNoOperand
      <4> QED
        BY <3>1, <4>1 DEF EmitOperands
    <3>2. CASE EmitJump
      BY <3>2, UnitsAreNotUninit DEF EmitJump, EncodeJump
    <3>3. CASE EmitExternalJump
      BY <3>3, UnitsAreNotUninit DEF EmitExternalJump
    <3>4. CASE EmitAddress
      BY <3>4, UnitsAreNotUninit DEF EmitAddress, EncodeRegImm21
    <3>5. CASE EmitExternalAddress
      BY <3>5, UnitsAreNotUninit DEF EmitExternalAddress, EncodeReg
    <3> QED
      BY <1>4, <3>1, <3>2, <3>3, <3>4, <3>5 DEF EmitInstruction
  <2>4. item <= Units(Block)
    <3> HIDE DEF i, g, w
    <3> QED
      BY <1>2, <1>3, <2>1
  <2> QED
    BY <1>1, <1>2, <2>2, <2>3, <2>4
<1>5. CASE EmitPayload
  <2>1. item <= Units(Block)
    <3>1. (item - i > 0 /\ 4 * (item - i) <= 4 * g) \/ item - i - g \in 1 .. w
      BY <1>3, <1>5 DEF EmitPayload, EmitData, EmitNumber, EmitSymbolWord, AtWord,
                        DataItem, WordItem
    <3> HIDE DEF i, g, w
    <3>2. CASE 4 * (item - i) <= 4 * g
      <4>1. item - i <= g
        BY <1>2, <1>3, <3>2
      <4> QED
        BY <1>2, <1>3, <4>1
    <3>3. CASE item - i - g \in 1 .. w
      BY <1>2, <1>3, <3>3
    <3> QED
      BY <3>1, <3>2, <3>3
  <2>2. \E u : u # Uninit /\ Emit(SectionOf(Block), u)
    BY <1>5, UnitsAreNotUninit DEF EmitPayload, EmitData, EmitNumber, EmitSymbolWord, DataUnit
  <2> QED
    BY <1>1, <1>2, <2>1, <2>2
<1> QED
  BY <1>4, <1>5

(* A unit of the current block has its place in the buffer, and nothing is *)
(* there yet.                                                              *)
LEMMA EmitPlace ==
  ASSUME LayoutInv, InBlock, item <= Units(Block), Block \in AsmBlock,
         NEW s, s = SectionOf(Block)
  PROVE  /\ s \in Sections /\ cursor[s] \in Nat /\ size[s] \in Nat
         /\ cursor[s] % 4 = 0
         /\ cursor[s] \in UnitAddresses(size[s])
         /\ DOMAIN out[s] = UnitAddresses(size[s])
         /\ out[s][cursor[s]] = Uninit
<1>1. s \in Sections /\ cursor[s] \in Nat /\ size[s] \in Nat /\ cursor[s] % 4 = 0
  BY SectionOfType DEF LayoutInv, TypeOK, Aligned
<1>2. line \in DOMAIN labelMap /\ item \in Nat \ {0} /\ s = SectionAt(line)
      /\ phase = "pass2" /\ line <= Len(Blocks)
  <2>1. line \in Nat \ {0} /\ phase = "pass2" /\ line <= Len(Blocks)
    BY CurrentType DEF LayoutInv, InBlock
  <2> QED
    BY <2>1 DEF LayoutInv, TypeOK, OneEntryPerBlock, AfterPass1, SectionAt, Block, Blocks
<1> DEFINE at == labelMap[line].address
           n  == Units(Block)
<1>3. cursor[s] = at + 4 * (item - 1)
  BY <1>1, <1>2 DEF LayoutInv, PassesAgree
<1>4. at \in Nat
  <2>1. labelMap[line] \in LabelAddressMapping
    BY <1>2 DEF LayoutInv, TypeOK
  <2> QED
    BY <2>1 DEF LabelAddressMapping
<1>5. at + BlockSize(Block) <= size[s]
  BY <1>2 DEF LayoutInv, BlocksFit, AfterPass1, SizeAt, SectionAt, Block, Blocks
<1>6. BlockSize(Block) = 4 * n /\ n \in Nat
  BY SizeType
<1>7. cursor[s] < size[s]
  <2>1. at + 4 * n <= size[s]
    BY <1>5, <1>6
  <2> HIDE DEF at, n
  <2>2. item <= n
    BY DEF n
  <2> QED
    BY <1>1, <1>2, <1>3, <1>4, <1>6, <2>1, <2>2
<1>8. cursor[s] \in UnitAddresses(size[s])
  BY <1>1, <1>7 DEF UnitAddresses
<1>9. DOMAIN out[s] = UnitAddresses(size[s])
  BY <1>1, <1>2 DEF LayoutInv, WritesInBounds
<1>10. out[s][cursor[s]] = Uninit
  BY <1>1, <1>2, <1>8 DEF LayoutInv, WrittenBelowCursor
<1> QED
  BY <1>1, <1>8, <1>9, <1>10

(* What a store does to the buffers: one unit, which was free.             *)
LEMMA EmitWrites ==
  ASSUME LayoutInv, InBlock, item <= Units(Block), Block \in AsmBlock,
         NEW s, s = SectionOf(Block), NEW u, Emit(s, u)
  PROVE  \A t \in Sections :
           /\ DOMAIN out'[t] = UnitAddresses(size[t])
           /\ \A a \in UnitAddresses(size[t]) :
                out'[t][a] = IF t = s /\ a = cursor[s] THEN u ELSE out[t][a]
<1>1. /\ s \in Sections /\ cursor[s] \in UnitAddresses(size[s])
      /\ DOMAIN out[s] = UnitAddresses(size[s])
  BY EmitPlace
<1>2. /\ DOMAIN out = Sections
      /\ \A t \in Sections : DOMAIN out[t] = UnitAddresses(size[t])
  BY DEF LayoutInv, TypeOK, WritesInBounds, InBlock
<1>3. out' = [out EXCEPT ![s] = Store(@, cursor[s], u)]
  BY DEF Emit
<1>4. out'[s] = Store(out[s], cursor[s], u)
  BY <1>1, <1>2, <1>3
<1>5. \A t \in Sections \ {s} : out'[t] = out[t]
  BY <1>2, <1>3
<1>6. DOMAIN out'[s] = UnitAddresses(size[s])
  BY <1>1, <1>4 DEF Store
<1>7. \A a \in UnitAddresses(size[s]) :
        out'[s][a] = IF a = cursor[s] THEN u ELSE out[s][a]
  BY <1>1, <1>4 DEF Store
<1> QED
  BY <1>2, <1>5, <1>6, <1>7

(* Emitting a unit keeps the layout.                                       *)
LEMMA EmitKeeps ==
  ASSUME LayoutInv, EmitInstruction \/ EmitPayload, TypeOK'
  PROVE  LayoutInv'
<1> DEFINE s == SectionOf(Block)
<1>1. InBlock /\ item <= Units(Block) /\ Block \in AsmBlock
  BY EmitIs
<1>2. PICK u : u # Uninit /\ Emit(s, u)
  BY EmitIs
<1>3. /\ phase = "pass2" /\ phase' = "pass2" /\ line' = line /\ item' = item + 1
      /\ cursor' = [cursor EXCEPT ![s] = @ + 4] /\ line <= Len(Blocks)
      /\ UNCHANGED <<src, labelMap, size>> /\ Blocks' = Blocks /\ Block' = Block
  BY <1>1, <1>2 DEF Emit, InBlock, tables, Blocks, Block
<1>4. /\ s \in Sections /\ cursor[s] \in Nat /\ cursor[s] % 4 = 0
      /\ cursor[s] \in UnitAddresses(size[s])
  BY <1>1, EmitPlace
<1>5. /\ item \in Nat \ {0} /\ Units(Block) \in Nat /\ cursor \in [Sections -> Nat]
      /\ size \in [Sections -> Nat] /\ s = SectionAt(line)
  BY <1>1, SizeType DEF LayoutInv, TypeOK, SectionAt, Block, Blocks
<1>6. /\ cursor'[s] = cursor[s] + 4
      /\ \A t \in Sections \ {s} : cursor'[t] = cursor[t]
  BY <1>3, <1>4, <1>5
<1>7. \A t \in Sections :
        /\ DOMAIN out'[t] = UnitAddresses(size[t])
        /\ \A a \in UnitAddresses(size[t]) :
             out'[t][a] = IF t = s /\ a = cursor[s] THEN u ELSE out[t][a]
  BY <1>1, <1>2, EmitWrites
<1> HIDE DEF s
<1>8. /\ OneEntryPerBlock' /\ LayoutContiguous' /\ BlocksFit'
      /\ \A i \in DOMAIN labelMap' : labelMap'[i].address % 4 = 0
  BY <1>3, LayoutKept DEF AfterPass1
<1>9. Aligned'
  <2>1. cursor'[s] % 4 = 0
    BY <1>4, <1>6
  <2>2. \A t \in Sections : cursor[t] % 4 = 0
    BY DEF LayoutInv, Aligned
  <2> QED
    BY <1>6, <1>8, <2>1, <2>2 DEF Aligned
<1>10. WithinBlock'
  <2>1. item + 1 <= Units(Block) + 1
    BY <1>1, <1>5
  <2> QED
    BY <1>3, <2>1 DEF WithinBlock
<1>11. PassesAgree'
  <2> SUFFICES ASSUME NEW t \in Sections
               PROVE  IF t = SectionAt(line)
                      THEN cursor'[t] = labelMap[line].address + 4 * item
                      ELSE EndsAt(t, line - 1, cursor[t])'
    <3>1. (item + 1) - 1 = item
      BY <1>5
    <3> QED
      BY <1>3, <3>1 DEF PassesAgree, SectionAt
  <2>1. CASE t = s
    <3>1. cursor[s] = labelMap[line].address + 4 * (item - 1)
      BY <1>3, <1>4, <1>5 DEF LayoutInv, PassesAgree
    <3>2. labelMap[line] \in LabelAddressMapping
      BY <1>3, CurrentType DEF LayoutInv, TypeOK, OneEntryPerBlock, AfterPass1
    <3> DEFINE at == labelMap[line].address
    <3>3. at \in Nat
      BY <3>2 DEF LabelAddressMapping
    <3> HIDE DEF at
    <3>4. cursor[s] = at + 4 * (item - 1)
      BY <3>1 DEF at
    <3>5. cursor'[s] = at + 4 * item
      BY <1>4, <1>5, <1>6, <3>3, <3>4
    <3> QED
      BY <1>5, <2>1, <3>5 DEF at
  <2>2. CASE t # s
    <3>1. BlocksEndAt(Blocks, labelMap, t, line - 1, cursor[t])
      BY <1>3, <1>5, <2>2 DEF LayoutInv, PassesAgree, EndsAt
    <3>2. BlocksEndAt(Blocks', labelMap', t, line' - 1, cursor'[t])
      BY <1>3, <1>6, <2>2, <3>1
    <3> QED
      BY <1>5, <2>2, <3>2 DEF EndsAt
  <2> QED
    BY <2>1, <2>2
<1>12. WritesInBounds'
  BY <1>3, <1>7 DEF WritesInBounds
<1>13. WrittenBelowCursor'
  <2> SUFFICES ASSUME NEW t \in Sections, NEW a \in UnitAddresses(size[t])
               PROVE  out'[t][a] # Uninit <=> a < cursor'[t]
    BY <1>3 DEF WrittenBelowCursor, BeforePass2
  <2>1. out[t][a] # Uninit <=> a < cursor[t]
    BY <1>3 DEF LayoutInv, WrittenBelowCursor
  <2>2. a \in Nat /\ a % 4 = 0
    BY <1>5 DEF UnitAddresses
  <2>3. CASE t = s /\ a = cursor[s]
    <3>1. out'[t][a] = u
      BY <1>7, <2>3
    <3>2. a < cursor'[t]
      BY <1>4, <1>6, <2>3
    <3> QED
      BY <1>2, <3>1, <3>2
  <2>4. CASE t = s /\ a # cursor[s]
    <3>1. out'[t][a] = out[t][a]
      BY <1>7, <2>4
    <3>2. a < cursor[s] <=> a < cursor[s] + 4
      <4>1. \A c \in Nat : c % 4 = 0 /\ a # c => (a < c <=> a < c + 4)
        BY <2>2
      <4> QED
        BY <1>4, <2>4, <4>1
    <3> QED
      BY <1>6, <2>1, <2>4, <3>1, <3>2
  <2>5. CASE t # s
    BY <1>6, <1>7, <2>1, <2>5
  <2> QED
    BY <2>3, <2>4, <2>5
<1>14. NothingUninitialised'
  BY <1>3 DEF NothingUninitialised
<1> QED
  BY <1>8, <1>9, <1>10, <1>11, <1>12, <1>13, <1>14 DEF LayoutInv

(* Past its last unit, a block is where pass 1 said it ends, and the next  *)
(* block of any section begins where its predecessor there ends.           *)
LEMMA NextBlockKeeps ==
  ASSUME LayoutInv, NextBlock, TypeOK'
  PROVE  LayoutInv'
<1>1. /\ phase = "pass2" /\ phase' = "pass2" /\ line' = line + 1 /\ item' = 1
      /\ line <= Len(Blocks) /\ item > Units(Block)
      /\ UNCHANGED <<src, labelMap, size, cursor, out>>
      /\ Blocks' = Blocks
  BY DEF NextBlock, InBlock, tables, Blocks
<1>2. /\ line \in Nat \ {0} /\ Len(Blocks) \in Nat /\ Block \in AsmBlock
      /\ Block = Blocks[line] /\ item \in Nat \ {0}
  BY <1>1, CurrentType DEF LayoutInv, TypeOK, Block, Blocks
<1>3. Units(Block) \in Nat /\ BlockSize(Block) = 4 * Units(Block)
  BY <1>2, SizeType
<1>4. item = Units(Block) + 1
  <2>1. item <= Units(Block) + 1
    BY <1>1 DEF LayoutInv, WithinBlock
  <2> QED
    BY <1>1, <1>2, <1>3, <2>1
<1>5. /\ OneEntryPerBlock' /\ LayoutContiguous' /\ BlocksFit'
  BY <1>1, LayoutKept DEF AfterPass1
<1>6. Aligned'
  BY <1>1 DEF LayoutInv, Aligned
<1>7. ASSUME NEW s \in Sections
      PROVE  BlocksEndAt(Blocks, labelMap, s, line, cursor[s])
  <2>1. CASE s = SectionOf(Block)
    <3>1. cursor[s] = labelMap[line].address + 4 * (item - 1)
      BY <1>1, <1>2, <2>1 DEF LayoutInv, PassesAgree, SectionAt
    <3>2. item - 1 = Units(Block)
      BY <1>3, <1>4
    <3>3. cursor[s] = labelMap[line].address + BlockSize(Blocks[line])
      BY <1>2, <1>3, <3>1, <3>2, Zenon
    <3> QED
      BY <1>2, <2>1, <3>3, EndOwn
  <2>2. CASE s # SectionOf(Block)
    <3>1. BlocksEndAt(Blocks, labelMap, s, line - 1, cursor[s])
      BY <1>1, <1>2, <2>2 DEF LayoutInv, PassesAgree, SectionAt, EndsAt
    <3> QED
      BY <1>2, <2>2, <3>1, EndOther
  <2> QED
    BY <2>1, <2>2
<1>8. PassesAgree'
  <2> SUFFICES ASSUME NEW s \in Sections
               PROVE  IF line + 1 <= Len(Blocks) /\ s = SectionAt(line + 1)
                      THEN cursor[s] = labelMap[line + 1].address + 4 * (1 - 1)
                      ELSE EndsAt(s, line - 1, cursor[s])'
    BY <1>1 DEF PassesAgree, SectionAt
  <2>1. (line + 1) - 1 = line /\ line \in Nat
    BY <1>2
  <2>2. CASE line + 1 <= Len(Blocks) /\ s = SectionAt(line + 1)
    <3>1. line + 1 \in DOMAIN labelMap /\ labelMap[line + 1] \in LabelAddressMapping
      BY <1>1, <1>2, <2>2 DEF LayoutInv, TypeOK, OneEntryPerBlock, AfterPass1
    <3>2. BlocksEndAt(Blocks, labelMap, s, line, labelMap[line + 1].address)
      BY <2>1, <2>2, <3>1 DEF LayoutInv, LayoutContiguous, EndsAt
    <3>3. cursor[s] = labelMap[line + 1].address
      BY <1>7, <2>1, <3>2, EndUnique
    <3>4. cursor[s] = cursor[s] + 4 * (1 - 1)
      BY DEF LayoutInv, TypeOK
    <3> QED
      BY <2>2, <3>3, <3>4
  <2>3. CASE ~(line + 1 <= Len(Blocks) /\ s = SectionAt(line + 1))
    <3>1. BlocksEndAt(Blocks', labelMap', s, line' - 1, cursor'[s])
      BY <1>1, <1>7, <2>1
    <3> QED
      BY <2>3, <3>1 DEF EndsAt
  <2> QED
    BY <2>2, <2>3
<1>9. WithinBlock'
  <2> SUFFICES ASSUME line + 1 <= Len(Blocks) PROVE 1 <= Units(Blocks[line + 1]) + 1
    BY <1>1 DEF WithinBlock, Block, Blocks
  <2>1. Blocks[line + 1] \in AsmBlock
    BY <1>2, CurrentType DEF LayoutInv
  <2>2. Units(Blocks[line + 1]) \in Nat
    BY <2>1, SizeType
  <2> QED
    BY <2>2
<1>10. WritesInBounds' /\ NothingUninitialised' /\ WrittenBelowCursor'
  BY <1>1 DEF LayoutInv, WritesInBounds, NothingUninitialised, WrittenBelowCursor, BeforePass2
<1> QED
  BY <1>5, <1>6, <1>8, <1>9, <1>10 DEF LayoutInv

(* When codeGen returns every cursor is at the end of its buffer.          *)
LEMMA ReturnKeeps ==
  ASSUME LayoutInv, Return, TypeOK'
  PROVE  LayoutInv'
<1>1. /\ phase = "pass2" /\ phase' = "done" /\ line > Len(Blocks)
      /\ UNCHANGED <<src, labelMap, size, cursor, out, line>>
  BY DEF Return, tables
<1>2. Len(Blocks) \in Nat /\ line = Len(Blocks) + 1
  BY <1>1, CurrentType DEF LayoutInv, TypeOK
<1>3. /\ OneEntryPerBlock' /\ LayoutContiguous' /\ BlocksFit'
  BY <1>1, LayoutKept DEF AfterPass1
<1>4. Aligned' /\ WithinBlock' /\ PassesAgree' /\ WritesInBounds' /\ WrittenBelowCursor'
  BY <1>1 DEF LayoutInv, Aligned, WithinBlock, PassesAgree, WritesInBounds, WrittenBelowCursor,
              BeforePass2
<1>5. ASSUME NEW s \in Sections, NEW a \in UnitAddresses(size[s])
      PROVE  out[s][a] # Uninit
  <2>1. BlocksEndAt(Blocks, labelMap, s, Len(Blocks), size[s])
    BY <1>1 DEF LayoutInv, LayoutContiguous, EndsAt
  <2>2. BlocksEndAt(Blocks, labelMap, s, Len(Blocks), cursor[s])
    <3>1. line - 1 = Len(Blocks) /\ ~(line <= Len(Blocks))
      BY <1>2
    <3> QED
      BY <1>1, <3>1 DEF LayoutInv, PassesAgree, EndsAt
  <2>3. cursor[s] = size[s]
    BY <1>2, <2>1, <2>2, EndUnique
  <2>4. a < size[s]
    <3>1. size[s] \in Nat
      BY DEF LayoutInv, TypeOK
    <3> QED
      BY <3>1 DEF UnitAddresses
  <2> QED
    BY <1>1, <2>3, <2>4 DEF LayoutInv, WrittenBelowCursor
<1>6. NothingUninitialised'
  BY <1>1, <1>5 DEF NothingUninitialised
<1> QED
  BY <1>3, <1>4, <1>6 DEF LayoutInv

---------------------------------------------------------------------------
(* The theorems.                                                           *)

(* Nothing is laid out, placed or written at first.                        *)
LEMMA InvInit == Init => LayoutInv
<1> SUFFICES ASSUME Init PROVE LayoutInv
  OBVIOUS
<1>1. src \in Source /\ Len(Blocks) \in Nat
  BY ProgramsAssumption DEF Init, Source, Blocks
<1>2. UnitAddresses(0) = {}
  BY DEF UnitAddresses
<1>3. TypeOK
  BY <1>1, <1>2 DEF Init, TypeOK, Phases
<1>4. OneEntryPerBlock /\ BlocksFit /\ Aligned
  BY <1>1 DEF Init, OneEntryPerBlock, BlocksFit, Aligned, AfterPass1
<1>5. LayoutContiguous
  <2>1. \A s \in Sections : BlocksEndAt(Blocks, labelMap, s, 0, cursor[s])
    BY EndEmpty DEF Init
  <2> QED
    BY <2>1 DEF Init, LayoutContiguous, EndsAt
<1>6. WithinBlock /\ PassesAgree /\ WritesInBounds /\ NothingUninitialised
  BY DEF Init, WithinBlock, PassesAgree, WritesInBounds, NothingUninitialised
<1>7. WrittenBelowCursor
  BY <1>2 DEF Init, WrittenBelowCursor, BeforePass2
<1> QED
  BY <1>3, <1>4, <1>5, <1>6, <1>7 DEF LayoutInv

(* Every step keeps the layout.                                            *)
LEMMA InvStep == LayoutInv /\ [Next]_vars => LayoutInv'
<1> SUFFICES ASSUME LayoutInv, [Next]_vars PROVE LayoutInv'
  OBVIOUS
<1>1. TypeOK'
  BY TypeStep DEF LayoutInv
<1>2. ASSUME UNCHANGED vars PROVE LayoutInv'
  <2> Blocks' = Blocks /\ Block' = Block
    BY <1>2 DEF vars, Blocks, Block
  <2>1. UNCHANGED <<src, phase, line, item, cursor, size, labelMap, out>>
    BY <1>2 DEF vars, tables
  <2> QED
    BY <1>1, <2>1
    DEF LayoutInv, OneEntryPerBlock, Aligned, LayoutContiguous, BlocksFit, WithinBlock,
        PassesAgree, WritesInBounds, WrittenBelowCursor, NothingUninitialised,
        SectionAt, SizeAt, EndsAt
<1>3. CASE AssignAddress
  BY <1>1, <1>3, AssignKeeps
<1>4. CASE EndPass1
  BY <1>1, <1>4, EndPass1Keeps
<1>5. CASE CheckExports \/ RecordImport
  BY <1>1, <1>5, MiddleKeeps
<1>6. CASE AllocateBuffers
  BY <1>1, <1>6, AllocateKeeps
<1>7. CASE EmitInstruction \/ EmitPayload
  BY <1>1, <1>7, EmitKeeps
<1>8. CASE NextBlock
  BY <1>1, <1>8, NextBlockKeeps
<1>9. CASE Return
  BY <1>1, <1>9, ReturnKeeps
<1>10. CASE RejectCodeOutsideText \/ RejectExport \/ RejectInstruction \/ RejectWord
  BY <1>1, <1>10, FailKeeps
  DEF RejectCodeOutsideText, RejectExport, RejectInstruction, RejectWord
<1> QED
  BY <1>2, <1>3, <1>4, <1>5, <1>6, <1>7, <1>8, <1>9, <1>10
  DEF Next, Step, Pass1, Middle, Pass2, Terminated

(* The invariant holds in every reachable state.                           *)
THEOREM LayoutInvariant == Spec => []LayoutInv
BY InvInit, InvStep, PTL DEF Spec

(* Pass 1 lays the blocks of every section out back to back.               *)
THEOREM LayoutCorrect == Spec => []LayoutContiguous
<1>1. LayoutInv => LayoutContiguous
  BY DEF LayoutInv
<1> QED
  BY <1>1, LayoutInvariant, PTL

(* Pass 2 retraces pass 1.                                                 *)
THEOREM PassesAgreeCorrect == Spec => []PassesAgree
<1>1. LayoutInv => PassesAgree
  BY DEF LayoutInv
<1> QED
  BY <1>1, LayoutInvariant, PTL

(* No store of pass 2 misses its buffer.                                   *)
THEOREM WritesInBoundsCorrect == Spec => []WritesInBounds
<1>1. LayoutInv => WritesInBounds
  BY DEF LayoutInv
<1> QED
  BY <1>1, LayoutInvariant, PTL

(* The buffers are complete when codeGen returns.                          *)
THEOREM BuffersComplete == Spec => []NothingUninitialised
<1>1. LayoutInv => NothingUninitialised
  BY DEF LayoutInv
<1> QED
  BY <1>1, LayoutInvariant, PTL

(* No unit is stored twice.                                                *)
THEOREM WriteOnceCorrect == Spec => WriteOnce
<1> DEFINE Once == \A s \in Sections : \A a \in DOMAIN out[s] :
                     out[s][a] # Uninit => out'[s][a] = out[s][a]
<1>1. ASSUME LayoutInv, [Next]_vars
      PROVE  Once
  <2>1. CASE EmitInstruction \/ EmitPayload
    <3> DEFINE s == SectionOf(Block)
    <3>1. InBlock /\ item <= Units(Block) /\ Block \in AsmBlock
      BY <1>1, <2>1, EmitIs
    <3>2. PICK u : Emit(s, u)
      BY <1>1, <2>1, EmitIs
    <3>3. \A t \in Sections : \A a \in UnitAddresses(size[t]) :
            out'[t][a] = IF t = s /\ a = cursor[s] THEN u ELSE out[t][a]
      BY <1>1, <3>1, <3>2, EmitWrites
    <3>4. out[s][cursor[s]] = Uninit
      BY <1>1, <3>1, EmitPlace
    <3>5. \A t \in Sections : DOMAIN out[t] = UnitAddresses(size[t])
      BY <1>1, <3>1 DEF LayoutInv, WritesInBounds, InBlock
    <3> HIDE DEF s
    <3> QED
      BY <3>3, <3>4, <3>5
  <2>2. CASE AllocateBuffers
    BY <1>1, <2>2 DEF AllocateBuffers, LayoutInv, WrittenBelowCursor, BeforePass2
  <2>3. CASE UNCHANGED out
    BY <2>3
  <2>4. (EmitInstruction \/ EmitPayload) \/ AllocateBuffers \/ UNCHANGED out
    BY <1>1
    DEF Next, Step, Pass1, Middle, Pass2, Terminated, vars, tables, AssignAddress,
        RejectCodeOutsideText, EndPass1, CheckExports, RejectExport, RecordImport,
        RejectInstruction, RejectWord, NextBlock, Return, Fail
  <2> QED
    BY <2>1, <2>2, <2>3, <2>4
<1>2. LayoutInv /\ [Next]_vars => [Once]_vars
  BY <1>1
<1> QED
  BY <1>2, LayoutInvariant, PTL DEF Spec, WriteOnce

---------------------------------------------------------------------------
(* Jumps.                                                                  *)

(* The lookup of a label depends on nothing but labelMap.                  *)
LEMMA LookupKept ==
  ASSUME labelMap' = labelMap
  PROVE  \A l : /\ IsDefined(l)' <=> IsDefined(l)
                /\ LabelAddress(l)' = LabelAddress(l)
BY DEF IsDefined, LabelAddress, FirstIndex

(* The blocks of a section stay in order.                                  *)
LEMMA OrderedStep ==
  ASSUME LayoutInv, Ordered, [Next]_vars
  PROVE  Ordered'
<1>1. CASE AssignAddress
  <2> DEFINE n == Len(labelMap)
             s == SectionOf(Block)
  <2>1. /\ n \in Nat /\ line = n + 1 /\ phase = "pass1"
        /\ Blocks' = Blocks /\ Block = Blocks[n + 1]
        /\ n + 1 <= Len(Blocks)
    <3>1. n \in Nat /\ Len(labelMap) = line - 1 /\ line <= Len(Blocks) /\ phase = "pass1"
      BY <1>1 DEF LayoutInv, TypeOK, OneEntryPerBlock, AssignAddress
    <3>2. line \in Nat /\ Len(Blocks) \in Nat
      BY CurrentType DEF LayoutInv
    <3> QED
      BY <1>1, <3>1, <3>2 DEF AssignAddress, Block, Blocks
  <2>2. /\ DOMAIN labelMap' = 1 .. n + 1 /\ DOMAIN labelMap = 1 .. n
        /\ \A i \in 1 .. n : labelMap'[i] = labelMap[i]
        /\ labelMap'[n + 1].address = cursor[s]
    <3> DEFINE e == [label |-> Block.label, address |-> cursor[s]]
    <3>1. labelMap' = Append(labelMap, e) /\ e.address = cursor[s]
      BY <1>1 DEF AssignAddress
    <3>2. labelMap \in Seq(LabelAddressMapping)
      BY DEF LayoutInv, TypeOK
    <3> HIDE DEF e
    <3> QED
      BY <3>1, <3>2
  <2>3. ASSUME NEW i \in 1 .. n + 1, NEW j \in 1 .. n + 1, i < j,
               SectionOf(Blocks[i]) = SectionOf(Blocks[j])
        PROVE  labelMap'[i].address + BlockSize(Blocks[i]) <= labelMap'[j].address
    <3> HIDE DEF n, s
    <3>1. i \in 1 .. n /\ (j \in 1 .. n \/ j = n + 1)
      BY <2>1, <2>3
    <3>2. CASE j \in 1 .. n
      BY <2>2, <2>3, <3>1, <3>2 DEF Ordered, SectionAt, SizeAt
    <3>3. CASE j = n + 1
      <4>1. labelMap[i].address + BlockSize(Blocks[i]) <= cursor[SectionOf(Blocks[i])]
        BY <2>1, <2>2, <3>1 DEF LayoutInv, BlocksFit, SectionAt, SizeAt
      <4>2. SectionOf(Blocks[i]) = s
        BY <2>1, <2>3, <3>3 DEF s
      <4> QED
        BY <2>2, <3>1, <3>3, <4>1, <4>2
    <3> QED
      BY <3>1, <3>2, <3>3
  <2> QED
    BY <2>1, <2>2, <2>3 DEF Ordered, SectionAt, SizeAt
<1>2. CASE UNCHANGED <<labelMap, src>>
  <2> Blocks' = Blocks
    BY <1>2 DEF Blocks
  <2> QED
    BY <1>2 DEF Ordered, SectionAt, SizeAt
<1>3. AssignAddress \/ UNCHANGED <<labelMap, src>>
  BY DEF Next, Step, Pass1, Middle, Pass2, Terminated, vars, tables,
         RejectCodeOutsideText, EndPass1, CheckExports, RejectExport, RecordImport,
         AllocateBuffers, EmitInstruction, EmitPayload, EmitOperands, EmitJump,
         EmitExternalJump, EmitAddress, EmitExternalAddress, EmitData, EmitNumber,
         EmitSymbolWord, Emit, RejectInstruction, RejectWord, NextBlock, Return, Fail
<1> QED
  BY <1>1, <1>2, <1>3

(* The place of an instruction within TEXT is the place of no other unit   *)
(* of the program.                                                         *)
LEMMA OnePlace ==
  ASSUME LayoutInv, Ordered, InBlock, item <= Units(Block), Block \in AsmBlock,
         SectionOf(Block) = TEXT,
         NEW i \in DOMAIN Blocks, NEW k \in DOMAIN Blocks[i].instrs,
         labelMap[i].address + 4 * (k - 1) = cursor[TEXT]
  PROVE  i = line /\ k = item
<1>1. /\ Blocks \in Seq(AsmBlock) /\ Len(Blocks) \in Nat /\ line \in Nat \ {0}
      /\ line <= Len(Blocks) /\ item \in Nat \ {0} /\ phase = "pass2"
      /\ Block = Blocks[line]
  BY CurrentType DEF LayoutInv, TypeOK, InBlock, Block, Blocks
<1>2. /\ DOMAIN labelMap = DOMAIN Blocks /\ line \in DOMAIN Blocks
      /\ \A j \in DOMAIN Blocks : labelMap[j].address \in Nat
  <2>1. DOMAIN labelMap = DOMAIN Blocks
    BY <1>1 DEF LayoutInv, TypeOK, OneEntryPerBlock, AfterPass1
  <2>2. \A j \in DOMAIN labelMap : labelMap[j] \in LabelAddressMapping
    BY DEF LayoutInv, TypeOK
  <2> QED
    BY <1>1, <2>1, <2>2 DEF LabelAddressMapping
<1>3. Blocks[i] \in AsmBlock
  BY <1>1
<1>4. SectionAt(i) = TEXT /\ SectionAt(line) = TEXT
  <2>1. ~HoldsCodeOutsideText(Blocks[i])
    BY <1>2 DEF LayoutInv, OneEntryPerBlock
  <2>2. Blocks[i].instrs # << >>
    BY <1>3 DEF AsmBlock
  <2> QED
    BY <1>1, <2>1, <2>2 DEF HoldsCodeOutsideText, SectionAt
<1> DEFINE a == labelMap[i].address
           c == labelMap[line].address
           m == Len(Blocks[i].instrs)
           n == Units(Block)
<1>5. /\ a \in Nat /\ c \in Nat /\ m \in Nat /\ n \in Nat /\ k \in 1 .. m
      /\ BlockSize(Blocks[i]) \in Nat /\ BlockSize(Blocks[i]) >= 4 * m
      /\ BlockSize(Block) = 4 * n
  <2>1. a \in Nat /\ c \in Nat
    BY <1>2
  <2>2. m \in Nat /\ k \in 1 .. m
    BY <1>3 DEF AsmBlock
  <2>3. n \in Nat /\ BlockSize(Block) = 4 * n
    BY SizeType
  <2>4. Payload(Blocks[i]) \in Nat
    BY <1>3, SizeType
  <2>5. BlockSize(Blocks[i]) = 4 * m + Payload(Blocks[i])
    BY DEF BlockSize
  <2> HIDE DEF a, c, m, n
  <2> QED
    BY <2>1, <2>2, <2>3, <2>4, <2>5
<1>6. a + 4 * (k - 1) = c + 4 * (item - 1)
  <2>1. cursor[TEXT] = c + 4 * (item - 1)
    BY <1>1, <1>4 DEF LayoutInv, PassesAgree, Sections
  <2> QED
    BY <2>1
<1>7. CASE i < line
  <2>1. a + BlockSize(Blocks[i]) <= c
    BY <1>2, <1>4, <1>7 DEF Ordered, SizeAt
  <2> HIDE DEF a, c, m, n
  <2> QED
    BY <1>1, <1>5, <1>6, <2>1
<1>8. CASE line < i
  <2>1. c + 4 * n <= a
    BY <1>1, <1>2, <1>4, <1>5, <1>8 DEF Ordered, SizeAt
  <2>2. item <= n
    OBVIOUS
  <2> HIDE DEF a, c, m, n
  <2> QED
    BY <1>1, <1>5, <1>6, <2>1, <2>2
<1>9. CASE i = line
  <2>1. a = c
    BY <1>9
  <2> HIDE DEF a, c, m, n
  <2>2. k = item
    BY <1>1, <1>5, <1>6, <2>1
  <2> QED
    BY <1>9, <2>2
<1>10. i \in Nat
  BY <1>1
<1> QED
  BY <1>1, <1>7, <1>8, <1>9, <1>10

(* A defined jump is emitted by EmitJump and by no other step.             *)
LEMMA DefinedJumpIs ==
  ASSUME TypeOK, EmitInstruction \/ EmitPayload, Block \in AsmBlock,
         item \in DOMAIN Block.instrs,
         Instr.kind = "LABEL", IsDefined(Instr.label)
  PROVE  Emit(TEXT, EncodeJump(Instr, LabelAddress(Instr.label), cursor[TEXT]))
<1>1. item \in Nat \ {0} /\ Len(Block.instrs) \in Nat /\ item <= Len(Block.instrs)
      /\ (Len(Block.data) + 3) \div 4 \in Nat /\ Len(Block.words) \in Nat
  BY SizeType DEF TypeOK, AsmBlock
<1>2. ~EmitPayload
  <2>1. ~(item - Len(Block.instrs) > 0)
    BY <1>1
  <2>2. ~(item - Len(Block.instrs) - (Len(Block.data) + 3) \div 4 \in 1 .. Len(Block.words))
    <3>1. \A n, g, w \in Nat : item <= n => ~(item - n - g \in 1 .. w)
      BY <1>1
    <3> QED
      BY <1>1, <3>1
  <2>3. ~EmitData
    BY <2>1 DEF EmitData, DataItem
  <2>4. ~AtWord
    BY <2>2 DEF AtWord, WordItem
  <2> QED
    BY <2>3, <2>4 DEF EmitPayload, EmitNumber, EmitSymbolWord
<1>3. ~EmitOperands /\ ~EmitExternalJump /\ ~EmitAddress /\ ~EmitExternalAddress
  BY DEF EmitOperands, EmitExternalJump, EmitAddress, EmitExternalAddress, AtInstr,
         OperandKinds, Instr
<1> QED
  BY <1>2, <1>3 DEF EmitInstruction, EmitJump

(* A jump once emitted keeps its distance, and a new one gets the right    *)
(* one.                                                                    *)
LEMMA JumpsStep ==
  ASSUME LayoutInv, Ordered, JumpsEncoded, [Next]_vars
  PROVE  JumpsEncoded'
<1>1. CASE EmitInstruction \/ EmitPayload
  <2> DEFINE s == SectionOf(Block)
  <2>1. InBlock /\ item <= Units(Block) /\ Block \in AsmBlock
    BY <1>1, EmitIs
  <2>2. PICK u : u # Uninit /\ Emit(s, u)
    BY <1>1, EmitIs
  <2>3. /\ phase = "pass2" /\ UNCHANGED <<src, labelMap>> /\ Blocks' = Blocks
        /\ line <= Len(Blocks) /\ Block = Blocks[line] /\ line \in Nat \ {0}
        /\ Len(Blocks) \in Nat
    BY <2>1, <2>2, CurrentType DEF Emit, InBlock, tables, Blocks, Block, LayoutInv
  <2>4. /\ s \in Sections
        /\ \A t \in Sections : DOMAIN out[t] = UnitAddresses(size[t])
    BY <2>1, <2>3, EmitPlace DEF LayoutInv, WritesInBounds
  <2>5. \A v : Emit(s, v) => \A t \in Sections :
          /\ DOMAIN out'[t] = UnitAddresses(size[t])
          /\ \A a \in UnitAddresses(size[t]) :
               out'[t][a] = IF t = s /\ a = cursor[s] THEN v ELSE out[t][a]
    BY <2>1, EmitWrites
  <2> SUFFICES ASSUME NEW i \in DOMAIN Blocks, NEW k \in DOMAIN Blocks[i].instrs,
                      JumpResolved(i, k)'
               PROVE  LET at  == labelMap[i].address + 4 * (k - 1)
                          ins == Blocks[i].instrs[k]
                      IN  out'[TEXT][at] = EncodeJump(ins, LabelAddress(ins.label), at)
    BY <2>3, LookupKept DEF JumpsEncoded
  <2> DEFINE at  == labelMap[i].address + 4 * (k - 1)
             ins == Blocks[i].instrs[k]
  <2>6. /\ ins.kind = "LABEL" /\ IsDefined(ins.label)
        /\ at \in DOMAIN out'[TEXT] /\ out'[TEXT][at] # Uninit
    BY <2>3, LookupKept DEF JumpResolved
  <2>7. TEXT \in Sections
    BY DEF Sections
  <2>8. at \in UnitAddresses(size[TEXT]) /\ at \in DOMAIN out[TEXT]
    BY <2>2, <2>4, <2>5, <2>6, <2>7
  <2>9. CASE s = TEXT /\ at = cursor[TEXT]
    <3>1. i = line /\ k = item
      BY <2>1, <2>9, OnePlace
    <3>2. ins = Instr /\ item \in DOMAIN Block.instrs
      BY <2>3, <3>1 DEF Instr, Block, Blocks
    <3>3. Emit(TEXT, EncodeJump(Instr, LabelAddress(Instr.label), cursor[TEXT]))
      BY <1>1, <2>1, <2>6, <3>2, DefinedJumpIs DEF LayoutInv
    <3> HIDE DEF at, ins, s
    <3>4. out'[TEXT][cursor[TEXT]]
            = EncodeJump(Instr, LabelAddress(Instr.label), cursor[TEXT])
      BY <2>5, <2>7, <2>8, <2>9, <3>3
    <3> QED
      BY <2>9, <3>2, <3>4 DEF at, ins
  <2>10. CASE ~(s = TEXT /\ at = cursor[TEXT])
    <3> HIDE DEF at, s
    <3>1. out'[TEXT][at] = out[TEXT][at]
      BY <2>2, <2>5, <2>7, <2>8, <2>10
    <3>2. JumpResolved(i, k)
      BY <2>6, <2>8, <3>1 DEF JumpResolved, at
    <3>3. out[TEXT][at] = EncodeJump(ins, LabelAddress(ins.label), at)
      BY <2>3, <3>2 DEF JumpsEncoded, at
    <3> QED
      BY <3>1, <3>3 DEF at
  <2> QED
    BY <2>9, <2>10
<1>2. CASE AllocateBuffers
  <2>1. \A a : a \in DOMAIN out'[TEXT] => out'[TEXT][a] = Uninit
    BY <1>2 DEF AllocateBuffers, Sections
  <2>2. \A i, k : ~JumpResolved(i, k)'
    BY <2>1 DEF JumpResolved
  <2> QED
    BY <2>2 DEF JumpsEncoded
<1>3. CASE NextBlock \/ Return \/ UNCHANGED vars
  <2>1. /\ UNCHANGED <<src, labelMap, out>> /\ Blocks' = Blocks
        /\ phase' \in {"pass2", "done"} => phase \in {"pass2", "done"}
    BY <1>3 DEF NextBlock, Return, InBlock, vars, tables, Blocks
  <2>2. \A i, k : JumpResolved(i, k)' <=> JumpResolved(i, k)
    BY <2>1, LookupKept DEF JumpResolved
  <2> QED
    BY <2>1, <2>2, LookupKept DEF JumpsEncoded
<1>4. CASE phase' \notin {"pass2", "done"}
  BY <1>4 DEF JumpsEncoded
<1>5. \/ EmitInstruction \/ EmitPayload \/ AllocateBuffers
      \/ NextBlock \/ Return \/ UNCHANGED vars
      \/ phase' \notin {"pass2", "done"}
  BY DEF Next, Step, Pass1, Middle, Pass2, Terminated, AssignAddress,
         RejectCodeOutsideText, EndPass1, CheckExports, RejectExport, RecordImport,
         RejectInstruction, RejectWord, Fail
<1> QED
  BY <1>1, <1>2, <1>3, <1>4, <1>5

(* Every jump emitted holds the distance to its label.                     *)
THEOREM JumpsCorrect == Spec => [](Ordered /\ JumpsEncoded)
<1>1. Init => Ordered /\ JumpsEncoded
  BY DEF Init, Ordered, JumpsEncoded
<1>2. LayoutInv /\ Ordered /\ JumpsEncoded /\ [Next]_vars => Ordered' /\ JumpsEncoded'
  BY OrderedStep, JumpsStep
<1> QED
  BY <1>1, <1>2, LayoutInvariant, PTL DEF Spec

(* Cutting a distance that fits to 26 bits and sign-extending it gives it  *)
(* back.                                                                   *)
LEMMA SignExtendRestores ==
  ASSUME NEW d \in -RelHalf .. RelHalf - 1
  PROVE  SignExtend26(d) = d /\ SignExtend26(d % RelSpan) = d
<1> DEFINE m == RelSpan
           h == RelHalf
<1>1. m \in Nat \ {0} /\ h \in Nat /\ h + h <= m /\ d \in Int
  BY RelSpanType DEF RelHalf
<1> HIDE DEF m, h
<1>2. d \in -h .. h - 1
  BY DEF h
<1>3. d + h \in 0 .. m - 1
  BY <1>1, <1>2
<1>4. (d + h) % m = d + h
  BY <1>1, <1>3, ModNear
<1>5. CASE d >= 0
  <2>1. d \in 0 .. m - 1
    BY <1>1, <1>2, <1>5
  <2>2. d % m = d
    BY <1>1, <2>1, ModNear
  <2> QED
    BY <1>1, <1>4, <2>2 DEF SignExtend26, m, h
<1>6. CASE d < 0
  <2>1. /\ d + m \in 0 .. m - 1 /\ (d + m) - m = d
        /\ (d + m) + h = (d + h) + m
    BY <1>1, <1>2, <1>6
  <2>2. d % m = d + m
    BY <1>1, <2>1, ModNear
  <2>3. ((d + h) + m) % m = d + h
    BY <1>1, <1>3, ModNear
  <2>4. ((d % m) + h) % m = d + h
    BY <2>1, <2>2, <2>3
  <2> QED
    BY <1>1, <1>4, <2>4 DEF SignExtend26, m, h
<1> QED
  BY <1>1, <1>5, <1>6

(* A jump whose distance fits its field reaches its label: what the        *)
(* processor adds to the jump's own address is the distance.               *)
THEOREM JumpsReachTheirLabels == Spec => [](FarJumpsAreReported => JumpReachesItsLabel)
<1>1. LayoutInv /\ Ordered /\ JumpsEncoded => (FarJumpsAreReported => JumpReachesItsLabel)
  <2> SUFFICES ASSUME LayoutInv, JumpsEncoded, FarJumpsAreReported,
                      phase \in {"pass2", "done"},
                      NEW i \in DOMAIN Blocks, NEW k \in DOMAIN Blocks[i].instrs,
                      JumpResolved(i, k)
               PROVE  LET at == labelMap[i].address + 4 * (k - 1)
                      IN  at + SignExtend26(out[TEXT][at].low)
                            = LabelAddress(Blocks[i].instrs[k].label)
    BY DEF JumpReachesItsLabel
  <2> DEFINE at  == labelMap[i].address + 4 * (k - 1)
             ins == Blocks[i].instrs[k]
             to  == LabelAddress(ins.label)
  <2>1. out[TEXT][at] = EncodeJump(ins, to, at)
    BY DEF JumpsEncoded
  <2>2. to - at \in -RelHalf .. RelHalf - 1
    BY DEF FarJumpsAreReported
  <2>3. at \in Int /\ to \in Int
    <3>1. IsDefined(ins.label)
      BY DEF JumpResolved
    <3>2. to \in Nat
      BY <3>1, LabelAddressType DEF LayoutInv, TypeOK
    <3>3. i \in DOMAIN labelMap
      BY CurrentType DEF LayoutInv, TypeOK, OneEntryPerBlock, AfterPass1
    <3>4. labelMap[i] \in LabelAddressMapping
      BY <3>3 DEF LayoutInv, TypeOK
    <3>5. k \in Nat
      <4>1. Blocks[i] \in AsmBlock
        BY CurrentType DEF LayoutInv
      <4> QED
        BY <4>1 DEF AsmBlock
    <3> QED
      BY <3>2, <3>4, <3>5 DEF LabelAddressMapping
  <2> HIDE DEF at, ins, to
  <2>4. out[TEXT][at].low = SignExtend26(to - at) % RelSpan
    BY <2>1 DEF EncodeJump, InstrUnit, Substraction26
  <2>5. SignExtend26(out[TEXT][at].low) = to - at
    BY <2>2, <2>4, SignExtendRestores
  <2>6. at + (to - at) = to
    BY <2>3
  <2> QED
    BY <2>5, <2>6 DEF at, ins, to
<1> QED
  BY <1>1, LayoutInvariant, JumpsCorrect, PTL

---------------------------------------------------------------------------
(* Symbols.                                                                *)

(* The first entry of a name in the symbol table is the one found.         *)
LEMMA SymbolFound ==
  ASSUME TypeOK, NEW i \in DOMAIN symbols,
         \A j \in DOMAIN symbols : symbols[j].name = symbols[i].name => i <= j
  PROVE  HasSymbol(symbols[i].name) /\ SymbolNamed(symbols[i].name) = symbols[i]
<1> DEFINE hits == {j \in DOMAIN symbols : symbols[j].name = symbols[i].name}
<1>1. hits \in SUBSET Nat /\ i \in hits /\ \A j \in hits : i <= j
  BY DEF TypeOK
<1>2. (CHOOSE k \in hits : \A j \in hits : k <= j) = i
  BY <1>1, FirstHit
<1>3. hits # {}
  BY <1>1
<1>4. SymbolNamed(symbols[i].name) = symbols[CHOOSE k \in hits : \A j \in hits : k <= j]
  BY <1>3 DEF SymbolNamed, FirstIndex
<1> QED
  BY <1>2, <1>4 DEF HasSymbol

(* A defined label's address, place and symbol all come from its first     *)
(* block.                                                                  *)
LEMMA FirstBlock ==
  ASSUME TypeOK, TablesAgree, NEW l, IsDefined(l)
  PROVE  \E i \in DOMAIN labelMap :
           /\ labelMap[i].label = l
           /\ \A j \in DOMAIN labelMap : labelMap[j].label = l => i <= j
           /\ PlaceOf(l) = <<SectionAt(i), labelMap[i].address>>
           /\ LabelSymbol(l) = labelSymbolMap[i].symbol_name
<1> DEFINE hits == {i \in DOMAIN labelMap : labelMap[i].label = l}
<1>1. hits \in SUBSET Nat /\ hits # {} /\ 0 \notin hits
  BY DEF TypeOK, IsDefined
<1>2. PICK i \in hits : \A j \in hits : i <= j
  BY <1>1, LeastOf
<1>3. (CHOOSE k \in hits : \A j \in hits : k <= j) = i /\ i # 0
  BY <1>1, <1>2, FirstHit
<1>4. PlaceOf(l) = <<SectionAt(i), labelMap[i].address>>
  BY <1>1, <1>3 DEF PlaceOf, FirstIndex
<1>5. hits = {j \in DOMAIN labelSymbolMap : labelSymbolMap[j].source_label = l}
  <2>1. DOMAIN labelSymbolMap = DOMAIN labelMap
    BY DEF TypeOK, TablesAgree
  <2>2. \A j \in DOMAIN labelMap : labelSymbolMap[j].source_label = labelMap[j].label
    BY DEF TablesAgree
  <2> QED
    BY <2>1, <2>2
<1> DEFINE others == {j \in DOMAIN labelSymbolMap : labelSymbolMap[j].source_label = l}
<1>6. LabelSymbol(l) =
        IF others = {} THEN RawName(l)
        ELSE labelSymbolMap[CHOOSE k \in others : \A j \in others : k <= j].symbol_name
  <2> DEFINE c == CHOOSE k \in others : \A j \in others : k <= j
  <2>1. others # {} => c # 0
    BY <1>1, <1>3, <1>5
  <2>2. LabelSymbol(l) = IF (IF others = {} THEN 0 ELSE c) = 0 THEN RawName(l)
                         ELSE labelSymbolMap[IF others = {} THEN 0 ELSE c].symbol_name
    BY DEF LabelSymbol, FirstIndex
  <2> HIDE DEF c, others
  <2>3. LabelSymbol(l) = IF others = {} THEN RawName(l) ELSE labelSymbolMap[c].symbol_name
    BY <2>1, <2>2
  <2> QED
    BY <2>3 DEF c
<1>7. LabelSymbol(l) = labelSymbolMap[i].symbol_name
  BY <1>1, <1>3, <1>5, <1>6
<1> QED
  BY <1>2, <1>4, <1>7

(* A label that is not defined goes by its own name.                       *)
LEMMA NoBlock ==
  ASSUME TypeOK, TablesAgree, NEW l, ~IsDefined(l)
  PROVE  LabelSymbol(l) = RawName(l)
<1>1. DOMAIN labelSymbolMap = DOMAIN labelMap
  BY DEF TypeOK, TablesAgree
<1>2. {j \in DOMAIN labelSymbolMap : labelSymbolMap[j].source_label = l} = {}
  BY <1>1 DEF TablesAgree, IsDefined
<1> QED
  BY <1>2 DEF LabelSymbol, FirstIndex

(* The symbol entered for a block has the name the block was given.        *)
LEMMA EntryNamed ==
  ASSUME TablesAgree, NEW i \in DOMAIN labelMap
  PROVE  symbols[i].name = labelSymbolMap[i].symbol_name
<1>1. symbols[i] = [name |-> labelSymbolMap[i].symbol_name, type |-> "DEFINED",
                    section |-> SectionAt(i), offset |-> labelMap[i].address]
  BY DEF TablesAgree
<1> QED
  BY <1>1

(* Where names are kept apart, blocks whose symbols have the same name     *)
(* have the same label: the raw name of a public label carries no number,  *)
(* and the cut one of a private label is nobody else's.                    *)
LEMMA NamesTell ==
  ASSUME TypeOK, TablesAgree, NamesApart, NEW i \in DOMAIN labelMap
  PROVE  /\ \A j \in DOMAIN labelMap :
              labelSymbolMap[i].symbol_name = labelSymbolMap[j].symbol_name
                => labelMap[i].label = labelMap[j].label
         /\ \A l : IsImported(l) /\ labelSymbolMap[i].symbol_name = RawName(l)
                     => labelMap[i].label = l
<1> DEFINE label(k) == labelMap[k].label
           name(k)  == labelSymbolMap[k].symbol_name
<1>1. \A k \in DOMAIN labelMap :
        \/ IsPublic(label(k)) /\ name(k) = RawName(label(k))
        \/ label(k) \in Cut /\ name(k) = RawName(CutTo[label(k)])
        \/ \E n \in Nat \ {0} : name(k) = [text |-> label(k), n |-> n]
  <2> SUFFICES ASSUME NEW k \in DOMAIN labelMap, ~IsPublic(label(k))
               PROVE  \/ label(k) \in Cut /\ name(k) = RawName(CutTo[label(k)])
                      \/ \E n \in Nat \ {0} : name(k) = [text |-> label(k), n |-> n]
    BY DEF TablesAgree
  <2>1. PICK n \in 1 .. local_label_counter - 1 : name(k) = UniqueName(label(k), n)
    BY DEF TablesAgree
  <2>2. n \in Nat \ {0}
    BY DEF TypeOK
  <2> QED
    BY <2>1, <2>2 DEF UniqueName, Cut
<1>2. \A l, m : RawName(l) = RawName(m) => l = m
  <2>1. \A l : RawName(l).text = l
    BY DEF RawName
  <2> QED
    BY <2>1
<1>3. \A l, m : \A n \in Nat \ {0} :
        RawName(l) # [text |-> m, n |-> n]
  <2>1. \A l : RawName(l).n = 0
    BY DEF RawName
  <2>2. \A m, n : [text |-> m, n |-> n].n = n
    OBVIOUS
  <2> QED
    BY <2>1, <2>2
<1>4. \A l, m, n, o : [text |-> l, n |-> n] = [text |-> m, n |-> o] => l = m
  <2>1. \A m, n : [text |-> m, n |-> n].text = m
    OBVIOUS
  <2> QED
    BY <2>1
<1> HIDE DEF label, name
<1>5. ASSUME NEW j \in DOMAIN labelMap, name(i) = name(j)
      PROVE  label(i) = label(j)
  <2>1. CASE IsPublic(label(i)) /\ name(i) = RawName(label(i))
    BY <1>1, <1>2, <1>3, <1>5, <2>1 DEF NamesApart
  <2>2. CASE label(i) \in Cut /\ name(i) = RawName(CutTo[label(i)])
    BY <1>1, <1>2, <1>3, <1>5, <2>2 DEF NamesApart
  <2>3. CASE \E n \in Nat \ {0} : name(i) = [text |-> label(i), n |-> n]
    BY <1>1, <1>3, <1>4, <1>5, <2>3
  <2> QED
    BY <1>1, <2>1, <2>2, <2>3
<1>6. ASSUME NEW l, IsImported(l), name(i) = RawName(l)
      PROVE  label(i) = l
  BY <1>1, <1>2, <1>3, <1>6 DEF NamesApart
<1> QED
  BY <1>5, <1>6 DEF label, name

(* A defined label's symbol is that of its first block.                    *)
LEMMA DefinedSymbol ==
  ASSUME TypeOK, TablesAgree, ImportsEntered, NamesApart, NEW l, IsDefined(l)
  PROVE  /\ HasSymbol(LabelSymbol(l))
         /\ SymbolNamed(LabelSymbol(l)).type = "DEFINED"
         /\ <<SymbolNamed(LabelSymbol(l)).section, SymbolNamed(LabelSymbol(l)).offset>>
              = PlaceOf(l)
<1>1. PICK i \in DOMAIN labelMap :
        /\ labelMap[i].label = l
        /\ \A j \in DOMAIN labelMap : labelMap[j].label = l => i <= j
        /\ PlaceOf(l) = <<SectionAt(i), labelMap[i].address>>
        /\ LabelSymbol(l) = labelSymbolMap[i].symbol_name
  BY FirstBlock
<1>2. /\ DOMAIN labelMap = 1 .. Len(labelMap) /\ DOMAIN symbols = 1 .. Len(symbols)
      /\ Len(labelMap) \in Nat /\ Len(symbols) \in Nat /\ Len(symbols) >= Len(labelMap)
  BY DEF TypeOK, TablesAgree
<1>3. symbols[i] = [name |-> LabelSymbol(l), type |-> "DEFINED",
                    section |-> SectionAt(i), offset |-> labelMap[i].address]
  BY <1>1 DEF TablesAgree
<1>4. i \in DOMAIN symbols /\ symbols[i].name = LabelSymbol(l)
  BY <1>2, <1>3
<1>5. ASSUME NEW j \in DOMAIN symbols, symbols[j].name = symbols[i].name
      PROVE  i <= j
  <2>1. CASE j \in DOMAIN labelMap
    <3>1. symbols[j].name = labelSymbolMap[j].symbol_name
      BY <2>1, EntryNamed
    <3>2. labelMap[i].label = labelMap[j].label
      BY <1>1, <1>4, <1>5, <2>1, <3>1, NamesTell
    <3> QED
      BY <1>1, <2>1, <3>2
  <2>2. CASE j \notin DOMAIN labelMap
    BY <1>2, <2>2
  <2> QED
    BY <2>1, <2>2
<1>6. HasSymbol(symbols[i].name) /\ SymbolNamed(symbols[i].name) = symbols[i]
  BY <1>4, <1>5, SymbolFound
<1> QED
  BY <1>1, <1>3, <1>4, <1>6

(* An import that no block defines has an undefined symbol of its name.    *)
LEMMA ImportedSymbol ==
  ASSUME TypeOK, TablesAgree, ImportsEntered, NamesApart, phase = "pass2",
         NEW l, ~IsDefined(l), IsImported(l)
  PROVE  /\ HasSymbol(RawName(l))
         /\ SymbolNamed(RawName(l)).type = "UNDEFINED"
         /\ SymbolNamed(RawName(l)).name = RawName(l)
<1> DEFINE hits == {j \in DOMAIN symbols : symbols[j].name = RawName(l)}
<1>1. HasSymbol(RawName(l))
  BY DEF ImportsEntered, IsImported
<1>2. hits \in SUBSET Nat /\ hits # {}
  BY <1>1 DEF TypeOK, HasSymbol
<1>3. PICK i \in hits : \A j \in hits : i <= j
  BY <1>2, LeastOf
<1>4. SymbolNamed(RawName(l)) = symbols[i]
  BY <1>3, SymbolFound
<1>5. i \notin DOMAIN labelMap
  <2> SUFFICES ASSUME i \in DOMAIN labelMap PROVE FALSE
    OBVIOUS
  <2>1. labelSymbolMap[i].symbol_name = RawName(l)
    BY <1>3, EntryNamed
  <2>2. labelMap[i].label = l
    BY <2>1, NamesTell
  <2> QED
    BY <2>2 DEF IsDefined
<1>6. i \in Len(labelMap) + 1 .. Len(symbols)
  BY <1>3, <1>5 DEF TypeOK
<1>7. symbols[i].type = "UNDEFINED"
  BY <1>6 DEF ImportsEntered
<1> QED
  BY <1>1, <1>3, <1>4, <1>7

(* Placing a block gives all three tables the entry that belongs to it.    *)
LEMMA TablesAssign ==
  ASSUME LayoutInv, TablesAgree, ImportsEntered, AssignAddress
  PROVE  TablesAgree' /\ ImportsEntered'
<1> DEFINE n == Len(labelMap)
           s == SectionOf(Block)
           l == Block.label
           name == IF IsPublic(l) THEN RawName(l)
                   ELSE UniqueName(l, local_label_counter)
           e == [label |-> l, address |-> cursor[s]]
           y == [source_label |-> l, symbol_name |-> name]
           z == [name |-> name, type |-> "DEFINED", section |-> s, offset |-> cursor[s]]
<1>1. /\ phase = "pass1" /\ phase' = "pass1" /\ UNCHANGED src
      /\ labelMap' = Append(labelMap, e)
      /\ labelSymbolMap' = Append(labelSymbolMap, y)
      /\ symbols' = Append(symbols, z)
      /\ Blocks' = Blocks
      /\ local_label_counter' = local_label_counter + IF IsPublic(l) THEN 0 ELSE 1
  BY DEF AssignAddress, Blocks
<1>2. /\ n \in Nat /\ Len(labelSymbolMap) = n /\ Len(symbols) = n
      /\ labelMap \in Seq(LabelAddressMapping) /\ symbols \in Seq(ObjSymbol)
      /\ labelSymbolMap \in Seq(LabelSymbolMapping)
      /\ local_label_counter \in Nat \ {0}
  BY <1>1 DEF LayoutInv, TypeOK, TablesAgree
<1>3. Block = Blocks[n + 1]
  <2>1. n = line - 1 /\ line \in Nat
    BY <1>1, CurrentType DEF LayoutInv, OneEntryPerBlock
  <2>2. line = n + 1
    BY <1>2, <2>1
  <2> QED
    BY <2>2 DEF Block, Blocks
<1>4. /\ e.label = l /\ e.address = cursor[s]
      /\ y.source_label = l /\ y.symbol_name = name
  OBVIOUS
<1> HIDE DEF n, e, y, z, name
<1>5. /\ DOMAIN labelMap' = 1 .. n + 1 /\ DOMAIN labelMap = 1 .. n
      /\ Len(labelMap') = n + 1 /\ Len(symbols') = n + 1 /\ Len(labelSymbolMap') = n + 1
      /\ \A i \in 1 .. n : /\ labelMap'[i] = labelMap[i]
                           /\ labelSymbolMap'[i] = labelSymbolMap[i]
                           /\ symbols'[i] = symbols[i]
      /\ labelMap'[n + 1] = e /\ labelSymbolMap'[n + 1] = y /\ symbols'[n + 1] = z
  BY <1>1, <1>2 DEF n
<1>6. \A k : IsPublic(k)' <=> IsPublic(k)
  BY <1>1 DEF IsPublic, IsExported
<1>7. ASSUME NEW i \in 1 .. n + 1
      PROVE  LET k == labelMap'[i].label
             IN  /\ k = Blocks[i].label
                 /\ labelSymbolMap'[i].source_label = k
                 /\ IF IsPublic(k)
                    THEN labelSymbolMap'[i].symbol_name = RawName(k)
                    ELSE \E m \in 1 .. local_label_counter' - 1 :
                           labelSymbolMap'[i].symbol_name = UniqueName(k, m)
                 /\ symbols'[i] = [name |-> labelSymbolMap'[i].symbol_name,
                                   type |-> "DEFINED", section |-> SectionAt(i),
                                   offset |-> labelMap'[i].address]
  <2>1. CASE i \in 1 .. n
    <3>1. 1 .. local_label_counter - 1 \subseteq 1 .. local_label_counter' - 1
      BY <1>1, <1>2
    <3> QED
      BY <1>5, <2>1, <3>1 DEF TablesAgree
  <2>2. CASE i = n + 1
    <3>1. /\ labelMap'[i].label = l /\ labelMap'[i].address = cursor[s]
          /\ labelSymbolMap'[i].source_label = l
          /\ labelSymbolMap'[i].symbol_name = name
          /\ Blocks[i].label = l /\ SectionAt(i) = s
      BY <1>3, <1>4, <1>5, <2>2 DEF SectionAt
    <3>2. symbols'[i] = [name |-> name, type |-> "DEFINED", section |-> s,
                         offset |-> cursor[s]]
      BY <1>5, <2>2 DEF z
    <3>3. IF IsPublic(l) THEN name = RawName(l)
          ELSE \E m \in 1 .. local_label_counter' - 1 : name = UniqueName(l, m)
      <4>1. ~IsPublic(l) => local_label_counter \in 1 .. local_label_counter' - 1
        BY <1>1, <1>2
      <4> QED
        BY <4>1 DEF name
    <3> HIDE DEF l, s
    <3> QED
      BY <3>1, <3>2, <3>3
  <2> QED
    BY <1>2, <2>1, <2>2
<1>8. TablesAgree'
  <2>1. n + 1 >= n + 1
    BY <1>2
  <2> QED
    BY <1>1, <1>5, <1>6, <1>7, <2>1 DEF TablesAgree, SectionAt
<1>9. ImportsEntered'
  <2>1. Len(labelMap') + 1 .. Len(symbols') = {}
    BY <1>2, <1>5
  <2> QED
    BY <1>1, <2>1 DEF ImportsEntered
<1> QED
  BY <1>8, <1>9

(* An import is entered unless the name is taken, and then it is there.    *)
LEMMA TablesImport ==
  ASSUME LayoutInv, TablesAgree, ImportsEntered, RecordImport
  PROVE  TablesAgree' /\ ImportsEntered'
<1> DEFINE name == RawName(src.imports[item])
           z == [name |-> name, type |-> "UNDEFINED", section |-> TEXT, offset |-> 0]
           n == Len(symbols)
<1>1. /\ phase = "imports" /\ phase' = "imports" /\ item' = item + 1
      /\ UNCHANGED <<src, labelMap, labelSymbolMap, local_label_counter>>
      /\ item <= Len(src.imports) /\ Blocks' = Blocks
      /\ symbols' = IF HasSymbol(name) THEN symbols ELSE Append(symbols, z)
  BY DEF RecordImport, Blocks
<1>2. /\ symbols \in Seq(ObjSymbol) /\ n \in Nat /\ item \in Nat \ {0}
      /\ item \in DOMAIN src.imports /\ Len(labelMap) \in Nat
      /\ n >= Len(labelMap) /\ DOMAIN labelMap = 1 .. Len(labelMap)
      /\ DOMAIN symbols = 1 .. n
  BY <1>1 DEF LayoutInv, TypeOK, Source, TablesAgree
<1>3. z.name = name /\ z.type = "UNDEFINED"
  OBVIOUS
<1> HIDE DEF z, n, name
<1>4. \/ /\ Len(symbols') = n /\ symbols' = symbols
         /\ \E j \in DOMAIN symbols : symbols[j].name = name
      \/ /\ Len(symbols') = n + 1 /\ symbols'[n + 1] = z
         /\ DOMAIN symbols' = 1 .. n + 1
         /\ \A k \in 1 .. n : symbols'[k] = symbols[k]
  <2>1. CASE HasSymbol(name)
    BY <1>1, <2>1 DEF n, HasSymbol
  <2>2. CASE ~HasSymbol(name)
    <3>1. symbols' = Append(symbols, z)
      BY <1>1, <2>2
    <3>2. \A y : /\ Len(Append(symbols, y)) = Len(symbols) + 1
                 /\ Append(symbols, y)[Len(symbols) + 1] = y
                 /\ DOMAIN Append(symbols, y) = 1 .. Len(symbols) + 1
                 /\ \A k \in 1 .. Len(symbols) : Append(symbols, y)[k] = symbols[k]
      BY <1>2
    <3> QED
      BY <3>1, <3>2 DEF n
  <2> QED
    BY <2>1, <2>2
<1>5. \A k \in 1 .. n : symbols'[k] = symbols[k] /\ k \in DOMAIN symbols'
  BY <1>2, <1>4
<1>6. TablesAgree'
  <2>1. \A k : IsPublic(k)' <=> IsPublic(k)
    BY <1>1 DEF IsPublic, IsExported
  <2>2. \A i \in DOMAIN labelMap : symbols'[i] = symbols[i]
    BY <1>2, <1>5
  <2>3. Len(symbols') >= Len(labelMap)
    BY <1>2, <1>4
  <2> QED
    BY <1>1, <2>1, <2>2, <2>3 DEF TablesAgree, SectionAt
<1>7. \E j \in DOMAIN symbols' : symbols'[j].name = name
  BY <1>2, <1>3, <1>4
<1>8. \A w : HasSymbol(w) => \E j \in DOMAIN symbols' : symbols'[j].name = w
  BY <1>2, <1>5 DEF HasSymbol
<1>9. ImportsEntered'
  <2>1. ASSUME NEW k \in Len(labelMap) + 1 .. Len(symbols')
        PROVE  /\ symbols'[k].type = "UNDEFINED"
               /\ \E m \in DOMAIN src.imports : symbols'[k].name = RawName(src.imports[m])
    <3>1. CASE k <= n
      <4>1. k \in Len(labelMap) + 1 .. n /\ k \in 1 .. n
        BY <1>2, <1>4, <3>1
      <4> QED
        BY <1>5, <4>1 DEF ImportsEntered, n
    <3>2. CASE ~(k <= n)
      <4>1. k = n + 1 /\ symbols'[k] = z
        BY <1>2, <1>4, <3>2
      <4> QED
        BY <1>2, <1>3, <4>1 DEF name
    <3> QED
      BY <3>1, <3>2
  <2>2. ASSUME NEW m \in 1 .. (item + 1) - 1
        PROVE  \E j \in DOMAIN symbols' : symbols'[j].name = RawName(src.imports[m])
    <3>1. m \in 1 .. item - 1 \/ m = item
      BY <1>2
    <3>2. CASE m = item
      BY <1>7, <3>2 DEF name
    <3>3. CASE m \in 1 .. item - 1
      BY <1>1, <1>8, <3>3 DEF ImportsEntered
    <3> QED
      BY <3>1, <3>2, <3>3
  <2> QED
    BY <1>1, <2>1, <2>2 DEF ImportsEntered, HasSymbol
<1> QED
  BY <1>6, <1>9

(* The other steps leave the tables alone.                                 *)
LEMMA TablesStep ==
  ASSUME LayoutInv, TablesAgree, ImportsEntered, [Next]_vars
  PROVE  TablesAgree' /\ ImportsEntered'
<1>1. CASE AssignAddress
  BY <1>1, TablesAssign
<1>2. CASE RecordImport
  BY <1>2, TablesImport
<1>3. CASE /\ UNCHANGED <<src, labelMap, labelSymbolMap, symbols, local_label_counter>>
           /\ \/ phase' = phase /\ item' = item
              \/ phase' = phase /\ phase # "imports"
              \/ phase' \in {"exports", "error"}
              \/ phase' = "imports" /\ item' = 1
              \/ phase = "imports" /\ phase' = "pass2" /\ item > Len(src.imports)
              \/ phase = "pass2" /\ phase' = "done"
  <2>1. /\ \A k : IsPublic(k)' <=> IsPublic(k)
        /\ \A w : HasSymbol(w)' <=> HasSymbol(w)
        /\ Blocks' = Blocks
    BY <1>3 DEF IsPublic, IsExported, HasSymbol, Blocks
  <2>2. TablesAgree'
    BY <1>3, <2>1 DEF TablesAgree, SectionAt
  <2>3. ASSUME phase = "imports", item > Len(src.imports), NEW m \in DOMAIN src.imports
        PROVE  HasSymbol(RawName(src.imports[m]))
    <3>1. m \in 1 .. item - 1
      BY <2>3 DEF LayoutInv, TypeOK, Source
    <3> QED
      BY <2>3, <3>1 DEF ImportsEntered
  <2>4. ImportsEntered'
    BY <1>3, <2>1, <2>3 DEF ImportsEntered
  <2> QED
    BY <2>2, <2>4
<1>4. CASE EmitInstruction \/ EmitPayload
  <2>1. PICK u : Emit(SectionOf(Block), u)
    BY <1>4, EmitIs
  <2>2. InBlock
    BY <1>4, EmitIs
  <2> QED
    BY <1>3, <2>1, <2>2 DEF Emit, InBlock, tables
<1>5. CASE NextBlock \/ Return \/ AllocateBuffers \/ UNCHANGED vars
  BY <1>3, <1>5 DEF NextBlock, InBlock, Return, AllocateBuffers, vars, tables
<1>6. CASE EndPass1 \/ CheckExports
  BY <1>3, <1>6 DEF EndPass1, CheckExports, tables
<1>7. CASE RejectCodeOutsideText \/ RejectExport \/ RejectInstruction \/ RejectWord
  BY <1>3, <1>7 DEF RejectCodeOutsideText, RejectExport, RejectInstruction, RejectWord,
                    Fail, tables
<1> QED
  BY <1>1, <1>2, <1>4, <1>5, <1>6, <1>7
  DEF Next, Step, Pass1, Middle, Pass2, Terminated

(* The tables stay in step in every state.                                 *)
THEOREM TablesCorrect == Spec => [](TablesAgree /\ ImportsEntered)
<1>1. Init => TablesAgree /\ ImportsEntered
  BY DEF Init, TablesAgree, ImportsEntered
<1>2. LayoutInv /\ TablesAgree /\ ImportsEntered /\ [Next]_vars
        => TablesAgree' /\ ImportsEntered'
  BY TablesStep
<1> QED
  BY <1>1, <1>2, LayoutInvariant, PTL DEF Spec

(* Where names are kept apart, every relocation is recorded at the place   *)
(* of the reference, under a name the symbol table resolves to the block   *)
(* of the label, or to an undefined symbol if no block has the label.      *)
THEOREM RelocationsNameTheirTargets == Spec /\ NamesApart => RelocNamesItsTarget
<1> DEFINE Right ==
      relocs' # relocs =>
        LET r == relocs'[Len(relocs')]
            e == SymbolNamed(r.symbol_name)
        IN  /\ HasSymbol(r.symbol_name)
            /\ r.offset = cursor[r.section]
            /\ IF IsDefined(Referenced)
               THEN e.type = "DEFINED" /\ <<e.section, e.offset>> = PlaceOf(Referenced)
               ELSE e.type = "UNDEFINED" /\ e.name = RawName(Referenced)
<1>1. ASSUME LayoutInv, TablesAgree, ImportsEntered, NamesApart, [Next]_vars
      PROVE  Right
  <2> SUFFICES ASSUME relocs' # relocs PROVE Right
    OBVIOUS
  <2>1. \/ EmitExternalJump \/ EmitAddress \/ EmitExternalAddress
        \/ EmitSymbolWord
    BY <1>1
    DEF Next, Step, Pass1, Middle, Pass2, Terminated, vars, AssignAddress,
        RejectCodeOutsideText, EndPass1, CheckExports, RejectExport, RecordImport,
        AllocateBuffers, EmitInstruction, EmitPayload, EmitOperands, EmitJump,
        EmitData, EmitNumber, RejectInstruction, RejectWord, NextBlock, Return, Fail
  <2>2. InBlock /\ phase = "pass2" /\ Block \in AsmBlock /\ TypeOK /\ item \in Nat \ {0}
    BY <1>1, <2>1, EmitIs DEF EmitInstruction, EmitPayload, InBlock, LayoutInv, TypeOK
  <2>3. \A s, name, type : Relocate(s, name, type) =>
          /\ relocs'[Len(relocs')].symbol_name = name
          /\ relocs'[Len(relocs')].section = s
          /\ relocs'[Len(relocs')].offset = cursor[s]
    <3> TAKE s, name, type
    <3> DEFINE r == [offset |-> cursor[s], symbol_name |-> name, type |-> type, section |-> s]
    <3>1. Relocate(s, name, type) => relocs' = Append(relocs, r)
      BY DEF Relocate
    <3>2. Append(relocs, r)[Len(Append(relocs, r))] = r
      <4>1. relocs \in Seq(ObjReloc)
        BY <2>2 DEF TypeOK
      <4> HIDE DEF r
      <4> QED
        BY <4>1
    <3> QED
      BY <3>1, <3>2
  <2>4. CASE EmitExternalJump
    <3>1. /\ Referenced = Instr.label /\ ~IsDefined(Instr.label) /\ IsImported(Instr.label)
          /\ Relocate(TEXT, RawName(Instr.label), "RELATIVE")
      BY <2>4 DEF EmitExternalJump, AtInstr, Referenced
    <3> QED
      BY <1>1, <2>2, <2>3, <3>1, ImportedSymbol
  <2>5. CASE EmitAddress
    <3>1. /\ Referenced = Instr.label /\ IsDefined(Instr.label)
          /\ Relocate(TEXT, LabelSymbol(Instr.label), "ABSOLUTE")
      BY <2>5 DEF EmitAddress, AtInstr, Referenced
    <3> QED
      BY <1>1, <2>2, <2>3, <3>1, DefinedSymbol
  <2>6. CASE EmitExternalAddress
    <3>1. /\ Referenced = Instr.label /\ ~IsDefined(Instr.label) /\ IsImported(Instr.label)
          /\ Relocate(TEXT, LabelSymbol(Instr.label), "ABSOLUTE")
      BY <2>6 DEF EmitExternalAddress, AtInstr, Referenced
    <3>2. LabelSymbol(Instr.label) = RawName(Instr.label)
      BY <1>1, <2>2, <3>1, NoBlock
    <3> QED
      BY <1>1, <2>2, <2>3, <3>1, <3>2, ImportedSymbol
  <2>7. CASE EmitSymbolWord
    <3>1. /\ IsDefined(Word.symbol) \/ IsImported(Word.symbol)
          /\ Relocate(SectionOf(Block), LabelSymbol(Word.symbol), "WORD32")
      BY <2>7 DEF EmitSymbolWord
    <3>2. Referenced = Word.symbol
      <4>1. item - Len(Block.instrs) - (Len(Block.data) + 3) \div 4 \in 1 .. Len(Block.words)
        BY <2>7 DEF EmitSymbolWord, AtWord, WordItem
      <4>2. /\ (Len(Block.data) + 3) \div 4 \in Nat /\ Len(Block.instrs) \in Nat
            /\ Len(Block.words) \in Nat
        BY <2>2, SizeType
      <4>3. \A n, g, w \in Nat : item - n - g \in 1 .. w => ~(item <= n)
        BY <2>2
      <4> QED
        BY <4>1, <4>2, <4>3 DEF Referenced
    <3>3. CASE IsDefined(Word.symbol)
      BY <1>1, <2>2, <2>3, <3>1, <3>2, <3>3, DefinedSymbol
    <3>4. CASE ~IsDefined(Word.symbol)
      <4>1. LabelSymbol(Word.symbol) = RawName(Word.symbol)
        BY <1>1, <2>2, <3>4, NoBlock
      <4> QED
        BY <1>1, <2>2, <2>3, <3>1, <3>2, <3>4, <4>1, ImportedSymbol
    <3> QED
      BY <3>3, <3>4
  <2> QED
    BY <2>1, <2>4, <2>5, <2>6, <2>7
<1>2. LayoutInv /\ TablesAgree /\ ImportsEntered /\ NamesApart /\ [Next]_vars => [Right]_vars
  BY <1>1
<1>3. NamesApart /\ [Next]_vars => NamesApart'
  <2> SUFFICES ASSUME [Next]_vars PROVE NamesApart => NamesApart'
    OBVIOUS
  <2>1. UNCHANGED src
    BY DEF Next, Step, Pass1, Middle, Pass2, Terminated, vars, AssignAddress,
           RejectCodeOutsideText, EndPass1, CheckExports, RejectExport, RecordImport,
           AllocateBuffers, EmitInstruction, EmitPayload, EmitOperands, EmitJump,
           EmitExternalJump, EmitAddress, EmitExternalAddress, EmitData, EmitNumber,
           EmitSymbolWord, Emit, RejectInstruction, RejectWord, NextBlock, Return, Fail
  <2> QED
    BY <2>1 DEF NamesApart, Cut, IsPublic, IsExported, IsImported
<1> QED
  BY <1>2, <1>3, LayoutInvariant, TablesCorrect, PTL DEF Spec, RelocNamesItsTarget

(* The invariant of CodeGenInv, whole.                                     *)
THEOREM Invariant == Spec => []IInv
<1>1. LayoutInv /\ (Ordered /\ JumpsEncoded) /\ (TablesAgree /\ ImportsEntered) => IInv
  BY DEF IInv
<1> QED
  BY <1>1, LayoutInvariant, JumpsCorrect, TablesCorrect, PTL

---------------------------------------------------------------------------
(***************************************************************************)
(* The refinement: CodeGen implements ObjectSpec.                          *)
(***************************************************************************)

(* ObjectSpec's data, sizes and encodings are the code generator's.        *)
LEMMA SameData ==
  /\ Abstract!Sections = Sections /\ Abstract!TEXT = TEXT /\ Abstract!COLLECT = COLLECT
  /\ Abstract!FixupKinds = FixupKinds /\ Abstract!OperandKinds = OperandKinds
  /\ \A b : /\ Abstract!SectionOf(b) = SectionOf(b)
            /\ Abstract!HoldsCodeOutsideText(b) <=> HoldsCodeOutsideText(b)
            /\ Abstract!Payload(b) = Payload(b)
            /\ Abstract!Units(b) = Units(b)
  /\ \A n : Abstract!UnitAddresses(n) = UnitAddresses(n)
  /\ \A l : Abstract!RawName(l) = RawName(l)
  /\ \A l, n : Abstract!UniqueName(l, n) = UniqueName(l, n)
<1> USE DEF Abstract!TEXT, Abstract!COLLECT, Abstract!DATA, TEXT, DATA, COLLECT
<1>1. /\ Abstract!Sections = Sections
      /\ Abstract!FixupKinds = FixupKinds /\ Abstract!OperandKinds = OperandKinds
  BY DEF Abstract!Sections, Sections, Abstract!FixupKinds, FixupKinds,
         Abstract!OperandKinds, OperandKinds
<1>2. \A b : Abstract!SectionOf(b) = SectionOf(b)
  BY DEF Abstract!SectionOf, SectionOf
<1>3. \A b : Abstract!HoldsCodeOutsideText(b) <=> HoldsCodeOutsideText(b)
  BY <1>2 DEF Abstract!HoldsCodeOutsideText, HoldsCodeOutsideText
<1>4. \A b : Abstract!Payload(b) = Payload(b) /\ Abstract!Units(b) = Units(b)
  BY DEF Abstract!Payload, Payload, Abstract!PaddedData, PaddedData, Abstract!Units, Units
<1>5. \A n : Abstract!UnitAddresses(n) = UnitAddresses(n)
  BY DEF Abstract!UnitAddresses, UnitAddresses
<1>6. \A l : Abstract!RawName(l) = RawName(l)
  BY DEF Abstract!RawName, RawName
<1>7. \A l, n : Abstract!UniqueName(l, n) = UniqueName(l, n)
  BY <1>6 DEF Abstract!UniqueName, UniqueName
<1> QED
  BY <1>1, <1>2, <1>3, <1>4, <1>5, <1>6, <1>7

(* A set counts the same in both modules.                                  *)
LEMMA SameCounts == \A S : Abstract!Cardinality(S) = Cardinality(S)
BY DEF Abstract!Cardinality, Cardinality

(* So are the bytes of a unit.                                             *)
LEMMA SameEncodings ==
  /\ \A op, low : Abstract!InstrUnit(op, low) = InstrUnit(op, low)
  /\ \A v : Abstract!WordUnit(v) = WordUnit(v)
  /\ \A data, k : Abstract!DataUnit(data, k) = DataUnit(data, k)
  /\ \A i : /\ Abstract!EncodeOperands(i) = EncodeOperands(i)
            /\ Abstract!OperandsFit(i) <=> OperandsFit(i)
  /\ \A i, m, n : Abstract!EncodeJump(i, m, n) = EncodeJump(i, m, n)
<1>1. \A op, low : Abstract!InstrUnit(op, low) = InstrUnit(op, low)
  BY DEF Abstract!InstrUnit, InstrUnit
<1>2. \A v : Abstract!WordUnit(v) = WordUnit(v)
  BY DEF Abstract!WordUnit, WordUnit
<1>3. \A data, k : Abstract!DataUnit(data, k) = DataUnit(data, k)
  BY DEF Abstract!DataUnit, DataUnit, Abstract!BytesUnit, BytesUnit
<1>4. Abstract!RelSpan = RelSpan /\ Abstract!RelHalf = RelHalf
  BY DEF Abstract!RelSpan, RelSpan, Abstract!RelHalf, RelHalf
<1>5. \A i : Abstract!EncodeOperands(i) = EncodeOperands(i)
  <2> TAKE i
  <2>1. /\ Abstract!EncodeRegReg(i) = EncodeRegReg(i)
        /\ Abstract!EncodeRegImm21(i) = EncodeRegImm21(i)
        /\ Abstract!EncodeReg(i) = EncodeReg(i)
        /\ Abstract!EncodeImm26(i) = EncodeImm26(i)
        /\ Abstract!EncodeNoOperand(i) = EncodeNoOperand(i)
    BY <1>1 DEF Abstract!EncodeRegReg, EncodeRegReg, Abstract!EncodeRegImm21,
       EncodeRegImm21, Abstract!EncodeReg, EncodeReg, Abstract!EncodeImm26,
       EncodeImm26, Abstract!EncodeNoOperand, EncodeNoOperand
  <2> QED
    BY <2>1 DEF Abstract!EncodeOperands, EncodeOperands
<1>6. \A i : Abstract!OperandsFit(i) <=> OperandsFit(i)
  BY <1>4 DEF Abstract!OperandsFit, OperandsFit
<1>7. \A i, m, n : Abstract!EncodeJump(i, m, n) = EncodeJump(i, m, n)
  <2>1. \A x : Abstract!SignExtend26(x) = SignExtend26(x)
    BY <1>4 DEF Abstract!SignExtend26, SignExtend26
  <2>2. \A x, y : Abstract!Substraction26(x, y) = Substraction26(x, y)
    BY <2>1 DEF Abstract!Substraction26, Substraction26
  <2> QED
    BY <1>1, <1>4, <2>2 DEF Abstract!EncodeJump, EncodeJump
<1> QED
  BY <1>1, <1>2, <1>3, <1>5, <1>6, <1>7

---------------------------------------------------------------------------
(* The units of a program, one for each k up to the number of block i's.   *)
LEMMA UnitsKnown ==
  ASSUME NEW p \in Source
  PROVE  /\ Len(p.blocks) \in Nat /\ DOMAIN p.blocks = 1 .. Len(p.blocks)
         /\ \A i \in DOMAIN p.blocks : /\ p.blocks[i] \in AsmBlock
                                       /\ Units(p.blocks[i]) \in Nat
         /\ \A u \in Abstract!AllUnits(p) :
              /\ u[1] \in DOMAIN p.blocks /\ u[2] \in 1 .. Units(p.blocks[u[1]])
              /\ u = <<u[1], u[2]>>
         /\ \A i \in DOMAIN p.blocks : \A k \in 1 .. Units(p.blocks[i]) :
              <<i, k>> \in Abstract!AllUnits(p)
         /\ IsFiniteSet(Abstract!AllUnits(p))
<1>1. p.blocks \in Seq(AsmBlock)
  BY DEF Source
<1>2. /\ Len(p.blocks) \in Nat /\ DOMAIN p.blocks = 1 .. Len(p.blocks)
      /\ \A i \in DOMAIN p.blocks : p.blocks[i] \in AsmBlock
  BY <1>1
<1>3. \A i \in DOMAIN p.blocks : Units(p.blocks[i]) \in Nat
  BY <1>2, SizeType
<1>4. \A i : Abstract!UnitsOf(p, i) = {i} \X (1 .. Units(p.blocks[i]))
  BY SameData DEF Abstract!UnitsOf
<1>5. Abstract!AllUnits(p) = UNION {Abstract!UnitsOf(p, i) : i \in DOMAIN p.blocks}
  BY DEF Abstract!AllUnits, Abstract!Positions
<1>6. ASSUME NEW u \in Abstract!AllUnits(p)
      PROVE  /\ u[1] \in DOMAIN p.blocks /\ u[2] \in 1 .. Units(p.blocks[u[1]])
             /\ u = <<u[1], u[2]>>
  <2>1. PICK i \in DOMAIN p.blocks : u \in Abstract!UnitsOf(p, i)
    BY <1>5
  <2>2. u \in {i} \X (1 .. Units(p.blocks[i]))
    BY <1>4, <2>1
  <2> QED
    BY <2>2
<1>7. ASSUME NEW i \in DOMAIN p.blocks, NEW k \in 1 .. Units(p.blocks[i])
      PROVE  <<i, k>> \in Abstract!AllUnits(p)
  <2>1. <<i, k>> \in {i} \X (1 .. Units(p.blocks[i]))
    OBVIOUS
  <2> QED
    BY <1>4, <1>5, <2>1
<1>8. IsFiniteSet(Abstract!AllUnits(p))
  <2> DEFINE m == Len(p.blocks)
  <2>1. \A i \in DOMAIN p.blocks : IsFiniteSet(Abstract!UnitsOf(p, i))
    <3> TAKE i \in DOMAIN p.blocks
    <3>1. 1 \in Int /\ Units(p.blocks[i]) \in Int
      BY <1>3
    <3>2. IsFiniteSet({i}) /\ IsFiniteSet(1 .. Units(p.blocks[i]))
      BY <3>1, FS_Singleton, FS_Interval
    <3>3. IsFiniteSet({i} \X (1 .. Units(p.blocks[i])))
      BY <3>2, FS_Product
    <3> QED
      BY <1>4, <3>3
  <2> DEFINE T == {Abstract!UnitsOf(p, i) : i \in DOMAIN p.blocks}
             f == [i \in 1 .. m |-> Abstract!UnitsOf(p, i)]
  <2>2. f \in Surjection(1 .. m, T)
    <3>1. f \in [1 .. m -> T]
      BY <1>2
    <3>2. \A t \in T : \E i \in 1 .. m : f[i] = t
      BY <1>2
    <3> QED
      BY <3>1, <3>2 DEF Surjection
  <2>3. IsFiniteSet(1 .. m)
    BY <1>2, FS_Interval
  <2> HIDE DEF f
  <2>4. IsFiniteSet(T)
    BY <2>2, <2>3, FS_Surjection
  <2>5. \A t \in T : IsFiniteSet(t)
    BY <2>1
  <2> HIDE DEF T
  <2>6. IsFiniteSet(UNION T)
    BY <2>4, <2>5, FS_UNION
  <2> QED
    BY <1>5, <2>6 DEF T
<1> QED
  BY <1>2, <1>3, <1>6, <1>7, <1>8

(* How many units there are in a section, block by block.                  *)
LEMMA UnitsCounted ==
  ASSUME NEW p \in Source, NEW s
  PROVE  /\ \A n \in Int : /\ IsFiniteSet(Abstract!UnitsUpTo(p, s, n))
                           /\ Cardinality(Abstract!UnitsUpTo(p, s, n)) \in Nat
         /\ Cardinality(Abstract!UnitsUpTo(p, s, 0)) = 0
         /\ \A n \in DOMAIN p.blocks :
              Cardinality(Abstract!UnitsUpTo(p, s, n))
                = Cardinality(Abstract!UnitsUpTo(p, s, n - 1))
                  + IF SectionOf(p.blocks[n]) = s THEN Units(p.blocks[n]) ELSE 0
<1> DEFINE All == Abstract!AllUnits(p)
           UpTo(n) == Abstract!UnitsUpTo(p, s, n)
<1>1. \A n : UpTo(n) = {u \in All : u[1] <= n /\ SectionOf(p.blocks[u[1]]) = s}
  BY SameData DEF Abstract!UnitsUpTo, Abstract!SectionAt
<1>2. IsFiniteSet(All) /\ \A u \in All : u[1] \in DOMAIN p.blocks
  BY UnitsKnown
<1>3. Len(p.blocks) \in Nat /\ DOMAIN p.blocks = 1 .. Len(p.blocks)
  BY UnitsKnown
<1> HIDE DEF All, UpTo
<1>4. ASSUME NEW n PROVE IsFiniteSet(UpTo(n)) /\ Cardinality(UpTo(n)) \in Nat
  <2>1. UpTo(n) \in SUBSET All
    BY <1>1
  <2> QED
    BY <1>2, <2>1, FS_Subset, FS_CardinalityType
<1>5. Cardinality(UpTo(0)) = 0
  <2>1. UpTo(0) = {}
    BY <1>1, <1>2, <1>3
  <2> QED
    BY <2>1, FS_EmptySet
<1>6. ASSUME NEW n \in DOMAIN p.blocks
      PROVE  Cardinality(UpTo(n)) = Cardinality(UpTo(n - 1))
               + IF SectionOf(p.blocks[n]) = s THEN Units(p.blocks[n]) ELSE 0
  <2>1. \A u \in All : u[1] <= n <=> (u[1] <= n - 1 \/ u[1] = n)
    BY <1>2, <1>3
  <2>2. CASE SectionOf(p.blocks[n]) # s
    <3>1. UpTo(n) = UpTo(n - 1)
      BY <1>1, <2>1, <2>2
    <3> QED
      BY <1>4, <2>2, <3>1
  <2>3. CASE SectionOf(p.blocks[n]) = s
    <3> DEFINE Own == {n} \X (1 .. Units(p.blocks[n]))
    <3>1. Units(p.blocks[n]) \in Nat
      BY UnitsKnown
    <3>2. Own = {u \in All : u[1] = n}
      <4>1. \A u \in All : u[1] = n => u \in Own
        <5> TAKE u \in All
        <5>1. u[2] \in 1 .. Units(p.blocks[u[1]]) /\ u = <<u[1], u[2]>>
          BY UnitsKnown DEF All
        <5> QED
          BY <5>1
      <4>2. \A u \in Own : u \in All /\ u[1] = n
        <5> TAKE u \in Own
        <5>1. u = <<n, u[2]>> /\ u[1] = n /\ u[2] \in 1 .. Units(p.blocks[n])
          OBVIOUS
        <5> QED
          BY <5>1, UnitsKnown DEF All
      <4> QED
        BY <4>1, <4>2
    <3>3. IsFiniteSet(Own) /\ Cardinality(Own) = Units(p.blocks[n])
      <4>1. 1 \in Int /\ Units(p.blocks[n]) \in Int
        BY <3>1
      <4>2. /\ IsFiniteSet(1 .. Units(p.blocks[n]))
            /\ Cardinality(1 .. Units(p.blocks[n])) = Units(p.blocks[n])
        BY <3>1, <4>1, FS_Interval
      <4>3. IsFiniteSet({n}) /\ Cardinality({n}) = 1
        BY FS_Singleton
      <4>4. IsFiniteSet(Own) /\ Cardinality(Own) = 1 * Units(p.blocks[n])
        BY <4>2, <4>3, FS_Product
      <4> QED
        BY <3>1, <4>4
    <3> HIDE DEF Own
    <3>4. UpTo(n) = UpTo(n - 1) \cup Own /\ UpTo(n - 1) \cap Own = {}
      BY <1>1, <1>2, <1>3, <2>1, <2>3, <3>2
    <3>5. Cardinality(UpTo(n)) = Cardinality(UpTo(n - 1)) + Cardinality(Own)
                                   - Cardinality(UpTo(n - 1) \cap Own)
      BY <1>4, <3>3, <3>4, FS_Union
    <3>6. Cardinality(UpTo(n - 1) \cap Own) = 0
      BY <3>4, FS_EmptySet
    <3>7. Cardinality(UpTo(n)) = Cardinality(UpTo(n - 1)) + Units(p.blocks[n])
      <4>1. Cardinality(UpTo(n - 1)) \in Nat
        BY <1>4
      <4> QED
        BY <3>1, <3>3, <3>5, <3>6, <4>1
    <3> QED
      BY <2>3, <3>7
  <2> QED
    BY <2>2, <2>3
<1> QED
  BY <1>4, <1>5, <1>6 DEF UpTo

(* The places that a program gives its blocks are numbers.                 *)
LEMMA PlacesType ==
  ASSUME NEW p \in Source
  PROVE  /\ \A i \in DOMAIN p.blocks : Abstract!Base(p, i) \in Nat
         /\ \A s : Abstract!Total(p, s) \in Nat
<1>1. \A s, n : n \in Int => Cardinality(Abstract!UnitsUpTo(p, s, n)) \in Nat
  BY UnitsCounted
<1>2. Len(p.blocks) \in Int /\ \A i \in DOMAIN p.blocks : i - 1 \in Int
  BY UnitsKnown
<1>3. \A n \in Nat : 4 * n \in Nat
  OBVIOUS
<1>4. ASSUME NEW i \in DOMAIN p.blocks PROVE Abstract!Base(p, i) \in Nat
  <2>1. Cardinality(Abstract!UnitsUpTo(p, Abstract!SectionAt(p, i), i - 1)) \in Nat
    BY <1>1, <1>2
  <2> QED
    BY <1>3, <2>1, SameCounts DEF Abstract!Base
<1>5. ASSUME NEW s PROVE Abstract!Total(p, s) \in Nat
  <2>1. Cardinality(Abstract!UnitsUpTo(p, s, Len(p.blocks))) \in Nat
    BY <1>1, <1>2
  <2> QED
    BY <1>3, <2>1, SameCounts DEF Abstract!Total
<1> QED
  BY <1>4, <1>5

---------------------------------------------------------------------------
(* Names, chunks and missing imports, counted one by one.                  *)
LEMMA PrivateCounted ==
  ASSUME NEW p \in Source
  PROVE  /\ Abstract!PrivateUpTo(p, 0) = 0
         /\ \A n \in Nat : Abstract!PrivateUpTo(p, n) \in Nat
         /\ \A n \in DOMAIN p.blocks :
              Abstract!PrivateUpTo(p, n)
                = Abstract!PrivateUpTo(p, n - 1)
                  + IF Abstract!Public(p, p.blocks[n].label) THEN 0 ELSE 1
<1> DEFINE Private(n) == {j \in 1 .. n : ~Abstract!Public(p, p.blocks[j].label)}
<1>1. ASSUME NEW n PROVE Abstract!PrivateUpTo(p, n) = Cardinality(Private(n))
  BY SameCounts DEF Abstract!PrivateUpTo
<1>2. DOMAIN p.blocks \subseteq Nat \ {0}
  BY UnitsKnown
<1>3. ASSUME NEW n \in Nat PROVE IsFiniteSet(Private(n)) /\ Cardinality(Private(n)) \in Nat
  <2>1. Private(n) \in SUBSET (1 .. n) /\ 1 \in Int /\ n \in Int
    OBVIOUS
  <2> HIDE DEF Private
  <2> QED
    BY <2>1, FiniteWithin
<1>4. Private(0) = {}
  OBVIOUS
<1>5. ASSUME NEW n \in DOMAIN p.blocks
      PROVE  Cardinality(Private(n)) = Cardinality(Private(n - 1))
               + IF Abstract!Public(p, p.blocks[n].label) THEN 0 ELSE 1
  <2>1. n \in Nat \ {0} /\ n - 1 \in Nat
    BY <1>2
  <2>2. CASE Abstract!Public(p, p.blocks[n].label)
    <3>1. Private(n) = Private(n - 1)
      BY <2>1, <2>2
    <3> HIDE DEF Private
    <3> QED
      BY <1>3, <2>1, <2>2, <3>1
  <2>3. CASE ~Abstract!Public(p, p.blocks[n].label)
    <3>1. Private(n) = Private(n - 1) \cup {n} /\ n \notin Private(n - 1)
      BY <2>1, <2>3
    <3> HIDE DEF Private
    <3> QED
      BY <1>3, <2>1, <2>3, <3>1, FS_AddElement
  <2> QED
    BY <2>2, <2>3
<1>6. \A n \in DOMAIN p.blocks : n \in Nat
  BY <1>2
<1> HIDE DEF Private
<1> QED
  BY <1>1, <1>3, <1>4, <1>5, <1>6, FS_EmptySet

(* One more block is one more chunk, or none.                              *)
LEMMA CollectedCounted ==
  ASSUME NEW p \in Source
  PROVE  /\ Abstract!CollectedUpTo(p, 0) = {}
         /\ \A n \in Nat : /\ IsFiniteSet(Abstract!CollectedUpTo(p, n))
                           /\ Abstract!CollectedUpTo(p, n) \in SUBSET (1 .. n)
         /\ \A n \in DOMAIN p.blocks :
              Abstract!CollectedUpTo(p, n)
                = Abstract!CollectedUpTo(p, n - 1)
                  \cup IF SectionOf(p.blocks[n]) = COLLECT THEN {n} ELSE {}
<1>1. ASSUME NEW n
      PROVE  Abstract!CollectedUpTo(p, n) = {i \in 1 .. n : SectionOf(p.blocks[i]) = COLLECT}
  BY SameData DEF Abstract!CollectedUpTo, Abstract!SectionAt
<1>2. \A n \in DOMAIN p.blocks : n \in Nat \ {0}
  BY UnitsKnown
<1>3. ASSUME NEW n \in Nat
      PROVE  /\ IsFiniteSet(Abstract!CollectedUpTo(p, n))
             /\ Abstract!CollectedUpTo(p, n) \in SUBSET (1 .. n)
  <2>1. /\ Abstract!CollectedUpTo(p, n) \in SUBSET (1 .. n)
        /\ 1 \in Int /\ n \in Int
    BY <1>1
  <2> QED
    BY <2>1, FiniteWithin
<1>4. Abstract!CollectedUpTo(p, 0) = {}
  BY <1>1
<1>5. ASSUME NEW n \in DOMAIN p.blocks
      PROVE  Abstract!CollectedUpTo(p, n)
               = Abstract!CollectedUpTo(p, n - 1)
                 \cup IF SectionOf(p.blocks[n]) = COLLECT THEN {n} ELSE {}
  <2>1. \A i : i \in 1 .. n <=> i \in 1 .. n - 1 \/ i = n
    BY <1>2
  <2> QED
    BY <1>1, <2>1
<1> QED
  BY <1>3, <1>4, <1>5

(* One more import is one more missing one, or none.                       *)
LEMMA MissingCounted ==
  ASSUME NEW p \in Source
  PROVE  /\ Abstract!MissingUpTo(p, 0) = {}
         /\ \A n \in Nat : /\ IsFiniteSet(Abstract!MissingUpTo(p, n))
                           /\ Abstract!MissingUpTo(p, n) \in SUBSET (1 .. n)
         /\ \A n \in DOMAIN p.imports :
              Abstract!MissingUpTo(p, n)
                = Abstract!MissingUpTo(p, n - 1)
                  \cup IF Abstract!Missing(p, n) THEN {n} ELSE {}
<1>1. ASSUME NEW n
      PROVE  Abstract!MissingUpTo(p, n) = {i \in 1 .. n : Abstract!Missing(p, i)}
  BY DEF Abstract!MissingUpTo
<1>2. \A n \in DOMAIN p.imports : n \in Nat \ {0}
  BY DEF Source
<1>3. ASSUME NEW n \in Nat
      PROVE  /\ IsFiniteSet(Abstract!MissingUpTo(p, n))
             /\ Abstract!MissingUpTo(p, n) \in SUBSET (1 .. n)
  <2>1. /\ Abstract!MissingUpTo(p, n) \in SUBSET (1 .. n)
        /\ 1 \in Int /\ n \in Int
    BY <1>1
  <2> QED
    BY <2>1, FiniteWithin
<1>4. Abstract!MissingUpTo(p, 0) = {}
  BY <1>1
<1>5. ASSUME NEW n \in DOMAIN p.imports
      PROVE  Abstract!MissingUpTo(p, n)
               = Abstract!MissingUpTo(p, n - 1)
                 \cup IF Abstract!Missing(p, n) THEN {n} ELSE {}
  <2>1. \A i : i \in 1 .. n <=> i \in 1 .. n - 1 \/ i = n
    BY <1>2
  <2> QED
    BY <1>1, <2>1
<1> QED
  BY <1>3, <1>4, <1>5

---------------------------------------------------------------------------
(* What is there so far: pass 1.                                           *)

(* The code generator and the object file agree on what is public.         *)
LEMMA SamePublic ==
  \A l : IsPublic(l) <=> Abstract!Public(src, l)
BY DEF IsPublic, IsExported, Abstract!Public

(* An appended entry is the last; those before it stay.                    *)
LEMMA Appended ==
  ASSUME NEW S, NEW table \in Seq(S), NEW e
  PROVE  /\ Len(Append(table, e)) = Len(table) + 1 /\ Len(table) \in Nat
         /\ \A i \in 1 .. Len(table) : Append(table, e)[i] = table[i]
         /\ Append(table, e)[Len(table) + 1] = e
OBVIOUS

(* No block has been placed at first.                                      *)
LEMMA BlocksInit == Init => BlocksSoFar
<1> SUFFICES ASSUME Init PROVE BlocksSoFar
  OBVIOUS
<1>1. /\ src \in Source /\ phase = "pass1" /\ labelMap = << >> /\ collects = << >>
      /\ local_label_counter = 1 /\ cursor = [s \in Sections |-> 0]
  BY ProgramsAssumption DEF Init
<1>2. Len(labelMap) = 0 /\ DOMAIN labelMap = {} /\ Len(collects) = 0
  BY <1>1
<1>3. \A s \in Sections : cursor[s] = 4 * Cardinality(Abstract!UnitsUpTo(src, s, 0))
  <2>1. \A s : Cardinality(Abstract!UnitsUpTo(src, s, 0)) = 0
    BY <1>1, UnitsCounted
  <2>2. \A s \in Sections : cursor[s] = 0
    BY <1>1
  <2> QED
    BY <2>1, <2>2
<1>4. local_label_counter = 1 + Abstract!PrivateUpTo(src, 0)
  BY <1>1, PrivateCounted
<1>5. Abstract!CollectedUpTo(src, 0) = {} /\ Cardinality({}) = 0
  BY <1>1, CollectedCounted, FS_EmptySet
<1> QED
  BY <1>1, <1>2, <1>3, <1>4, <1>5 DEF BlocksSoFar, AfterPass1

(* One more block gets the address, the name, the symbol and the chunk     *)
(* that belong to it.                                                      *)
LEMMA BlocksAssign ==
  ASSUME IInv, BlocksSoFar, AssignAddress
  PROVE  BlocksSoFar'
<1> DEFINE n == Len(labelMap)
           own == SectionOf(Block)
           label == Block.label
           name == IF IsPublic(label) THEN RawName(label)
                   ELSE UniqueName(label, local_label_counter)
           counted(s, k) == Cardinality(Abstract!UnitsUpTo(src, s, k))
<1>1. TypeOK /\ OneEntryPerBlock /\ TablesAgree
  BY DEF IInv, LayoutInv
<1>2. /\ phase = "pass1" /\ phase' = "pass1" /\ src' = src /\ line = n + 1
      /\ line <= Len(Blocks) /\ ~HoldsCodeOutsideText(Block)
      /\ cursor' = [cursor EXCEPT ![own] = @ + BlockSize(Block)]
  BY <1>1 DEF AssignAddress, OneEntryPerBlock, Advance, TypeOK
<1>3. /\ labelMap' = Append(labelMap, [label |-> label, address |-> cursor[own]])
      /\ symbols' = Append(symbols, [name |-> name, type |-> "DEFINED",
                                     section |-> own, offset |-> cursor[own]])
      /\ local_label_counter' = local_label_counter + IF IsPublic(label) THEN 0 ELSE 1
      /\ collects' = IF own = COLLECT
           THEN Append(collects, [name |-> Block.section, offset |-> cursor[own],
                                  size |-> Payload(Block)])
           ELSE collects
  BY DEF AssignAddress
<1>4. /\ n \in Nat /\ src \in Source /\ Blocks = src.blocks /\ Block = src.blocks[n + 1]
      /\ n + 1 \in DOMAIN src.blocks /\ Block \in AsmBlock /\ own \in Sections
      /\ n + 1 \in Nat /\ (n + 1) - 1 = n
  <2>1. n \in Nat /\ src \in Source /\ Blocks = src.blocks /\ Block = src.blocks[line]
    BY <1>1 DEF TypeOK, Blocks, Block
  <2>2. DOMAIN src.blocks = 1 .. Len(src.blocks) /\ Len(src.blocks) \in Nat
    BY <2>1, UnitsKnown
  <2>3. n + 1 \in DOMAIN src.blocks /\ (n + 1) - 1 = n /\ n + 1 \in Nat
    BY <1>2, <2>1, <2>2
  <2>4. Block \in AsmBlock
    BY <1>2, <2>1, <2>3, UnitsKnown
  <2> QED
    BY <1>2, <2>1, <2>3, <2>4, SectionOfType
<1>5. /\ labelMap \in Seq(LabelAddressMapping) /\ symbols \in Seq(ObjSymbol)
      /\ collects \in Seq(ObjCollect) /\ Len(symbols) = n
      /\ cursor \in [Sections -> Nat] /\ local_label_counter \in Nat
  BY <1>1, <1>2 DEF TypeOK, TablesAgree
<1> HIDE DEF own, label, name
<1>6. Len(labelMap') = n + 1 /\ DOMAIN labelMap' = 1 .. n + 1
  BY <1>3, <1>4, <1>5
<1>7. /\ \A s \in Sections : cursor[s] = 4 * counted(s, n)
      /\ \A s : counted(s, n) \in Nat
      /\ \A s : counted(s, n + 1) = counted(s, n) + IF own = s THEN Units(Block) ELSE 0
      /\ BlockSize(Block) = 4 * Units(Block) /\ Units(Block) \in Nat
  <2>1. \A s \in Sections : cursor[s] = 4 * counted(s, n)
    BY <1>2 DEF BlocksSoFar
  <2>2. src \in Source /\ n \in Int /\ n + 1 \in DOMAIN src.blocks
        /\ Block = src.blocks[n + 1] /\ own = SectionOf(src.blocks[n + 1]) /\ (n + 1) - 1 = n
    BY <1>4 DEF own
  <2> HIDE DEF n
  <2>3. ASSUME NEW s PROVE counted(s, n) \in Nat
    BY <2>2, UnitsCounted
  <2>4. ASSUME NEW s
        PROVE  counted(s, n + 1) = counted(s, n) + IF own = s THEN Units(Block) ELSE 0
    <3>1. \A m \in DOMAIN src.blocks :
            counted(s, m) = counted(s, m - 1)
              + IF SectionOf(src.blocks[m]) = s THEN Units(src.blocks[m]) ELSE 0
      BY <2>2, UnitsCounted
    <3> HIDE DEF counted
    <3> QED
      BY <2>2, <3>1
  <2> QED
    BY <1>4, <2>1, <2>3, <2>4, SizeType
<1> HIDE DEF counted
<1>8. \A s \in Sections : cursor'[s] = 4 * counted(s, n + 1)
  <2> TAKE s \in Sections
  <2>1. CASE s = own
    <3>1. cursor'[s] = cursor[s] + BlockSize(Block)
      BY <1>2, <1>4, <1>5, <2>1
    <3> QED
      BY <1>7, <2>1, <3>1
  <2>2. CASE s # own
    <3>1. cursor'[s] = cursor[s]
      BY <1>2, <1>5, <2>2
    <3> QED
      BY <1>7, <2>2, <3>1
  <2> QED
    BY <2>1, <2>2
<1>9. /\ local_label_counter' = 1 + Abstract!PrivateUpTo(src, n + 1)
      /\ ~IsPublic(label) => local_label_counter = Abstract!PrivateUpTo(src, n + 1)
  <2>1. local_label_counter = 1 + Abstract!PrivateUpTo(src, n)
    BY DEF BlocksSoFar
  <2>2. Abstract!PrivateUpTo(src, n + 1)
          = Abstract!PrivateUpTo(src, n) + IF IsPublic(label) THEN 0 ELSE 1
    BY <1>4, PrivateCounted, SamePublic DEF label
  <2>3. Abstract!PrivateUpTo(src, n) \in Nat
    BY <1>4, PrivateCounted
  <2> QED
    BY <1>3, <2>1, <2>2, <2>3
<1>10. cursor[own] = Abstract!Base(src, n + 1)
  BY <1>4, <1>7, SameData, SameCounts DEF counted, own, Abstract!Base, Abstract!SectionAt
<1>11. symbols'[n + 1] = Abstract!DefinedSymbol(src, n + 1)
  <2>1. name = Abstract!NameOfBlock(src, n + 1)
    BY <1>4, <1>9, SamePublic, SameData DEF name, label, Abstract!NameOfBlock
  <2>2. own = Abstract!SectionAt(src, n + 1)
    BY <1>4, SameData DEF own, Abstract!SectionAt
  <2>3. symbols'[n + 1] = [name |-> name, type |-> "DEFINED",
                           section |-> own, offset |-> cursor[own]]
    BY <1>3, <1>5, Appended
  <2> QED
    BY <1>10, <2>1, <2>2, <2>3 DEF Abstract!DefinedSymbol
<1>12. \A i \in 1 .. n + 1 : symbols'[i] = Abstract!DefinedSymbol(src, i)
  <2>1. \A i \in 1 .. n : symbols[i] = Abstract!DefinedSymbol(src, i)
    BY <1>5 DEF BlocksSoFar
  <2>2. \A i \in 1 .. n : symbols'[i] = symbols[i]
    BY <1>3, <1>5, Appended
  <2> QED
    BY <1>4, <1>11, <2>1, <2>2
<1>13. LET collected == Abstract!CollectedUpTo(src, n + 1)
       IN  /\ Len(collects') = Cardinality(collected)
           /\ \A i \in collected :
                collects'[Cardinality(Abstract!CollectedUpTo(src, i))] = Abstract!Chunk(src, i)
  <2> DEFINE before == Abstract!CollectedUpTo(src, n)
             rank(i) == Cardinality(Abstract!CollectedUpTo(src, i))
  <2>1. /\ IsFiniteSet(before) /\ before \in SUBSET (1 .. n)
        /\ Abstract!CollectedUpTo(src, n + 1) = before \cup IF own = COLLECT THEN {n + 1} ELSE {}
    BY <1>4, CollectedCounted DEF own
  <2>2. /\ Len(collects) = Cardinality(before)
        /\ \A i \in before : collects[rank(i)] = Abstract!Chunk(src, i)
    BY DEF BlocksSoFar
  <2>3. CASE own # COLLECT
    BY <1>3, <2>1, <2>2, <2>3
  <2>4. CASE own = COLLECT
    <3>1. n + 1 \notin before
      BY <1>4, <2>1
    <3>2. /\ Abstract!CollectedUpTo(src, n + 1) = before \cup {n + 1}
          /\ Cardinality(before \cup {n + 1}) = Cardinality(before) + 1
          /\ Cardinality(before) \in Nat
      BY <2>1, <2>4, <3>1, FS_AddElement, FS_CardinalityType
    <3>3. \A i \in before : rank(i) \in 1 .. Len(collects)
      <4> TAKE i \in before
      <4>1. i \in Nat /\ i \in 1 .. n
        BY <2>1
      <4>2. /\ Abstract!CollectedUpTo(src, i) \in SUBSET before
            /\ i \in Abstract!CollectedUpTo(src, i)
        BY <1>4, <4>1 DEF Abstract!CollectedUpTo
      <4>3. rank(i) <= Cardinality(before) /\ IsFiniteSet(Abstract!CollectedUpTo(src, i))
        BY <2>1, <4>2, FS_Subset
      <4>4. rank(i) \in Nat /\ rank(i) # 0
        BY <4>2, <4>3, FS_CardinalityType, FS_EmptySet
      <4> HIDE DEF rank
      <4> QED
        BY <2>2, <3>2, <4>3, <4>4
    <3>4. collects' = Append(collects, Abstract!Chunk(src, n + 1))
      BY <1>3, <1>4, <1>10, <2>4, SameData DEF Abstract!Chunk
    <3>5. /\ Len(collects') = Len(collects) + 1
          /\ \A i \in 1 .. Len(collects) : collects'[i] = collects[i]
          /\ collects'[Len(collects) + 1] = Abstract!Chunk(src, n + 1)
      BY <1>5, <3>4, Appended
    <3>6. \A i \in before : collects'[rank(i)] = Abstract!Chunk(src, i)
      BY <2>2, <3>3, <3>5
    <3>7. rank(n + 1) = Len(collects) + 1
      BY <2>2, <3>2
    <3> HIDE DEF rank
    <3>8. \A i \in before \cup {n + 1} : collects'[rank(i)] = Abstract!Chunk(src, i)
      BY <3>5, <3>6, <3>7
    <3> QED
      BY <2>2, <3>2, <3>5, <3>8 DEF rank
  <2> QED
    BY <2>3, <2>4
<1>14. phase' \notin AfterPass1
  BY <1>2 DEF AfterPass1
<1> QED
  BY <1>2, <1>6, <1>8, <1>9, <1>12, <1>13, <1>14 DEF BlocksSoFar, counted

(* Every step keeps what pass 1 has found.                                 *)
LEMMA BlocksStep ==
  ASSUME IInv, BlocksSoFar, [Next]_vars
  PROVE  BlocksSoFar'
<1>1. TypeOK /\ OneEntryPerBlock /\ TablesAgree
  BY DEF IInv, LayoutInv
<1>2. CASE AssignAddress
  BY <1>2, BlocksAssign
<1>3. CASE EndPass1
  <2>1. /\ UNCHANGED <<src, labelMap, local_label_counter, collects, symbols>>
        /\ size' = cursor /\ phase = "pass1" /\ phase' = "exports"
    BY <1>3 DEF EndPass1, tables
  <2>2. Len(labelMap) = Len(src.blocks)
    BY <1>1, <1>3 DEF EndPass1, OneEntryPerBlock, TypeOK, Source, Blocks
  <2>3. \A s \in Sections : size'[s] = Abstract!Total(src, s)
    <3> TAKE s \in Sections
    <3>1. cursor[s] = 4 * Cardinality(Abstract!UnitsUpTo(src, s, Len(labelMap)))
      BY <2>1 DEF BlocksSoFar
    <3> QED
      BY <2>1, <2>2, <3>1, SameCounts DEF Abstract!Total
  <2> QED
    BY <2>1, <2>3 DEF BlocksSoFar
<1>4. CASE UNCHANGED vars
  BY <1>4 DEF BlocksSoFar, vars, tables
<1>5. CASE ~AssignAddress /\ ~EndPass1 /\ ~UNCHANGED vars
  <2>1. /\ UNCHANGED <<src, labelMap, local_label_counter, collects, size>>
        /\ phase' # "pass1" /\ (phase' \in AfterPass1 => phase \in AfterPass1)
        /\ UNCHANGED symbols \/ \E e : symbols' = Append(symbols, e)
    BY <1>5 DEF Next, Step, Pass1, Middle, Pass2, EmitInstruction, EmitPayload,
      RejectCodeOutsideText, CheckExports, RejectExport, RecordImport,
      AllocateBuffers, EmitOperands, EmitJump, EmitExternalJump, EmitAddress,
      EmitExternalAddress, RejectInstruction, EmitData, EmitNumber, EmitSymbolWord,
      RejectWord, NextBlock, Return, Terminated, Fail, Emit, tables, AtInstr,
      InBlock, AtWord, AfterPass1
  <2>2. \A i \in DOMAIN labelMap : symbols'[i] = symbols[i]
    <3>1. /\ symbols \in Seq(ObjSymbol) /\ Len(labelMap) <= Len(symbols)
          /\ DOMAIN labelMap = 1 .. Len(labelMap) /\ Len(labelMap) \in Nat
      BY <1>1 DEF TypeOK, TablesAgree
    <3>2. \A i \in DOMAIN labelMap : i \in 1 .. Len(symbols)
      BY <3>1
    <3> QED
      BY <2>1, <3>1, <3>2, Appended
  <2> QED
    BY <2>1, <2>2 DEF BlocksSoFar
<1> QED
  BY <1>2, <1>3, <1>4, <1>5

---------------------------------------------------------------------------
(* What the tables say of a label, once pass 1 is over.                    *)
LEMMA LookupsMean ==
  ASSUME IInv, BlocksSoFar, phase \in AfterPass1, NEW l
  PROVE  /\ IsDefined(l) <=> Abstract!IsDefined(src, l)
         /\ IsDefined(l) => LabelAddress(l) = Abstract!AddressOf(src, l)
         /\ LabelSymbol(l) = Abstract!NameOf(src, l)
         /\ IsImported(l) <=> Abstract!Imported(src, l)
<1> DEFINE hits == {i \in DOMAIN labelMap : labelMap[i].label = l}
           named == {i \in DOMAIN labelSymbolMap : labelSymbolMap[i].source_label = l}
           home == Abstract!Home(src, l)
<1>1. TypeOK /\ OneEntryPerBlock /\ TablesAgree
  BY DEF IInv, LayoutInv
<1>2. /\ DOMAIN labelMap = DOMAIN src.blocks /\ DOMAIN labelSymbolMap = DOMAIN src.blocks
      /\ DOMAIN src.blocks \in SUBSET Nat /\ 0 \notin DOMAIN src.blocks
  BY <1>1 DEF TypeOK, OneEntryPerBlock, TablesAgree, Source, Blocks
<1>3. \A i \in DOMAIN src.blocks :
        /\ labelMap[i].label = src.blocks[i].label
        /\ labelSymbolMap[i].source_label = src.blocks[i].label
        /\ labelMap[i].address = Abstract!Base(src, i)
        /\ labelSymbolMap[i].symbol_name = Abstract!NameOfBlock(src, i)
  <2> TAKE i \in DOMAIN src.blocks
  <2>1. /\ labelMap[i].label = Blocks[i].label
        /\ labelSymbolMap[i].source_label = labelMap[i].label
        /\ symbols[i] = [name |-> labelSymbolMap[i].symbol_name, type |-> "DEFINED",
                         section |-> SectionAt(i), offset |-> labelMap[i].address]
    BY <1>1, <1>2 DEF TablesAgree
  <2>2. symbols[i] = Abstract!DefinedSymbol(src, i)
    BY <1>2 DEF BlocksSoFar
  <2>3. /\ Abstract!DefinedSymbol(src, i).name = Abstract!NameOfBlock(src, i)
        /\ Abstract!DefinedSymbol(src, i).offset = Abstract!Base(src, i)
    BY DEF Abstract!DefinedSymbol
  <2>4. /\ symbols[i].name = labelSymbolMap[i].symbol_name
        /\ symbols[i].offset = labelMap[i].address
    BY <2>1
  <2> QED
    BY <2>1, <2>2, <2>3, <2>4 DEF Blocks
<1>4. /\ hits = Abstract!Homes(src, l) /\ named = Abstract!Homes(src, l)
      /\ hits \in SUBSET (DOMAIN src.blocks)
  BY <1>2, <1>3 DEF Abstract!Homes, Abstract!Positions
<1>5. IsDefined(l) <=> hits # {}
  BY DEF IsDefined
<1>6. Abstract!IsDefined(src, l) <=> hits # {}
  BY <1>4 DEF Abstract!IsDefined
<1>7. ASSUME hits # {}
      PROVE  /\ home \in DOMAIN src.blocks
             /\ FirstIndex(labelMap, LAMBDA e : e.label = l) = home
             /\ FirstIndex(labelSymbolMap, LAMBDA e : e.source_label = l) = home
  <2>1. \E i \in hits : \A j \in hits : i <= j
    BY <1>2, <1>4, <1>7, LeastOf
  <2>2. home = CHOOSE i \in hits : \A j \in hits : i <= j
    BY <1>4 DEF Abstract!Home
  <2>3. home = CHOOSE i \in named : \A j \in named : i <= j
    BY <1>4 DEF Abstract!Home
  <2>4. home \in hits
    BY <2>1, <2>2
  <2>5. FirstIndex(labelMap, LAMBDA e : e.label = l) = home
    BY <1>7, <2>2 DEF FirstIndex
  <2>6. FirstIndex(labelSymbolMap, LAMBDA e : e.source_label = l) = home
    BY <1>4, <1>7, <2>3 DEF FirstIndex
  <2> QED
    BY <1>4, <2>4, <2>5, <2>6
<1> HIDE DEF hits, named, home
<1>8. IsDefined(l) => LabelAddress(l) = Abstract!AddressOf(src, l)
  BY <1>3, <1>5, <1>7 DEF LabelAddress, Abstract!AddressOf, home
<1>9. LabelSymbol(l) = Abstract!NameOf(src, l)
  <2>1. CASE hits # {}
    <3>1. LabelSymbol(l) = labelSymbolMap[home].symbol_name
      BY <1>2, <1>7, <2>1 DEF LabelSymbol
    <3> QED
      BY <1>3, <1>6, <1>7, <2>1, <3>1 DEF Abstract!NameOf, home
  <2>2. CASE hits = {}
    <3>1. named = {}
      BY <1>4, <2>2
    <3>2. FirstIndex(labelSymbolMap, LAMBDA e : e.source_label = l) = 0
      BY <3>1 DEF FirstIndex, named
    <3> QED
      BY <1>6, <2>2, <3>2, SameData DEF LabelSymbol, Abstract!NameOf
  <2> QED
    BY <2>1, <2>2
<1>10. IsImported(l) <=> Abstract!Imported(src, l)
  BY DEF IsImported, Abstract!Imported
<1> QED
  BY <1>5, <1>6, <1>8, <1>9, <1>10

---------------------------------------------------------------------------
(* What is there so far: the imports.                                      *)

(* Nothing is entered before the first import.                             *)
LEMMA NothingEntered ==
  ASSUME src \in Source, Len(symbols) = Len(Blocks), NEW n, n = 0
  PROVE  Entered(n)
<1> DEFINE missing == Abstract!MissingUpTo(src, n)
<1>1. missing = {} /\ Cardinality({}) = 0
  BY MissingCounted, FS_EmptySet
<1>2. Len(Blocks) \in Nat
  BY UnitsKnown DEF Blocks
<1> HIDE DEF missing
<1>3. \A k \in Len(Blocks) + 1 .. Len(symbols) :
        \E m \in 1 .. n : symbols[k].name = RawName(src.imports[m])
  BY <1>2
<1>4. Len(symbols) = Len(Blocks) + Cardinality(missing)
  BY <1>1, <1>2
<1>5. \A m \in missing :
           symbols[Len(Blocks) + Cardinality(Abstract!MissingUpTo(src, m))]
             = Abstract!UndefinedSymbol(src.imports[m])
  BY <1>1
<1> QED
  BY <1>3, <1>4, <1>5 DEF Entered, missing

(* What is entered stays as long as the symbol table does.                 *)
LEMMA EnteredKept ==
  ASSUME NEW n, Entered(n), UNCHANGED <<src, symbols>>
  PROVE  Entered(n)'
BY DEF Entered, Blocks

(* An import is missing exactly when the table has no symbol of its name.  *)
LEMMA MissingIsAbsent ==
  ASSUME IInv, BlocksSoFar, NamesSoFar, phase = "imports", item <= Len(src.imports)
  PROVE  Abstract!Missing(src, item) <=> ~HasSymbol(RawName(src.imports[item]))
<1> DEFINE name == RawName(src.imports[item])
<1>1. TypeOK /\ OneEntryPerBlock /\ ImportsEntered
  BY DEF IInv, LayoutInv
<1>2. /\ item \in Nat \ {0} /\ src \in Source /\ Len(Blocks) \in Nat
      /\ DOMAIN labelMap = 1 .. Len(Blocks) /\ DOMAIN src.blocks = 1 .. Len(Blocks)
      /\ DOMAIN symbols = 1 .. Len(symbols) /\ Len(symbols) \in Nat
      /\ DOMAIN src.imports = 1 .. Len(src.imports) /\ Len(src.imports) \in Nat
  BY <1>1 DEF TypeOK, OneEntryPerBlock, AfterPass1, Source, Blocks
<1>3. \A l, m : Abstract!RawName(l) = RawName(l) /\ (RawName(l) = RawName(m) => l = m)
  BY SameData DEF RawName
<1>4. \A i \in 1 .. Len(Blocks) : symbols[i].name = Abstract!NameOfBlock(src, i)
  <2>1. \A i \in DOMAIN labelMap : symbols[i] = Abstract!DefinedSymbol(src, i)
    BY DEF BlocksSoFar
  <2>2. \A i : Abstract!DefinedSymbol(src, i).name = Abstract!NameOfBlock(src, i)
    BY DEF Abstract!DefinedSymbol
  <2> QED
    BY <1>2, <2>1, <2>2
<1>5. Entered(item - 1)
  BY DEF NamesSoFar
<1>6. /\ Len(Blocks) <= Len(symbols)
      /\ \A k \in Len(Blocks) + 1 .. Len(symbols) :
           \E m \in 1 .. item - 1 : symbols[k].name = RawName(src.imports[m])
  <2>1. item - 1 \in Nat
    BY <1>2
  <2>2. Cardinality(Abstract!MissingUpTo(src, item - 1)) \in Nat
    BY <1>2, <2>1, MissingCounted, FS_CardinalityType
  <2>3. Len(symbols) = Len(Blocks) + Cardinality(Abstract!MissingUpTo(src, item - 1))
    BY <1>5 DEF Entered
  <2>4. Len(Blocks) <= Len(symbols)
    BY <1>2, <2>2, <2>3
  <2> QED
    BY <1>5, <2>4 DEF Entered
<1>7. \A m \in 1 .. item - 1 : HasSymbol(RawName(src.imports[m]))
  BY <1>1 DEF ImportsEntered
<1>8. Abstract!Missing(src, item) <=>
        /\ \A i \in 1 .. Len(Blocks) : Abstract!NameOfBlock(src, i) # name
        /\ \A j \in 1 .. item - 1 : src.imports[j] # src.imports[item]
  BY <1>2, <1>3 DEF Abstract!Missing, Abstract!Positions
<1>9. ASSUME Abstract!Missing(src, item), HasSymbol(name) PROVE FALSE
  <2>1. PICK k \in 1 .. Len(symbols) : symbols[k].name = name
    BY <1>2, <1>9 DEF HasSymbol
  <2>2. CASE k <= Len(Blocks)
    BY <1>2, <1>4, <1>8, <1>9, <2>1, <2>2
  <2>3. CASE k > Len(Blocks)
    <3>1. PICK m \in 1 .. item - 1 : symbols[k].name = RawName(src.imports[m])
      BY <1>2, <1>6, <2>1, <2>3
    <3> QED
      BY <1>3, <1>8, <1>9, <2>1, <3>1
  <2> QED
    BY <1>2, <2>1, <2>2, <2>3
<1>10. ASSUME ~Abstract!Missing(src, item) PROVE HasSymbol(name)
  <2>1. CASE \E i \in 1 .. Len(Blocks) : Abstract!NameOfBlock(src, i) = name
    <3>1. PICK i \in 1 .. Len(Blocks) : Abstract!NameOfBlock(src, i) = name
      BY <2>1
    <3>2. symbols[i].name = name /\ i \in DOMAIN symbols
      BY <1>2, <1>4, <1>6, <3>1
    <3> QED
      BY <3>2 DEF HasSymbol
  <2>2. CASE \E j \in 1 .. item - 1 : src.imports[j] = src.imports[item]
    BY <1>7, <2>2
  <2> QED
    BY <1>8, <1>10, <2>1, <2>2
<1> QED
  BY <1>9, <1>10

(* RecordImport enters the import if it is missing, and leaves the table   *)
(* as it is if not.                                                        *)
LEMMA OneMoreImport ==
  ASSUME IInv, BlocksSoFar, NamesSoFar, RecordImport, NEW i, i = item
  PROVE  i <= Len(src.imports) /\ Entered(i)'
<1> DEFINE n == Len(Blocks)
           before == Abstract!MissingUpTo(src, item - 1)
           after == Abstract!MissingUpTo(src, item)
           rank(m) == Cardinality(Abstract!MissingUpTo(src, m))
           entry(m) == Abstract!UndefinedSymbol(src.imports[m])
           name == RawName(src.imports[item])
<1>1. TypeOK
  BY DEF IInv, LayoutInv
<1>2. /\ phase = "imports" /\ item <= Len(src.imports) /\ src' = src
      /\ symbols' = IF HasSymbol(name) THEN symbols
                    ELSE Append(symbols, [name |-> name, type |-> "UNDEFINED",
                                          section |-> TEXT, offset |-> 0])
  BY DEF RecordImport
<1>3. /\ item \in Nat \ {0} /\ item - 1 \in Nat /\ src \in Source /\ n \in Nat
      /\ item \in DOMAIN src.imports /\ symbols \in Seq(ObjSymbol)
      /\ Blocks' = Blocks
  BY <1>1, <1>2 DEF TypeOK, Source, Blocks
<1>4. Entered(item - 1)
  BY <1>2 DEF NamesSoFar
<1>5. /\ after = before \cup IF HasSymbol(name) THEN {} ELSE {item}
      /\ IsFiniteSet(before) /\ before \in SUBSET (1 .. item - 1)
  BY <1>2, <1>3, MissingCounted, MissingIsAbsent
<1>6. /\ Len(symbols) = n + Cardinality(before)
      /\ \A m \in before : symbols[n + rank(m)] = entry(m)
      /\ \A k \in n + 1 .. Len(symbols) :
           \E m \in 1 .. item - 1 : symbols[k].name = RawName(src.imports[m])
  BY <1>4 DEF Entered
<1>7. \A m \in 1 .. item - 1 : m \in 1 .. item
  BY <1>3
<1> HIDE DEF n, before, after, entry, name
<1>8. /\ Len(symbols') = n + Cardinality(after)
      /\ \A m \in after : symbols'[n + rank(m)] = entry(m)
      /\ \A k \in n + 1 .. Len(symbols') :
           \E m \in 1 .. item : symbols'[k].name = RawName(src.imports[m])
  <2>1. CASE HasSymbol(name)
    <3>1. after = before /\ symbols' = symbols
      BY <1>2, <1>5, <2>1
    <3> QED
      BY <1>6, <1>7, <3>1
  <2>2. CASE ~HasSymbol(name)
    <3>1. /\ after = before \cup {item} /\ item \notin before
          /\ Cardinality(after) = Cardinality(before) + 1
          /\ Cardinality(before) \in Nat
      <4>1. after = before \cup {item} /\ item \notin before
        BY <1>3, <1>5, <2>2
      <4> QED
        BY <1>5, <4>1, FS_AddElement, FS_CardinalityType
    <3>2. symbols' = Append(symbols, entry(item))
      BY <1>2, <2>2, SameData DEF Abstract!UndefinedSymbol, entry, name
    <3>3. /\ Len(symbols') = Len(symbols) + 1 /\ Len(symbols) \in Nat
          /\ \A k \in 1 .. Len(symbols) : symbols'[k] = symbols[k]
          /\ symbols'[Len(symbols) + 1] = entry(item)
      BY <1>3, <3>2, Appended
    <3>4. \A m \in before : rank(m) \in 1 .. Cardinality(before)
      <4> TAKE m \in before
      <4>1. m \in Nat /\ m \in 1 .. item - 1
        BY <1>5
      <4>2. Abstract!MissingUpTo(src, m) \in SUBSET before /\ m \in Abstract!MissingUpTo(src, m)
        BY <1>3, <4>1 DEF Abstract!MissingUpTo, before
      <4>3. rank(m) <= Cardinality(before) /\ IsFiniteSet(Abstract!MissingUpTo(src, m))
        BY <1>5, <4>2, FS_Subset
      <4>4. rank(m) \in Nat /\ rank(m) # 0
        BY <4>2, <4>3, FS_CardinalityType, FS_EmptySet
      <4> HIDE DEF rank
      <4> QED
        BY <3>1, <4>3, <4>4
    <3>5. rank(item) = Cardinality(after)
      BY DEF after
    <3> HIDE DEF rank
    <3>6. \A m \in before : n + rank(m) \in 1 .. Len(symbols)
      BY <1>3, <1>6, <3>1, <3>4
    <3>7. \A m \in after : symbols'[n + rank(m)] = entry(m)
      <4>1. n + rank(item) = Len(symbols) + 1
        BY <1>3, <1>6, <3>1, <3>5
      <4> QED
        BY <1>6, <3>1, <3>3, <3>6, <4>1
    <3>8. symbols'[Len(symbols) + 1].name = RawName(src.imports[item])
      BY <3>3, SameData DEF entry, Abstract!UndefinedSymbol
    <3>9. \A k \in n + 1 .. Len(symbols') :
            \E m \in 1 .. item : symbols'[k].name = RawName(src.imports[m])
      <4> TAKE k \in n + 1 .. Len(symbols')
      <4>1. CASE k = Len(symbols) + 1
        BY <1>3, <3>8, <4>1
      <4>2. CASE k # Len(symbols) + 1
        <5>1. k \in n + 1 .. Len(symbols) /\ k \in 1 .. Len(symbols)
          BY <1>3, <3>3, <4>2 DEF n
        <5> QED
          BY <1>6, <1>7, <3>3, <5>1
      <4> QED
        BY <4>1, <4>2
    <3>10. Len(symbols') = n + Cardinality(after)
      BY <1>3, <1>6, <3>1, <3>3
    <3> QED
      BY <3>7, <3>9, <3>10
  <2> QED
    BY <2>1, <2>2
<1>9. Blocks' = Blocks
  BY <1>3
<1> QED
  BY <1>2, <1>8, <1>9 DEF Entered, n, after, entry

(* No name is needed at first.                                             *)
LEMMA NamesInit == Init => NamesSoFar
BY DEF Init, NamesSoFar

(* Every step keeps the imports entered so far.                            *)
LEMMA NamesStep ==
  ASSUME IInv, BlocksSoFar, NamesSoFar, [Next]_vars
  PROVE  NamesSoFar'
<1> DEFINE Exported == \A m \in DOMAIN src.exports : Abstract!IsDefined(src, src.exports[m])
<1>1. TypeOK /\ OneEntryPerBlock /\ TablesAgree
  BY DEF IInv, LayoutInv
<1>2. src \in Source /\ src' = src /\ item \in Nat
      /\ DOMAIN src.imports = 1 .. Len(src.imports) /\ Len(src.imports) \in Nat
  <2>1. src \in Source /\ item \in Nat
    BY <1>1 DEF TypeOK
  <2>2. src' = src
    BY DEF Next, Step, Pass1, Middle, Pass2, EmitInstruction, EmitPayload, AssignAddress,
      EndPass1,
      RejectCodeOutsideText, CheckExports, RejectExport, RecordImport,
      AllocateBuffers, EmitOperands, EmitJump, EmitExternalJump, EmitAddress,
      EmitExternalAddress, RejectInstruction, EmitData, EmitNumber, EmitSymbolWord,
      RejectWord, NextBlock, Return, Terminated, Fail, Emit, vars
  <2> QED
    BY <2>1, <2>2 DEF Source
<1>3. /\ Exported' <=> Exported
  BY <1>2
<1> HIDE DEF Exported
<1>4. CASE EndPass1
  <2>1. phase' = "exports" /\ Blocks' = Blocks /\ symbols' = symbols /\ phase = "pass1"
    BY <1>2, <1>4 DEF EndPass1, tables, Blocks
  <2>2. Len(symbols) = Len(Blocks)
    BY <1>1, <1>4, <2>1 DEF EndPass1, OneEntryPerBlock, TypeOK, TablesAgree, Blocks, Source
  <2>3. ASSUME NEW n, n = 0 PROVE Entered(n)'
    <3>1. Entered(n)
      BY <1>2, <2>2, <2>3, NothingEntered
    <3> QED
      BY <1>2, <2>1, <3>1, EnteredKept
  <2> QED
    BY <2>1, <2>3 DEF NamesSoFar, Entered
<1>5. CASE CheckExports
  <2>1. /\ phase = "exports" /\ phase' = "imports" /\ item' = 1 /\ symbols' = symbols
        /\ \A m \in DOMAIN src.exports : IsDefined(src.exports[m])
    BY <1>5 DEF CheckExports, tables
  <2>2. Exported
    BY <2>1, LookupsMean DEF AfterPass1, Exported
  <2>3. ASSUME NEW n, n = 0 PROVE Entered(n)'
    <3>1. Entered(n)
      BY <2>1, <2>3 DEF NamesSoFar
    <3> QED
      BY <1>2, <2>1, <3>1, EnteredKept
  <2>4. item' - 1 = 0 /\ item' - 1 <= Len(src'.imports)
    BY <1>2, <2>1
  <2>5. ASSUME phase' = "imports" PROVE Entered(item - 1)'
    BY <2>3, <2>4 DEF Entered
  <2> QED
    BY <1>3, <2>1, <2>2, <2>4, <2>5 DEF NamesSoFar, Exported
<1>6. CASE RecordImport
  <2>1. phase = "imports" /\ phase' = "imports" /\ item' = item + 1
    BY <1>6 DEF RecordImport
  <2>2. PICK i : i = item
    OBVIOUS
  <2>3. i <= Len(src.imports) /\ Entered(i)'
    BY <1>6, <2>2, OneMoreImport
  <2>4. item' - 1 = i
    BY <1>2, <2>1, <2>2
  <2>5. Entered(item - 1)'
    BY <2>3, <2>4 DEF Entered
  <2>6. Exported
    BY <2>1 DEF NamesSoFar, Exported
  <2> QED
    BY <1>2, <1>3, <2>1, <2>3, <2>4, <2>5, <2>6 DEF NamesSoFar, Exported
<1>7. CASE AllocateBuffers
  <2>1. phase = "imports" /\ phase' = "pass2" /\ symbols' = symbols /\ item > Len(src.imports)
    BY <1>7 DEF AllocateBuffers, tables
  <2>2. PICK n : n = item - 1
    OBVIOUS
  <2>3. Entered(n) /\ n <= Len(src.imports)
    BY <2>1, <2>2 DEF NamesSoFar
  <2>4. n = Len(src.imports)
    BY <1>2, <2>1, <2>2, <2>3
  <2>5. Entered(n)'
    BY <1>2, <2>1, <2>3, EnteredKept
  <2>6. Entered(Len(src.imports))'
    BY <1>2, <2>4, <2>5 DEF Entered
  <2>7. Exported
    BY <2>1 DEF NamesSoFar, Exported
  <2> QED
    BY <1>3, <2>1, <2>6, <2>7 DEF NamesSoFar, Exported
<1>8. CASE ~EndPass1 /\ ~CheckExports /\ ~RecordImport /\ ~AllocateBuffers
  <2>1. \/ UNCHANGED <<phase, item, symbols>>
        \/ phase' \in {"pass1", "error"}
        \/ UNCHANGED symbols /\ phase = "pass2" /\ phase' \in {"pass2", "done"}
    BY <1>8 DEF Next, Step, Pass1, Middle, Pass2, EmitInstruction, EmitPayload, AssignAddress,
      RejectCodeOutsideText, RejectExport, EmitOperands, EmitJump, EmitExternalJump,
      EmitAddress, EmitExternalAddress, RejectInstruction, EmitData, EmitNumber,
      EmitSymbolWord, RejectWord, NextBlock, Return, Terminated, Fail, Emit, tables,
      AtInstr, InBlock, AtWord, vars
  <2>2. CASE UNCHANGED <<phase, item, symbols>>
    <3>1. \A n : Entered(n) => Entered(n)'
      BY <1>2, <2>2, EnteredKept
    <3> QED
      BY <1>2, <2>2 DEF NamesSoFar, Entered, Blocks
  <2>3. CASE phase' \in {"pass1", "error"}
    BY <2>3 DEF NamesSoFar
  <2>4. CASE UNCHANGED symbols /\ phase = "pass2" /\ phase' \in {"pass2", "done"}
    BY <1>2, <2>4 DEF NamesSoFar, Entered, Blocks
  <2> QED
    BY <2>1, <2>2, <2>3, <2>4
<1> QED
  BY <1>4, <1>5, <1>6, <1>7, <1>8

---------------------------------------------------------------------------
(* What is there so far: the units.                                        *)

(* Pass 2 is at the unit <<line, item>>, and its cursor is at the place    *)
(* where that unit belongs.                                                *)
LEMMA UnitHere ==
  ASSUME IInv, BlocksSoFar, InBlock, item <= Units(Block),
         NEW u, u = <<line, item>>, NEW s, s = SectionOf(Block)
  PROVE  /\ u \in Abstract!AllUnits(src) /\ u[1] = line /\ u[2] = item
         /\ Abstract!SectionAt(src, line) = s
         /\ cursor[s] = Abstract!Place(src, u)
         /\ Abstract!IsInstr(src, u) <=> item <= Len(Block.instrs)
         /\ Abstract!IsWord(src, u) <=> WordItem > 0
         /\ item <= Len(Block.instrs) =>
              /\ Abstract!InstrAt(src, u) = Instr /\ Instr \in Instruction
              /\ s = TEXT /\ WordItem <= 0 /\ DataItem <= 0
         /\ Abstract!WordAt(src, u) = Word
         /\ WordItem > 0 => WordItem \in 1 .. Len(Block.words) /\ Word \in AsmWord
         /\ src.blocks[u[1]].data = Block.data
         /\ item - Len(Abstract!Instrs(src, u)) = DataItem
<1>1. TypeOK /\ OneEntryPerBlock /\ TablesAgree /\ PassesAgree
  BY DEF IInv, LayoutInv
<1>2. /\ src \in Source /\ phase = "pass2" /\ line \in DOMAIN src.blocks /\ item \in Nat \ {0}
      /\ Block = src.blocks[line] /\ Block \in AsmBlock
      /\ DOMAIN labelMap = DOMAIN src.blocks
  BY <1>1, CurrentType DEF InBlock, Blocks, Block, TypeOK, OneEntryPerBlock, AfterPass1,
     Source
<1>3. /\ Units(Block) = Len(Block.instrs) + (Len(Block.data) + 3) \div 4 + Len(Block.words)
      /\ (Len(Block.data) + 3) \div 4 \in Nat
      /\ Len(Block.instrs) \in Nat /\ Len(Block.words) \in Nat
  BY <1>2, SizeType DEF Units
<1>4. u[1] = line /\ u[2] = item
  OBVIOUS
<1>5. u \in Abstract!AllUnits(src)
  <2> DEFINE units == Units(src.blocks[line])
  <2>1. item \in 1 .. units
    <3>1. units \in Nat /\ item <= units
      BY <1>2, UnitsKnown
    <3> HIDE DEF units
    <3> QED
      BY <1>2, <3>1
  <2>2. \A i \in DOMAIN src.blocks : \A k \in 1 .. Units(src.blocks[i]) :
          <<i, k>> \in Abstract!AllUnits(src)
    BY <1>2, UnitsKnown
  <2> QED
    BY <1>2, <2>1, <2>2
<1>6. Abstract!SectionAt(src, line) = s
  BY <1>2, SameData DEF Abstract!SectionAt
<1>7. cursor[s] = Abstract!Place(src, u)
  <2>1. s \in Sections /\ s = SectionAt(line) /\ line <= Len(Blocks)
    BY <1>2, SectionOfType DEF SectionAt, Block, Blocks, InBlock
  <2>2. cursor[s] = labelMap[line].address + 4 * (item - 1)
    BY <1>1, <1>2, <2>1 DEF PassesAgree
  <2>3. symbols[line].offset = labelMap[line].address
    <3>1. symbols[line] = [name |-> labelSymbolMap[line].symbol_name, type |-> "DEFINED",
                           section |-> SectionAt(line), offset |-> labelMap[line].address]
      BY <1>1, <1>2 DEF TablesAgree
    <3> QED
      BY <3>1
  <2>4. symbols[line] = Abstract!DefinedSymbol(src, line)
    BY <1>2 DEF BlocksSoFar
  <2>5. labelMap[line].address = Abstract!Base(src, line)
    BY <2>3, <2>4 DEF Abstract!DefinedSymbol
  <2> QED
    BY <1>4, <2>2, <2>5 DEF Abstract!Place
<1>8. /\ Abstract!Instrs(src, u) = Block.instrs
      /\ Abstract!Groups(src, u) = (Len(Block.data) + 3) \div 4
      /\ src.blocks[u[1]] = Block
  BY <1>2, <1>4 DEF Abstract!Instrs, Abstract!Groups
<1>9. /\ Abstract!IsInstr(src, u) <=> item <= Len(Block.instrs)
      /\ item - Len(Abstract!Instrs(src, u)) = DataItem
  BY <1>4, <1>8 DEF Abstract!IsInstr, DataItem
<1> DEFINE groups == (Len(Block.data) + 3) \div 4
           code == Len(Block.instrs)
<1>10. /\ WordItem = item - code - groups
       /\ Abstract!WordAt(src, u) = Block.words[item - code - groups]
       /\ Abstract!IsWord(src, u) <=> item > code + groups
       /\ DataItem = item - code
  BY <1>4, <1>8 DEF Abstract!WordAt, WordItem, Abstract!IsWord, DataItem
<1>11. code \in Nat /\ groups \in Nat /\ item <= code + groups + Len(Block.words)
  BY <1>3
<1> HIDE DEF groups, code
<1>12. Abstract!WordAt(src, u) = Word
  BY <1>10 DEF Word
<1>13. Abstract!IsWord(src, u) <=> WordItem > 0
  BY <1>2, <1>10, <1>11
<1>14. ASSUME WordItem > 0
       PROVE  WordItem \in 1 .. Len(Block.words) /\ Word \in AsmWord
  <2>1. WordItem \in 1 .. Len(Block.words)
    <3> DEFINE words == Len(Block.words)
               w == WordItem
    <3>1. /\ w = item - code - groups /\ words \in Nat /\ item \in Nat /\ w > 0
          /\ code \in Nat /\ groups \in Nat /\ item <= code + groups + words
      BY <1>2, <1>3, <1>10, <1>11, <1>14
    <3> HIDE DEF words, w
    <3>2. w \in Int /\ w >= 1
      BY <3>1
    <3>3. w <= words
      BY <3>1
    <3>4. w \in 1 .. words
      BY <3>1, <3>2, <3>3
    <3> QED
      BY <3>4 DEF words, w
  <2>2. Block.words \in Seq(AsmWord)
    BY <1>2 DEF AsmBlock
  <2> QED
    BY <2>1, <2>2 DEF Word
<1>15. ASSUME item <= Len(Block.instrs)
       PROVE  /\ Abstract!InstrAt(src, u) = Instr /\ Instr \in Instruction
              /\ s = TEXT /\ WordItem <= 0 /\ DataItem <= 0
  <2>1. Abstract!InstrAt(src, u) = Instr
    BY <1>4, <1>8 DEF Abstract!InstrAt, Instr
  <2>2. Block.instrs \in Seq(Instruction)
    BY <1>2 DEF AsmBlock
  <2>3. Instr \in Instruction /\ Block.instrs # << >>
    BY <1>2, <1>15, <2>2 DEF Instr
  <2>4. ~HoldsCodeOutsideText(Block)
    BY <1>1, <1>2 DEF OneEntryPerBlock, Blocks
  <2>5. WordItem <= 0 /\ DataItem <= 0
    BY <1>2, <1>10, <1>11, <1>15 DEF code
  <2> QED
    BY <2>1, <2>3, <2>4, <2>5 DEF HoldsCodeOutsideText
<1> QED
  BY <1>4, <1>5, <1>6, <1>7, <1>8, <1>9, <1>12, <1>13, <1>14, <1>15

(* Every unit that pass 2 emits is a legal one, its contents are what      *)
(* belongs there, and so is its relocation.                                *)
LEMMA EmitContents ==
  ASSUME IInv, BlocksSoFar, EmitInstruction \/ EmitPayload,
         NEW u, u = <<line, item>>, NEW s, s = SectionOf(Block)
  PROVE  /\ Abstract!UnitIsLegal(src, u)
         /\ Emit(s, Abstract!Contents(src, u))
         /\ relocs' = IF Abstract!NeedsReloc(src, u)
                      THEN Append(relocs, Abstract!Reloc(src, u)) ELSE relocs
<1> DEFINE Right ==
      /\ Abstract!UnitIsLegal(src, u)
      /\ Emit(s, Abstract!Contents(src, u))
      /\ relocs' = IF Abstract!NeedsReloc(src, u)
                   THEN Append(relocs, Abstract!Reloc(src, u)) ELSE relocs
<1>1. LayoutInv /\ TypeOK
  BY DEF IInv, LayoutInv
<1>2. InBlock /\ item <= Units(Block) /\ Block \in AsmBlock /\ phase = "pass2"
  BY <1>1, EmitIs DEF InBlock
<1>3. /\ u[1] = line /\ Abstract!SectionAt(src, u[1]) = s
      /\ cursor[s] = Abstract!Place(src, u)
      /\ Abstract!IsInstr(src, u) <=> item <= Len(Block.instrs)
      /\ Abstract!IsWord(src, u) <=> WordItem > 0
      /\ item <= Len(Block.instrs) =>
           /\ Abstract!InstrAt(src, u) = Instr /\ Instr \in Instruction
           /\ s = TEXT /\ WordItem <= 0 /\ DataItem <= 0
      /\ Abstract!WordAt(src, u) = Word
      /\ WordItem > 0 => WordItem \in 1 .. Len(Block.words) /\ Word \in AsmWord
      /\ src.blocks[u[1]].data = Block.data
      /\ item - Len(Abstract!Instrs(src, u)) = DataItem
  BY <1>2, UnitHere
<1>4. item \in Nat \ {0} /\ Len(Block.instrs) \in Nat
  BY <1>1, <1>2, SizeType DEF TypeOK
<1>5. \A l : /\ IsDefined(l) <=> Abstract!IsDefined(src, l)
             /\ IsDefined(l) => LabelAddress(l) = Abstract!AddressOf(src, l)
             /\ LabelSymbol(l) = Abstract!NameOf(src, l)
             /\ IsImported(l) <=> Abstract!Imported(src, l)
  BY <1>2, LookupsMean DEF AfterPass1
<1>6. \A l : ~IsDefined(l) => Abstract!NameOf(src, l) = RawName(l)
  BY <1>5, SameData DEF Abstract!NameOf
<1>7. u[2] = item
  OBVIOUS
<1>8. CASE EmitOperands
  <2>1. /\ item <= Len(Block.instrs) /\ Instr.kind \in OperandKinds /\ OperandsFit(Instr)
        /\ Emit(TEXT, EncodeOperands(Instr)) /\ relocs' = relocs
    BY <1>8 DEF EmitOperands, AtInstr, Instr
  <2>2. Instr.kind \notin {"LABEL", "REGLABEL"}
    BY <2>1 DEF OperandKinds
  <2>3. ~Abstract!Refers(src, u)
    BY <1>3, <2>1, <2>2, SameData DEF Abstract!Refers, FixupKinds
  <2>4. Abstract!UnitIsLegal(src, u)
    BY <1>3, <2>1, <2>2, <2>3, SameEncodings DEF Abstract!UnitIsLegal
  <2>5. Abstract!Contents(src, u) = EncodeOperands(Instr)
    BY <1>3, <2>1, SameData, SameEncodings DEF Abstract!Contents, Abstract!ContentsOfInstr
  <2> QED
    BY <1>3, <2>1, <2>3, <2>4, <2>5 DEF Abstract!NeedsReloc
<1>9. CASE EmitJump
  <2>1. /\ item <= Len(Block.instrs) /\ Instr.kind = "LABEL" /\ IsDefined(Instr.label)
        /\ Emit(TEXT, EncodeJump(Instr, LabelAddress(Instr.label), cursor[TEXT]))
        /\ relocs' = relocs
    BY <1>9 DEF EmitJump, AtInstr, Instr
  <2>2. Instr.kind \notin OperandKinds
    BY <2>1 DEF OperandKinds
  <2>3. Abstract!Reference(src, u) = Instr.label
    BY <1>3, <2>1 DEF Abstract!Reference
  <2>4. Abstract!UnitIsLegal(src, u)
    BY <1>3, <1>5, <2>1, <2>2, <2>3, SameData DEF Abstract!UnitIsLegal
  <2>5. Abstract!Contents(src, u)
          = EncodeJump(Instr, LabelAddress(Instr.label), cursor[TEXT])
    BY <1>3, <1>5, <2>1, <2>2, SameData, SameEncodings
       DEF Abstract!Contents, Abstract!ContentsOfInstr
  <2>6. ~Abstract!NeedsReloc(src, u)
    BY <1>3, <1>5, <2>1, <2>3 DEF Abstract!NeedsReloc
  <2> QED
    BY <1>3, <2>1, <2>4, <2>5, <2>6
<1>10. CASE EmitExternalJump
  <2>1. /\ item <= Len(Block.instrs) /\ Instr.kind = "LABEL" /\ ~IsDefined(Instr.label)
        /\ IsImported(Instr.label)
        /\ Emit(TEXT, InstrUnit(Instr.opcode, 0))
        /\ Relocate(TEXT, RawName(Instr.label), "RELATIVE")
    BY <1>10 DEF EmitExternalJump, AtInstr, Instr
  <2>2. Instr.kind \notin OperandKinds
    BY <2>1 DEF OperandKinds
  <2>3. Abstract!Reference(src, u) = Instr.label
    BY <1>3, <2>1 DEF Abstract!Reference
  <2>4. Abstract!UnitIsLegal(src, u)
    BY <1>3, <1>5, <2>1, <2>2, <2>3, SameData DEF Abstract!UnitIsLegal
  <2>5. Abstract!Contents(src, u) = InstrUnit(Instr.opcode, 0)
    BY <1>3, <1>5, <2>1, <2>2, SameData, SameEncodings
       DEF Abstract!Contents, Abstract!ContentsOfInstr
  <2>6. Abstract!NeedsReloc(src, u)
    BY <1>3, <1>5, <2>1, <2>3, SameData
       DEF Abstract!NeedsReloc, Abstract!Refers, FixupKinds
  <2>7. Abstract!Reloc(src, u) = [offset |-> cursor[TEXT], symbol_name |-> RawName(Instr.label),
                                  type |-> "RELATIVE", section |-> TEXT]
    BY <1>3, <1>6, <2>1, <2>3 DEF Abstract!Reloc, Abstract!RelocType
  <2> QED
    BY <1>3, <2>1, <2>4, <2>5, <2>6, <2>7 DEF Relocate
<1>11. CASE EmitAddress
  <2>1. /\ item <= Len(Block.instrs) /\ Instr.kind = "REGLABEL" /\ IsDefined(Instr.label)
        /\ LabelAddress(Instr.label) < ImmSpan
        /\ Emit(TEXT, EncodeRegImm21([Instr EXCEPT !.imm = LabelAddress(Instr.label)]))
        /\ Relocate(TEXT, LabelSymbol(Instr.label), "ABSOLUTE")
    BY <1>11 DEF EmitAddress, AtInstr, Instr
  <2>2. Instr.kind \notin OperandKinds /\ Instr.kind # "LABEL"
    BY <2>1 DEF OperandKinds
  <2>3. Abstract!Reference(src, u) = Instr.label
    BY <1>3, <2>1 DEF Abstract!Reference
  <2>4. Abstract!UnitIsLegal(src, u)
    BY <1>3, <1>5, <2>1, <2>2, <2>3, SameData DEF Abstract!UnitIsLegal
  <2>5. EncodeRegImm21([Instr EXCEPT !.imm = LabelAddress(Instr.label)])
          = InstrUnit(Instr.opcode, Instr.reg1 * ImmSpan + LabelAddress(Instr.label))
    BY <1>3, <2>1 DEF EncodeRegImm21, Instruction
  <2>6. Abstract!Contents(src, u)
          = InstrUnit(Instr.opcode, Instr.reg1 * ImmSpan + LabelAddress(Instr.label))
    BY <1>3, <1>5, <2>1, <2>2, SameData, SameEncodings
       DEF Abstract!Contents, Abstract!ContentsOfInstr
  <2>7. Abstract!NeedsReloc(src, u)
    BY <1>3, <2>1, <2>2, SameData DEF Abstract!NeedsReloc, Abstract!Refers, FixupKinds
  <2>8. Abstract!Reloc(src, u)
          = [offset |-> cursor[TEXT], symbol_name |-> LabelSymbol(Instr.label),
             type |-> "ABSOLUTE", section |-> TEXT]
    BY <1>3, <1>5, <2>1, <2>2, <2>3 DEF Abstract!Reloc, Abstract!RelocType
  <2> QED
    BY <1>3, <2>1, <2>4, <2>5, <2>6, <2>7, <2>8 DEF Relocate
<1>12. CASE EmitExternalAddress
  <2>1. /\ item <= Len(Block.instrs) /\ Instr.kind = "REGLABEL" /\ ~IsDefined(Instr.label)
        /\ IsImported(Instr.label)
        /\ Emit(TEXT, EncodeReg(Instr))
        /\ Relocate(TEXT, LabelSymbol(Instr.label), "ABSOLUTE")
    BY <1>12 DEF EmitExternalAddress, AtInstr, Instr
  <2>2. Instr.kind \notin OperandKinds /\ Instr.kind # "LABEL"
    BY <2>1 DEF OperandKinds
  <2>3. Abstract!Reference(src, u) = Instr.label
    BY <1>3, <2>1 DEF Abstract!Reference
  <2>4. Abstract!UnitIsLegal(src, u)
    BY <1>3, <1>5, <2>1, <2>2, <2>3, SameData DEF Abstract!UnitIsLegal
  <2>5. Instr.reg1 * ImmSpan + 0 = Instr.reg1 * ImmSpan
    <3>1. Instr.reg1 \in Nat /\ ImmSpan \in Nat
      BY <1>3, <2>1, WidthAssumption DEF Instruction
    <3> QED
      BY <3>1
  <2>6. Abstract!Contents(src, u) = EncodeReg(Instr)
    BY <1>3, <1>5, <2>1, <2>2, <2>5, SameData, SameEncodings
       DEF Abstract!Contents, Abstract!ContentsOfInstr, EncodeReg
  <2>7. Abstract!NeedsReloc(src, u)
    BY <1>3, <2>1, <2>2, SameData DEF Abstract!NeedsReloc, Abstract!Refers, FixupKinds
  <2>8. Abstract!Reloc(src, u)
          = [offset |-> cursor[TEXT], symbol_name |-> LabelSymbol(Instr.label),
             type |-> "ABSOLUTE", section |-> TEXT]
    BY <1>3, <1>5, <2>1, <2>2, <2>3 DEF Abstract!Reloc, Abstract!RelocType
  <2> QED
    BY <1>3, <2>1, <2>4, <2>6, <2>7, <2>8 DEF Relocate
<1>13. CASE EmitData
  <2>1. /\ DataItem > 0 /\ 4 * DataItem <= PaddedData(Block)
        /\ Emit(s, DataUnit(Block.data, DataItem)) /\ relocs' = relocs
    BY <1>13 DEF EmitData
  <2>2. ~(item <= Len(Block.instrs)) /\ ~(WordItem > 0)
    <3> DEFINE groups == (Len(Block.data) + 3) \div 4
    <3>1. /\ WordItem = item - Len(Block.instrs) - groups
          /\ DataItem = item - Len(Block.instrs)
          /\ PaddedData(Block) = 4 * groups /\ groups \in Nat
      BY <1>2, SizeType DEF WordItem, DataItem
    <3> HIDE DEF groups
    <3> QED
      BY <1>4, <2>1, <3>1
  <2>3. ~Abstract!Refers(src, u)
    BY <1>3, <2>2 DEF Abstract!Refers
  <2>4. Abstract!UnitIsLegal(src, u)
    BY <1>3, <2>2, <2>3 DEF Abstract!UnitIsLegal
  <2>5. Abstract!Contents(src, u) = DataUnit(Block.data, DataItem)
    BY <1>3, <1>7, <2>2, SameEncodings DEF Abstract!Contents
  <2> QED
    BY <2>1, <2>3, <2>4, <2>5 DEF Abstract!NeedsReloc
<1>14. ASSUME AtWord PROVE WordItem > 0 /\ ~(item <= Len(Block.instrs))
  BY <1>3, <1>14 DEF AtWord
<1>15. CASE EmitNumber
  <2>1. /\ AtWord /\ Word.symbol = NoLabel
        /\ Emit(s, WordUnit(Word.value)) /\ relocs' = relocs
    BY <1>15 DEF EmitNumber
  <2>2. ~Abstract!Refers(src, u)
    BY <1>3, <1>14, <2>1 DEF Abstract!Refers
  <2>3. Abstract!UnitIsLegal(src, u)
    BY <1>3, <1>14, <2>1, <2>2 DEF Abstract!UnitIsLegal
  <2>4. Abstract!Contents(src, u) = WordUnit(Word.value)
    BY <1>3, <1>14, <2>1, <2>2, SameEncodings DEF Abstract!Contents
  <2> QED
    BY <2>1, <2>2, <2>3, <2>4 DEF Abstract!NeedsReloc
<1>16. CASE EmitSymbolWord
  <2>1. /\ AtWord /\ Word.symbol # NoLabel
        /\ IsDefined(Word.symbol) \/ IsImported(Word.symbol)
        /\ Emit(s, WordUnit(0))
        /\ Relocate(s, LabelSymbol(Word.symbol), "WORD32")
    BY <1>16 DEF EmitSymbolWord
  <2>2. Abstract!Refers(src, u) /\ Abstract!Reference(src, u) = Word.symbol
    BY <1>3, <1>14, <2>1 DEF Abstract!Refers, Abstract!Reference
  <2>3. Abstract!UnitIsLegal(src, u)
    BY <1>3, <1>5, <1>14, <2>1, <2>2 DEF Abstract!UnitIsLegal
  <2>4. Abstract!Contents(src, u) = WordUnit(0)
    BY <1>3, <1>14, <2>1, <2>2, SameEncodings DEF Abstract!Contents
  <2>5. Abstract!NeedsReloc(src, u)
    BY <1>3, <1>14, <2>1, <2>2 DEF Abstract!NeedsReloc
  <2>6. Abstract!Reloc(src, u)
          = [offset |-> cursor[s], symbol_name |-> LabelSymbol(Word.symbol),
             type |-> "WORD32", section |-> s]
    BY <1>3, <1>5, <1>14, <2>1, <2>2 DEF Abstract!Reloc, Abstract!RelocType
  <2> QED
    BY <2>1, <2>3, <2>4, <2>5, <2>6 DEF Relocate
<1> QED
  BY <1>8, <1>9, <1>10, <1>11, <1>12, <1>13, <1>15, <1>16 DEF EmitInstruction, EmitPayload

(* Every unit of the program has a place of its own in the buffers.        *)
LEMMA PlacesFit ==
  ASSUME IInv, BlocksSoFar, phase \in AfterPass1, NEW u \in Abstract!AllUnits(src),
         NEW s, s = Abstract!SectionAt(src, u[1])
  PROVE  s \in Sections /\ Abstract!Place(src, u) \in UnitAddresses(size[s])
<1> DEFINE i == u[1]
           b == src.blocks[u[1]]
           base == Abstract!Base(src, u[1])
           end == size[s]
           k == u[2]
           place == Abstract!Place(src, u)
           units == Units(src.blocks[u[1]])
<1>1. TypeOK /\ OneEntryPerBlock /\ TablesAgree /\ Aligned /\ BlocksFit
  BY DEF IInv, LayoutInv
<1>2. /\ src \in Source /\ i \in DOMAIN src.blocks /\ b \in AsmBlock
      /\ k \in 1 .. units /\ units \in Nat /\ BlockSize(b) = 4 * units
      /\ DOMAIN labelMap = DOMAIN src.blocks
  <2>1. src \in Source
    BY <1>1 DEF TypeOK
  <2>2. i \in DOMAIN src.blocks /\ b \in AsmBlock /\ k \in 1 .. units /\ units \in Nat
    BY <2>1, UnitsKnown
  <2>3. DOMAIN labelMap = DOMAIN src.blocks
    BY <1>1, <2>1 DEF TypeOK, OneEntryPerBlock, Blocks, Source
  <2> QED
    BY <2>1, <2>2, <2>3, SizeType
<1>3. s = SectionOf(b) /\ s = SectionAt(i) /\ s \in Sections
  BY <1>2, SameData, SectionOfType DEF Abstract!SectionAt, SectionAt, Blocks
<1>4. labelMap[i].address = base
  <2>1. symbols[i] = [name |-> labelSymbolMap[i].symbol_name, type |-> "DEFINED",
                      section |-> SectionAt(i), offset |-> labelMap[i].address]
    BY <1>1, <1>2 DEF TablesAgree
  <2>2. symbols[i] = Abstract!DefinedSymbol(src, i)
    BY <1>2 DEF BlocksSoFar
  <2> QED
    BY <2>1, <2>2 DEF Abstract!DefinedSymbol
<1>5. base \in Nat /\ base % 4 = 0 /\ base + 4 * units <= end /\ end \in Nat
  <2>1. labelMap[i].address + SizeAt(i) <= size[SectionAt(i)]
    BY <1>1, <1>2 DEF BlocksFit
  <2>2. SizeAt(i) = 4 * units
    BY <1>2 DEF SizeAt, Blocks
  <2>3. base \in Nat
    BY <1>2, PlacesType
  <2>4. end \in Nat
    BY <1>1, <1>3 DEF TypeOK
  <2>5. base % 4 = 0
    BY <1>1, <1>2, <1>4 DEF Aligned
  <2> QED
    BY <1>3, <1>4, <2>1, <2>2, <2>3, <2>4, <2>5
<1>6. place = base + 4 * (k - 1)
  BY DEF Abstract!Place
<1> HIDE DEF i, b, base, end, k, place, units
<1>7. place \in 0 .. end - 1 /\ place % 4 = 0
  <2>1. k \in Nat /\ k >= 1 /\ k <= units /\ units \in Nat
    BY <1>2
  <2>2. place \in Nat /\ place <= end - 1
    BY <1>5, <1>6, <2>1
  <2>3. place % 4 = 0
    BY <1>5, <1>6, <2>1
  <2> QED
    BY <1>5, <2>2, <2>3
<1> QED
  BY <1>3, <1>7 DEF UnitAddresses, end, place

(* What belongs somewhere is not what malloc left there.                   *)
LEMMA ContentsWritten == \A u : Abstract!Contents(src, u) # Uninit
<1> TAKE u
<1>1. /\ \A op, low : Abstract!InstrUnit(op, low) # Uninit
      /\ \A v : Abstract!WordUnit(v) # Uninit
      /\ \A data, k : Abstract!DataUnit(data, k) # Uninit
  BY UnitsAreNotUninit, SameEncodings DEF DataUnit
<1>2. \A i : i.kind \in OperandKinds => Abstract!EncodeOperands(i) # Uninit
  BY UnitsAreNotUninit, SameEncodings DEF EncodeOperands, OperandKinds, EncodeRegReg,
     EncodeRegImm21, EncodeReg, EncodeImm26, EncodeNoOperand
<1>3. \A i, m, n : Abstract!EncodeJump(i, m, n) # Uninit
  BY UnitsAreNotUninit, SameEncodings DEF EncodeJump
<1>4. \A i : Abstract!ContentsOfInstr(src, u, i) # Uninit
  <2> TAKE i
  <2>1. CASE i.kind \in OperandKinds
    BY <1>2, <2>1, SameData DEF Abstract!ContentsOfInstr
  <2>2. CASE i.kind \notin OperandKinds /\ i.kind = "LABEL"
    BY <1>1, <1>3, <2>2, SameData DEF Abstract!ContentsOfInstr
  <2>3. CASE i.kind \notin OperandKinds /\ i.kind # "LABEL"
    BY <1>1, <2>3, SameData DEF Abstract!ContentsOfInstr
  <2> QED
    BY <2>1, <2>2, <2>3
<1> QED
  BY <1>1, <1>4 DEF Abstract!Contents

(* The units emitted are those before <<line, item>>.                      *)
LEMMA EmittedKnown ==
  ASSUME TypeOK
  PROVE  /\ Emitted \in SUBSET Abstract!AllUnits(src)
         /\ IsFiniteSet(Emitted)
         /\ \A u \in Abstract!AllUnits(src) : u[1] \in Nat /\ u[2] \in Nat \ {0}
<1>1. src \in Source
  BY DEF TypeOK
<1>2. Emitted \in SUBSET Abstract!AllUnits(src) /\ IsFiniteSet(Abstract!AllUnits(src))
  BY <1>1, UnitsKnown DEF Emitted
<1>3. ASSUME NEW u \in Abstract!AllUnits(src) PROVE u[1] \in Nat /\ u[2] \in Nat \ {0}
  <2>1. u[1] \in DOMAIN src.blocks /\ DOMAIN src.blocks = 1 .. Len(src.blocks)
    BY <1>1, UnitsKnown
  <2> DEFINE units == Units(src.blocks[u[1]])
  <2>2. u[2] \in 1 .. units /\ units \in Nat
    BY <1>1, UnitsKnown
  <2> HIDE DEF units
  <2> QED
    BY <2>1, <2>2
<1> QED
  BY <1>2, <1>3, FS_Subset

(* A step within a block emits the unit it stands at.                      *)
LEMMA EmittedGrows ==
  ASSUME TypeOK, UNCHANGED <<src, line>>, item' = item + 1,
         NEW u \in Abstract!AllUnits(src), u = <<line, item>>
  PROVE  Emitted' = Emitted \cup {u} /\ u \notin Emitted
<1>1. line \in Nat /\ item \in Nat
  BY DEF TypeOK
<1>2. \A v \in Abstract!AllUnits(src) :
        v[1] \in Nat /\ v[2] \in Nat /\ v = <<v[1], v[2]>>
  BY EmittedKnown, UnitsKnown DEF TypeOK
<1>3. \A v \in Abstract!AllUnits(src) : v = u <=> v[1] = line /\ v[2] = item
  BY <1>2
<1>4. \A v \in Abstract!AllUnits(src) :
        (v[1] < line \/ (v[1] = line /\ v[2] < item + 1))
          <=> (v[1] < line \/ (v[1] = line /\ v[2] < item)) \/ v = u
  BY <1>1, <1>2, <1>3
<1>5. Emitted' = {v \in Abstract!AllUnits(src) :
                    v[1] < line \/ (v[1] = line /\ v[2] < item + 1)}
  BY DEF Emitted
<1>6. Emitted' = Emitted \cup {u}
  BY <1>4, <1>5 DEF Emitted
<1>7. u \notin Emitted
  BY <1>1, <1>3 DEF Emitted
<1> QED
  BY <1>6, <1>7

(* Emitting a unit adds it, and its relocation, to what is there.          *)
LEMMA EmitUnits ==
  ASSUME ObjectInv, EmitInstruction \/ EmitPayload
  PROVE  UnitsSoFar' /\ RelocsSoFar'
<1>1. /\ IInv /\ LayoutInv /\ TypeOK /\ BlocksSoFar /\ UnitsSoFar /\ RelocsSoFar
  BY DEF ObjectInv, IInv, LayoutInv
<1>2. /\ InBlock /\ phase = "pass2" /\ item <= Units(Block) /\ Block \in AsmBlock
      /\ \E e : Emit(SectionOf(Block), e)
  BY <1>1, EmitIs DEF InBlock
<1>3. src' = src /\ phase' = "pass2" /\ line' = line /\ item' = item + 1
  BY <1>2 DEF Emit
<1>4. PICK u : u = <<line, item>>
  OBVIOUS
<1>5. PICK s : s = SectionOf(Block)
  OBVIOUS
<1>6. /\ u \in Abstract!AllUnits(src) /\ u[1] = line
      /\ Abstract!SectionAt(src, u[1]) = s
      /\ cursor[s] = Abstract!Place(src, u)
  BY <1>1, <1>2, <1>4, <1>5, UnitHere
<1>7. /\ Abstract!UnitIsLegal(src, u)
      /\ Emit(s, Abstract!Contents(src, u))
      /\ relocs' = IF Abstract!NeedsReloc(src, u)
                   THEN Append(relocs, Abstract!Reloc(src, u)) ELSE relocs
  BY <1>1, <1>4, <1>5, EmitContents
<1>8. Emitted' = Emitted \cup {u} /\ u \notin Emitted
  BY <1>1, <1>3, <1>4, <1>6, EmittedGrows
<1>9. Emitted \in SUBSET Abstract!AllUnits(src) /\ IsFiniteSet(Emitted)
  BY <1>1, EmittedKnown
<1>10. UnitsSoFar'
  <2>1. /\ out[s][cursor[s]] = Uninit
        /\ s \in Sections
    BY <1>1, <1>2, <1>5, EmitPlace
  <2>2. \A t \in Sections : \A a \in UnitAddresses(size[t]) :
          out'[t][a] = IF t = s /\ a = cursor[s] THEN Abstract!Contents(src, u)
                       ELSE out[t][a]
    BY <1>1, <1>2, <1>5, <1>7, EmitWrites
  <2>3. ASSUME NEW v \in Emitted \cup {u}
        PROVE  /\ Abstract!UnitIsLegal(src, v)
               /\ out'[Abstract!SectionAt(src, v[1])][Abstract!Place(src, v)]
                    = Abstract!Contents(src, v)
    <3>1. PICK t : t = Abstract!SectionAt(src, v[1])
      OBVIOUS
    <3>2. PICK a : a = Abstract!Place(src, v)
      OBVIOUS
    <3>3. t \in Sections /\ a \in UnitAddresses(size[t])
      <4>1. v \in Abstract!AllUnits(src) /\ phase \in AfterPass1
        BY <1>2, <1>6, <1>9 DEF AfterPass1
      <4> QED
        BY <1>1, <3>1, <3>2, <4>1, PlacesFit
    <3>4. CASE v = u
      BY <1>6, <1>7, <2>2, <3>1, <3>2, <3>3, <3>4
    <3>5. CASE v \in Emitted
      <4>1. /\ Abstract!UnitIsLegal(src, v)
            /\ out[t][a] = Abstract!Contents(src, v)
        BY <1>1, <1>2, <3>1, <3>2, <3>5 DEF UnitsSoFar
      <4>2. ~(t = s /\ a = cursor[s])
        BY <2>1, <4>1, ContentsWritten
      <4> QED
        BY <2>2, <3>1, <3>2, <3>3, <4>1, <4>2
    <3> QED
      BY <3>4, <3>5
  <2> QED
    BY <1>3, <1>8, <2>3 DEF UnitsSoFar
<1>11. RelocsSoFar'
  <2> DEFINE Needed == Abstract!Relocated(src)
             before == Emitted \intersect Needed
             after == Emitted' \intersect Needed
             rank(v) == Cardinality(Abstract!RelocatedUpTo(src, v))
             entry(v) == Abstract!Reloc(src, v)
  <2>1. relocs \in Seq(ObjReloc)
    BY <1>1 DEF TypeOK
  <2>2. /\ Len(relocs) = Cardinality(before)
        /\ \A v \in before : relocs[rank(v)] = entry(v)
    BY <1>1, <1>2 DEF RelocsSoFar
  <2>3. /\ IsFiniteSet(before) /\ Cardinality(before) \in Nat
        /\ u \notin before
    <3>1. before \in SUBSET Emitted
      OBVIOUS
    <3> QED
      BY <1>8, <1>9, <3>1, FS_Subset, FS_CardinalityType
  <2>4. u \in Needed <=> Abstract!NeedsReloc(src, u)
    BY <1>6 DEF Abstract!Relocated
  <2>5. /\ Len(relocs') = Cardinality(after)
        /\ \A v \in after : relocs'[rank(v)] = entry(v)
    <3>1. CASE ~Abstract!NeedsReloc(src, u)
      <4>1. after = before /\ relocs' = relocs
        BY <1>7, <1>8, <2>4, <3>1
      <4> HIDE DEF before, after, rank, entry
      <4> QED
        BY <2>2, <4>1
    <3>2. CASE Abstract!NeedsReloc(src, u)
      <4>1. after = before \cup {u}
        BY <1>8, <2>4, <3>2
      <4>2. Cardinality(after) = Cardinality(before) + 1
        BY <2>3, <4>1, FS_AddElement
      <4>3. \A v \in Needed : /\ v[1] \in Nat /\ v[2] \in Nat
                              /\ v \in Abstract!AllUnits(src)
        BY <1>1, EmittedKnown DEF Abstract!Relocated
      <4>4. line \in Nat /\ item \in Nat /\ u[1] = line /\ u[2] = item
        BY <1>1, <1>4 DEF TypeOK
      <4>5. \A v \in before : rank(v) \in 1 .. Cardinality(before)
        <5> TAKE v \in before
        <5>1. Abstract!RelocatedUpTo(src, v) \in SUBSET before
          BY <4>3, <4>4 DEF Abstract!RelocatedUpTo, Emitted
        <5>2. v \in Abstract!RelocatedUpTo(src, v)
          BY <4>3 DEF Abstract!RelocatedUpTo
        <5>3. /\ rank(v) <= Cardinality(before)
              /\ IsFiniteSet(Abstract!RelocatedUpTo(src, v))
          BY <2>3, <5>1, FS_Subset
        <5>4. rank(v) \in Nat /\ rank(v) # 0
          BY <5>2, <5>3, FS_CardinalityType, FS_EmptySet
        <5> HIDE DEF rank, before
        <5> QED
          BY <2>3, <5>3, <5>4
      <4>6. rank(u) = Cardinality(after)
        <5>1. Abstract!RelocatedUpTo(src, u)
                = {v \in Needed : v[1] < line \/ (v[1] = line /\ v[2] <= item)}
          BY <4>4 DEF Abstract!RelocatedUpTo
        <5>2. after = {v \in Needed : v[1] < line \/ (v[1] = line /\ v[2] < item + 1)}
          <6>1. Emitted' = {v \in Abstract!AllUnits(src) :
                              v[1] < line \/ (v[1] = line /\ v[2] < item + 1)}
            BY <1>3 DEF Emitted
          <6> QED
            BY <4>3, <6>1
        <5>3. \A v \in Needed : v[2] <= item <=> v[2] < item + 1
          BY <4>3, <4>4
        <5>4. Abstract!RelocatedUpTo(src, u) = after
          BY <5>1, <5>2, <5>3
        <5> QED
          BY <5>4
      <4>7. relocs' = Append(relocs, entry(u))
        BY <1>7, <3>2
      <4> HIDE DEF before, after, rank, entry
      <4>8. /\ Len(relocs') = Len(relocs) + 1 /\ Len(relocs) \in Nat
            /\ \A i \in 1 .. Len(relocs) : relocs'[i] = relocs[i]
            /\ relocs'[Len(relocs) + 1] = entry(u)
        BY <2>1, <4>7, Appended
      <4>9. Len(relocs') = Cardinality(after)
        BY <2>2, <2>3, <4>2, <4>8
      <4>10. \A v \in before : relocs'[rank(v)] = entry(v)
        BY <2>2, <4>5, <4>8
      <4>11. relocs'[rank(u)] = entry(u)
        BY <2>2, <4>2, <4>6, <4>8
      <4> QED
        BY <4>1, <4>9, <4>10, <4>11
    <3> QED
      BY <3>1, <3>2
  <2> HIDE DEF rank, entry
  <2> QED
    BY <1>3, <2>5 DEF RelocsSoFar, BeforePass2, rank, entry
<1> QED
  BY <1>10, <1>11

(* Between two blocks nothing is emitted.                                  *)
LEMMA EmittedKept ==
  ASSUME TypeOK, NextBlock
  PROVE  Emitted' = Emitted
<1>1. line \in Nat /\ item \in Nat /\ src \in Source /\ line \in DOMAIN src.blocks
  BY DEF TypeOK, NextBlock, InBlock, Blocks, Source
<1>2. src' = src /\ line' = line + 1 /\ item' = 1 /\ item > Units(src.blocks[line])
  BY DEF NextBlock, Block
<1>3. ASSUME NEW v \in Abstract!AllUnits(src)
      PROVE  (v[1] < line + 1 \/ (v[1] = line + 1 /\ v[2] < 1))
               <=> (v[1] < line \/ (v[1] = line /\ v[2] < item))
  <2>1. v[1] \in Nat /\ v[2] \in Nat \ {0}
    BY EmittedKnown
  <2>2. ASSUME v[1] = line PROVE v[2] < item
    <3> DEFINE units == Units(src.blocks[line])
    <3>1. units \in Nat /\ v[2] \in 1 .. units /\ item > units
      BY <1>1, <1>2, <2>2, UnitsKnown
    <3> HIDE DEF units
    <3> QED
      BY <1>1, <3>1
  <2> QED
    BY <1>1, <2>1, <2>2
<1>4. Emitted' = {v \in Abstract!AllUnits(src) :
                    v[1] < line + 1 \/ (v[1] = line + 1 /\ v[2] < 1)}
  BY <1>2 DEF Emitted
<1> QED
  BY <1>3, <1>4 DEF Emitted

(* No unit has been emitted at first.                                      *)
LEMMA UnitsInit == Init => UnitsSoFar /\ RelocsSoFar
BY DEF Init, UnitsSoFar, RelocsSoFar

(* Every step keeps the units and relocations emitted so far.              *)
LEMMA UnitsStep ==
  ASSUME ObjectInv, [Next]_vars
  PROVE  UnitsSoFar' /\ RelocsSoFar'
<1>1. TypeOK /\ BlocksSoFar /\ UnitsSoFar /\ RelocsSoFar
  BY DEF ObjectInv, IInv, LayoutInv
<1>2. CASE EmitInstruction \/ EmitPayload
  BY <1>2, EmitUnits
<1>3. CASE AllocateBuffers
  <2>1. /\ src' = src /\ phase = "imports" /\ phase' = "pass2" /\ line' = 1 /\ item' = 1
        /\ relocs' = relocs
    BY <1>3 DEF AllocateBuffers
  <2>2. Emitted' = {}
    <3>1. Emitted' = {v \in Abstract!AllUnits(src) : v[1] < 1 \/ (v[1] = 1 /\ v[2] < 1)}
      BY <2>1 DEF Emitted
    <3>2. ASSUME NEW v \in Abstract!AllUnits(src)
          PROVE  ~(v[1] < 1 \/ (v[1] = 1 /\ v[2] < 1))
      <4>1. v[1] \in Nat /\ v[2] \in Nat \ {0}
        BY <1>1, EmittedKnown
      <4>2. src \in Source
        BY <1>1 DEF TypeOK
      <4>3. v[1] \in DOMAIN src.blocks /\ DOMAIN src.blocks = 1 .. Len(src.blocks)
        BY <4>2, UnitsKnown
      <4> QED
        BY <4>1, <4>3
    <3> QED
      BY <3>1, <3>2
  <2>3. relocs = << >>
    BY <1>1, <2>1 DEF RelocsSoFar, BeforePass2
  <2>4. \A S : {} \intersect S = {}
    OBVIOUS
  <2>5. Cardinality({}) = 0 /\ Len(<< >>) = 0
    BY FS_EmptySet
  <2>6. UnitsSoFar'
    BY <2>1, <2>2 DEF UnitsSoFar
  <2>7. RelocsSoFar'
    BY <2>1, <2>2, <2>3, <2>4, <2>5 DEF RelocsSoFar, BeforePass2
  <2> QED
    BY <2>6, <2>7
<1>4. CASE NextBlock
  <2>1. /\ src' = src /\ phase = "pass2" /\ phase' = "pass2"
        /\ out' = out /\ relocs' = relocs
    BY <1>4 DEF NextBlock, InBlock
  <2>2. Emitted' = Emitted
    BY <1>1, <1>4, EmittedKept
  <2>3. UnitsSoFar'
    BY <1>1, <2>1, <2>2 DEF UnitsSoFar
  <2>4. RelocsSoFar'
    BY <1>1, <2>1, <2>2 DEF RelocsSoFar, BeforePass2
  <2> QED
    BY <2>3, <2>4
<1>5. CASE Return \/ UNCHANGED vars
  <2>1. /\ UNCHANGED <<src, line, item, out, relocs>>
        /\ \/ phase = "pass2" /\ phase' = "done"
           \/ phase' = phase
    BY <1>5 DEF Return, vars
  <2>2. Emitted' = Emitted
    BY <2>1 DEF Emitted
  <2>3. UnitsSoFar'
    BY <1>1, <2>1, <2>2 DEF UnitsSoFar
  <2>4. RelocsSoFar'
    BY <1>1, <2>1, <2>2 DEF RelocsSoFar, BeforePass2
  <2> QED
    BY <2>3, <2>4
<1>6. CASE ~(EmitInstruction \/ EmitPayload) /\ ~AllocateBuffers /\ ~NextBlock
           /\ ~(Return \/ UNCHANGED vars)
  <2>1. \/ phase \in BeforePass2 /\ phase' \in BeforePass2 /\ relocs' = relocs
        \/ phase' = "error"
    BY <1>6 DEF Next, Step, Pass1, Middle, Pass2, AssignAddress, EndPass1,
      RejectCodeOutsideText, CheckExports, RejectExport, RecordImport,
      RejectInstruction, RejectWord, Terminated, Fail, BeforePass2
  <2> QED
    BY <1>1, <2>1 DEF UnitsSoFar, RelocsSoFar, BeforePass2
<1> QED
  BY <1>2, <1>3, <1>4, <1>5, <1>6

(* The invariant of CodeGenInv holds at first ...                          *)
LEMMA IInvInit == Init => IInv
BY InvInit DEF IInv, LayoutInv, OneEntryPerBlock, Init, Ordered, JumpsEncoded, TablesAgree,
   ImportsEntered

(* ... and every step keeps it.                                            *)
LEMMA IInvStep ==
  ASSUME IInv, [Next]_vars
  PROVE  IInv'
<1>1. LayoutInv /\ Ordered /\ JumpsEncoded /\ TablesAgree /\ ImportsEntered
  BY DEF IInv
<1>2. LayoutInv'
  BY <1>1, InvStep
<1>3. Ordered' /\ JumpsEncoded'
  BY <1>1, OrderedStep, JumpsStep
<1>4. TablesAgree' /\ ImportsEntered'
  BY <1>1, TablesStep
<1> QED
  BY <1>2, <1>3, <1>4 DEF IInv

(* Everything that will be in the object is right as soon as it is there.  *)
THEOREM ObjectInvariant == Spec => []ObjectInv
<1>1. Init => ObjectInv
  <2> SUFFICES ASSUME Init PROVE ObjectInv
    OBVIOUS
  <2> QED
    BY IInvInit, BlocksInit, NamesInit, UnitsInit DEF ObjectInv
<1>2. ObjectInv /\ [Next]_vars => ObjectInv'
  <2> SUFFICES ASSUME ObjectInv, [Next]_vars PROVE ObjectInv'
    OBVIOUS
  <2>1. IInv /\ BlocksSoFar /\ NamesSoFar
    BY DEF ObjectInv
  <2>2. IInv'
    BY <2>1, IInvStep
  <2> QED
    BY <2>1, <2>2, BlocksStep, NamesStep, UnitsStep DEF ObjectInv
<1> QED
  BY <1>1, <1>2, PTL DEF Spec

---------------------------------------------------------------------------
(* The last step.                                                          *)

(* A program whose last unit has been emitted is legal, and what codeGen   *)
(* returns is its object.                                                  *)
LEMMA ReturnsObject ==
  ASSUME ObjectInv, phase = "pass2", line > Len(Blocks)
  PROVE  Abstract!IsLegal(src) /\ Abstract!IsObject(src, MachineCode)
<1>1. /\ IInv /\ TypeOK /\ OneEntryPerBlock /\ WritesInBounds
      /\ BlocksSoFar /\ NamesSoFar /\ UnitsSoFar /\ RelocsSoFar
  BY DEF ObjectInv, IInv, LayoutInv
<1>2. /\ src \in Source /\ Blocks = src.blocks /\ phase \in AfterPass1
      /\ DOMAIN src.blocks = 1 .. Len(src.blocks) /\ Len(src.blocks) \in Nat
      /\ Len(labelMap) = Len(src.blocks) /\ DOMAIN labelMap = DOMAIN src.blocks
      /\ line \in Nat
  BY <1>1 DEF TypeOK, Blocks, AfterPass1, OneEntryPerBlock, Source
<1>3. Emitted = Abstract!AllUnits(src)
  <2>1. \A u \in Abstract!AllUnits(src) : u[1] \in DOMAIN src.blocks
    BY <1>2, UnitsKnown
  <2>2. \A u \in Abstract!AllUnits(src) : u[1] < line
    BY <1>2, <2>1
  <2> QED
    BY <2>2 DEF Emitted
<1>4. Abstract!IsLegal(src)
  <2>1. \A i \in DOMAIN src.blocks : ~Abstract!HoldsCodeOutsideText(src.blocks[i])
    BY <1>1, <1>2, SameData DEF OneEntryPerBlock
  <2>2. \A m \in DOMAIN src.exports : Abstract!IsDefined(src, src.exports[m])
    BY <1>1 DEF NamesSoFar
  <2>3. \A u \in Abstract!AllUnits(src) : Abstract!UnitIsLegal(src, u)
    BY <1>1, <1>3 DEF UnitsSoFar
  <2> QED
    BY <2>1, <2>2, <2>3 DEF Abstract!IsLegal, Abstract!Positions
<1>5. /\ size \in [Sections -> Nat] /\ \A s \in Sections : size[s] = Abstract!Total(src, s)
  BY <1>1, <1>2 DEF TypeOK, BlocksSoFar
<1>6. size = [s \in Abstract!Sections |-> Abstract!Total(src, s)]
  BY <1>5, SameData
<1>7. Abstract!IsImage(src, out)
  <2>1. \A s \in Sections : DOMAIN out[s] = UnitAddresses(size[s])
    BY <1>1 DEF WritesInBounds
  <2>2. \A s \in Abstract!Sections :
          DOMAIN out[s] = Abstract!UnitAddresses(Abstract!Total(src, s))
    BY <1>5, <2>1, SameData
  <2>3. \A u \in Abstract!AllUnits(src) :
          out[Abstract!SectionAt(src, u[1])][Abstract!Place(src, u)]
            = Abstract!Contents(src, u)
    BY <1>1, <1>3 DEF UnitsSoFar
  <2> QED
    BY <2>2, <2>3 DEF Abstract!IsImage
<1>8. Abstract!IsSymbolTable(src, symbols)
  <2>1. Entered(Len(src.imports))
    BY <1>1 DEF NamesSoFar
  <2>2. \A i \in DOMAIN src.blocks : symbols[i] = Abstract!DefinedSymbol(src, i)
    BY <1>1, <1>2 DEF BlocksSoFar
  <2> QED
    BY <1>2, <2>1, <2>2, SameCounts
       DEF Entered, Abstract!IsSymbolTable, Abstract!Positions
<1>9. Abstract!IsCollectTable(src, collects)
  BY <1>1, <1>2, SameCounts DEF BlocksSoFar, Abstract!IsCollectTable
<1>10. Abstract!IsRelocTable(src, relocs)
  <2>1. Emitted \intersect Abstract!Relocated(src) = Abstract!Relocated(src)
    BY <1>3 DEF Abstract!Relocated
  <2> QED
    BY <1>1, <2>1, SameCounts DEF RelocsSoFar, Abstract!IsRelocTable
<1> QED
  BY <1>4, <1>6, <1>7, <1>8, <1>9, <1>10 DEF Abstract!IsObject, MachineCode

(* A program that is rejected is not a legal one.                          *)
LEMMA RejectsIllegal ==
  ASSUME ObjectInv,
         RejectCodeOutsideText \/ RejectExport \/ RejectInstruction \/ RejectWord
  PROVE  ~Abstract!IsLegal(src)
<1>1. IInv /\ TypeOK /\ BlocksSoFar
  BY DEF ObjectInv, IInv, LayoutInv
<1>2. /\ line \in Nat \ {0} /\ item \in Nat \ {0} /\ Blocks = src.blocks
      /\ Len(Blocks) \in Nat /\ DOMAIN Blocks = 1 .. Len(Blocks)
  BY <1>1, CurrentType DEF Blocks, TypeOK
<1>3. CASE RejectCodeOutsideText
  <2>1. line \in DOMAIN src.blocks /\ Abstract!HoldsCodeOutsideText(src.blocks[line])
    BY <1>2, <1>3, SameData DEF RejectCodeOutsideText, Block
  <2> QED
    BY <2>1 DEF Abstract!IsLegal, Abstract!Positions
<1>4. CASE RejectExport
  <2>1. /\ phase \in AfterPass1
        /\ \E m \in DOMAIN src.exports : ~IsDefined(src.exports[m])
    BY <1>4 DEF RejectExport, AfterPass1
  <2>2. \E m \in DOMAIN src.exports : ~Abstract!IsDefined(src, src.exports[m])
    BY <1>1, <2>1, LookupsMean
  <2> QED
    BY <2>2 DEF Abstract!IsLegal
<1>5. CASE RejectInstruction \/ RejectWord
  <2>1. PICK u : u = <<line, item>>
    OBVIOUS
  <2>2. PICK s : s = SectionOf(Block)
    OBVIOUS
  <2>3. InBlock /\ phase \in AfterPass1 /\ Block \in AsmBlock
    BY <1>1, <1>5, CurrentType DEF RejectInstruction, RejectWord, AtInstr, AtWord, InBlock,
       AfterPass1
  <2>4. item <= Units(Block)
    <3> DEFINE groups == (Len(Block.data) + 3) \div 4
               code == Len(Block.instrs)
               words == Len(Block.words)
    <3>1. /\ Units(Block) = code + groups + words
          /\ code \in Nat /\ groups \in Nat /\ words \in Nat
          /\ WordItem = item - code - groups
      BY <2>3, SizeType DEF Units, WordItem
    <3>2. item <= code \/ WordItem \in 1 .. words
      BY <1>5 DEF RejectInstruction, RejectWord, AtInstr, AtWord
    <3> HIDE DEF groups, code, words
    <3> QED
      BY <1>2, <3>1, <3>2
  <2>5. /\ u \in Abstract!AllUnits(src)
        /\ Abstract!IsInstr(src, u) <=> item <= Len(Block.instrs)
        /\ Abstract!IsWord(src, u) <=> WordItem > 0
        /\ item <= Len(Block.instrs) =>
             Abstract!InstrAt(src, u) = Instr /\ WordItem <= 0 /\ Instr \in Instruction
        /\ Abstract!WordAt(src, u) = Word
    BY <1>1, <2>1, <2>2, <2>3, <2>4, UnitHere
  <2>6. \A l : /\ IsDefined(l) <=> Abstract!IsDefined(src, l)
               /\ IsDefined(l) => /\ LabelAddress(l) = Abstract!AddressOf(src, l)
                                  /\ LabelAddress(l) \in Nat
               /\ IsImported(l) <=> Abstract!Imported(src, l)
    BY <1>1, <2>3, LookupsMean, LabelAddressType DEF TypeOK
  <2>7. ~Abstract!UnitIsLegal(src, u)
    <3>1. CASE RejectInstruction
      <4>1. /\ item <= Len(Block.instrs) /\ Instr.kind \in OperandKinds \cup FixupKinds
            /\ CASE Instr.kind \in OperandKinds -> ~OperandsFit(Instr)
                 [] Instr.kind = "LABEL" ->
                      ~IsDefined(Instr.label) /\ ~IsImported(Instr.label)
                 [] Instr.kind = "REGLABEL" ->
                      IF IsDefined(Instr.label) THEN LabelAddress(Instr.label) >= ImmSpan
                                                ELSE ~IsImported(Instr.label)
        BY <3>1 DEF RejectInstruction, AtInstr, Instr
      <4>2. /\ Abstract!IsInstr(src, u) /\ Abstract!InstrAt(src, u) = Instr
            /\ Abstract!Reference(src, u) = Instr.label
            /\ Abstract!Refers(src, u) <=> Instr.kind \in FixupKinds
        BY <2>5, <4>1, SameData DEF Abstract!Reference, Abstract!Refers
      <4>3. CASE Instr.kind \in OperandKinds
        <5>1. Instr.kind # "LABEL" /\ Instr.kind # "REGLABEL"
          BY <4>3 DEF OperandKinds
        <5>2. ~OperandsFit(Instr)
          BY <4>1, <4>3, <5>1
        <5> QED
          BY <4>2, <4>3, <5>2, SameData, SameEncodings DEF Abstract!UnitIsLegal
      <4>4. CASE Instr.kind = "LABEL"
        <5>1. Instr.kind \notin OperandKinds /\ Instr.kind \in FixupKinds
          BY <4>4 DEF OperandKinds, FixupKinds
        <5>2. ~IsDefined(Instr.label) /\ ~IsImported(Instr.label)
          BY <4>1, <4>4, <5>1
        <5> QED
          BY <2>6, <4>2, <5>1, <5>2 DEF Abstract!UnitIsLegal
      <4>5. CASE Instr.kind = "REGLABEL"
        <5>1. Instr.kind \notin OperandKinds /\ Instr.kind \in FixupKinds
          BY <4>5 DEF OperandKinds, FixupKinds
        <5>2. IF IsDefined(Instr.label) THEN LabelAddress(Instr.label) >= ImmSpan
                                        ELSE ~IsImported(Instr.label)
          BY <4>1, <4>5, <5>1
        <5>3. ImmSpan \in Nat
          BY WidthAssumption
        <5>4. CASE ~IsDefined(Instr.label)
          BY <2>6, <4>2, <5>1, <5>2, <5>4 DEF Abstract!UnitIsLegal
        <5>5. CASE IsDefined(Instr.label)
          <6>1. Abstract!AddressOf(src, Instr.label) = LabelAddress(Instr.label)
            BY <2>6, <5>5
          <6>2. ~(LabelAddress(Instr.label) < ImmSpan)
            BY <2>6, <5>2, <5>3, <5>5
          <6> QED
            BY <2>6, <4>2, <4>5, <5>5, <6>1, <6>2 DEF Abstract!UnitIsLegal
        <5> QED
          BY <5>4, <5>5
      <4> QED
        BY <4>1, <4>3, <4>4, <4>5 DEF FixupKinds
    <3>2. CASE RejectWord
      <4>1. /\ WordItem > 0 /\ Word.symbol # NoLabel
            /\ ~IsDefined(Word.symbol) /\ ~IsImported(Word.symbol)
        BY <3>2 DEF RejectWord, AtWord
      <4>2. ~(item <= Len(Block.instrs))
        <5>1. WordItem \in 1 .. Len(Block.words)
          BY <3>2 DEF RejectWord, AtWord
        <5> QED
          BY <2>5, <5>1
      <4>3. Abstract!Refers(src, u) /\ Abstract!Reference(src, u) = Word.symbol
        BY <2>5, <4>1, <4>2 DEF Abstract!Refers, Abstract!Reference
      <4> QED
        BY <2>6, <4>1, <4>3 DEF Abstract!UnitIsLegal
    <3> QED
      BY <1>5, <3>1, <3>2
  <2> QED
    BY <2>5, <2>7 DEF Abstract!IsLegal
<1> QED
  BY <1>3, <1>4, <1>5

(* The two-pass code generator implements ObjectSpec: for every program    *)
(* and every choice of the constants, what it delivers is the object that  *)
(* the program alone determines, or a rejection exactly when the program   *)
(* is not a legal one.                                                     *)
THEOREM Refinement == Spec => ImplementsObjectSpec
<1>1. Init => Abstract!Init
  BY DEF Init, Abstract!Init, Result, Abstract!Pending
<1>2. ObjectInv /\ [Next]_vars => [Abstract!Assemble]_<<src, Result>>
  <2> SUFFICES ASSUME ObjectInv, [Next]_vars
               PROVE  [Abstract!Assemble]_<<src, Result>>
    OBVIOUS
  <2>1. CASE RejectCodeOutsideText \/ RejectExport \/ RejectInstruction \/ RejectWord
    <3>1. /\ src' = src /\ phase' = "error" /\ phase \notin {"done", "error"}
      BY <2>1 DEF RejectCodeOutsideText, RejectExport, RejectInstruction, RejectWord, Fail,
         AtInstr, AtWord, InBlock
    <3>2. Result = Abstract!Pending /\ Result' = Abstract!Rejected
      BY <3>1 DEF Result, Abstract!Pending, Abstract!Rejected
    <3>3. ~Abstract!IsLegal(src)
      BY <2>1, RejectsIllegal
    <3> QED
      BY <3>1, <3>2, <3>3 DEF Abstract!Assemble
  <2>2. CASE Return
    <3>1. /\ src' = src /\ phase = "pass2" /\ phase' = "done" /\ line > Len(Blocks)
          /\ MachineCode' = MachineCode
      BY <2>2 DEF Return, MachineCode, tables
    <3>2. /\ Result = Abstract!Pending
          /\ Result' = [verdict |-> "accepted", object |-> MachineCode]
      BY <3>1 DEF Result, Abstract!Pending
    <3>3. Abstract!IsLegal(src) /\ Abstract!IsObject(src, MachineCode)
      BY <3>1, ReturnsObject
    <3>4. Result'.verdict = "accepted" /\ Result'.object = MachineCode
      BY <3>2
    <3> QED
      BY <3>1, <3>2, <3>3, <3>4 DEF Abstract!Assemble
  <2>3. CASE UNCHANGED vars
    BY <2>3 DEF vars, tables, Result, MachineCode
  <2>4. CASE ~(RejectCodeOutsideText \/ RejectExport \/ RejectInstruction \/ RejectWord)
             /\ ~Return /\ ~UNCHANGED vars
    <3>1. src' = src /\ phase \notin {"done", "error"} /\ phase' \notin {"done", "error"}
      BY <2>4 DEF Next, Step, Pass1, Middle, Pass2, EmitInstruction, EmitPayload,
        AssignAddress, EndPass1, CheckExports, RecordImport, AllocateBuffers,
        EmitOperands, EmitJump, EmitExternalJump, EmitAddress, EmitExternalAddress,
        EmitData, EmitNumber, EmitSymbolWord, NextBlock, Terminated, Emit, AtInstr,
        InBlock, AtWord
    <3> QED
      BY <3>1 DEF Result
  <2> QED
    BY <2>1, <2>2, <2>3, <2>4
<1> QED
  BY <1>1, <1>2, ObjectInvariant, PTL DEF Spec, ImplementsObjectSpec, Abstract!Spec
===========================================================================
