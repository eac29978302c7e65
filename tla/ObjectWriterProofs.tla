------------------------ MODULE ObjectWriterProofs -------------------------
(***************************************************************************)
(* The object file can be read back, for every MachineCode: after every    *)
(* write the file is a beginning of the file that is planned, cell by      *)
(* cell, and control knows how long a beginning.                           *)
(***************************************************************************)
EXTENDS ObjectWriterProps, SequenceTheorems, TLAPS

(* Where the parts of the planned file end.                                *)
TextEnd    == 1 + Len(mc.code)
DataEnd    == TextEnd + Len(mc.data)
BlobEnd    == DataEnd + Len(mc.blob)
SymbolEnd  == BlobEnd + Len(mc.symbols)
RelocEnd   == SymbolEnd + Len(mc.relocs)
CollectEnd == RelocEnd + Len(mc.collects)

Planned(p) ==
  IF p = 1 THEN Header
  ELSE IF p <= TextEnd THEN mc.code[p - 1]
  ELSE IF p <= DataEnd THEN mc.data[p - TextEnd]
  ELSE IF p <= BlobEnd THEN mc.blob[p - DataEnd]
  ELSE IF p <= SymbolEnd THEN SymbolEntry(mc.symbols[p - BlobEnd])
  ELSE IF p <= RelocEnd THEN RelocEntry(mc.relocs[p - SymbolEnd])
  ELSE CollectEntry(mc.collects[p - RelocEnd])

FileHeader ==
  [magic : {"LINKER_MAGIC"}, text_size : Nat, data_size : Nat, symtable_count : Nat,
   reloc_count : Nat, collect_count : Nat, collect_size : Nat]
Cell == FileHeader \union Byte \union ObjSymbol \union ObjReloc \union ObjCollect

(* How much of it has been written.                                        *)
Progress ==
  /\ at \in {"open", "header", "text", "data", "blob", "symbols", "relocs", "collects",
             "done", "failed"}
  /\ i \in Nat \ {0}
  /\ at \in {"open", "header", "failed"} => Len(file) = 0 /\ i = 1
  /\ at = "text" => Len(file) = 1 /\ i = 1
  /\ at = "data" => Len(file) = TextEnd /\ i = 1
  /\ at = "blob" => Len(file) = DataEnd /\ i = 1
  /\ at = "symbols" => Len(file) = BlobEnd + i - 1 /\ i <= Len(mc.symbols) + 1
  /\ at = "relocs" => Len(file) = SymbolEnd + i - 1 /\ i <= Len(mc.relocs) + 1
  /\ at = "collects" => Len(file) = RelocEnd + i - 1 /\ i <= Len(mc.collects) + 1
  /\ at = "done" => Len(file) = CollectEnd

AsPlanned == file \in Seq(Cell) /\ \A p \in 1 .. Len(file) : file[p] = Planned(p)

WriterInv == mc \in MachineCodes /\ AsPlanned /\ Progress

---------------------------------------------------------------------------
LEMMA CodeType ==
  ASSUME mc \in MachineCodes
  PROVE  /\ mc.code \in Seq(Byte) /\ mc.data \in Seq(Byte) /\ mc.blob \in Seq(Byte)
         /\ mc.symbols \in Seq(ObjSymbol) /\ mc.relocs \in Seq(ObjReloc)
         /\ mc.collects \in Seq(ObjCollect)
  BY WriterAssumption DEF MachineCode

LEMMA Ends ==
  ASSUME mc \in MachineCodes
  PROVE  /\ TextEnd \in Nat /\ DataEnd \in Nat /\ BlobEnd \in Nat
         /\ SymbolEnd \in Nat /\ RelocEnd \in Nat /\ CollectEnd \in Nat
         /\ 1 <= TextEnd /\ TextEnd <= DataEnd /\ DataEnd <= BlobEnd
         /\ BlobEnd <= SymbolEnd /\ SymbolEnd <= RelocEnd /\ RelocEnd <= CollectEnd
<1>1. /\ Len(mc.code) \in Nat /\ Len(mc.data) \in Nat /\ Len(mc.blob) \in Nat
      /\ Len(mc.symbols) \in Nat /\ Len(mc.relocs) \in Nat /\ Len(mc.collects) \in Nat
  BY CodeType
<1>2. TextEnd \in Nat /\ 1 <= TextEnd
  BY <1>1 DEF TextEnd
<1>3. DataEnd \in Nat /\ TextEnd <= DataEnd
  BY <1>1, <1>2 DEF DataEnd
<1>4. BlobEnd \in Nat /\ DataEnd <= BlobEnd
  BY <1>1, <1>3 DEF BlobEnd
<1>5. SymbolEnd \in Nat /\ BlobEnd <= SymbolEnd
  BY <1>1, <1>4 DEF SymbolEnd
<1>6. RelocEnd \in Nat /\ SymbolEnd <= RelocEnd
  BY <1>1, <1>5 DEF RelocEnd
<1>7. CollectEnd \in Nat /\ RelocEnd <= CollectEnd
  BY <1>1, <1>6 DEF CollectEnd
<1> QED
  BY <1>2, <1>3, <1>4, <1>5, <1>6, <1>7

(* A count that fits its field is what the field says.                     *)
LEMMA Fits == ASSUME NEW n \in Nat, n < SizeSpan PROVE n % SizeSpan = n
  BY WriterAssumption

LEMMA HeaderCounts ==
  ASSUME mc \in MachineCodes
  PROVE  /\ Header \in FileHeader
         /\ Header.text_size = Len(mc.code) /\ Header.data_size = Len(mc.data)
         /\ Header.collect_size = Len(mc.blob)
         /\ Header.symtable_count = Len(mc.symbols)
         /\ Header.reloc_count = Len(mc.relocs)
         /\ Header.collect_count = Len(mc.collects)
<1>1. /\ Len(mc.code) \in Nat /\ Len(mc.data) \in Nat /\ Len(mc.blob) \in Nat
      /\ Len(mc.symbols) \in Nat /\ Len(mc.relocs) \in Nat /\ Len(mc.collects) \in Nat
  BY CodeType
<1>2. /\ Len(mc.code) < SizeSpan /\ Len(mc.data) < SizeSpan /\ Len(mc.blob) < SizeSpan
      /\ Len(mc.symbols) < SizeSpan /\ Len(mc.relocs) < SizeSpan
      /\ Len(mc.collects) < SizeSpan
  BY WriterAssumption
<1>3. Header = [magic |-> "LINKER_MAGIC", text_size |-> Len(mc.code),
                data_size |-> Len(mc.data), symtable_count |-> Len(mc.symbols),
                reloc_count |-> Len(mc.relocs), collect_count |-> Len(mc.collects),
                collect_size |-> Len(mc.blob)]
  BY <1>1, <1>2, Fits DEF Header
<1> QED
  BY <1>1, <1>3 DEF FileHeader

(* A name cut to its field is a name.                                      *)
LEMMA CutNameType ==
  ASSUME NEW n \in Name
  PROVE  CutName(n) \in Name /\ (Len(n) < NameField => CutName(n) = n)
<1>1. n \in Seq(Character) /\ Len(n) \in Nat /\ NameField \in Nat \ {0}
  BY WriterAssumption DEF Name
<1>2. CASE Len(n) < NameField
  <2>1. CutName(n) = SubSeq(n, 1, Len(n))
    BY <1>2 DEF CutName
  <2>2. SubSeq(n, 1, Len(n)) = n
    BY <1>1
  <2> QED
    BY <2>1, <2>2, <1>2
<1>3. CASE ~(Len(n) < NameField)
  <2>1. CutName(n) = SubSeq(n, 1, NameField - 1)
    BY <1>3 DEF CutName
  <2>2. SubSeq(n, 1, NameField - 1) \in Seq(Character)
    BY <1>1, <1>3
  <2> QED
    BY <2>1, <2>2, <1>3 DEF Name
<1> QED
  BY <1>2, <1>3

LEMMA EntryTypes ==
  /\ \A s \in ObjSymbol : SymbolEntry(s) \in ObjSymbol
  /\ \A r \in ObjReloc : RelocEntry(r) \in ObjReloc
  /\ \A c \in ObjCollect : CollectEntry(c) \in ObjCollect
  BY CutNameType DEF SymbolEntry, RelocEntry, CollectEntry, ObjSymbol, ObjReloc, ObjCollect

(* The parts of the plan, each counted from where it begins.               *)
LEMMA PlannedParts ==
  ASSUME mc \in MachineCodes
  PROVE  /\ Planned(1) = Header
         /\ \A k \in 1 .. Len(mc.code) : Planned(1 + k) = mc.code[k]
         /\ \A k \in 1 .. Len(mc.data) : Planned(TextEnd + k) = mc.data[k]
         /\ \A k \in 1 .. Len(mc.blob) : Planned(DataEnd + k) = mc.blob[k]
         /\ \A k \in 1 .. Len(mc.symbols) : Planned(BlobEnd + k) = SymbolEntry(mc.symbols[k])
         /\ \A k \in 1 .. Len(mc.relocs) : Planned(SymbolEnd + k) = RelocEntry(mc.relocs[k])
         /\ \A k \in 1 .. Len(mc.collects) :
              Planned(RelocEnd + k) = CollectEntry(mc.collects[k])
<1>1. /\ Len(mc.code) \in Nat /\ Len(mc.data) \in Nat /\ Len(mc.blob) \in Nat
      /\ Len(mc.symbols) \in Nat /\ Len(mc.relocs) \in Nat /\ Len(mc.collects) \in Nat
  BY CodeType
<1>2. /\ TextEnd \in Nat /\ DataEnd \in Nat /\ BlobEnd \in Nat
      /\ SymbolEnd \in Nat /\ RelocEnd \in Nat
      /\ 1 <= TextEnd /\ TextEnd <= DataEnd /\ DataEnd <= BlobEnd
      /\ BlobEnd <= SymbolEnd /\ SymbolEnd <= RelocEnd
  BY Ends
<1>3. Planned(1) = Header
  BY DEF Planned
<1>4. ASSUME NEW k \in 1 .. Len(mc.code) PROVE Planned(1 + k) = mc.code[k]
  <2>1. 1 + k # 1 /\ 1 + k <= TextEnd /\ (1 + k) - 1 = k
    BY <1>1, <1>2 DEF TextEnd
  <2> QED
    BY <2>1 DEF Planned
<1>5. ASSUME NEW k \in 1 .. Len(mc.data) PROVE Planned(TextEnd + k) = mc.data[k]
  <2>1. /\ TextEnd + k # 1 /\ ~(TextEnd + k <= TextEnd) /\ TextEnd + k <= DataEnd
        /\ (TextEnd + k) - TextEnd = k
    BY <1>1, <1>2 DEF DataEnd
  <2> QED
    BY <2>1 DEF Planned
<1>6. ASSUME NEW k \in 1 .. Len(mc.blob) PROVE Planned(DataEnd + k) = mc.blob[k]
  <2>1. /\ DataEnd + k # 1 /\ ~(DataEnd + k <= TextEnd) /\ ~(DataEnd + k <= DataEnd)
        /\ DataEnd + k <= BlobEnd /\ (DataEnd + k) - DataEnd = k
    BY <1>1, <1>2 DEF BlobEnd
  <2> QED
    BY <2>1 DEF Planned
<1>7. ASSUME NEW k \in 1 .. Len(mc.symbols)
      PROVE  Planned(BlobEnd + k) = SymbolEntry(mc.symbols[k])
  <2>1. /\ BlobEnd + k # 1 /\ ~(BlobEnd + k <= TextEnd) /\ ~(BlobEnd + k <= DataEnd)
        /\ ~(BlobEnd + k <= BlobEnd) /\ BlobEnd + k <= SymbolEnd
        /\ (BlobEnd + k) - BlobEnd = k
    BY <1>1, <1>2 DEF SymbolEnd
  <2> QED
    BY <2>1 DEF Planned
<1>8. ASSUME NEW k \in 1 .. Len(mc.relocs)
      PROVE  Planned(SymbolEnd + k) = RelocEntry(mc.relocs[k])
  <2>1. /\ SymbolEnd + k # 1 /\ ~(SymbolEnd + k <= TextEnd) /\ ~(SymbolEnd + k <= DataEnd)
        /\ ~(SymbolEnd + k <= BlobEnd) /\ ~(SymbolEnd + k <= SymbolEnd)
        /\ SymbolEnd + k <= RelocEnd /\ (SymbolEnd + k) - SymbolEnd = k
    BY <1>1, <1>2 DEF RelocEnd
  <2> QED
    BY <2>1 DEF Planned
<1>9. ASSUME NEW k \in 1 .. Len(mc.collects)
      PROVE  Planned(RelocEnd + k) = CollectEntry(mc.collects[k])
  <2>1. /\ RelocEnd + k # 1 /\ ~(RelocEnd + k <= TextEnd) /\ ~(RelocEnd + k <= DataEnd)
        /\ ~(RelocEnd + k <= BlobEnd) /\ ~(RelocEnd + k <= SymbolEnd)
        /\ ~(RelocEnd + k <= RelocEnd) /\ (RelocEnd + k) - RelocEnd = k
    BY <1>1, <1>2
  <2> QED
    BY <2>1 DEF Planned
<1> QED
  BY <1>3, <1>4, <1>5, <1>6, <1>7, <1>8, <1>9

LEMMA PlanKept ==
  ASSUME mc' = mc
  PROVE  /\ TextEnd' = TextEnd /\ DataEnd' = DataEnd /\ BlobEnd' = BlobEnd
         /\ SymbolEnd' = SymbolEnd /\ RelocEnd' = RelocEnd /\ CollectEnd' = CollectEnd
         /\ \A p : Planned(p)' = Planned(p)
<1>1. /\ TextEnd' = TextEnd /\ DataEnd' = DataEnd /\ BlobEnd' = BlobEnd
      /\ SymbolEnd' = SymbolEnd /\ RelocEnd' = RelocEnd /\ CollectEnd' = CollectEnd
  BY DEF TextEnd, DataEnd, BlobEnd, SymbolEnd, RelocEnd, CollectEnd
<1>2. Header' = Header
  BY DEF Header
<1> QED
  BY <1>1, <1>2 DEF Planned

(* A write of the next planned cells.                                      *)
LEMMA WritePlanned ==
  ASSUME WriterInv, NEW cells \in Seq(Cell), mc' = mc, file' = file \o cells,
         \A k \in 1 .. Len(cells) : cells[k] = Planned(Len(file) + k)
  PROVE  AsPlanned' /\ Len(file') = Len(file) + Len(cells)
<1>1. file \in Seq(Cell) /\ Len(file) \in Nat /\ Len(cells) \in Nat
  BY DEF WriterInv, AsPlanned
<1>2. file' \in Seq(Cell) /\ Len(file') = Len(file) + Len(cells)
  BY <1>1
<1>3. ASSUME NEW p \in 1 .. Len(file') PROVE file'[p] = Planned(p)
  <2>1. CASE p <= Len(file)
    <3>1. file'[p] = file[p]
      BY <1>1, <1>2, <2>1
    <3> QED
      BY <3>1, <1>1, <2>1 DEF WriterInv, AsPlanned
  <2>2. CASE p > Len(file)
    <3>1. p - Len(file) \in 1 .. Len(cells) /\ Len(file) + (p - Len(file)) = p
      BY <1>1, <1>2, <2>2
    <3>2. file'[p] = cells[p - Len(file)]
      BY <1>1, <1>2, <2>2
    <3>3. cells[p - Len(file)] = Planned(Len(file) + (p - Len(file)))
      BY <3>1
    <3> QED
      BY <3>1, <3>2, <3>3
  <2> QED
    BY <2>1, <2>2, <1>1, <1>2
<1> QED
  BY <1>2, <1>3, PlanKept DEF AsPlanned
---------------------------------------------------------------------------
LEMMA InitPlanned == Init => WriterInv
  BY DEF Init, WriterInv, AsPlanned, Progress

LEMMA CellSeqs ==
  ASSUME mc \in MachineCodes
  PROVE  mc.code \in Seq(Cell) /\ mc.data \in Seq(Cell) /\ mc.blob \in Seq(Cell)
<1>1. Byte \subseteq Cell
  BY DEF Cell
<1> QED
  BY <1>1, CodeType

LEMMA HeaderStep == WriterInv /\ WriteHeader => WriterInv'
<1> SUFFICES ASSUME WriterInv, WriteHeader PROVE WriterInv'
  OBVIOUS
<1> DEFINE cells == <<Header>>
<1>1. mc \in MachineCodes /\ mc' = mc /\ file' = file \o cells /\ at = "header"
      /\ at' = "text" /\ i' = i
  BY DEF WriterInv, WriteHeader, Write
<1>2. Len(file) = 0 /\ i = 1
  BY <1>1 DEF WriterInv, Progress
<1>3. cells \in Seq(Cell) /\ Len(cells) = 1 /\ cells[1] = Header
  BY <1>1, HeaderCounts DEF Cell
<1> HIDE DEF cells
<1>4. \A k \in 1 .. Len(cells) : cells[k] = Planned(Len(file) + k)
  BY <1>1, <1>2, <1>3, PlannedParts
<1>5. AsPlanned' /\ Len(file') = Len(file) + Len(cells)
  BY <1>1, <1>3, <1>4, WritePlanned
<1>6. Progress'
  BY <1>1, <1>2, <1>3, <1>5 DEF Progress
<1> QED
  BY <1>1, <1>5, <1>6 DEF WriterInv

LEMMA TextStep == WriterInv /\ WriteText => WriterInv'
<1> SUFFICES ASSUME WriterInv, WriteText PROVE WriterInv'
  OBVIOUS
<1>1. mc \in MachineCodes /\ mc' = mc /\ file' = file \o mc.code /\ at = "text"
      /\ at' = "data" /\ i' = i
  BY DEF WriterInv, WriteText, Write
<1>2. Len(file) = 1 /\ i = 1
  BY <1>1 DEF WriterInv, Progress
<1>3. mc.code \in Seq(Cell)
  BY <1>1, CellSeqs
<1>4. \A k \in 1 .. Len(mc.code) : mc.code[k] = Planned(Len(file) + k)
  BY <1>1, <1>2, PlannedParts
<1>5. AsPlanned' /\ Len(file') = Len(file) + Len(mc.code)
  BY <1>1, <1>3, <1>4, WritePlanned
<1>6. Len(file') = TextEnd'
  BY <1>1, <1>2, <1>5, PlanKept DEF TextEnd
<1>7. Progress'
  BY <1>1, <1>2, <1>6, Ends, PlanKept, CodeType DEF Progress
<1> QED
  BY <1>1, <1>5, <1>7 DEF WriterInv

LEMMA DataStep == WriterInv /\ WriteData => WriterInv'
<1> SUFFICES ASSUME WriterInv, WriteData PROVE WriterInv'
  OBVIOUS
<1>1. mc \in MachineCodes /\ mc' = mc /\ file' = file \o mc.data /\ at = "data"
      /\ at' = "blob" /\ i' = i
  BY DEF WriterInv, WriteData, Write
<1>2. Len(file) = TextEnd /\ i = 1
  BY <1>1 DEF WriterInv, Progress
<1>3. mc.data \in Seq(Cell)
  BY <1>1, CellSeqs
<1>4. \A k \in 1 .. Len(mc.data) : mc.data[k] = Planned(Len(file) + k)
  BY <1>1, <1>2, PlannedParts
<1>5. AsPlanned' /\ Len(file') = Len(file) + Len(mc.data)
  BY <1>1, <1>3, <1>4, WritePlanned
<1>6. Len(file') = DataEnd'
  BY <1>1, <1>2, <1>5, PlanKept DEF DataEnd
<1>7. Progress'
  BY <1>1, <1>2, <1>6, Ends, PlanKept, CodeType DEF Progress
<1> QED
  BY <1>1, <1>5, <1>7 DEF WriterInv

LEMMA BlobStep == WriterInv /\ WriteBlob => WriterInv'
<1> SUFFICES ASSUME WriterInv, WriteBlob PROVE WriterInv'
  OBVIOUS
<1>1. mc \in MachineCodes /\ mc' = mc /\ file' = file \o mc.blob /\ at = "blob"
      /\ at' = "symbols" /\ i' = i
  BY DEF WriterInv, WriteBlob, Write
<1>2. Len(file) = DataEnd /\ i = 1
  BY <1>1 DEF WriterInv, Progress
<1>3. mc.blob \in Seq(Cell)
  BY <1>1, CellSeqs
<1>4. \A k \in 1 .. Len(mc.blob) : mc.blob[k] = Planned(Len(file) + k)
  BY <1>1, <1>2, PlannedParts
<1>5. AsPlanned' /\ Len(file') = Len(file) + Len(mc.blob)
  BY <1>1, <1>3, <1>4, WritePlanned
<1>6. Len(file') = BlobEnd'
  BY <1>1, <1>2, <1>5, PlanKept DEF BlobEnd
<1>7. Progress'
  BY <1>1, <1>2, <1>6, Ends, PlanKept, CodeType DEF Progress
<1> QED
  BY <1>1, <1>5, <1>7 DEF WriterInv

LEMMA SymbolStep == WriterInv /\ WriteSymbol => WriterInv'
<1> SUFFICES ASSUME WriterInv, WriteSymbol PROVE WriterInv'
  OBVIOUS
<1> DEFINE cells == <<SymbolEntry(mc.symbols[i])>>
<1>1. mc \in MachineCodes /\ mc' = mc /\ file' = file \o cells /\ at = "symbols"
      /\ at' = "symbols" /\ i' = i + 1 /\ i <= Len(mc.symbols)
  BY DEF WriterInv, WriteSymbol, Entry, Write
<1>2. Len(file) = BlobEnd + i - 1 /\ i \in Nat \ {0}
  BY <1>1 DEF WriterInv, Progress
<1>3. /\ BlobEnd \in Nat /\ Len(mc.symbols) \in Nat /\ i \in 1 .. Len(mc.symbols)
      /\ Len(file) + 1 = BlobEnd + i
  <2>1. BlobEnd \in Nat
    BY <1>1, Ends
  <2>2. Len(mc.symbols) \in Nat
    BY <1>1, CodeType
  <2> QED
    BY <1>1, <1>2, <2>1, <2>2
<1>4. SymbolEntry(mc.symbols[i]) \in Cell
  BY <1>1, <1>3, CodeType, EntryTypes DEF Cell
<1>5. cells \in Seq(Cell) /\ Len(cells) = 1 /\ cells[1] = SymbolEntry(mc.symbols[i])
  BY <1>4
<1> HIDE DEF cells
<1>6. \A k \in 1 .. Len(cells) : cells[k] = Planned(Len(file) + k)
  BY <1>1, <1>3, <1>5, PlannedParts
<1>7. AsPlanned' /\ Len(file') = Len(file) + Len(cells)
  BY <1>1, <1>5, <1>6, WritePlanned
<1>8. Progress'
  BY <1>1, <1>2, <1>3, <1>5, <1>7, PlanKept DEF Progress
<1> QED
  BY <1>1, <1>7, <1>8 DEF WriterInv

LEMMA SymbolsEndStep == WriterInv /\ EndSymbols => WriterInv'
<1> SUFFICES ASSUME WriterInv, EndSymbols PROVE WriterInv'
  OBVIOUS
<1>1. mc \in MachineCodes /\ mc' = mc /\ file' = file /\ at = "symbols"
      /\ at' = "relocs" /\ i' = 1 /\ i > Len(mc.symbols)
  BY DEF WriterInv, EndSymbols, EndTable
<1>2. Len(file) = BlobEnd + i - 1 /\ i <= Len(mc.symbols) + 1 /\ i \in Nat
  BY <1>1 DEF WriterInv, Progress
<1>3. BlobEnd \in Nat /\ Len(mc.symbols) \in Nat
  BY <1>1, Ends, CodeType
<1>4. Len(file) = SymbolEnd
  BY <1>1, <1>2, <1>3 DEF SymbolEnd
<1>5. AsPlanned'
  BY <1>1, PlanKept DEF WriterInv, AsPlanned
<1>6. Progress'
  BY <1>1, <1>4, Ends, PlanKept, CodeType DEF Progress
<1> QED
  BY <1>1, <1>5, <1>6 DEF WriterInv

LEMMA RelocStep == WriterInv /\ WriteReloc => WriterInv'
<1> SUFFICES ASSUME WriterInv, WriteReloc PROVE WriterInv'
  OBVIOUS
<1> DEFINE cells == <<RelocEntry(mc.relocs[i])>>
<1>1. mc \in MachineCodes /\ mc' = mc /\ file' = file \o cells /\ at = "relocs"
      /\ at' = "relocs" /\ i' = i + 1 /\ i <= Len(mc.relocs)
  BY DEF WriterInv, WriteReloc, Entry, Write
<1>2. Len(file) = SymbolEnd + i - 1 /\ i \in Nat \ {0}
  BY <1>1 DEF WriterInv, Progress
<1>3. /\ SymbolEnd \in Nat /\ Len(mc.relocs) \in Nat /\ i \in 1 .. Len(mc.relocs)
      /\ Len(file) + 1 = SymbolEnd + i
  <2>1. SymbolEnd \in Nat
    BY <1>1, Ends
  <2>2. Len(mc.relocs) \in Nat
    BY <1>1, CodeType
  <2> QED
    BY <1>1, <1>2, <2>1, <2>2
<1>4. RelocEntry(mc.relocs[i]) \in Cell
  BY <1>1, <1>3, CodeType, EntryTypes DEF Cell
<1>5. cells \in Seq(Cell) /\ Len(cells) = 1 /\ cells[1] = RelocEntry(mc.relocs[i])
  BY <1>4
<1> HIDE DEF cells
<1>6. \A k \in 1 .. Len(cells) : cells[k] = Planned(Len(file) + k)
  BY <1>1, <1>3, <1>5, PlannedParts
<1>7. AsPlanned' /\ Len(file') = Len(file) + Len(cells)
  BY <1>1, <1>5, <1>6, WritePlanned
<1>8. Progress'
  BY <1>1, <1>2, <1>3, <1>5, <1>7, PlanKept DEF Progress
<1> QED
  BY <1>1, <1>7, <1>8 DEF WriterInv

LEMMA RelocsEndStep == WriterInv /\ EndRelocs => WriterInv'
<1> SUFFICES ASSUME WriterInv, EndRelocs PROVE WriterInv'
  OBVIOUS
<1>1. mc \in MachineCodes /\ mc' = mc /\ file' = file /\ at = "relocs"
      /\ at' = "collects" /\ i' = 1 /\ i > Len(mc.relocs)
  BY DEF WriterInv, EndRelocs, EndTable
<1>2. Len(file) = SymbolEnd + i - 1 /\ i <= Len(mc.relocs) + 1 /\ i \in Nat
  BY <1>1 DEF WriterInv, Progress
<1>3. SymbolEnd \in Nat /\ Len(mc.relocs) \in Nat
  BY <1>1, Ends, CodeType
<1>4. Len(file) = RelocEnd
  BY <1>1, <1>2, <1>3 DEF RelocEnd
<1>5. AsPlanned'
  BY <1>1, PlanKept DEF WriterInv, AsPlanned
<1>6. Progress'
  BY <1>1, <1>4, Ends, PlanKept, CodeType DEF Progress
<1> QED
  BY <1>1, <1>5, <1>6 DEF WriterInv

LEMMA CollectStep == WriterInv /\ WriteCollect => WriterInv'
<1> SUFFICES ASSUME WriterInv, WriteCollect PROVE WriterInv'
  OBVIOUS
<1> DEFINE cells == <<CollectEntry(mc.collects[i])>>
<1>1. mc \in MachineCodes /\ mc' = mc /\ file' = file \o cells /\ at = "collects"
      /\ at' = "collects" /\ i' = i + 1 /\ i <= Len(mc.collects)
  BY DEF WriterInv, WriteCollect, Entry, Write
<1>2. Len(file) = RelocEnd + i - 1 /\ i \in Nat \ {0}
  BY <1>1 DEF WriterInv, Progress
<1>3. /\ RelocEnd \in Nat /\ Len(mc.collects) \in Nat /\ i \in 1 .. Len(mc.collects)
      /\ Len(file) + 1 = RelocEnd + i
  <2>1. RelocEnd \in Nat
    BY <1>1, Ends
  <2>2. Len(mc.collects) \in Nat
    BY <1>1, CodeType
  <2> QED
    BY <1>1, <1>2, <2>1, <2>2
<1>4. CollectEntry(mc.collects[i]) \in Cell
  BY <1>1, <1>3, CodeType, EntryTypes DEF Cell
<1>5. cells \in Seq(Cell) /\ Len(cells) = 1 /\ cells[1] = CollectEntry(mc.collects[i])
  BY <1>4
<1> HIDE DEF cells
<1>6. \A k \in 1 .. Len(cells) : cells[k] = Planned(Len(file) + k)
  BY <1>1, <1>3, <1>5, PlannedParts
<1>7. AsPlanned' /\ Len(file') = Len(file) + Len(cells)
  BY <1>1, <1>5, <1>6, WritePlanned
<1>8. Progress'
  BY <1>1, <1>2, <1>3, <1>5, <1>7, PlanKept DEF Progress
<1> QED
  BY <1>1, <1>7, <1>8 DEF WriterInv

LEMMA CollectsEndStep == WriterInv /\ Close => WriterInv'
<1> SUFFICES ASSUME WriterInv, Close PROVE WriterInv'
  OBVIOUS
<1>1. mc \in MachineCodes /\ mc' = mc /\ file' = file /\ at = "collects"
      /\ at' = "done" /\ i' = 1 /\ i > Len(mc.collects)
  BY DEF WriterInv, Close, EndTable
<1>2. Len(file) = RelocEnd + i - 1 /\ i <= Len(mc.collects) + 1 /\ i \in Nat
  BY <1>1 DEF WriterInv, Progress
<1>3. RelocEnd \in Nat /\ Len(mc.collects) \in Nat
  BY <1>1, Ends, CodeType
<1>4. Len(file) = CollectEnd
  BY <1>1, <1>2, <1>3 DEF CollectEnd
<1>5. AsPlanned'
  BY <1>1, PlanKept DEF WriterInv, AsPlanned
<1>6. Progress'
  BY <1>1, <1>4, Ends, PlanKept, CodeType DEF Progress
<1> QED
  BY <1>1, <1>5, <1>6 DEF WriterInv

LEMMA OpenStep == WriterInv /\ (Open \/ CannotOpen) => WriterInv'
<1> SUFFICES ASSUME WriterInv, Open \/ CannotOpen PROVE WriterInv'
  OBVIOUS
<1>1. mc' = mc /\ file' = file /\ i' = i /\ at = "open" /\ at' \in {"header", "failed"}
  BY DEF Open, CannotOpen
<1>2. AsPlanned'
  BY <1>1, PlanKept DEF WriterInv, AsPlanned
<1>3. Progress'
  BY <1>1 DEF WriterInv, Progress
<1> QED
  BY <1>1, <1>2, <1>3 DEF WriterInv

LEMMA StutterStep == WriterInv /\ UNCHANGED vars => WriterInv'
<1> SUFFICES ASSUME WriterInv, UNCHANGED vars PROVE WriterInv'
  OBVIOUS
<1>1. mc' = mc /\ file' = file /\ i' = i /\ at' = at
  BY DEF vars
<1>2. AsPlanned'
  BY <1>1, PlanKept DEF WriterInv, AsPlanned
<1>3. Progress'
  BY <1>1, PlanKept DEF WriterInv, Progress
<1> QED
  BY <1>1, <1>2, <1>3 DEF WriterInv

LEMMA EveryStep == WriterInv /\ [Next]_vars => WriterInv'
  BY OpenStep, HeaderStep, TextStep, DataStep, BlobStep, SymbolStep, SymbolsEndStep,
     RelocStep, RelocsEndStep, CollectStep, CollectsEndStep, StutterStep
  DEF Next, Step, Terminated

(* After every write the file is as far as it goes the planned one, and    *)
(* its length is what the place in write_object says.                      *)
THEOREM FilePlanned == Spec => []WriterInv
  BY InitPlanned, EveryStep, PTL DEF Spec

---------------------------------------------------------------------------
LEMMA Shift == ASSUME NEW a \in Nat, NEW n \in Nat PROVE (a + 1) + n = (a + n) + 1
  OBVIOUS

(* The reader's offsets are the plan's, for the header is the first cell.  *)
LEMMA Offsets ==
  ASSUME WriterInv, at = "done"
  PROVE  /\ mc \in MachineCodes /\ file \in Seq(Cell) /\ Len(file) = CollectEnd
         /\ \A p \in 1 .. CollectEnd : file[p] = Planned(p)
         /\ DataStart = TextEnd + 1 /\ BlobStart = DataEnd + 1
         /\ SymbolStart = BlobEnd + 1 /\ RelocStart = SymbolEnd + 1
         /\ CollectStart = RelocEnd + 1 /\ End = CollectEnd + 1
<1>1. /\ mc \in MachineCodes /\ file \in Seq(Cell) /\ Len(file) = CollectEnd
      /\ \A p \in 1 .. Len(file) : file[p] = Planned(p)
  BY DEF WriterInv, AsPlanned, Progress
<1>2. /\ Len(mc.code) \in Nat /\ Len(mc.data) \in Nat /\ Len(mc.blob) \in Nat
      /\ Len(mc.symbols) \in Nat /\ Len(mc.relocs) \in Nat /\ Len(mc.collects) \in Nat
  BY <1>1, CodeType
<1>3. /\ TextEnd \in Nat /\ DataEnd \in Nat /\ BlobEnd \in Nat
      /\ SymbolEnd \in Nat /\ RelocEnd \in Nat /\ CollectEnd \in Nat /\ 1 <= CollectEnd
  <2>1. /\ TextEnd \in Nat /\ DataEnd \in Nat /\ BlobEnd \in Nat
        /\ SymbolEnd \in Nat /\ RelocEnd \in Nat /\ CollectEnd \in Nat
        /\ 1 <= TextEnd /\ TextEnd <= DataEnd /\ DataEnd <= BlobEnd
        /\ BlobEnd <= SymbolEnd /\ SymbolEnd <= RelocEnd /\ RelocEnd <= CollectEnd
    BY <1>1, Ends
  <2> QED
    BY <2>1
<1>4. ReadHeader = Header
  <2>1. file[1] = Planned(1)
    BY <1>1, <1>3
  <2> QED
    BY <2>1, <1>1, PlannedParts DEF ReadHeader
<1>5. /\ ReadHeader.text_size = Len(mc.code) /\ ReadHeader.data_size = Len(mc.data)
      /\ ReadHeader.collect_size = Len(mc.blob)
      /\ ReadHeader.symtable_count = Len(mc.symbols)
      /\ ReadHeader.reloc_count = Len(mc.relocs)
      /\ ReadHeader.collect_count = Len(mc.collects)
  BY <1>1, <1>4, HeaderCounts
<1>6. DataStart = TextEnd + 1
  BY <1>2, <1>5 DEF DataStart, TextEnd
<1>7. BlobStart = DataEnd + 1
  <2>1. BlobStart = (TextEnd + 1) + Len(mc.data)
    BY <1>5, <1>6 DEF BlobStart
  <2>2. DataEnd = TextEnd + Len(mc.data)
    BY DEF DataEnd
  <2> QED
    BY <1>2, <1>3, <2>1, <2>2, Shift
<1>8. SymbolStart = BlobEnd + 1
  <2>1. SymbolStart = (DataEnd + 1) + Len(mc.blob)
    BY <1>5, <1>7 DEF SymbolStart
  <2>2. BlobEnd = DataEnd + Len(mc.blob)
    BY DEF BlobEnd
  <2> QED
    BY <1>2, <1>3, <2>1, <2>2, Shift
<1>9. RelocStart = SymbolEnd + 1
  <2>1. RelocStart = (BlobEnd + 1) + Len(mc.symbols)
    BY <1>5, <1>8 DEF RelocStart
  <2>2. SymbolEnd = BlobEnd + Len(mc.symbols)
    BY DEF SymbolEnd
  <2> QED
    BY <1>2, <1>3, <2>1, <2>2, Shift
<1>10. CollectStart = RelocEnd + 1
  <2>1. CollectStart = (SymbolEnd + 1) + Len(mc.relocs)
    BY <1>5, <1>9 DEF CollectStart
  <2>2. RelocEnd = SymbolEnd + Len(mc.relocs)
    BY DEF RelocEnd
  <2> QED
    BY <1>2, <1>3, <2>1, <2>2, Shift
<1>11. End = CollectEnd + 1
  <2>1. End = (RelocEnd + 1) + Len(mc.collects)
    BY <1>5, <1>10 DEF End
  <2>2. CollectEnd = RelocEnd + Len(mc.collects)
    BY DEF CollectEnd
  <2> QED
    BY <1>2, <1>3, <2>1, <2>2, Shift
<1> QED
  BY <1>1, <1>6, <1>7, <1>8, <1>9, <1>10, <1>11

(* A part of the file that is a sequence, cell by cell, is the sequence.   *)
LEMMA PartIs ==
  ASSUME file \in Seq(Cell), NEW s \in Seq(Cell), NEW a \in Nat, NEW b \in Nat,
         b = a + Len(s), b <= Len(file), \A k \in 1 .. Len(s) : file[a + k] = s[k]
  PROVE  Part(a + 1, b + 1) = s
<1>1. Len(s) \in Nat /\ Len(file) \in Nat
  OBVIOUS
<1> DEFINE part == SubSeq(file, a + 1, b)
<1>2. Part(a + 1, b + 1) = part
  BY DEF Part
<1>3. part \in Seq(Cell) /\ Len(part) = Len(s)
  BY <1>1
<1>4. ASSUME NEW k \in 1 .. Len(s) PROVE part[k] = s[k]
  <2>1. part[k] = file[a + k]
    BY <1>1
  <2> QED
    BY <2>1
<1> HIDE DEF part
<1> QED
  BY <1>2, <1>3, <1>4, SeqEqual

LEMMA TablesAreCells ==
  ASSUME mc \in MachineCodes
  PROVE  /\ Mapped(mc.symbols, SymbolEntry) \in Seq(Cell)
         /\ Len(Mapped(mc.symbols, SymbolEntry)) = Len(mc.symbols)
         /\ Mapped(mc.relocs, RelocEntry) \in Seq(Cell)
         /\ Len(Mapped(mc.relocs, RelocEntry)) = Len(mc.relocs)
         /\ Mapped(mc.collects, CollectEntry) \in Seq(Cell)
         /\ Len(Mapped(mc.collects, CollectEntry)) = Len(mc.collects)
<1>1. /\ mc.symbols \in Seq(ObjSymbol) /\ mc.relocs \in Seq(ObjReloc)
      /\ mc.collects \in Seq(ObjCollect)
  BY CodeType
<1>2. ObjSymbol \subseteq Cell /\ ObjReloc \subseteq Cell /\ ObjCollect \subseteq Cell
  BY DEF Cell
<1>3. /\ Mapped(mc.symbols, SymbolEntry) \in Seq(Cell)
      /\ Len(Mapped(mc.symbols, SymbolEntry)) = Len(mc.symbols)
  <2>1. \A k \in 1 .. Len(mc.symbols) : SymbolEntry(mc.symbols[k]) \in Cell
    BY <1>1, <1>2, EntryTypes
  <2>2. Mapped(mc.symbols, SymbolEntry)
          = [k \in 1 .. Len(mc.symbols) |-> SymbolEntry(mc.symbols[k])]
    BY <1>1 DEF Mapped
  <2>3. Len(mc.symbols) \in Nat
    BY <1>1
  <2> QED
    BY <2>1, <2>2, <2>3
<1>4. /\ Mapped(mc.relocs, RelocEntry) \in Seq(Cell)
      /\ Len(Mapped(mc.relocs, RelocEntry)) = Len(mc.relocs)
  <2>1. \A k \in 1 .. Len(mc.relocs) : RelocEntry(mc.relocs[k]) \in Cell
    BY <1>1, <1>2, EntryTypes
  <2>2. Mapped(mc.relocs, RelocEntry)
          = [k \in 1 .. Len(mc.relocs) |-> RelocEntry(mc.relocs[k])]
    BY <1>1 DEF Mapped
  <2>3. Len(mc.relocs) \in Nat
    BY <1>1
  <2> QED
    BY <2>1, <2>2, <2>3
<1>5. /\ Mapped(mc.collects, CollectEntry) \in Seq(Cell)
      /\ Len(Mapped(mc.collects, CollectEntry)) = Len(mc.collects)
  <2>1. \A k \in 1 .. Len(mc.collects) : CollectEntry(mc.collects[k]) \in Cell
    BY <1>1, <1>2, EntryTypes
  <2>2. Mapped(mc.collects, CollectEntry)
          = [k \in 1 .. Len(mc.collects) |-> CollectEntry(mc.collects[k])]
    BY <1>1 DEF Mapped
  <2>3. Len(mc.collects) \in Nat
    BY <1>1
  <2> QED
    BY <2>1, <2>2, <2>3
<1> QED
  BY <1>3, <1>4, <1>5

LEMMA EverythingReadsBack == WriterInv => ReadsBack
<1> SUFFICES ASSUME WriterInv, at = "done"
             PROVE  /\ Len(file) = End - 1
                    /\ Part(2, DataStart) = mc.code
                    /\ Part(DataStart, BlobStart) = mc.data
                    /\ Part(BlobStart, SymbolStart) = mc.blob
                    /\ Part(SymbolStart, RelocStart) = Mapped(mc.symbols, SymbolEntry)
                    /\ Part(RelocStart, CollectStart) = Mapped(mc.relocs, RelocEntry)
                    /\ Part(CollectStart, End) = Mapped(mc.collects, CollectEntry)
  BY DEF ReadsBack
<1>1. /\ mc \in MachineCodes /\ file \in Seq(Cell) /\ Len(file) = CollectEnd
      /\ \A p \in 1 .. CollectEnd : file[p] = Planned(p)
  BY Offsets
<1>2. /\ DataStart = TextEnd + 1 /\ BlobStart = DataEnd + 1
      /\ SymbolStart = BlobEnd + 1 /\ RelocStart = SymbolEnd + 1
      /\ CollectStart = RelocEnd + 1 /\ End = CollectEnd + 1
  BY Offsets
<1>3. /\ Len(mc.code) \in Nat /\ Len(mc.data) \in Nat /\ Len(mc.blob) \in Nat
      /\ Len(mc.symbols) \in Nat /\ Len(mc.relocs) \in Nat /\ Len(mc.collects) \in Nat
  BY <1>1, CodeType
<1>4. /\ TextEnd \in Nat /\ DataEnd \in Nat /\ BlobEnd \in Nat
      /\ SymbolEnd \in Nat /\ RelocEnd \in Nat /\ CollectEnd \in Nat
      /\ 1 <= TextEnd /\ TextEnd <= DataEnd /\ DataEnd <= BlobEnd
      /\ BlobEnd <= SymbolEnd /\ SymbolEnd <= RelocEnd /\ RelocEnd <= CollectEnd
  BY <1>1, Ends
<1>5. Len(file) = End - 1
  BY <1>1, <1>2, <1>4
<1>6. Part(2, DataStart) = mc.code
  <2>1. mc.code \in Seq(Cell) /\ Len(mc.code) = Len(mc.code)
    BY <1>1, CellSeqs
  <2>2. TextEnd = 1 + Len(mc.code) /\ TextEnd <= Len(file)
    BY <1>1, <1>3, <1>4 DEF TextEnd
  <2>3. ASSUME NEW k \in 1 .. Len(mc.code) PROVE file[1 + k] = mc.code[k]
    <3>1. 1 + k \in 1 .. CollectEnd
      BY <1>1, <1>3, <1>4, <2>2
    <3>2. Planned(1 + k) = mc.code[k]
      BY <1>1, PlannedParts
    <3> QED
      BY <1>1, <3>1, <3>2
  <2>4. Part(1 + 1, TextEnd + 1) = mc.code
    BY <1>1, <1>4, <2>1, <2>2, <2>3, PartIs
  <2> QED
    BY <1>2, <2>4
<1>7. Part(DataStart, BlobStart) = mc.data
  <2>1. mc.data \in Seq(Cell) /\ Len(mc.data) = Len(mc.data)
    BY <1>1, CellSeqs
  <2>2. DataEnd = TextEnd + Len(mc.data) /\ DataEnd <= Len(file)
    BY <1>1, <1>3, <1>4 DEF DataEnd
  <2>3. ASSUME NEW k \in 1 .. Len(mc.data) PROVE file[TextEnd + k] = mc.data[k]
    <3>1. TextEnd + k \in 1 .. CollectEnd
      BY <1>1, <1>3, <1>4, <2>2
    <3>2. Planned(TextEnd + k) = mc.data[k]
      BY <1>1, PlannedParts
    <3> QED
      BY <1>1, <3>1, <3>2
  <2>4. Part(TextEnd + 1, DataEnd + 1) = mc.data
    BY <1>1, <1>4, <2>1, <2>2, <2>3, PartIs
  <2> QED
    BY <1>2, <2>4
<1>8. Part(BlobStart, SymbolStart) = mc.blob
  <2>1. mc.blob \in Seq(Cell) /\ Len(mc.blob) = Len(mc.blob)
    BY <1>1, CellSeqs
  <2>2. BlobEnd = DataEnd + Len(mc.blob) /\ BlobEnd <= Len(file)
    BY <1>1, <1>3, <1>4 DEF BlobEnd
  <2>3. ASSUME NEW k \in 1 .. Len(mc.blob) PROVE file[DataEnd + k] = mc.blob[k]
    <3>1. DataEnd + k \in 1 .. CollectEnd
      BY <1>1, <1>3, <1>4, <2>2
    <3>2. Planned(DataEnd + k) = mc.blob[k]
      BY <1>1, PlannedParts
    <3> QED
      BY <1>1, <3>1, <3>2
  <2>4. Part(DataEnd + 1, BlobEnd + 1) = mc.blob
    BY <1>1, <1>4, <2>1, <2>2, <2>3, PartIs
  <2> QED
    BY <1>2, <2>4
<1>9. Part(SymbolStart, RelocStart) = Mapped(mc.symbols, SymbolEntry)
  <2> DEFINE table == Mapped(mc.symbols, SymbolEntry)
  <2>1. table \in Seq(Cell) /\ Len(table) = Len(mc.symbols)
    BY <1>1, TablesAreCells
  <2>2. SymbolEnd = BlobEnd + Len(mc.symbols) /\ SymbolEnd <= Len(file)
    BY <1>1, <1>3, <1>4 DEF SymbolEnd
  <2>3. ASSUME NEW k \in 1 .. Len(mc.symbols) PROVE file[BlobEnd + k] = table[k]
    <3>1. BlobEnd + k \in 1 .. CollectEnd
      BY <1>1, <1>3, <1>4, <2>2
    <3>2. Planned(BlobEnd + k) = SymbolEntry(mc.symbols[k])
      BY <1>1, PlannedParts
    <3>3. table[k] = SymbolEntry(mc.symbols[k])
      BY <1>1, CodeType DEF Mapped
    <3> QED
      BY <1>1, <3>1, <3>2, <3>3
  <2> HIDE DEF table
  <2>4. Part(BlobEnd + 1, SymbolEnd + 1) = table
    <3>1. SymbolEnd = BlobEnd + Len(table) /\ SymbolEnd <= Len(file)
      BY <2>1, <2>2
    <3>2. \A k \in 1 .. Len(table) : file[BlobEnd + k] = table[k]
      BY <2>1, <2>3
    <3> QED
      BY <1>1, <1>4, <2>1, <3>1, <3>2, PartIs
  <2> QED
    BY <1>2, <2>4 DEF table
<1>10. Part(RelocStart, CollectStart) = Mapped(mc.relocs, RelocEntry)
  <2> DEFINE table == Mapped(mc.relocs, RelocEntry)
  <2>1. table \in Seq(Cell) /\ Len(table) = Len(mc.relocs)
    BY <1>1, TablesAreCells
  <2>2. RelocEnd = SymbolEnd + Len(mc.relocs) /\ RelocEnd <= Len(file)
    BY <1>1, <1>3, <1>4 DEF RelocEnd
  <2>3. ASSUME NEW k \in 1 .. Len(mc.relocs) PROVE file[SymbolEnd + k] = table[k]
    <3>1. SymbolEnd + k \in 1 .. CollectEnd
      BY <1>1, <1>3, <1>4, <2>2
    <3>2. Planned(SymbolEnd + k) = RelocEntry(mc.relocs[k])
      BY <1>1, PlannedParts
    <3>3. table[k] = RelocEntry(mc.relocs[k])
      BY <1>1, CodeType DEF Mapped
    <3> QED
      BY <1>1, <3>1, <3>2, <3>3
  <2> HIDE DEF table
  <2>4. Part(SymbolEnd + 1, RelocEnd + 1) = table
    <3>1. RelocEnd = SymbolEnd + Len(table) /\ RelocEnd <= Len(file)
      BY <2>1, <2>2
    <3>2. \A k \in 1 .. Len(table) : file[SymbolEnd + k] = table[k]
      BY <2>1, <2>3
    <3> QED
      BY <1>1, <1>4, <2>1, <3>1, <3>2, PartIs
  <2> QED
    BY <1>2, <2>4 DEF table
<1>11. Part(CollectStart, End) = Mapped(mc.collects, CollectEntry)
  <2> DEFINE table == Mapped(mc.collects, CollectEntry)
  <2>1. table \in Seq(Cell) /\ Len(table) = Len(mc.collects)
    BY <1>1, TablesAreCells
  <2>2. CollectEnd = RelocEnd + Len(mc.collects) /\ CollectEnd <= Len(file)
    BY <1>1, <1>3, <1>4 DEF CollectEnd
  <2>3. ASSUME NEW k \in 1 .. Len(mc.collects) PROVE file[RelocEnd + k] = table[k]
    <3>1. RelocEnd + k \in 1 .. CollectEnd
      BY <1>1, <1>3, <1>4, <2>2
    <3>2. Planned(RelocEnd + k) = CollectEntry(mc.collects[k])
      BY <1>1, PlannedParts
    <3>3. table[k] = CollectEntry(mc.collects[k])
      BY <1>1, CodeType DEF Mapped
    <3> QED
      BY <1>1, <3>1, <3>2, <3>3
  <2> HIDE DEF table
  <2>4. Part(RelocEnd + 1, CollectEnd + 1) = table
    <3>1. CollectEnd = RelocEnd + Len(table) /\ CollectEnd <= Len(file)
      BY <2>1, <2>2
    <3>2. \A k \in 1 .. Len(table) : file[RelocEnd + k] = table[k]
      BY <2>1, <2>3
    <3> QED
      BY <1>1, <1>4, <2>1, <3>1, <3>2, PartIs
  <2> QED
    BY <1>2, <2>4 DEF table
<1> QED
  BY <1>5, <1>6, <1>7, <1>8, <1>9, <1>10, <1>11

(* A finished file, read by its header's counts alone, gives back every    *)
(* byte and every entry of the MachineCode write_object was given.         *)
THEOREM ObjectReadsBack == Spec => []ReadsBack
  BY FilePlanned, EverythingReadsBack, PTL

LEMMA EveryRelocationResolves == WriterInv => RelocationsResolve
<1> SUFFICES ASSUME WriterInv, at = "done",
                    NEW k \in DOMAIN mc.relocs, NEW s \in DOMAIN mc.symbols
             PROVE  /\ mc.relocs[k].symbol_name = mc.symbols[s].name => Found(k, s)
                    /\ Found(k, s) /\ Len(mc.relocs[k].symbol_name) < NameField
                       /\ Len(mc.symbols[s].name) < NameField
                         => mc.relocs[k].symbol_name = mc.symbols[s].name
  BY DEF RelocationsResolve
<1>1. /\ mc \in MachineCodes /\ \A p \in 1 .. CollectEnd : file[p] = Planned(p)
      /\ RelocStart = SymbolEnd + 1 /\ SymbolStart = BlobEnd + 1
  BY Offsets
<1>2. /\ k \in 1 .. Len(mc.relocs) /\ s \in 1 .. Len(mc.symbols)
      /\ mc.relocs[k] \in ObjReloc /\ mc.symbols[s] \in ObjSymbol
      /\ Len(mc.relocs) \in Nat /\ Len(mc.symbols) \in Nat
  BY <1>1, CodeType
<1>3. /\ BlobEnd \in Nat /\ SymbolEnd \in Nat /\ RelocEnd \in Nat /\ CollectEnd \in Nat
      /\ SymbolEnd <= RelocEnd /\ RelocEnd <= CollectEnd
  BY <1>1, Ends
<1>4. file[RelocStart + k - 1] = RelocEntry(mc.relocs[k])
  <2>1. SymbolEnd + k <= RelocEnd
    BY <1>2, <1>3 DEF RelocEnd
  <2>2. SymbolEnd + k \in 1 .. CollectEnd /\ RelocStart + k - 1 = SymbolEnd + k
    BY <1>1, <1>2, <1>3, <2>1
  <2> QED
    BY <1>1, <1>2, <2>2, PlannedParts
<1>5. file[SymbolStart + s - 1] = SymbolEntry(mc.symbols[s])
  <2>1. BlobEnd + s <= SymbolEnd
    BY <1>2, <1>3 DEF SymbolEnd
  <2>2. BlobEnd + s \in 1 .. CollectEnd /\ SymbolStart + s - 1 = BlobEnd + s
    BY <1>1, <1>2, <1>3, <2>1
  <2> QED
    BY <1>1, <1>2, <2>2, PlannedParts
<1>6. mc.relocs[k].symbol_name \in Name /\ mc.symbols[s].name \in Name
  BY <1>2 DEF ObjReloc, ObjSymbol
<1>7. /\ file[RelocStart + k - 1].symbol_name = CutName(mc.relocs[k].symbol_name)
      /\ file[SymbolStart + s - 1].name = CutName(mc.symbols[s].name)
  BY <1>2, <1>4, <1>5 DEF RelocEntry, SymbolEntry, ObjReloc, ObjSymbol
<1>8. Found(k, s) <=> CutName(mc.relocs[k].symbol_name) = CutName(mc.symbols[s].name)
  BY <1>7 DEF Found
<1> QED
  BY <1>6, <1>8, CutNameType

(* In every finished file a relocation finds the symbol it named, and as   *)
(* long as both names fit their fields no other one.                       *)
THEOREM RelocationsFindTheirSymbols == Spec => []RelocationsResolve
  BY FilePlanned, EveryRelocationResolves, PTL

=============================================================================
