---------------------------- MODULE ObjectWriter ----------------------------
(***************************************************************************)
(* write_object (src/assembler.c): the tables and bytes of a MachineCode   *)
(* written one after another behind a header that says how many of each    *)
(* there are.  Nothing in the file separates them, so the header and the   *)
(* writes have to agree.                                                   *)
(*                                                                         *)
(* The file is a sequence of cells, a cell being a byte, an entry of a     *)
(* table or the header; the entries' layout is ObjectFormat.h's, which is  *)
(* not in the repository, and of which only the width of a name matters.   *)
(* A name is a sequence of characters.                                     *)
(***************************************************************************)
EXTENDS Integers, Sequences

CONSTANTS
  MachineCodes,   (* what codeGen, or assembler() for an empty file, returns *)
  Byte,           (* a byte of the three buffers                             *)
  Character,      (* a character of a name                                   *)
  Value,          (* what the other fields of an entry hold                  *)
  NameField,      (* sizeof(se.name), the same for all three entries         *)
  SizeSpan        (* number of values of a uint32_t                          *)

(* The tables of a MachineCode, as in inc/codeGen.h.                       *)
Name       == Seq(Character)
ObjSymbol  == [name : Name, type : Value, section : Value, offset : Value]
ObjReloc   == [offset : Value, symbol_name : Name, type : Value, section : Value]
ObjCollect == [name : Name, offset : Value, size : Value]

MachineCode ==
  [code : Seq(Byte), data : Seq(Byte), blob : Seq(Byte),
   symbols : Seq(ObjSymbol), relocs : Seq(ObjReloc), collects : Seq(ObjCollect)]

(* The sizes fit the header's fields.                                      *)
ASSUME WriterAssumption ==
  /\ MachineCodes \subseteq MachineCode
  /\ NameField \in Nat \ {0}
  /\ SizeSpan \in Nat \ {0}
  /\ \A m \in MachineCodes :
       /\ Len(m.code) < SizeSpan /\ Len(m.data) < SizeSpan /\ Len(m.blob) < SizeSpan
       /\ Len(m.symbols) < SizeSpan /\ Len(m.relocs) < SizeSpan /\ Len(m.collects) < SizeSpan

VARIABLES
  mc,     (* given                                                           *)
  file,   (* what has been written                                           *)
  at,     (* what is written next                                            *)
  i       (* which entry of it                                               *)

vars == <<mc, file, at, i>>

Init ==
  /\ mc \in MachineCodes
  /\ file = << >>
  /\ at = "open"
  /\ i = 1

Open == at = "open" /\ at' = "header" /\ UNCHANGED <<mc, file, i>>
CannotOpen == at = "open" /\ at' = "failed" /\ UNCHANGED <<mc, file, i>>

Write(cells, next) == file' = file \o cells /\ at' = next /\ UNCHANGED mc

Header ==
  [magic |-> "LINKER_MAGIC",
   text_size |-> Len(mc.code) % SizeSpan, data_size |-> Len(mc.data) % SizeSpan,
   symtable_count |-> Len(mc.symbols) % SizeSpan,
   reloc_count |-> Len(mc.relocs) % SizeSpan,
   collect_count |-> Len(mc.collects) % SizeSpan,
   collect_size |-> Len(mc.blob) % SizeSpan]

WriteHeader == at = "header" /\ Write(<<Header>>, "text") /\ UNCHANGED i
WriteText   == at = "text" /\ Write(mc.code, "data") /\ UNCHANGED i

(* Fault: the data is written when there is a blob to write.               *)
FaultWriteData ==
  at = "data" /\ Write(IF Len(mc.blob) > 0 THEN mc.data ELSE << >>, "blob") /\ UNCHANGED i

WriteData   == at = "data" /\ Write(mc.data, "blob") /\ UNCHANGED i
WriteBlob   == at = "blob" /\ Write(mc.blob, "symbols") /\ UNCHANGED i

---------------------------------------------------------------------------
(* The tables.  strncpy into an entry of zeroes leaves the last byte 0.    *)
(* The three name fields are taken to be of one width; their declarations  *)
(* (ObjectFormat.h) are not in the repository.                             *)
CutName(name) ==
  SubSeq(name, 1, IF Len(name) < NameField THEN Len(name) ELSE NameField - 1)

(* Fault: only the names that fit are written.                             *)
FaultRelocEntry(r) ==
  [offset |-> r.offset, type |-> r.type, section |-> r.section,
   symbol_name |-> IF Len(r.symbol_name) < NameField THEN r.symbol_name ELSE << >>]

SymbolEntry(s) == [s EXCEPT !.name = CutName(@)]
RelocEntry(r) == [r EXCEPT !.symbol_name = CutName(@)]
CollectEntry(c) == [c EXCEPT !.name = CutName(@)]

Entry(cell) == Write(<<cell>>, at) /\ i' = i + 1
EndTable(next) == at' = next /\ i' = 1 /\ UNCHANGED <<mc, file>>

WriteSymbol  == at = "symbols" /\ i <= Len(mc.symbols) /\ Entry(SymbolEntry(mc.symbols[i]))

EndSymbols   == at = "symbols" /\ i > Len(mc.symbols) /\ EndTable("relocs")

WriteReloc   == at = "relocs" /\ i <= Len(mc.relocs) /\ Entry(RelocEntry(mc.relocs[i]))
EndRelocs    == at = "relocs" /\ i > Len(mc.relocs) /\ EndTable("collects")

WriteCollect == at = "collects" /\ i <= Len(mc.collects) /\ Entry(CollectEntry(mc.collects[i]))
Close        == at = "collects" /\ i > Len(mc.collects) /\ EndTable("done")

Step ==
  \/ Open \/ CannotOpen
  \/ WriteHeader \/ WriteText \/ WriteData \/ WriteBlob
  \/ WriteSymbol \/ EndSymbols \/ WriteReloc \/ EndRelocs \/ WriteCollect \/ Close

Terminated == at \in {"done", "failed"} /\ UNCHANGED vars
Next == Step \/ Terminated

Spec == Init /\ [][Next]_vars
=============================================================================
