-------------------------- MODULE ObjectWriterProps -------------------------
(***************************************************************************)
(* The object file as a linker reads it: by the header's counts alone.     *)
(***************************************************************************)
EXTENDS ObjectWriter

ReadHeader == file[1]

DataStart    == 2 + ReadHeader.text_size
BlobStart    == DataStart + ReadHeader.data_size
SymbolStart  == BlobStart + ReadHeader.collect_size
RelocStart   == SymbolStart + ReadHeader.symtable_count
CollectStart == RelocStart + ReadHeader.reloc_count
End          == CollectStart + ReadHeader.collect_count

Part(from, to) == SubSeq(file, from, to - 1)
Mapped(seq, F(_)) == [k \in DOMAIN seq |-> F(seq[k])]

(* A reader that follows the header's counts finds a file of that length,  *)
(* and in it every byte and every entry of the MachineCode, the names cut  *)
(* to their fields.                                                        *)
ReadsBack ==
  at = "done" =>
    /\ Len(file) = End - 1
    /\ Part(2, DataStart) = mc.code
    /\ Part(DataStart, BlobStart) = mc.data
    /\ Part(BlobStart, SymbolStart) = mc.blob
    /\ Part(SymbolStart, RelocStart) = Mapped(mc.symbols, SymbolEntry)
    /\ Part(RelocStart, CollectStart) = Mapped(mc.relocs, RelocEntry)
    /\ Part(CollectStart, End) = Mapped(mc.collects, CollectEntry)

(* A relocation is resolved by its name as it is in the file: it finds the *)
(* symbol it named in the MachineCode, however long the name, and it finds *)
(* no other one as long as both names fit their fields.                    *)
Found(k, s) == file[RelocStart + k - 1].symbol_name = file[SymbolStart + s - 1].name
RelocationsResolve ==
  at = "done" =>
    \A k \in DOMAIN mc.relocs, s \in DOMAIN mc.symbols :
      LET meant == mc.relocs[k].symbol_name
      IN  /\ meant = mc.symbols[s].name => Found(k, s)
          /\ Found(k, s) /\ Len(meant) < NameField /\ Len(mc.symbols[s].name) < NameField
               => meant = mc.symbols[s].name
=============================================================================
