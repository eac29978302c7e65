---------------------------- MODULE CodeGenInv ----------------------------
(***************************************************************************)
(* The inductive invariant of the code generator: why the two passes       *)
(* agree, why no store of pass 2 can miss its buffer, why a jump emitted   *)
(* long ago still holds the right distance, and why a relocation's name    *)
(* leads to the block it is meant for.                                     *)
(***************************************************************************)
EXTENDS CodeGenProps

BeforePass2 == {"pass1", "exports", "imports"}
AfterPass1  == {"exports", "imports", "pass2", "done"}

(* labelMap has one entry per block visited, and those blocks hold code    *)
(* only in TEXT.                                                           *)
OneEntryPerBlock ==
  /\ Len(labelMap) <= Len(Blocks)
  /\ phase = "pass1" => Len(labelMap) = line - 1
  /\ phase \in AfterPass1 => Len(labelMap) = Len(Blocks)
  /\ \A i \in DOMAIN labelMap : ~HoldsCodeOutsideText(Blocks[i])

(* Blocks and cursors stand on word boundaries.                            *)
Aligned ==
  /\ \A s \in Sections : cursor[s] % 4 = 0
  /\ \A i \in DOMAIN labelMap : labelMap[i].address % 4 = 0

(* Every block placed so far ends within its section.                      *)
BlocksFit ==
  /\ phase = "pass1" => \A i \in DOMAIN labelMap :
       labelMap[i].address + SizeAt(i) <= cursor[SectionAt(i)]
  /\ phase \in AfterPass1 => \A i \in DOMAIN labelMap :
       labelMap[i].address + SizeAt(i) <= size[SectionAt(i)]

(* Pass 2 is at a unit of its block or just past the last.                 *)
WithinBlock ==
  phase = "pass2" /\ line <= Len(Blocks) => item <= Units(Block) + 1

(* The units written are those below the cursors.                          *)
WrittenBelowCursor ==
  /\ phase \in BeforePass2 => \A s \in Sections : DOMAIN out[s] = {}
  /\ phase = "pass2" => \A s \in Sections : \A a \in UnitAddresses(size[s]) :
       out[s][a] # Uninit <=> a < cursor[s]

(* In every state the blocks are laid out back to back, the cursors of     *)
(* pass 2 retrace those of pass 1, and exactly the units the cursors have  *)
(* passed are written, all inside the buffers.                             *)
LayoutInv ==
  /\ TypeOK
  /\ OneEntryPerBlock
  /\ Aligned
  /\ LayoutContiguous
  /\ BlocksFit
  /\ WithinBlock
  /\ PassesAgree
  /\ WritesInBounds
  /\ WrittenBelowCursor
  /\ NothingUninitialised

---------------------------------------------------------------------------
(* Jumps.                                                                  *)

(* Of two blocks of a section the later one begins at or after the end of  *)
(* the earlier one, so no unit of one has the address of a unit of another. *)
Ordered ==
  \A i, j \in DOMAIN labelMap :
    i < j /\ SectionAt(i) = SectionAt(j)
      => labelMap[i].address + SizeAt(i) <= labelMap[j].address

(* A jump that has been emitted holds the distance from its own address to *)
(* that of its label.                                                      *)
JumpsEncoded ==
  phase \in {"pass2", "done"} =>
    \A i \in DOMAIN Blocks : \A k \in DOMAIN Blocks[i].instrs :
      JumpResolved(i, k) =>
        LET at  == labelMap[i].address + 4 * (k - 1)
            ins == Blocks[i].instrs[k]
        IN  out[TEXT][at] = EncodeJump(ins, LabelAddress(ins.label), at)

---------------------------------------------------------------------------
(* Symbols.                                                                *)

(* No two labels are cut to the same name, and no label is cut to the name *)
(* of a public or an imported one.                                         *)
Cut == {l \in DOMAIN CutTo : ~IsPublic(l)}
NamesApart ==
  /\ \A l, m \in Cut : CutTo[l] = CutTo[m] => l = m
  /\ \A l \in Cut : ~IsPublic(CutTo[l]) /\ ~IsImported(CutTo[l])

(* The three tables of pass 1 have one entry per block placed: its label,  *)
(* the name of its symbol and the place of it.                             *)
TablesAgree ==
  /\ Len(labelSymbolMap) = Len(labelMap)
  /\ Len(symbols) >= Len(labelMap)
  /\ phase = "pass1" => Len(symbols) = Len(labelMap)
  /\ \A i \in DOMAIN labelMap :
       LET l == labelMap[i].label
       IN  /\ l = Blocks[i].label
           /\ labelSymbolMap[i].source_label = l
           /\ IF IsPublic(l)
              THEN labelSymbolMap[i].symbol_name = RawName(l)
              ELSE \E n \in 1 .. local_label_counter - 1 :
                     labelSymbolMap[i].symbol_name = UniqueName(l, n)
           /\ symbols[i] = [name |-> labelSymbolMap[i].symbol_name, type |-> "DEFINED",
                            section |-> SectionAt(i), offset |-> labelMap[i].address]

(* What follows them is one undefined symbol for each import that no       *)
(* earlier entry has the name of.                                          *)
ImportsEntered ==
  /\ \A k \in Len(labelMap) + 1 .. Len(symbols) :
       /\ symbols[k].type = "UNDEFINED"
       /\ \E m \in DOMAIN src.imports : symbols[k].name = RawName(src.imports[m])
  /\ phase = "imports" =>
       \A m \in 1 .. item - 1 : HasSymbol(RawName(src.imports[m]))
  /\ phase \in {"pass2", "done"} =>
       \A m \in DOMAIN src.imports : HasSymbol(RawName(src.imports[m]))

---------------------------------------------------------------------------
(* In every state the layout is right, every jump emitted holds its        *)
(* distance, and the tables of labels and symbols are in step.             *)
IInv == LayoutInv /\ Ordered /\ JumpsEncoded /\ TablesAgree /\ ImportsEntered
===========================================================================
