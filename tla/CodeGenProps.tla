--------------------------- MODULE CodeGenProps ---------------------------
(***************************************************************************)
(* What the code generator must get right, stated over the state of        *)
(* module CodeGen.                                                         *)
(***************************************************************************)
EXTENDS CodeGen

SectionAt(i) == SectionOf(Blocks[i])
SizeAt(i)    == BlockSize(Blocks[i])

(* The tables, cursors and buffers hold what their C types say, and the    *)
(* position within the source is a legal one.                              *)
TypeOK ==
  /\ src \in Source
  /\ phase \in Phases
  /\ line \in 1 .. Len(Blocks) + 1
  /\ item \in Nat \ {0}
  /\ cursor \in [Sections -> Nat]
  /\ size \in [Sections -> Nat]
  /\ local_label_counter \in Nat \ {0}
  /\ labelMap \in Seq(LabelAddressMapping)
  /\ labelSymbolMap \in Seq(LabelSymbolMapping)
  /\ symbols \in Seq(ObjSymbol)
  /\ relocs \in Seq(ObjReloc)
  /\ collects \in Seq(ObjCollect)
  /\ DOMAIN out = Sections
  /\ \A s \in Sections : \A a \in DOMAIN out[s] : a \in Nat /\ out[s][a] \in Unit

---------------------------------------------------------------------------
(* c is where the blocks 1..n leave section s, judged only by the last of  *)
(* them that is in s.                                                      *)
BlocksEndAt(blocks, map, s, n, c) ==
  \/ c = 0 /\ \A i \in 1 .. n : SectionOf(blocks[i]) # s
  \/ \E i \in 1 .. n :
       /\ SectionOf(blocks[i]) = s
       /\ \A k \in i + 1 .. n : SectionOf(blocks[k]) # s
       /\ c = map[i].address + BlockSize(blocks[i])

EndsAt(s, n, c) == BlocksEndAt(Blocks, labelMap, s, n, c)

(* Pass 1 puts every block exactly where the previous block of the same    *)
(* section ends, whatever blocks of other sections lie between them, and   *)
(* the totals it hands to malloc are where the last blocks end.            *)
LayoutContiguous ==
  /\ \A i \in DOMAIN labelMap : EndsAt(SectionAt(i), i - 1, labelMap[i].address)
  /\ phase = "pass1" => \A s \in Sections : EndsAt(s, Len(labelMap), cursor[s])
  /\ phase \in {"exports", "imports", "pass2", "done"} =>
       \A s \in Sections : EndsAt(s, Len(Blocks), size[s])

(* While pass 2 is inside a block, the cursor of the block's section is    *)
(* the address pass 1 gave its label plus the bytes already emitted for    *)
(* it, and the cursors of the other sections are where the earlier blocks  *)
(* left them: every address already baked into an instruction is right.    *)
PassesAgree ==
  phase = "pass2" => \A s \in Sections :
    IF line <= Len(Blocks) /\ s = SectionAt(line)
    THEN cursor[s] = labelMap[line].address + 4 * (item - 1)
    ELSE EndsAt(s, line - 1, cursor[s])

(* Pass 2 never stores outside a buffer that was allocated from the sizes  *)
(* pass 1 computed.                                                        *)
WritesInBounds ==
  phase \in {"pass2", "done"} =>
    \A s \in Sections : DOMAIN out[s] = UnitAddresses(size[s])

(* When codeGen returns, no byte of a malloc'ed buffer is left unwritten:  *)
(* write_object and main dump the buffers whole.                           *)
NothingUninitialised ==
  phase = "done" =>
    \A s \in Sections : \A a \in UnitAddresses(size[s]) : out[s][a] # Uninit

(* A byte that pass 2 has written is never written again: blocks do not    *)
(* overlap and no cursor goes back.                                        *)
WriteOnce ==
  [][\A s \in Sections : \A a \in DOMAIN out[s] :
       out[s][a] # Uninit => out'[s][a] = out[s][a]]_vars

---------------------------------------------------------------------------
(* References.                                                             *)

(* The first symbol of that name, as a linker that searches the table by   *)
(* name would find it.                                                     *)
SymbolNamed(name) == symbols[FirstIndex(symbols, LAMBDA e : e.name = name)]

(* The label the unit about to be emitted refers to.                       *)
Referenced == IF item <= Len(Block.instrs) THEN Instr.label ELSE Word.symbol

(* Where pass 1 put a label: section and address of its first block.       *)
PlaceOf(l) ==
  LET i == FirstIndex(labelMap, LAMBDA e : e.label = l)
  IN  <<SectionAt(i), labelMap[i].address>>

(* A relocation is recorded at the place of the reference and under a      *)
(* name that the symbol table resolves to the very block the label         *)
(* denotes, or to an undefined import when no block has that label.        *)
RelocNamesItsTarget ==
  [][relocs' # relocs =>
       LET r == relocs'[Len(relocs')]
           e == SymbolNamed(r.symbol_name)
       IN  /\ HasSymbol(r.symbol_name)
           /\ r.offset = cursor[r.section]
           /\ IF IsDefined(Referenced)
              THEN e.type = "DEFINED" /\ <<e.section, e.offset>> = PlaceOf(Referenced)
              ELSE e.type = "UNDEFINED" /\ e.name = RawName(Referenced)]_vars

(* Jump k of block i has been emitted, and with no relocation.             *)
JumpResolved(i, k) ==
  LET at == labelMap[i].address + 4 * (k - 1)
  IN  /\ Blocks[i].instrs[k].kind = "LABEL"
      /\ IsDefined(Blocks[i].instrs[k].label)
      /\ at \in DOMAIN out[TEXT] /\ out[TEXT][at] # Uninit

(* The processor adds the sign-extended low 26 bits of a jump to its own   *)
(* address; for a jump resolved here that sum is the address of its label. *)
JumpReachesItsLabel ==
  phase \in {"pass2", "done"} =>
    \A i \in DOMAIN Blocks : \A k \in DOMAIN Blocks[i].instrs :
      JumpResolved(i, k) =>
        LET at == labelMap[i].address + 4 * (k - 1)
        IN  at + SignExtend26(out[TEXT][at].low)
              = LabelAddress(Blocks[i].instrs[k].label)

(* A jump whose distance does not fit 26 signed bits is never encoded:     *)
(* encodeLabel reports it and exits.                                       *)
FarJumpsAreReported ==
  phase \in {"pass2", "done"} =>
    \A i \in DOMAIN Blocks : \A k \in DOMAIN Blocks[i].instrs :
      JumpResolved(i, k) =>
        LET at == labelMap[i].address + 4 * (k - 1)
        IN  LabelAddress(Blocks[i].instrs[k].label) - at \in -RelHalf .. RelHalf - 1

---------------------------------------------------------------------------
(* codeGen returns or exits.                                               *)
Termination == <>(phase \in {"done", "error"})
===========================================================================
