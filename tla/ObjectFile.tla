---------------------------- MODULE ObjectFile ----------------------------
(***************************************************************************)
(* What the object file of a program p is: what stands at each of its      *)
(* places and in each of its tables, said of the program alone, with no    *)
(* cursors, no passes and no order of evaluation.                          *)
(***************************************************************************)
EXTENDS AsmProgram, FiniteSets

Positions(p)    == DOMAIN p.blocks
SectionAt(p, i) == SectionOf(p.blocks[i])

Imported(p, l) == \E m \in DOMAIN p.imports : p.imports[m] = l
Public(p, l)   == l \in PublicLabels \/ \E m \in DOMAIN p.exports : p.exports[m] = l

(* A label is the first block that has it.                                 *)
Homes(p, l)     == {i \in Positions(p) : p.blocks[i].label = l}
IsDefined(p, l) == Homes(p, l) # {}
Home(p, l)      == CHOOSE i \in Homes(p, l) : \A j \in Homes(p, l) : i <= j

---------------------------------------------------------------------------
(* The units of the program: <<i, k>> is the k-th of block i.  The blocks  *)
(* of a section follow one another in source order, so a block begins four *)
(* bytes further for each unit of its section in the blocks before it.     *)

UnitsOf(p, i) == {i} \X (1 .. Units(p.blocks[i]))
AllUnits(p)   == UNION {UnitsOf(p, i) : i \in Positions(p)}

UnitsUpTo(p, s, n) == {u \in AllUnits(p) : u[1] <= n /\ SectionAt(p, u[1]) = s}

Base(p, i)      == 4 * Cardinality(UnitsUpTo(p, SectionAt(p, i), i - 1))
Total(p, s)     == 4 * Cardinality(UnitsUpTo(p, s, Len(p.blocks)))
Place(p, u)     == Base(p, u[1]) + 4 * (u[2] - 1)
AddressOf(p, l) == Base(p, Home(p, l))

(* A unit is an instruction, a group of four bytes or a word.              *)
Instrs(p, u)  == p.blocks[u[1]].instrs
Groups(p, u)  == (Len(p.blocks[u[1]].data) + 3) \div 4
IsInstr(p, u) == u[2] <= Len(Instrs(p, u))
IsWord(p, u)  == u[2] > Len(Instrs(p, u)) + Groups(p, u)
InstrAt(p, u) == Instrs(p, u)[u[2]]
WordAt(p, u)  == p.blocks[u[1]].words[u[2] - Len(Instrs(p, u)) - Groups(p, u)]

---------------------------------------------------------------------------
(* Names and tables.                                                       *)

PrivateUpTo(p, n) == Cardinality({j \in 1 .. n : ~Public(p, p.blocks[j].label)})

NameOfBlock(p, i) ==
  LET l == p.blocks[i].label
  IN  IF Public(p, l) THEN RawName(l) ELSE UniqueName(l, PrivateUpTo(p, i))

NameOf(p, l) == IF IsDefined(p, l) THEN NameOfBlock(p, Home(p, l)) ELSE RawName(l)

DefinedSymbol(p, i) ==
  [name |-> NameOfBlock(p, i), type |-> "DEFINED", section |-> SectionAt(p, i),
   offset |-> Base(p, i)]

UndefinedSymbol(l) ==
  [name |-> RawName(l), type |-> "UNDEFINED", section |-> TEXT, offset |-> 0]

(* Of the first n imports, those whose name no block and no earlier import *)
(* has.                                                                    *)
Missing(p, m) ==
  /\ \A i \in Positions(p) : NameOfBlock(p, i) # RawName(p.imports[m])
  /\ \A j \in 1 .. m - 1 : p.imports[j] # p.imports[m]
MissingUpTo(p, n) == {m \in 1 .. n : Missing(p, m)}

CollectedUpTo(p, n) == {i \in 1 .. n : SectionAt(p, i) = COLLECT}

Chunk(p, i) ==
  [name |-> p.blocks[i].section, offset |-> Base(p, i), size |-> Payload(p.blocks[i])]

---------------------------------------------------------------------------
(* Contents.                                                               *)

(* The unit refers to a symbol.                                            *)
Refers(p, u) ==
  IF IsInstr(p, u) THEN InstrAt(p, u).kind \in FixupKinds
                   ELSE IsWord(p, u) /\ WordAt(p, u).symbol # NoLabel

Reference(p, u) ==
  IF IsInstr(p, u) THEN InstrAt(p, u).label ELSE WordAt(p, u).symbol

ContentsOfInstr(p, u, i) ==
  IF i.kind \in OperandKinds THEN EncodeOperands(i)
  ELSE IF i.kind = "LABEL"
  THEN IF IsDefined(p, i.label) THEN EncodeJump(i, AddressOf(p, i.label), Place(p, u))
                                ELSE InstrUnit(i.opcode, 0)
  ELSE InstrUnit(i.opcode, i.reg1 * ImmSpan
         + IF IsDefined(p, i.label) THEN AddressOf(p, i.label) ELSE 0)

Contents(p, u) ==
  IF IsInstr(p, u) THEN ContentsOfInstr(p, u, InstrAt(p, u))
  ELSE IF IsWord(p, u) THEN WordUnit(IF Refers(p, u) THEN 0 ELSE WordAt(p, u).value)
  ELSE DataUnit(p.blocks[u[1]].data, u[2] - Len(Instrs(p, u)))

(* A reference is left to the linker unless it is a jump within the file.  *)
NeedsReloc(p, u) ==
  /\ Refers(p, u)
  /\ IsInstr(p, u) /\ InstrAt(p, u).kind = "LABEL" => ~IsDefined(p, Reference(p, u))

RelocType(p, u) ==
  IF ~IsInstr(p, u) THEN "WORD32"
  ELSE IF InstrAt(p, u).kind = "LABEL" THEN "RELATIVE" ELSE "ABSOLUTE"

Reloc(p, u) ==
  [offset |-> Place(p, u), symbol_name |-> NameOf(p, Reference(p, u)),
   type |-> RelocType(p, u), section |-> SectionAt(p, u[1])]

Relocated(p) == {u \in AllUnits(p) : NeedsReloc(p, u)}
RelocatedUpTo(p, u) ==
  {v \in Relocated(p) : v[1] < u[1] \/ (v[1] = u[1] /\ v[2] <= u[2])}

---------------------------------------------------------------------------
(* The object: every unit is at its place, and each table has one entry    *)
(* for each thing that belongs in it, in source order.                     *)

IsImage(p, image) ==
  /\ \A s \in Sections : DOMAIN image[s] = UnitAddresses(Total(p, s))
  /\ \A u \in AllUnits(p) : image[SectionAt(p, u[1])][Place(p, u)] = Contents(p, u)

IsSymbolTable(p, symbols) ==
  LET n       == Len(p.blocks)
      missing == MissingUpTo(p, Len(p.imports))
  IN  /\ Len(symbols) = n + Cardinality(missing)
      /\ \A i \in Positions(p) : symbols[i] = DefinedSymbol(p, i)
      /\ \A m \in missing :
           symbols[n + Cardinality(MissingUpTo(p, m))] = UndefinedSymbol(p.imports[m])

IsCollectTable(p, collects) ==
  LET collected == CollectedUpTo(p, Len(p.blocks))
  IN  /\ Len(collects) = Cardinality(collected)
      /\ \A i \in collected : collects[Cardinality(CollectedUpTo(p, i))] = Chunk(p, i)

IsRelocTable(p, relocs) ==
  /\ Len(relocs) = Cardinality(Relocated(p))
  /\ \A u \in Relocated(p) : relocs[Cardinality(RelocatedUpTo(p, u))] = Reloc(p, u)

IsObject(p, o) ==
  /\ o.size = [s \in Sections |-> Total(p, s)]
  /\ IsImage(p, o.image)
  /\ IsSymbolTable(p, o.symbols)
  /\ IsCollectTable(p, o.collects)
  /\ IsRelocTable(p, o.relocs)

---------------------------------------------------------------------------
(* A program is accepted when nothing in it asks for the impossible.       *)
UnitIsLegal(p, u) ==
  /\ Refers(p, u) => IsDefined(p, Reference(p, u)) \/ Imported(p, Reference(p, u))
  /\ IsInstr(p, u) =>
       LET i == InstrAt(p, u)
       IN  /\ i.kind \in OperandKinds => OperandsFit(i)
           /\ i.kind = "REGLABEL" /\ IsDefined(p, i.label)
                => AddressOf(p, i.label) < ImmSpan

IsLegal(p) ==
  /\ \A i \in Positions(p) : ~HoldsCodeOutsideText(p.blocks[i])
  /\ \A m \in DOMAIN p.exports : IsDefined(p, p.exports[m])
  /\ \A u \in AllUnits(p) : UnitIsLegal(p, u)
===========================================================================
