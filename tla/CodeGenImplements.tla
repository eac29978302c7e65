------------------------ MODULE CodeGenImplements -------------------------
(***************************************************************************)
(* The two-pass code generator implements ObjectSpec: every step before    *)
(* the last leaves the abstract result pending, and the last one delivers  *)
(* exactly the object, or the rejection, that ObjectSpec prescribes.       *)
(***************************************************************************)
EXTENDS CodeGenInv, FiniteSets

(* What codeGen returns: its MachineCode.                                  *)
MachineCode ==
  [size |-> size, image |-> out, symbols |-> symbols, relocs |-> relocs,
   collects |-> collects]

Result ==
  CASE phase = "done"  -> [verdict |-> "accepted", object |-> MachineCode]
    [] phase = "error" -> [verdict |-> "rejected"]
    [] OTHER           -> [verdict |-> "pending"]

Abstract == INSTANCE ObjectSpec WITH result <- Result

(* Two walks with cursors and first-match tables compute the object that   *)
(* the declarative description gives, table for table and byte for byte.   *)
ImplementsObjectSpec == Abstract!Spec

---------------------------------------------------------------------------
(* How much of the object stands in the variables before the last step.    *)

(* The blocks that pass 1 has placed are where they belong, and have the   *)
(* names, symbols and chunks that belong to them.                          *)
BlocksSoFar ==
  LET n == Len(labelMap)
  IN  /\ phase = "pass1" => \A s \in Sections :
           cursor[s] = 4 * Cardinality(Abstract!UnitsUpTo(src, s, n))
      /\ phase \in AfterPass1 => \A s \in Sections : size[s] = Abstract!Total(src, s)
      /\ local_label_counter = 1 + Abstract!PrivateUpTo(src, n)
      /\ \A i \in DOMAIN labelMap : symbols[i] = Abstract!DefinedSymbol(src, i)
      /\ LET collected == Abstract!CollectedUpTo(src, n)
         IN  /\ Len(collects) = Cardinality(collected)
             /\ \A i \in collected :
                  collects[Cardinality(Abstract!CollectedUpTo(src, i))]
                    = Abstract!Chunk(src, i)

(* Of the first n imports, the missing ones are in the symbol table behind *)
(* the blocks.                                                             *)
Entered(n) ==
  LET missing == Abstract!MissingUpTo(src, n)
  IN  /\ Len(symbols) = Len(Blocks) + Cardinality(missing)
      /\ \A m \in missing :
           symbols[Len(Blocks) + Cardinality(Abstract!MissingUpTo(src, m))]
             = Abstract!UndefinedSymbol(src.imports[m])
      /\ \A k \in Len(Blocks) + 1 .. Len(symbols) :
           \E m \in 1 .. n : symbols[k].name = RawName(src.imports[m])

NamesSoFar ==
  /\ phase = "exports" => Entered(0)
  /\ phase = "imports" => item - 1 <= Len(src.imports) /\ Entered(item - 1)
  /\ phase \in {"pass2", "done"} => Entered(Len(src.imports))
  /\ phase \in {"imports", "pass2", "done"} =>
       \A m \in DOMAIN src.exports : Abstract!IsDefined(src, src.exports[m])

(* The units that pass 2 has emitted are legal and at their places, and    *)
(* their relocations are in the table.                                     *)
Emitted == {u \in Abstract!AllUnits(src) : u[1] < line \/ (u[1] = line /\ u[2] < item)}

UnitsSoFar ==
  phase \in {"pass2", "done"} =>
    \A u \in Emitted :
      /\ Abstract!UnitIsLegal(src, u)
      /\ out[Abstract!SectionAt(src, u[1])][Abstract!Place(src, u)]
           = Abstract!Contents(src, u)

RelocsSoFar ==
  /\ phase \in BeforePass2 => relocs = << >>
  /\ phase \in {"pass2", "done"} =>
       LET relocated == Emitted \intersect Abstract!Relocated(src)
       IN  /\ Len(relocs) = Cardinality(relocated)
           /\ \A u \in relocated :
                relocs[Cardinality(Abstract!RelocatedUpTo(src, u))] = Abstract!Reloc(src, u)

(* Everything that will be in the object is right as soon as it is there.  *)
ObjectInv == IInv /\ BlocksSoFar /\ NamesSoFar /\ UnitsSoFar /\ RelocsSoFar
===========================================================================
