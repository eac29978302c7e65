----------------------------- MODULE MCCodeGen ----------------------------
(***************************************************************************)
(* Instances of the code generator for TLC: programs of three blocks over  *)
(* a public label f, private labels a and b and an external name x.        *)
(***************************************************************************)
EXTENDS CodeGenImplements

CONSTANTS f, a, b, x, stem, sec

Ins(kind, reg, imm, label) ==
  [kind |-> kind, opcode |-> 1, reg1 |-> reg, reg2 |-> 0, imm |-> imm,
   label |-> label]
Jump(l) == Ins("LABEL", 0, 0, l)
Movi(l) == Ins("REGLABEL", 1, 0, l)
Halt    == Ins("NO_OPERAND", 0, 0, NoLabel)
Num(v)  == [value |-> v, symbol |-> NoLabel]
Ref(l)  == [value |-> 0, symbol |-> l]

Blk(l, is, bytes, ws) ==
  [label |-> l, instrs |-> is, data |-> bytes, words |-> ws,
   section |-> NoSection, in_data |-> FALSE]
InData(blk)    == [blk EXCEPT !.in_data = TRUE]
InSection(blk) == [blk EXCEPT !.section = sec]

(* One block per case: code, code with bytes and words behind it, nothing  *)
(* at all, bytes that need padding, references of every kind from every    *)
(* section, code where it is not allowed, immediates on both sides of      *)
(* their limit.  Labels repeat, so most programs have duplicates.          *)
MCBlocks ==
  { Blk(f, <<Jump(a), Halt>>, << >>, << >>),
    Blk(a, <<Movi(b), Jump(x)>>, <<1>>, <<Ref(a)>>),
    Blk(b, <<Jump(f), Movi(x)>>, << >>, << >>),
    Blk(a, << >>, << >>, << >>),
    Blk(b, <<Ins("REGREG", 1, 0, NoLabel)>>, <<1, 2, 3, 4, 5>>, << >>),
    Blk(f, <<Ins("REGIMM21", 1, ImmSpan - 1, NoLabel),
             Ins("REGIMM21", 1, ImmSpan, NoLabel)>>, << >>, << >>),
    Blk(a, <<Ins("REG", 1, 0, NoLabel),
             Ins("IMM26", 0, RelSpan - 1, NoLabel),
             Ins("IMM26", 0, RelSpan, NoLabel)>>, << >>, << >>),
    InData(Blk(b, << >>, <<1, 2, 3, 4, 5>>, <<Ref(b), Num(9)>>)),
    InData(Blk(a, << >>, << >>, <<Ref(x)>>)),
    InData(Blk(a, <<Halt>>, << >>, << >>)),
    InSection(Blk(f, << >>, <<300>>, <<Ref(a)>>)),
    InSection(Blk(b, << >>, << >>, <<Num(7)>>)),
    InSection(Blk(b, <<Halt>>, << >>, << >>)) }

MCPrograms ==
  [blocks : [1 .. 3 -> MCBlocks], imports : {<<x>>, <<x, a, f>>},
   exports : {<< >>, <<a>>}]
  \union [blocks : {<< >>}, imports : {<<x>>}, exports : {<< >>, <<f>>}]

(* b is spelled with 95 characters or more.                                *)
MCCutTo == [l \in {b} |-> stem]

(* Sixteen bytes between a jump and its label.                             *)
FarPrograms ==
  [blocks : [1 .. 2 -> {Blk(f, <<Jump(a), Halt, Halt, Halt>>, << >>, << >>),
                        Blk(a, <<Halt>>, << >>, << >>)}],
   imports : {<< >>}, exports : {<< >>}]
===========================================================================
