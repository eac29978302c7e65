----------------------------- MODULE ObjectNames ----------------------------
(***************************************************************************)
(* The symbol names of the objects of one link: build_module_tag and the   *)
(* names pass 1 of codeGen gives to labels (src/codeGen.c).  The files of  *)
(* a link are assembled one after another, each by a process that knows    *)
(* only its own file; a public label keeps its name and a private one gets *)
(* "<label>-[<tag>:<n>]", cut to its buffer.  The linker looks symbols up  *)
(* by name across the objects, so the names are all that keeps the private *)
(* labels of two files apart.                                              *)
(*                                                                         *)
(* Names are sequences of characters here; what is printed for n is a      *)
(* constant.                                                               *)
(***************************************************************************)
EXTENDS Integers, Sequences

CONSTANTS
  Links,      (* sequences of [path, labels], a label being [name, public]   *)
  TagSize,    (* sizeof(module_name), 32 in the code                         *)
  NameSize,   (* sizeof(unique_name), 96 in the code                         *)
  AlphaNum,   (* isalnum                                                     *)
  Character,  (* the characters of paths, names and numbers                  *)
  MaxCount,   (* no file has more private labels, 2^32 - 2 in the code       *)
  Printed     (* %u                                                          *)

(* A label is spelled with word characters, and so is not cut into by what *)
(* is printed behind it; numbers are printed one-to-one.                   *)
LabelChars == AlphaNum \union {"_"}

ASSUME NamesAssumption ==
  /\ TagSize \in Nat /\ TagSize > 3
  /\ NameSize \in Nat \ {0}
  /\ AlphaNum \subseteq Character
  /\ {"_", "-", "[", ":", "]", "o", "b", "j"} \subseteq Character
  /\ {"-", "[", ":", "]"} \intersect LabelChars = {}
  /\ {"o", "b", "j"} \subseteq AlphaNum
  /\ MaxCount \in Nat
  /\ Printed \in [1 .. MaxCount -> Seq(AlphaNum)]
  /\ \A m, n \in 1 .. MaxCount : Printed[m] = Printed[n] => m = n
  /\ Links \subseteq
       Seq([path : Seq(Character), labels : Seq([name : Seq(LabelChars), public : BOOLEAN])])
  /\ \A l \in Links : \A u \in DOMAIN l : Len(l[u].labels) <= MaxCount

VARIABLES
  link,                 (* the files, in the order they are assembled        *)
  unit,                 (* the file being assembled                          *)
  line,                 (* its current block, 0 before codeGen is entered    *)
  module_name,
  local_label_counter,
  names                 (* per file, what its symbol table says: the names,  *)
                        (* each with the counter's value it was made with, 0 *)
                        (* for a public one                                  *)

vars == <<link, unit, line, module_name, local_label_counter, names>>

---------------------------------------------------------------------------
(* build_module_tag.                                                       *)

(* Behind the last slash or backslash.                                     *)
Slashes(path) == {i \in DOMAIN path : path[i] \in {"/", "\\"}}
BaseStart(path) == CHOOSE i \in 1 .. Len(path) + 1 :
  /\ i - 1 \in Slashes(path) \union {0}
  /\ \A j \in Slashes(path) : j < i

(* Up to the first dot.                                                    *)
StemEnd(path) == CHOOSE i \in BaseStart(path) .. Len(path) + 1 :
  /\ i = Len(path) + 1 \/ path[i] = "."
  /\ \A j \in BaseStart(path) .. i - 1 : path[j] # "."

Shorter(m, n) == IF m < n THEN m ELSE n

(* Fault: the terminator is forgotten.                                     *)
FaultTagLength(path) == Shorter(StemEnd(path) - BaseStart(path), TagSize)

TagLength(path) == Shorter(StemEnd(path) - BaseStart(path), TagSize - 1)

ModuleTag(path) ==
  IF TagLength(path) = 0 THEN <<"o", "b", "j">>
  ELSE [k \in 1 .. TagLength(path) |->
         LET ch == path[BaseStart(path) + k - 1]
         IN  IF ch \in LabelChars THEN ch ELSE "_"]

---------------------------------------------------------------------------
UniqueText(label, tag, n) ==
  label \o <<"-", "[">> \o tag \o <<":">> \o Printed[n] \o <<"]">>

(* snprintf                                                                *)
Cut(str) == SubSeq(str, 1, Shorter(Len(str), NameSize - 1))
UniqueName(label, tag, n) == Cut(UniqueText(label, tag, n))

Init ==
  /\ link \in Links
  /\ unit = 1
  /\ line = 0
  /\ module_name = << >>
  /\ local_label_counter = 0
  /\ names = << >>

Labels == link[unit].labels
Symbol(str, n) == [str |-> str, n |-> n]
Named(symbol) ==
  /\ names' = [names EXCEPT ![unit] = Append(@, symbol)]
  /\ line' = line + 1
  /\ UNCHANGED <<link, unit, module_name>>

EnterCodeGen ==
  /\ unit <= Len(link) /\ line = 0
  /\ module_name' = ModuleTag(link[unit].path)
  /\ local_label_counter' = 1
  /\ names' = Append(names, << >>)
  /\ line' = 1
  /\ UNCHANGED <<link, unit>>

NamePublic ==
  /\ unit <= Len(link) /\ line \in DOMAIN Labels /\ Labels[line].public
  /\ Named(Symbol(Labels[line].name, 0))
  /\ UNCHANGED local_label_counter

(* Fault: the counter counts the labels of a name that is new.             *)
FaultNamePrivate ==
  /\ unit <= Len(link) /\ line \in DOMAIN Labels /\ ~Labels[line].public
  /\ Named(Symbol(UniqueName(Labels[line].name, module_name, local_label_counter),
                  local_label_counter))
  /\ local_label_counter' = local_label_counter
       + IF \E k \in 1 .. line - 1 : Labels[k] = Labels[line] THEN 0 ELSE 1

NamePrivate ==
  /\ unit <= Len(link) /\ line \in DOMAIN Labels /\ ~Labels[line].public
  /\ Named(Symbol(UniqueName(Labels[line].name, module_name, local_label_counter),
                  local_label_counter))
  /\ local_label_counter' = local_label_counter + 1

NextFile ==
  /\ unit <= Len(link) /\ line > Len(Labels)
  /\ unit' = unit + 1
  /\ line' = 0
  /\ UNCHANGED <<link, module_name, local_label_counter, names>>

Step == EnterCodeGen \/ NamePublic \/ NamePrivate \/ NextFile
Terminated == unit > Len(link) /\ UNCHANGED vars
Next == Step \/ Terminated

Spec == Init /\ [][Next]_vars
=============================================================================
