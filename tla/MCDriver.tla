------------------------------ MODULE MCDriver ------------------------------
(***************************************************************************)
(* Command lines: a source and an output, and up to three further          *)
(* arguments of every sort, or four of the sorts that can be confused.     *)
(***************************************************************************)
EXTENDS DriverProps

P(dir, name) == [dir |-> dir, name |-> name]

Source   == P("d/", <<"a", "masm">>)
Output   == P("o/", <<"a", "mbin">>)
ObjFile  == P("o/", <<"a", "mobj">>)
DepsFile == P("o/", <<"a", "deps">>)
Listing  == P("o/", <<"x", "txt">>)

SeqsUpTo(n, S) == UNION {[1 .. m -> S] : m \in 0 .. n}

Tails ==
  SeqsUpTo(3, {Obj, Depfile, ObjFile, DepsFile, Listing, Plain("")})
  \union [1 .. 4 -> {Obj, Depfile, ObjFile}]
  \union {<<Obj, ObjFile, Depfile, DepsFile>>, <<Obj, ObjFile, Depfile, DepsFile, Listing>>}

(* A text file for a source; outputs without an extension, with nothing    *)
(* but one, named like a report, and in the place of the source.           *)
FirstTwo ==
  {<<Source, Output>>, <<P("d/", <<"a", "txt">>), P("d/", <<"a", "mbin">>)>>,
   <<Source, P("o/", <<"a_asm">>)>>, <<Source, P("o/", <<"", "mbin">>)>>,
   <<Source, Source>>}

MCCommandLines ==
  {<< >>, <<Source>>} \union {<<Source, Output>> \o t : t \in Tails}
  \union {f \o t : f \in FirstTwo, t \in {<< >>, <<Obj, ObjFile>>}}
MCSources == {Source, P("d/", <<"a", "txt">>)}
MCPresent == MCSources \union {Output, ObjFile, DepsFile}
MCVerdicts == {"unreadable", "empty", "rejected", "refused", "no_code", "code"}
=============================================================================
