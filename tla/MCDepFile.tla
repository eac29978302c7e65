----------------------------- MODULE MCDepFile -----------------------------
(***************************************************************************)
(* Two sources in one directory tree and one that realpath does not find;  *)
(* of the import paths, "p" means another file in each directory, "./p"    *)
(* the same as "p" in the first, "/q" and "/r" are absolute, and the rest  *)
(* fail one test each.                                                     *)
(***************************************************************************)
EXTENDS DepFileProps

MCPaths == {"p", "./p", "/q", "/r", "long", "gone", "txt", "tab"}
MCDirectoryOf == [f \in {"a", "b"} |-> IF f = "a" THEN "A" ELSE "B"]
MCRealPath ==
  [d \in ({"A", "B"} \X {"p", "./p", "txt", "tab"}) \union ({"root"} \X {"/q", "/r"}) |->
     CASE d[2] \in {"p", "./p"} -> IF d[1] = "A" THEN "A.masm" ELSE "q.mln"
       [] d[2] = "/q" -> "q.mln"
       [] d[2] = "/r" -> "r.masm"
       [] d[2] = "txt" -> "x.txt"
       [] d[2] = "tab" -> "t.masm"]
MCKind == [c \in {"A.masm", "q.mln", "r.masm", "x.txt", "t.masm"} |->
             CASE c = "q.mln" -> "mln" [] c = "x.txt" -> "other" [] OTHER -> "masm"]
MCTooLong == {<<"A", "long">>, <<"B", "long">>}

(* Lists of up to two paths, and of three that are all accepted.           *)
Lists(n, S) ==
  {ps \in [1 .. n -> S] : \A j, k \in DOMAIN ps : ps[j] = ps[k] => j = k}
MCImportLists ==
  UNION {Lists(n, MCPaths \ {"/r"}) : n \in 0 .. 2}
    \union Lists(3, {"p", "./p", "/q"}) \union {<<"p", "/q", "/r">>}
===========================================================================
