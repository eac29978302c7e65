---------------------------- MODULE MCObjectNames ---------------------------
(***************************************************************************)
(* Links of two files whose names agree in every way that a tag can make   *)
(* the same or almost, with labels that repeat, are public or are cut.  A  *)
(* tag has 4 characters and a name 10.                                     *)
(***************************************************************************)
EXTENDS ObjectNamesProps

MCAlphaNum  == {"a", "b", "j", "o", "1", "2", "3", "4"}
MCCharacter == MCAlphaNum \union {"_", "-", "[", ":", "]", "/", "\\", "."}
MCPrinted == << <<"1">>, <<"2">>, <<"3">> >>

Paths ==
  {<<"a">>, <<"b", "/", "a", ".", "b">>, <<"a", "/", "b", ".", "b">>,
   <<"b", "\\", "a", "-", ".", "a">>, <<"a", "_", ".", "b", "/">>, <<".", "a">>,
   <<"a", "b", "b", "b", "1">>, <<"a", "b", "b", "b", "2", ".">>, <<"o", "b", "j">>,
   <<"a", "/", "b", "\\", "a", "/", "b", "1">>}
MCLabels ==
  {[name |-> l, public |-> p] :
     l \in {<<"a">>, <<"_">>, <<"a", "1">>, <<"a", "a", "a", "a", "a">>}, p \in BOOLEAN}
SeqsUpTo(n, S) == UNION {[1 .. m -> S] : m \in 0 .. n}

MCLinks ==
  {<<[path |-> p, labels |-> l], [path |-> q, labels |-> k]>> :
     p \in Paths, q \in Paths, l \in [1 .. 2 -> MCLabels], k \in SeqsUpTo(1, MCLabels)}
  \union {<<[path |-> p, labels |-> l]>> : p \in {<<"a">>}, l \in SeqsUpTo(3, MCLabels)}
=============================================================================
