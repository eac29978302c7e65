-------------------------- MODULE ObjectNamesProps --------------------------
(***************************************************************************)
(* What a linker may rely on about the names in the objects it is given.   *)
(***************************************************************************)
EXTENDS ObjectNames

Tag(u) == ModuleTag(link[u].path)
LabelOf(u, i) == link[u].labels[i].name
IsPrivate(u, i) == ~link[u].labels[i].public

(* The variables have their types; the tag and its terminator fit.         *)
NamesTypeOK ==
  /\ unit \in 1 .. Len(link) + 1 /\ line \in Nat /\ local_label_counter \in Nat
  /\ module_name \in Seq(LabelChars) /\ Len(module_name) < TagSize
  /\ names \in Seq(Seq([str : Seq(Character), n : Nat]))

(* A private label's name, before it is cut.                               *)
Whole(u, i) == UniqueText(LabelOf(u, i), Tag(u), names[u][i].n)
Fits(u, i) == Len(Whole(u, i)) < NameSize

(* In all the objects of a link two symbols of which one is private have   *)
(* the same name only if they are the same label, made with the same count *)
(* in files whose names give the same tag, as long as no name is cut.  In  *)
(* particular nothing else in its own object has a private symbol's name.  *)
PrivateNamesApart ==
  \A u, v \in DOMAIN names : \A i \in DOMAIN names[u], j \in DOMAIN names[v] :
    /\ u # v \/ i # j
    /\ names[u][i].str = names[v][j].str
    /\ IsPrivate(u, i) /\ Fits(u, i)
    /\ IsPrivate(v, j) => Fits(v, j)
    => /\ IsPrivate(v, j)
       /\ u # v /\ Tag(u) = Tag(v)
       /\ LabelOf(u, i) = LabelOf(v, j) /\ names[u][i].n = names[v][j].n
=============================================================================
