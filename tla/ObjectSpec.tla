---------------------------- MODULE ObjectSpec ----------------------------
(***************************************************************************)
(* What codeGen promises: one step from a source to its object file, or to *)
(* a rejection.                                                            *)
(***************************************************************************)
EXTENDS ObjectFile

CONSTANT Programs  (* the sources that may be given *)

VARIABLES
  src,
  result  (* none yet; an object; or the process exited with a message *)

Pending  == [verdict |-> "pending"]
Rejected == [verdict |-> "rejected"]

Init == src \in Programs /\ result = Pending

Assemble ==
  /\ result = Pending
  /\ IF IsLegal(src) THEN result'.verdict = "accepted" /\ IsObject(src, result'.object)
                     ELSE result' = Rejected
  /\ UNCHANGED src

Spec == Init /\ [][Assemble]_<<src, result>>
===========================================================================
