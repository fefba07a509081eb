--------------------------- MODULE MCNedo004State ---------------------------
(* Small instances of Nedo004State for TLC. *)
EXTENDS Nedo004State, TLC

CONSTANTS t1, t2, own, other, broken, x, y, z

\* The other vocabulary needs more ids for the same text; broken makes none.
MCCount == [v \in Sha |-> [text \in Text |->
  CASE v = own -> 1 [] v = other -> 2 [] OTHER -> 0]]
=============================================================================
