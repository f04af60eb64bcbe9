--------------------------- MODULE MCKneeboardState ---------------------------
EXTENDS KneeboardState

CONSTANTS p1, p2

(* The profiles have different numbers of views. *)
OneAndTwo == [p \in Profiles |-> IF p = Default THEN 1 ELSE 2]

===============================================================================
