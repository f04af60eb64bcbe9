------------------------------- MODULE MCAppExit -------------------------------
EXTENDS AppExit

CONSTANTS ui, pool

(* The listeners belong to the UI thread; other threads only take part in   *)
(* the count.                                                               *)
OwnedByUI == [c \in Connections |-> ui]

(* Delays are nested on the UI thread and unused on the other. *)
DelaysOnUI == [t \in Threads |-> IF t = ui THEN 2 ELSE 0]

===============================================================================
