------------------------------ MODULE MCViews --------------------------------
(* Two tabs, shown in one or two kneeboard views. *)
EXTENDS Views

CONSTANTS t1, t2, k1, k2, c1, c2

TwoTabs == <<t1, t2>>
TwoViews == <<k1, k2>>
===============================================================================
