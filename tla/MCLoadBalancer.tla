--------------------------- MODULE MCLoadBalancer ---------------------------
(* Model-checking instance of LoadBalancer: a client of weight 2, and one  *)
(* whose weight is configured as 0 and whom the route names twice.         *)
EXTENDS LoadBalancer

MCClientList == <<"light", "heavy", "light">>
MCWeight == [c \in ToSet(MCClientList) |-> IF c = "heavy" THEN 2 ELSE 0]
=============================================================================
