--------------------------- MODULE MCFallbackChain ---------------------------
(* Model-checking instance of FallbackChain: a chain of three providers (the  *)
(* shipped routes have two).                                                  *)
EXTENDS FallbackChain

CONSTANTS p1, p2, p3

ThreeInOrder == <<p1, p2, p3>>
=============================================================================
