--------------------------- MODULE MCRateLimiter ---------------------------
(* Model-checking instance of RateLimiter: one client with room for two      *)
(* requests per window, and one that the configuration gives none.           *)
EXTENDS RateLimiter

CONSTANTS busy, barred

TwoOrNone == [c \in Clients |-> IF c = busy THEN 2 ELSE 0]
=============================================================================
