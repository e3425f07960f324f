----------------------------- MODULE MCPipeline -----------------------------
(* Model-checking instance of Pipeline: public, documented and protected   *)
(* paths, with and without a trailing slash and a key, a preflight request *)
(* and posts of two kinds; the key is revoked, caching and metrics are     *)
(* switched off, and gateway.yaml is edited badly.                         *)
EXTENDS Pipeline, TLC

Get(path, key) == [path |-> path, key |-> key, preflight |-> FALSE, lookup |-> "none"]

Chat(key, lookup) ==
    [path |-> Path("/v1/chat/completions"), key |-> key, preflight |-> FALSE, lookup |-> lookup]

MCKinds ==
    {Get(Root, "none"), Get(Path("/metrics"), "none"),
     Get([Path("/metrics") EXCEPT !.slashes = 1], "none"),
     Chat("k", "cacheable"), Chat("none", "raises"),
     [Get(Path("/docs/oauth2-redirect"), "none") EXCEPT !.preflight = TRUE]}

File(on, keys, faults) ==
    [cache |-> on, metrics |-> on, auth |-> TRUE, keys |-> keys, faults |-> faults]

MCGatewayFiles ==
    {File(TRUE, {"k"}, {}), File(FALSE, {"other"}, {}), File(TRUE, {}, {"yaml"})}

Symmetry == Permutations(Requests)
=============================================================================
