--------------------------- MODULE MCApplication ---------------------------
(* Model-checking instance of Application: a gateway file that parses and one *)
(* that does not, and five models files.                                      *)
EXTENDS Application, TLC

MCGatewayFiles == {[name |-> "good", faults |-> {}],
                   [name |-> "edited badly", faults |-> {"yaml"}]}

File(providers, routes, faults, unusable) ==
    [providers |-> providers, routes |-> routes, faults |-> faults, unusable |-> unusable]

\* config/models.yaml: its routes have no `model`.
Shipped == File(<<"primary", "fallback">>,
                "llama" :> <<"primary", "fallback">> @@ "code" :> <<"primary">>, {"model"}, {})

\* The same, completed; and with a URL that is none.
Complete == [Shipped EXCEPT !.faults = {}]
BadUrl == [Complete EXCEPT !.unusable = {"fallback"}]

\* Another order and a new first provider, a route for another provider, and a
\* route to providers that may be known from an earlier file.
Reordered == File(<<"local", "primary">>,
                  "code" :> <<"local">> @@ "llama" :> <<"fallback">>, {}, {})

\* No file, or an empty one.
Absent == File(<< >>, << >>, {}, {})

MCModelsFiles == {Shipped, Complete, BadUrl, Reordered, Absent}
=============================================================================
