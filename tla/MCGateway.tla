----------------------------- MODULE MCGateway -----------------------------
(* Model-checking instance of Gateway: started with one provider and a     *)
(* route to it, with the provider only, or with no models file; the        *)
(* provider streams a chunk of two pieces and its own [DONE].              *)
EXTENDS Gateway, TLC

File(providers, routes) ==
    [providers |-> providers, routes |-> routes, faults |-> {}, unusable |-> {}]

MCFiles == {File(<<"primary">>, "llama" :> <<"primary">>),
            File(<<"primary">>, << >>),
            File(<< >>, << >>)}

MCModels == {"llama", "primary"}

MCBodies == {Framed(<<"a", "b">>) \o Framed(<<"[DONE]">>)}

MCContent == {"a", "b"}
=============================================================================
