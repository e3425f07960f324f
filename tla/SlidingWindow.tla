--------------------------- MODULE SlidingWindow ---------------------------
(***************************************************************************)
(* What a sliding-window limiter promises: it remembers every admission,   *)
(* and admits a request exactly while fewer than the limit were admitted   *)
(* within the window that ends now.  RateLimiter implements it although it *)
(* forgets admissions as it goes.                                          *)
(***************************************************************************)
EXTENDS Integers, Sequences, FiniteSets

CONSTANTS
    Clients,    \* client keys
    Limit,      \* Limit[c]: admissions of c that a window has room for
    Window      \* its length, in ticks

VARIABLES
    now,        \* the time, in ticks
    verdict,    \* the answer to each client's latest request
    admitted    \* admitted[c]: the times of c's admissions since its last reset

vars == <<now, verdict, admitted>>

Init ==
    /\ now = 0
    /\ verdict = [c \in Clients |-> "none"]
    /\ admitted = [c \in Clients |-> << >>]

InWindow(c) == {i \in DOMAIN admitted[c] : admitted[c][i] >= now - Window}

Admit(c) ==
    /\ Cardinality(InWindow(c)) < Limit[c]
    /\ admitted' = [admitted EXCEPT ![c] = Append(@, now)]
    /\ verdict' = [verdict EXCEPT ![c] = "admitted"]
    /\ UNCHANGED now

Refuse(c) ==
    /\ Cardinality(InWindow(c)) >= Limit[c]
    /\ verdict' = [verdict EXCEPT ![c] = "refused"]
    /\ UNCHANGED <<now, admitted>>

Forget(c) ==
    /\ admitted' = [admitted EXCEPT ![c] = << >>]
    /\ verdict' = [verdict EXCEPT ![c] = "none"]
    /\ UNCHANGED now

TimePasses == now' = now + 1 /\ UNCHANGED <<verdict, admitted>>

Next == TimePasses \/ \E c \in Clients : Admit(c) \/ Refuse(c) \/ Forget(c)

Spec == Init /\ [][Next]_vars

=============================================================================
