---------------------------- MODULE RateLimiter ----------------------------
(***************************************************************************)
(* SlidingWindowRateLimiter (core/rate_limit.py): per client a deque of    *)
(* the times of its admitted requests.  Every method runs without an       *)
(* await, so each is one step.                                             *)
(*                                                                         *)
(* The clock counts ticks, Second of them to a second: time.monotonic()    *)
(* falls between seconds, while windows and Retry-After are whole seconds. *)
(***************************************************************************)
EXTENDS Integers, Sequences

CONSTANTS
    Clients,        \* client keys
    Limit,          \* Limit[c]: the limit c's requests are checked against
    WindowSeconds,  \* the window they are counted in
    Second,         \* clock ticks per second
    MaxTime         \* bound on the clock

\* Nothing in the class or in the configuration schema keeps a limit above 0.
ASSUME RateLimiterAssumption ==
    /\ Limit \in [Clients -> Nat]
    /\ WindowSeconds \in Nat
    /\ Second \in Nat \ {0}
    /\ MaxTime \in Nat

Window == WindowSeconds * Second

VARIABLES
    bucket,     \* bucket[c]: self._buckets[c]; absent and empty are the same
    now,        \* time.monotonic(), in ticks
    outcome,    \* how each client's latest check() ended, and when the client
                \* was told to come back if it was told
    admitted    \* history: admitted[c] are the times of c's admissions since
                \* its last reset()

vars == <<bucket, now, outcome, admitted>>

Outcome == [kind : {"none", "allowed", "raised_429", "returned_false", "crashed"}, retryAt : Nat]

Ended(kind) == [kind |-> kind, retryAt |-> 0]

TypeOK ==
    /\ bucket \in [Clients -> Seq(Nat)]
    /\ \A c \in Clients : Len(bucket[c]) <= Limit[c]
    /\ now \in Nat
    /\ outcome \in [Clients -> Outcome]
    /\ admitted \in [Clients -> Seq(Nat)]

Init ==
    /\ bucket = [c \in Clients |-> << >>]
    /\ now = 0
    /\ outcome = [c \in Clients |-> Ended("none")]
    /\ admitted = [c \in Clients |-> << >>]

-----------------------------------------------------------------------------

\* Mutant: an entry goes when it is exactly one window old.
PoppedEarly(b, t) ==
    CHOOSE k \in 0 .. Len(b) :
        /\ \A j \in 1 .. k : b[j] <= t - Window
        /\ k < Len(b) => b[k + 1] > t - Window

\* How many leading entries the `while` loop pops from bucket b at time t.
Popped(b, t) ==
    CHOOSE k \in 0 .. Len(b) :
        /\ \A j \in 1 .. k : b[j] < t - Window
        /\ k < Len(b) => b[k + 1] >= t - Window

Evicted(b, t) == SubSeq(b, Popped(b, t) + 1, Len(b))

Current(c) == Evicted(bucket[c], now)

\* Mutant: int() alone, without the `+ 1`.
RetryAtFloor(b, t) == t + Second * ((b[1] + Window - t) \div Second)

\* When a client refused at time t may come back: int(...) + 1 seconds later.
RetryAt(b, t) == t + Second * ((b[1] + Window - t) \div Second + 1)

\* Mutant: `len(bucket) > limit` refuses one request too late.
FullLate(c) == Len(Current(c)) > Limit[c]

Full(c) == Len(Current(c)) >= Limit[c]

CheckAllows(c) ==
    /\ ~ Full(c)
    /\ bucket' = [bucket EXCEPT ![c] = Append(Current(c), now)]
    /\ outcome' = [outcome EXCEPT ![c] = Ended("allowed")]
    /\ admitted' = [admitted EXCEPT ![c] = Append(@, now)]
    /\ UNCHANGED now

\* raise_on_exceed=True: 429 with a Retry-After computed from the oldest
\* entry.
CheckRaises(c) ==
    /\ Full(c) /\ Current(c) # << >>
    /\ bucket' = [bucket EXCEPT ![c] = Current(c)]
    /\ outcome' = [outcome EXCEPT ![c] =
                     [kind |-> "raised_429", retryAt |-> RetryAt(Current(c), now)]]
    /\ UNCHANGED <<now, admitted>>

\* Under a limit of zero the bucket is empty: bucket[0] raises IndexError.
CheckCrashes(c) ==
    /\ Full(c) /\ Current(c) = << >>
    /\ bucket' = [bucket EXCEPT ![c] = Current(c)]
    /\ outcome' = [outcome EXCEPT ![c] = Ended("crashed")]
    /\ UNCHANGED <<now, admitted>>

\* Mutant: refused requests are counted, too.
CheckReturnsFalseCounting(c) ==
    /\ Full(c)
    /\ bucket' = [bucket EXCEPT ![c] = Append(Current(c), now)]
    /\ outcome' = [outcome EXCEPT ![c] = Ended("returned_false")]
    /\ UNCHANGED <<now, admitted>>

\* raise_on_exceed=False.
CheckReturnsFalse(c) ==
    /\ Full(c)
    /\ bucket' = [bucket EXCEPT ![c] = Current(c)]
    /\ outcome' = [outcome EXCEPT ![c] = Ended("returned_false")]
    /\ UNCHANGED <<now, admitted>>

\* remaining() evicts too.
Remaining(c) ==
    /\ bucket' = [bucket EXCEPT ![c] = Current(c)]
    /\ UNCHANGED <<now, outcome, admitted>>

Reset(c) ==
    /\ bucket' = [bucket EXCEPT ![c] = << >>]
    /\ outcome' = [outcome EXCEPT ![c] = Ended("none")]
    /\ admitted' = [admitted EXCEPT ![c] = << >>]
    /\ UNCHANGED now

Tick ==
    /\ now < MaxTime
    /\ now' = now + 1
    /\ UNCHANGED <<bucket, outcome, admitted>>

Next ==
    \/ \E c \in Clients :
        \/ CheckAllows(c) \/ CheckRaises(c) \/ CheckCrashes(c) \/ CheckReturnsFalse(c)
        \/ Remaining(c) \/ Reset(c)
    \/ Tick

Spec == Init /\ [][Next]_vars

-----------------------------------------------------------------------------
(* Properties.                                                             *)

\* However checks, queries and waits follow each other, no window of the
\* configured length, both ends included, holds more than Limit[c] admissions
\* of a client: the entries that check() and remaining() evict are never
\* needed again.
AtMostLimitPerWindow ==
    \A c \in Clients : \A i \in 1 .. Len(admitted[c]) - Limit[c] :
        admitted[c][i + Limit[c]] - admitted[c][i] > Window

\* Retry-After is the exact whole number of seconds: a client that comes back
\* then is let in, one second earlier it is refused, whatever it or others
\* asked in between.
RetryAfterIsExact ==
    \A c \in Clients : outcome[c].kind = "raised_429" =>
        /\ Len(Evicted(bucket[c], outcome[c].retryAt)) < Limit[c]
        /\ Len(bucket[c]) = Limit[c] =>
             Len(Evicted(bucket[c], outcome[c].retryAt - Second)) = Limit[c]

\* The promise that check() keeps, measured by the whole history.
Promise == INSTANCE SlidingWindow WITH
    verdict <- [c \in Clients |->
                  CASE outcome[c].kind = "none"    -> "none"
                    [] outcome[c].kind = "allowed" -> "admitted"
                    [] OTHER                       -> "refused"]

\* Every check is decided as if all admissions since the last reset() were still
\* known: what check() and remaining() evict, in whatever order they are called,
\* never lets a request in, and refused requests never keep one out.
ImplementsWindow == Promise!Spec

=============================================================================
