---------------------------- MODULE LoadBalancer ----------------------------
(***************************************************************************)
(* One LoadBalancer (gateway/load_balancer.py): a rotation that is         *)
(* shuffled once, and the filter over its clients' circuit breakers, whose *)
(* failures come from streams that other requests run on the same clients. *)
(***************************************************************************)
EXTENDS Breaker, Sequences, FiniteSets, SequencesExt

CONSTANTS
    ClientList, \* the clients of the load balancer, as the route names them
    Weight,     \* Weight[c]: the configured weight of c
    MaxPicks,   \* bound on the calls of next()
    MaxFailures,\* bound on the failures of one breaker
    MaxTime     \* bound on the clock

\* A route may name a provider twice: its client is in the list twice, and is one
\* client with one circuit breaker all the same.
Clients == ToSet(ClientList)

\* Weights are plain ints; an empty list of clients raises in the constructor.
ASSUME LoadBalancerAssumption ==
    /\ ClientList \in Seq(Clients) /\ ClientList # << >>
    /\ Weight \in [Clients -> Int]
    /\ MaxPicks \in Nat /\ MaxFailures \in Nat /\ MaxTime \in Nat

VARIABLES
    pool,       \* self._pool, as shuffled by the constructor
    position,   \* where itertools.cycle stands: 1 .. Len(pool)
    picks,      \* history: what next() has returned, in order
    breaker,    \* breaker[c]: the fields of c's circuit breaker
    now,        \* time.monotonic(), in ticks
    available,  \* who is in the latest result of available_clients(), at most one
    failedAt    \* history: when c last failed, at most one time

balancerVars == <<pool, position, picks, breaker, now, available, failedAt>>

\* NIMClient.weight turns 0 into 1, the constructor whatever is below.
Copies(c) == IF Weight[c] < 1 THEN 1 ELSE Weight[c]

\* How often a client occurs in a list.
Occurrences(list, c) == Cardinality({i \in DOMAIN list : list[i] = c})

\* The constructor: every order of the weighted pool, in which each place of the
\* list has its copies.
Shuffled ==
    LET slots == UNION {{k} \X (1 .. Copies(ClientList[k])) : k \in DOMAIN ClientList}
    IN  {[i \in DOMAIN order |-> ClientList[order[i][1]]] : order \in SetToSeqs(slots)}

BalancerTypeOK ==
    /\ pool \in Seq(Clients) /\ pool # << >>
    /\ position \in 1 .. Len(pool)
    /\ picks \in Seq(Clients)
    /\ breaker \in [Clients -> BreakerRecord]
    /\ now \in Nat
    /\ available \in {{}} \union {{s} : s \in SUBSET Clients}
    /\ failedAt \in [Clients -> {{}} \union {{t} : t \in 0 .. now}]

BalancerInit ==
    /\ pool \in Shuffled
    /\ position = 1
    /\ picks = << >>
    /\ breaker = [c \in Clients |-> NewBreaker]
    /\ now = 0
    /\ available = {}
    /\ failedAt = [c \in Clients |-> {}]

-----------------------------------------------------------------------------

\* Mutant: the pool is shuffled again after every round.
PickReshuffling ==
    /\ Len(picks) < MaxPicks
    /\ picks' = Append(picks, pool[position])
    /\ IF position < Len(pool)
       THEN position' = position + 1 /\ UNCHANGED pool
       ELSE position' = 1 /\ pool' \in Shuffled
    /\ UNCHANGED <<breaker, now, available, failedAt>>

\* Mutant: the position runs over the end.
PickOverrunning ==
    /\ Len(picks) < MaxPicks
    /\ picks' = Append(picks, pool[position])
    /\ position' = position + 1
    /\ UNCHANGED <<pool, breaker, now, available, failedAt>>

\* next(): whatever the breakers say.
Pick ==
    /\ Len(picks) < MaxPicks
    /\ picks' = Append(picks, pool[position])
    /\ position' = IF position < Len(pool) THEN position + 1 ELSE 1
    /\ UNCHANGED <<pool, breaker, now, available, failedAt>>

\* Mutant: the stored state is read, not the property.
AvailableClientsStale ==
    /\ available' = {{c \in Clients : breaker[c].state # "open"}}
    /\ UNCHANGED <<pool, position, picks, breaker, now, failedAt>>

\* available_clients() reads the state of every client, which moves those
\* whose waiting time is over to half open.
AvailableClients ==
    /\ breaker' = [c \in Clients |-> Observe(breaker[c], now)]
    /\ available' = {{c \in Clients : breaker'[c].state # "open"}}
    /\ UNCHANGED <<pool, position, picks, now, failedAt>>

\* A stream on c ends, well or not.
StreamFails(c) ==
    /\ breaker[c].failures < MaxFailures
    /\ breaker' = [breaker EXCEPT ![c] = RecordFailure(@, now)]
    /\ failedAt' = [failedAt EXCEPT ![c] = {now}]
    /\ available' = {}
    /\ UNCHANGED <<pool, position, picks, now>>

StreamEnds(c) ==
    /\ breaker' = [breaker EXCEPT ![c] = RecordSuccess(@)]
    /\ available' = {}
    /\ UNCHANGED <<pool, position, picks, now, failedAt>>

Tick ==
    /\ now < MaxTime
    /\ now' = now + 1
    /\ available' = {}
    /\ UNCHANGED <<pool, position, picks, breaker, failedAt>>

BalancerNext ==
    \/ Pick \/ AvailableClients \/ Tick
    \/ \E c \in Clients : StreamFails(c) \/ StreamEnds(c)

BalancerSpec == BalancerInit /\ [][BalancerNext]_balancerVars

-----------------------------------------------------------------------------
(* Properties.                                                             *)

\* "Providers with higher weight receive proportionally more traffic": any
\* Len(pool) consecutive picks, wherever they start and across the end of a
\* round, hold every client exactly as often as its weight says for each time
\* that the route names it, and a weight of zero or below still gets one share.
ExactShares ==
    \A i \in 1 .. Len(picks) - Len(pool) + 1 : \A c \in Clients :
        Occurrences(SubSeq(picks, i, i + Len(pool) - 1), c) =
            Occurrences(ClientList, c) * (IF Weight[c] < 1 THEN 1 ELSE Weight[c])

\* A client is filtered out only for RecoveryTimeout after its last failure:
\* an open circuit that nobody has looked at since does not keep it out.
FilteredForCause ==
    \A result \in available : \A c \in Clients \ result :
        \E t \in failedAt[c] : now - t < RecoveryTimeout

=============================================================================
