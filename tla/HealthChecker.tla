--------------------------- MODULE HealthChecker ---------------------------
(***************************************************************************)
(* The health checker (provider/health_check.py): a background loop and    *)
(* the /health endpoint (api/v1/health.py) run check_all passes over the   *)
(* same providers and publish into the same dictionary.                    *)
(*                                                                         *)
(* A pass probes the providers one after the other and awaits each probe,  *)
(* so passes interleave; it publishes all its results at once, in the step *)
(* in which its last probe returns.  A dictionary is written here as the   *)
(* sequence of its values in registry order; << >> is the empty one.       *)
(***************************************************************************)
EXTENDS Naturals, Sequences, FiniteSets

CONSTANTS
    N,          \* number of providers, in registry order 1 .. N
    Requests,   \* /health requests that clients may send
    Loop        \* the background task's passes

\* A registry without providers has nothing to check and is left out.
ASSUME HealthAssumption ==
    /\ N \in Nat \ {0}
    /\ IsFiniteSet(Requests) /\ Loop \notin Requests

Providers == 1 .. N
Passes == Requests \union {Loop}

Verdict == {"up", "down"}

VARIABLES
    upstream,   \* what a probe of each provider would find now
    statuses,   \* self._statuses
    looping,    \* self._task is not None
    pass,       \* the check_all pass of the loop and of each request
    reply,      \* what each /health request was answered; << >> before that
    earlier,    \* history: earlier[x]: the running passes that began before x did
    late,       \* history: running passes that a later-begun one has overtaken
    warmup      \* history: running passes that began before any was published

vars == <<upstream, statuses, looping, pass, reply, earlier, late, warmup>>
history == <<earlier, late, warmup>>

\* `answer` is the outcome of the current probe, once the provider has given
\* it; the pass learns of it when it resumes.
PassRecord ==
    [running : BOOLEAN, answer : Verdict \union {"waiting"}, results : Seq(Verdict)]

NoPass == [running |-> FALSE, answer |-> "waiting", results |-> << >>]
FirstProbe == [running |-> TRUE, answer |-> "waiting", results |-> << >>]

TypeOK ==
    /\ upstream \in [Providers -> Verdict]
    /\ statuses \in Seq(Verdict) /\ Len(statuses) \in {0, N}
    /\ looping \in BOOLEAN
    /\ pass \in [Passes -> PassRecord]
    /\ \A x \in Passes : Len(pass[x].results) < N
    /\ reply \in [Requests -> Seq(Verdict)]
    /\ \A c \in Requests : Len(reply[c]) \in {0, N}
    /\ earlier \in [Passes -> SUBSET Passes] /\ late \subseteq Passes /\ warmup \subseteq Passes

Init ==
    /\ upstream \in [Providers -> Verdict]
    /\ statuses = << >>
    /\ looping = FALSE
    /\ pass = [x \in Passes |-> NoPass]
    /\ reply = [c \in Requests |-> << >>]
    /\ earlier = [x \in Passes |-> {}] /\ late = {} /\ warmup = {}

-----------------------------------------------------------------------------
(* History: beginning and ending a pass.                                   *)

Begins(x) ==
    /\ pass' = [pass EXCEPT ![x] = FirstProbe]
    /\ earlier' = [earlier EXCEPT ![x] = {y \in Passes : pass[y].running}]
    /\ warmup' = IF statuses = << >> THEN warmup \union {x} ELSE warmup
    /\ UNCHANGED late

Ends(x, overtakes) ==
    /\ pass' = [pass EXCEPT ![x] = NoPass]
    /\ earlier' = [y \in Passes |-> IF y = x THEN {} ELSE earlier[y] \ {x}]
    /\ late' = (late \union overtakes) \ {x}
    /\ warmup' = warmup \ {x}

-----------------------------------------------------------------------------
(* check_all.                                                              *)

\* The provider answers one of the three GETs below 500, or errors or lets
\* five seconds pass: health() turns everything into a verdict.
ProbeAnswered(x) ==
    /\ pass[x].running /\ pass[x].answer = "waiting"
    /\ pass' = [pass EXCEPT ![x].answer = upstream[Len(pass[x].results) + 1]]
    /\ UNCHANGED <<upstream, statuses, looping, reply, history>>

\* Mutant: `results = self._statuses`, published probe by probe.
ProbeReturnsPublishing(x) ==
    /\ pass[x].running /\ pass[x].answer # "waiting"
    /\ LET results == Append(pass[x].results, pass[x].answer) IN
         IF Len(results) < N
         THEN /\ pass' = [pass EXCEPT ![x] = [running |-> TRUE, answer |-> "waiting",
                                              results |-> results]]
              /\ statuses' = results
              /\ UNCHANGED <<reply, history>>
         ELSE /\ Ends(x, earlier[x])
              /\ statuses' = results
              /\ reply' = IF x = Loop THEN reply ELSE [reply EXCEPT ![x] = results]
    /\ UNCHANGED <<upstream, looping>>

\* Mutant: results that are there already are not replaced.
ProbeReturnsOnce(x) ==
    /\ pass[x].running /\ pass[x].answer # "waiting"
    /\ LET results == Append(pass[x].results, pass[x].answer) IN
         IF Len(results) < N
         THEN /\ pass' = [pass EXCEPT ![x] = [running |-> TRUE, answer |-> "waiting",
                                              results |-> results]]
              /\ UNCHANGED <<statuses, reply, history>>
         ELSE /\ Ends(x, earlier[x])
              /\ statuses' = IF statuses = << >> THEN results ELSE statuses
              /\ reply' = IF x = Loop THEN reply ELSE [reply EXCEPT ![x] = results]
    /\ UNCHANGED <<upstream, looping>>

\* The pass resumes: it goes on to the next provider, or publishes and ends.
\* A request is answered with the results of its own pass.
ProbeReturns(x) ==
    /\ pass[x].running /\ pass[x].answer # "waiting"
    /\ LET results == Append(pass[x].results, pass[x].answer) IN
         IF Len(results) < N
         THEN /\ pass' = [pass EXCEPT ![x] = [running |-> TRUE, answer |-> "waiting",
                                              results |-> results]]
              /\ UNCHANGED <<statuses, reply, history>>
         ELSE /\ Ends(x, earlier[x])
              /\ statuses' = results
              /\ reply' = IF x = Loop THEN reply ELSE [reply EXCEPT ![x] = results]
    /\ UNCHANGED <<upstream, looping>>

-----------------------------------------------------------------------------
(* The background loop.                                                    *)

Start ==
    /\ ~ looping
    /\ looping' = TRUE
    /\ Begins(Loop)
    /\ UNCHANGED <<upstream, statuses, reply>>

\* After the interval the loop starts over.
LoopWakes ==
    /\ looping /\ ~ pass[Loop].running
    /\ Begins(Loop)
    /\ UNCHANGED <<upstream, statuses, looping, reply>>

\* The cancellation reaches the task where it waits; a pass it interrupts
\* publishes nothing.
Stop ==
    /\ looping
    /\ looping' = FALSE
    /\ Ends(Loop, {})
    /\ UNCHANGED <<upstream, statuses, reply>>

-----------------------------------------------------------------------------
(* GET /health.                                                            *)

\* Mutant: every request runs a pass of its own.
HealthAskedChecking(c) ==
    /\ reply[c] = << >> /\ ~ pass[c].running
    /\ Begins(c)
    /\ UNCHANGED <<upstream, statuses, looping, reply>>

\* `health_checker.statuses or await _check_providers()`.
HealthAsked(c) ==
    /\ reply[c] = << >> /\ ~ pass[c].running
    /\ \/ /\ statuses # << >>
          /\ reply' = [reply EXCEPT ![c] = statuses]
          /\ UNCHANGED <<pass, history>>
       \/ /\ statuses = << >>
          /\ Begins(c)
          /\ UNCHANGED reply
    /\ UNCHANGED <<upstream, statuses, looping>>

ConditionChanges(p) ==
    /\ upstream' = [upstream EXCEPT ![p] = IF @ = "up" THEN "down" ELSE "up"]
    /\ UNCHANGED <<statuses, looping, pass, reply, history>>

Next ==
    \/ \E x \in Passes : ProbeAnswered(x) \/ ProbeReturns(x)
    \/ Start \/ LoopWakes \/ Stop
    \/ \E c \in Requests : HealthAsked(c)
    \/ \E p \in Providers : ConditionChanges(p)

(***************************************************************************)
(* A probe is over after at most three timeouts of five seconds, the event *)
(* loop resumes whoever is ready, and asyncio.sleep returns.  Nothing      *)
(* obliges clients to ask, providers to change or anybody to start the     *)
(* loop.                                                                   *)
(***************************************************************************)
Fairness ==
    /\ \A x \in Passes : WF_vars(ProbeAnswered(x)) /\ WF_vars(ProbeReturns(x))
    /\ WF_vars(LoopWakes)

Spec == Init /\ [][Next]_vars

FairSpec == Spec /\ Fairness

-----------------------------------------------------------------------------
(* Properties.                                                             *)

\* What /health reports and what the loop publishes always covers every
\* provider, however passes interleave and wherever the loop is cancelled,
\* and once there is a report there always is (check_all builds its results
\* aside and assigns them at the end).
ReportsAreComplete ==
    [][/\ \A c \in Requests : reply'[c] # reply[c] => Len(reply'[c]) = N
       /\ statuses' # statuses => Len(statuses') = N]_vars

\* Published results are replaced by those of a pass that began earlier only
\* when the overwriting pass began before anything was published: /health
\* starts passes of its own only until there is something to report, and the
\* loop runs one pass at a time.  From then on the report never goes back in
\* time, across restarts of the loop too.
NoRegressionAfterWarmup ==
    [][\A x \in Passes :
         pass[x].running /\ ~ pass'[x].running /\ statuses' # statuses /\ x \in late
            => x \in warmup]_vars

\* Once a provider stays as it is and the loop keeps running, the report
\* comes to say so and keeps saying so; no slow pass that a request started
\* earlier can hold an outdated verdict in place.
Converges ==
    \A p \in Providers : \A v \in Verdict :
        <>[](upstream[p] = v /\ looping) => <>[](statuses # << >> /\ statuses[p] = v)

=============================================================================
