---------------------------- MODULE ProviderHealth ----------------------------
(***************************************************************************)
(* The circuit breaker (smart_router/provider_health.py): one row per      *)
(* model in the control database, which every replica of the router reads  *)
(* and writes.  A transaction reads the row, computes the new one and      *)
(* writes back the columns it changed, so two replicas can overwrite each  *)
(* other; the module that calls these operators says which steps are one   *)
(* transaction.                                                            *)
(*                                                                         *)
(* The latency average and the counters of requests are left out: they     *)
(* decide only whether a failing model is called DEGRADED, which routes    *)
(* like HEALTHY.  "CLOSED" stands for HEALTHY, UNHEALTHY and DEGRADED.     *)
(***************************************************************************)
EXTENDS Integers, Functions

CONSTANTS
    Model,      \* the upstream's models
    Threshold,  \* SMART_ROUTER_CIRCUIT_FAILURE_THRESHOLD
    Cooldown    \* SMART_ROUTER_CIRCUIT_COOLDOWN_SECONDS, in ticks

ASSUME BreakerAssumption == Threshold \in Nat \ {0} /\ Cooldown \in Nat \ {0}

VARIABLE health  \* model -> row; `cooling' is what is left of circuit_open_until

\* `failures' is consecutive_failures, counted no further than the threshold: the
\* code only asks whether it has been reached.
HealthRow == [state : {"CLOSED", "HALF_OPEN", "CIRCUIT_OPEN"},
              failures : 0 .. Threshold, cooling : 0 .. Cooldown]

Column == {"state", "failures", "cooling"}

NewRow == [state |-> "CLOSED", failures |-> 0, cooling |-> 0]

HealthTypeOK == health \in [Model -> HealthRow]

HealthInit == health = [m \in Model |-> NewRow]

\* Time passes: an open circuit comes closer to its end.
HealthTick ==
    health' = [m \in Model |->
                  [health[m] EXCEPT !.cooling = IF @ = 0 THEN 0 ELSE @ - 1]]

-----------------------------------------------------------------------------

\* available() answers FALSE only while an open circuit cools down ...
Refuses(row) == row.state = "CIRCUIT_OPEN" /\ row.cooling > 0

\* ... and, asked after that, lets requests through until one is recorded.
Probed(row) ==
    IF row.state = "CIRCUIT_OPEN" /\ row.cooling = 0
    THEN [row EXCEPT !.state = "HALF_OPEN"]
    ELSE row

\* The statuses an upstream answers with, by what the router makes of them: the
\* client's own mistakes do not count against the provider.
Success == {"ok"}
Qualifying == {"overloaded", "unreachable"}

\* What record() may write: some columns of a row.
Update == {Restrict(row, columns) : row \in HealthRow, columns \in SUBSET Column}

\* A success counts the failures from 0 again and recovers a row that is not HEALTHY.
Recovered(row) ==
    LET counted == IF row.failures = 0 THEN {} ELSE {"failures"}
    IN  {Restrict(NewRow, counted \cup {"state", "cooling"})}
        \cup (IF row.state = "CLOSED" THEN {Restrict(NewRow, counted)} ELSE {})

\* record() if an overloaded provider did not count as failing.
RecordedUnlessOverloaded(row, status) ==
    IF status \in Success THEN Recovered(row)
    ELSE IF status = "unreachable" /\ row.failures + 1 >= Threshold
         THEN {[state |-> "CIRCUIT_OPEN", failures |-> Threshold, cooling |-> Cooldown]}
         ELSE {Restrict(row, {})}

\* record().  Below the threshold a failure may leave the row DEGRADED, whatever its
\* state was; at the threshold every failure, a client's mistake too, opens the circuit
\* for another cooldown.
Recorded(row, status) ==
    LET counted == IF status \in Qualifying THEN {"failures"} ELSE {}
        failures == IF status \in Qualifying /\ row.failures < Threshold
                    THEN row.failures + 1 ELSE row.failures
        opened == IF row.state = "CIRCUIT_OPEN" THEN {} ELSE {"state"}
    IN  IF status \in Success THEN Recovered(row)
        ELSE IF failures >= Threshold
        THEN {Restrict([state |-> "CIRCUIT_OPEN", failures |-> failures, cooling |-> Cooldown],
                       counted \cup opened \cup {"cooling"})}
        ELSE {Restrict([row EXCEPT !.failures = failures, !.state = "CLOSED"], columns) :
                  columns \in {counted, counted \cup {"state"}}}

\* The commit: the columns go over whatever the row has become since it was read.
Overwritten(row, update) ==
    [state |-> IF "state" \in DOMAIN update THEN update["state"] ELSE row.state,
     failures |-> IF "failures" \in DOMAIN update THEN update["failures"] ELSE row.failures,
     cooling |-> IF "cooling" \in DOMAIN update THEN update["cooling"] ELSE row.cooling]
=============================================================================
