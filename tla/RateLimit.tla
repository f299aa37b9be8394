------------------------------ MODULE RateLimit ------------------------------
(***************************************************************************)
(* The quotas of one key (control_plane.py, _rate_limit, and               *)
(* shared_state.py, RedisCoordinator.rate_limit).  A store counts requests *)
(* and tokens by minute and requests by day.  Redis checks and updates the *)
(* three counters in one script; the control database does the same in one *)
(* turn of the only process.  A call takes the minute before it asks, and  *)
(* when Redis does not answer it either refuses the request or asks the    *)
(* database, not knowing whether the script ran.                           *)
(***************************************************************************)
EXTENDS Integers, FiniteSets, FiniteSetsExt

CONSTANTS
    Caller,      \* requests of the key that are admitted concurrently
    Rpm, Tpm,    \* the quotas by minute
    Daily,       \* the quota of requests by day
    DayMinutes,  \* minutes in a day
    LastMinute,  \* the bound on the clock
    Weight       \* estimated tokens a request can have

ASSUME QuotaAssumption ==
    /\ {Rpm, Tpm, Daily, DayMinutes} \subseteq Nat \ {0}
    /\ LastMinute \in Nat /\ Weight \subseteq Nat

Minute == 0 .. LastMinute
DayOf(m) == m \div DayMinutes
Day == {DayOf(m) : m \in Minute}
Store == {"redis", "database"}

VARIABLES
    minute,      \* the clock
    config,      \* Redis in use, and whether its failure refuses requests
    counters,    \* store -> [req, tok by minute; day by day]
    asking,      \* caller -> its request
    admitted     \* history: minute -> requests let through, as they were stamped

rateVars == <<minute, config, counters, asking, admitted>>

Quiet == [at |-> "idle"]

RateTypeOK ==
    /\ minute \in Minute
    /\ config \in [redis : BOOLEAN, failClosed : BOOLEAN]
    /\ counters \in [Store -> [req : [Minute -> Nat], tok : [Minute -> Nat],
                               day : [Day -> Nat]]]
    /\ \A c \in Caller : asking[c] = Quiet \/
          asking[c] \in [at : Store, stamp : Minute, tokens : Weight]
    /\ admitted \in [Minute -> Nat]

RateInit ==
    /\ minute = 0
    /\ config \in [redis : BOOLEAN, failClosed : BOOLEAN]
    /\ counters = [s \in Store |-> [req |-> [m \in Minute |-> 0],
                                    tok |-> [m \in Minute |-> 0],
                                    day |-> [d \in Day |-> 0]]]
    /\ asking = [c \in Caller |-> Quiet]
    /\ admitted = [m \in Minute |-> 0]

-----------------------------------------------------------------------------

\* Checks that allow one request too many.
RoomForOneMore(store, m, tokens) ==
    /\ store.req[m] <= Rpm
    /\ store.tok[m] + tokens <= Tpm
    /\ store.day[DayOf(m)] + 1 <= Daily

\* The checks, in the order both stores make them; all of them must pass.
Room(store, m, tokens) ==
    /\ store.req[m] + 1 <= Rpm
    /\ store.tok[m] + tokens <= Tpm
    /\ store.day[DayOf(m)] + 1 <= Daily

Counted(store, m, tokens) ==
    [store EXCEPT !.req[m] = @ + 1, !.tok[m] = @ + tokens, !.day[DayOf(m)] = @ + 1]

\* begin_request reaches the quota and takes the time (which the coordinator takes
\* anew, an instant later, as if it were the same minute).
TakeStamp(c) ==
    /\ asking[c] = Quiet
    /\ \E w \in Weight :
          asking' = [asking EXCEPT ![c] =
              [at |-> IF config.redis THEN "redis" ELSE "database",
               stamp |-> minute, tokens |-> w]]
    /\ UNCHANGED <<minute, config, counters, admitted>>

\* A store decides: it counts the request and lets it through, or neither.
Decide(c) ==
    LET s == asking[c].at
        m == asking[c].stamp
    IN  /\ asking[c] # Quiet
        /\ IF Room(counters[s], m, asking[c].tokens)
           THEN /\ counters' = [counters EXCEPT ![s] = Counted(@, m, asking[c].tokens)]
                /\ admitted' = [admitted EXCEPT ![m] = @ + 1]
           ELSE UNCHANGED <<counters, admitted>>
        /\ asking' = [asking EXCEPT ![c] = Quiet]
        /\ UNCHANGED <<minute, config>>

\* Redis gives no answer; the script may have run all the same.
AfterSilence == IF config.failClosed THEN "refused" ELSE "database"

RedisSilent(c) ==
    LET m == asking[c].stamp
    IN  /\ asking[c] # Quiet
        /\ asking[c].at = "redis"
        /\ \/ UNCHANGED counters
           \/ /\ Room(counters["redis"], m, asking[c].tokens)
              /\ counters' = [counters EXCEPT !["redis"] =
                                 Counted(@, m, asking[c].tokens)]
        /\ asking' = [asking EXCEPT ![c] =
              IF AfterSilence = "refused" THEN Quiet ELSE [@ EXCEPT !.at = AfterSilence]]
        /\ UNCHANGED <<minute, config, admitted>>

MinutePasses ==
    /\ minute < LastMinute
    /\ minute' = minute + 1
    /\ UNCHANGED <<config, counters, asking, admitted>>

RateNext ==
    \/ \E c \in Caller : TakeStamp(c) \/ Decide(c) \/ RedisSilent(c)
    \/ MinutePasses

RateSpec == RateInit /\ [][RateNext]_rateVars

-----------------------------------------------------------------------------

AdmittedOn(d) == MapThenSumSet(LAMBDA m : admitted[m], {m \in Minute : DayOf(m) = d})

\* How many stores may admit requests of the same minute.
Stores == IF config.redis /\ ~config.failClosed THEN 2 ELSE 1

\* The quotas hold for what is let through, whenever it is asked and however often
\* Redis is silent; a router that falls back to the database grants them twice at
\* the most.
WithinQuota ==
    /\ \A m \in Minute : admitted[m] <= Stores * Rpm
    /\ \A d \in Day : AdmittedOn(d) <= Stores * Daily

\* "Denied requests do not consume additional quota", and what is admitted consumes
\* all three: the counters of a day and of its minutes agree in every store, and no
\* request is let through that some store has not counted.
CountersAgree ==
    /\ \A s \in Store, d \in Day :
          counters[s].day[d] =
              MapThenSumSet(LAMBDA m : counters[s].req[m], {m \in Minute : DayOf(m) = d})
    /\ \A m \in Minute :
          admitted[m] <= counters["redis"].req[m] + counters["database"].req[m]

\* The quotas and the counters they are taken from.
RateInv == RateTypeOK /\ WithinQuota /\ CountersAgree
=============================================================================
