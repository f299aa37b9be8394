---------------------------- MODULE RouterProofs ----------------------------
(***************************************************************************)
(* What the Smart Router keeps: RateInv for any number of callers of a key *)
(* and any quotas, StickyInv and PromotionSticks for any number of calls   *)
(* of a session, RequestInv for any number of requests, any pipelines,     *)
(* policies and budget.                                                    *)
(***************************************************************************)
EXTENDS StickySession, RateLimit, RequestPath, FoldTheorems

-----------------------------------------------------------------------------
(* The quotas of a key *)

\* The minutes of a day.
OnDay(d) == {m \in Minute : DayOf(m) = d}

\* The stores that are ever asked.
InUse(s) == IF s = "redis" THEN config.redis ELSE ~(config.redis /\ config.failClosed)

\* asking is a function on the callers.
AskingKnown == asking = [c \in Caller |-> asking[c]]

\* A store counts no more than the quota, and one that is not asked counts nothing.
Bounded ==
    \A s \in Store :
        /\ \A m \in Minute : counters[s].req[m] <= IF InUse(s) THEN Rpm ELSE 0
        /\ \A d \in Day : counters[s].day[d] <= IF InUse(s) THEN Daily ELSE 0

\* A request waits for a store in use.
AsksInUse == \A c \in Caller : asking[c] # Quiet => InUse(asking[c].at)

\* The two halves of CountersAgree, over Total.
Sums == \A s \in Store, d \in Day : counters[s].day[d] = Total(counters[s].req, OnDay(d))

AdmittedCounted ==
    \A m \in Minute : admitted[m] <= counters["redis"].req[m] + counters["database"].req[m]

RateIInv == RateTypeOK /\ AskingKnown /\ Bounded /\ AsksInUse /\ Sums /\ AdmittedCounted

\* These are the halves.
LEMMA SumsAgree == CountersAgree <=> Sums /\ AdmittedCounted
BY DEF CountersAgree, Sums, AdmittedCounted, Total, OnDay

\* The requests of a day as a Total.
LEMMA SumsAdmitted == \A d : AdmittedOn(d) = Total(admitted, OnDay(d))
BY DEF AdmittedOn, Total, OnDay

\* A day has finitely many minutes.
LEMMA OnDayFinite == \A d : IsFiniteSet(OnDay(d)) /\ OnDay(d) \subseteq Minute
<1>1. IsFiniteSet(Minute)
  BY FS_Interval, QuotaAssumption DEF Minute
<1> QED BY <1>1, FS_Subset DEF OnDay

\* The quotas follow: what is let through is counted, and every store in use counts
\* within its quota, of the minute and of the day.
LEMMA RateIInvImplies == RateIInv => RateInv
<1> SUFFICES ASSUME RateIInv PROVE WithinQuota
  BY SumsAgree DEF RateIInv, RateInv
<1>1. ASSUME NEW m \in Minute PROVE admitted[m] <= Stores * Rpm
  <2> QED BY QuotaAssumption DEF RateIInv, RateTypeOK, Bounded, InUse, Stores, AdmittedCounted, Store
<1>2. ASSUME NEW d \in Day PROVE AdmittedOn(d) <= Stores * Daily
  <2> DEFINE r == counters["redis"]
             b == counters["database"]
  <2>1. \A m \in OnDay(d) : admitted[m] \in Int /\ r.req[m] \in Int /\ b.req[m] \in Int
    BY OnDayFinite DEF RateIInv, RateTypeOK, Store
  <2>2. \A m \in OnDay(d) : admitted[m] <= r.req[m] + b.req[m]
    BY OnDayFinite DEF RateIInv, AdmittedCounted
  <2>3. Total(admitted, OnDay(d)) <= Total(r.req, OnDay(d)) + Total(b.req, OnDay(d))
    BY <2>1, <2>2, OnDayFinite, TotalBounded
  <2>4. AdmittedOn(d) <= r.day[d] + b.day[d]
    BY <2>3, SumsAdmitted DEF RateIInv, Sums, Store
  <2>5. r.day[d] \in Nat /\ b.day[d] \in Nat /\ AdmittedOn(d) \in Int
    BY <2>1, OnDayFinite, TotalType, SumsAdmitted DEF RateIInv, RateTypeOK, Store
  <2> HIDE DEF r, b
  <2>6. /\ r.day[d] <= IF config.redis THEN Daily ELSE 0
        /\ b.day[d] <= IF config.redis /\ config.failClosed THEN 0 ELSE Daily
    BY DEF RateIInv, Bounded, InUse, Store, r, b
  <2> QED BY <2>4, <2>5, <2>6, QuotaAssumption DEF Stores
<1> QED BY <1>1, <1>2 DEF WithinQuota

\* The counters after one request more.
LEMMA CountedIs ==
    ASSUME NEW m \in Minute, DayOf(m) \in Day, NEW w \in Nat,
           NEW old \in [req : [Minute -> Nat], tok : [Minute -> Nat], day : [Day -> Nat]]
    PROVE  LET new == Counted(old, m, w)
           IN  /\ new.req = [old.req EXCEPT ![m] = @ + 1]
               /\ new.day = [old.day EXCEPT ![DayOf(m)] = @ + 1]
               /\ new \in [req : [Minute -> Nat], tok : [Minute -> Nat], day : [Day -> Nat]]
<1> DEFINE new == Counted(old, m, w)
<1>1. new = [old EXCEPT !.req = [old.req EXCEPT ![m] = old.req[m] + 1],
                        !.tok = [old.tok EXCEPT ![m] = old.tok[m] + w],
                        !.day = [old.day EXCEPT ![DayOf(m)] = old.day[DayOf(m)] + 1]]
  BY DEF Counted
<1>2. old.req[m] + 1 \in Nat /\ old.tok[m] + w \in Nat /\ old.day[DayOf(m)] + 1 \in Nat
  OBVIOUS
<1>3. new \in [req : [Minute -> Nat], tok : [Minute -> Nat], day : [Day -> Nat]]
  <2> HIDE DEF new
  <2> QED BY <1>1, <1>2
<1> QED BY <1>3 DEF Counted

\* A store in use that counts a request it has room for stays within its quotas and
\* consistent; the two stores together count one more in that minute.
LEMMA CountingKeeps ==
    ASSUME RateIInv, NEW s \in Store, NEW m \in Minute, NEW w \in Weight,
           InUse(s), Room(counters[s], m, w), UNCHANGED config,
           counters' = [counters EXCEPT ![s] = Counted(@, m, w)]
    PROVE  /\ counters' \in [Store -> [req : [Minute -> Nat], tok : [Minute -> Nat],
                                       day : [Day -> Nat]]]
           /\ Bounded'
           /\ Sums'
           /\ \A n \in Minute :
                 counters'["redis"].req[n] + counters'["database"].req[n] =
                    counters["redis"].req[n] + counters["database"].req[n]
                       + (IF n = m THEN 1 ELSE 0)
<1> DEFINE old == counters[s]
           new == Counted(old, m, w)
<1>1. old \in [req : [Minute -> Nat], tok : [Minute -> Nat], day : [Day -> Nat]]
  BY DEF RateIInv, RateTypeOK
<1>2. DayOf(m) \in Day /\ w \in Nat
  BY QuotaAssumption DEF Day
<1>3. /\ new.req = [old.req EXCEPT ![m] = @ + 1]
      /\ new.day = [old.day EXCEPT ![DayOf(m)] = @ + 1]
      /\ new \in [req : [Minute -> Nat], tok : [Minute -> Nat], day : [Day -> Nat]]
  <2> HIDE DEF old
  <2> QED BY <1>1, <1>2, CountedIs
<1>4. counters'[s] = new /\ \A t \in Store \ {s} : counters'[t] = counters[t]
  BY DEF RateIInv, RateTypeOK
<1> HIDE DEF new
<1>5. counters' \in [Store -> [req : [Minute -> Nat], tok : [Minute -> Nat], day : [Day -> Nat]]]
  BY <1>3 DEF RateIInv, RateTypeOK, new
<1>6. Bounded'
  BY <1>1, <1>2, <1>3, <1>4 DEF Bounded, RateIInv, Room, InUse
<1>7. Sums'
  <2> SUFFICES ASSUME NEW t \in Store, NEW d \in Day
               PROVE  counters'[t].day[d] = Total(counters'[t].req, OnDay(d))
    BY DEF Sums, OnDay
  <2>1. CASE t # s
    BY <2>1, <1>4 DEF RateIInv, Sums
  <2>2. CASE t = s
    <3>1. \A n \in OnDay(d) : old.req[n] \in Int /\ new.req[n] \in Int
      BY <1>1, <1>3, OnDayFinite
    <3>2. \A n \in OnDay(d) : new.req[n] = IF n = m THEN old.req[n] + 1 ELSE old.req[n]
      BY <1>1, <1>3, OnDayFinite
    <3>3. Total(new.req, OnDay(d)) =
             IF m \in OnDay(d) THEN Total(old.req, OnDay(d)) + 1 ELSE Total(old.req, OnDay(d))
      <4> HIDE DEF old
      <4> QED BY <3>1, <3>2, OnDayFinite, TotalIncrement
    <3>4. m \in OnDay(d) <=> DayOf(m) = d
      BY DEF OnDay
    <3>5. Total(old.req, OnDay(d)) = old.day[d] /\ old.day[d] \in Nat
      BY <1>1 DEF RateIInv, Sums
    <3> QED BY <1>1, <1>2, <1>3, <1>4, <2>2, <3>3, <3>4, <3>5
  <2> QED BY <2>1, <2>2
<1>8. \A n \in Minute :
                 counters'["redis"].req[n] + counters'["database"].req[n] =
                    counters["redis"].req[n] + counters["database"].req[n]
                       + (IF n = m THEN 1 ELSE 0)
  <2>1. counters["redis"].req \in [Minute -> Nat] /\ counters["database"].req \in [Minute -> Nat]
    BY DEF RateIInv, RateTypeOK, Store
  <2> QED BY <1>3, <1>4, <2>1 DEF Store
<1> QED BY <1>5, <1>6, <1>7, <1>8

\* Nothing is counted at first.
LEMMA RateInitial == RateInit => RateIInv
<1> SUFFICES ASSUME RateInit PROVE RateIInv
  OBVIOUS
<1>1. \A m \in Minute : DayOf(m) \in Day
  BY DEF Day
<1>2. RateTypeOK
  BY QuotaAssumption DEF RateInit, RateTypeOK, Store, Minute, Day, Quiet
<1>3. Bounded
  BY QuotaAssumption DEF RateInit, Bounded, Store
<1>4. Sums
  <2> SUFFICES ASSUME NEW s \in Store, NEW d \in Day
               PROVE  counters[s].day[d] = Total(counters[s].req, OnDay(d))
    BY DEF Sums
  <2>1. counters[s].day[d] = 0 /\ \A m \in OnDay(d) : counters[s].req[m] = 0
    BY OnDayFinite DEF RateInit
  <2> QED BY <2>1, OnDayFinite, TotalZero
<1>5. AdmittedCounted
  BY DEF RateInit, AdmittedCounted, Store
<1> QED BY <1>2, <1>3, <1>4, <1>5 DEF RateInit, RateIInv, AskingKnown, AsksInUse

\* Every step keeps the invariant.
LEMMA RateStep == RateIInv /\ [RateNext]_rateVars => RateIInv'
<1> SUFFICES ASSUME RateIInv, [RateNext]_rateVars PROVE RateIInv'
  OBVIOUS
<1> USE DEF RateIInv
<1>1. ASSUME NEW c \in Caller, TakeStamp(c) PROVE RateIInv'
  <2>1. UNCHANGED <<minute, config, counters, admitted>>
    BY <1>1 DEF TakeStamp
  <2>2. Bounded' /\ Sums' /\ AdmittedCounted'
    BY <2>1 DEF Bounded, InUse, Sums, AdmittedCounted, OnDay
  <2>3. PICK w \in Weight : asking' = [asking EXCEPT ![c] =
              [at |-> IF config.redis THEN "redis" ELSE "database",
               stamp |-> minute, tokens |-> w]]
    BY <1>1 DEF TakeStamp
  <2>4. RateTypeOK'
    BY <2>1, <2>3 DEF RateTypeOK, AskingKnown, Store
  <2>5. AskingKnown' /\ AsksInUse'
    BY <2>1, <2>3 DEF AskingKnown, AsksInUse, InUse, Quiet
  <2> QED BY <2>2, <2>4, <2>5
<1>2. ASSUME NEW c \in Caller, Decide(c) PROVE RateIInv'
  <2> DEFINE s == asking[c].at
             m == asking[c].stamp
             w == asking[c].tokens
  <2>1. s \in Store /\ m \in Minute /\ w \in Weight /\ InUse(s)
    BY <1>2 DEF Decide, RateTypeOK, AsksInUse
  <2>2. asking' = [asking EXCEPT ![c] = Quiet] /\ UNCHANGED <<minute, config>>
    BY <1>2 DEF Decide
  <2>3. AskingKnown' /\ AsksInUse'
    BY <2>2 DEF AskingKnown, AsksInUse, InUse
  <2>4. CASE Room(counters[s], m, w)
    <3>1. /\ counters' = [counters EXCEPT ![s] = Counted(@, m, w)]
          /\ admitted' = [admitted EXCEPT ![m] = @ + 1]
      BY <1>2, <2>4 DEF Decide
    <3> HIDE DEF s, m, w
    <3>2. /\ counters' \in [Store -> [req : [Minute -> Nat], tok : [Minute -> Nat],
                                       day : [Day -> Nat]]]
          /\ Bounded'
          /\ Sums'
          /\ \A n \in Minute :
                 counters'["redis"].req[n] + counters'["database"].req[n] =
                    counters["redis"].req[n] + counters["database"].req[n]
                       + (IF n = m THEN 1 ELSE 0)
      BY <2>1, <2>2, <2>4, <3>1, CountingKeeps
    <3>3. RateTypeOK'
      BY <2>1, <2>2, <3>1, <3>2 DEF RateTypeOK, AskingKnown
    <3>4. AdmittedCounted'
      BY <2>1, <3>1, <3>2 DEF RateTypeOK, AdmittedCounted, Store
    <3> QED BY <2>3, <3>2, <3>3, <3>4
  <2>5. CASE ~Room(counters[s], m, w)
    <3>1. UNCHANGED <<counters, admitted>>
      BY <1>2, <2>5 DEF Decide
    <3>2. Bounded' /\ Sums' /\ AdmittedCounted'
      BY <2>2, <3>1 DEF Bounded, InUse, Sums, AdmittedCounted, OnDay
    <3>3. RateTypeOK'
      BY <2>2, <3>1 DEF RateTypeOK, AskingKnown
    <3> QED BY <2>3, <3>2, <3>3
  <2> QED BY <2>4, <2>5
<1>3. ASSUME NEW c \in Caller, RedisSilent(c) PROVE RateIInv'
  <2> DEFINE m == asking[c].stamp
             w == asking[c].tokens
  <2>1. m \in Minute /\ w \in Weight /\ InUse("redis") /\ asking[c].at = "redis" /\ asking[c] # Quiet
    BY <1>3 DEF RedisSilent, RateTypeOK, AsksInUse
  <2>2. /\ UNCHANGED <<minute, config, admitted>>
        /\ asking' = [asking EXCEPT ![c] =
              IF AfterSilence = "refused" THEN Quiet ELSE [asking[c] EXCEPT !.at = AfterSilence]]
    BY <1>3 DEF RedisSilent
  <2>3. AskingKnown' /\ AsksInUse'
    BY <2>1, <2>2 DEF AskingKnown, AsksInUse, InUse, AfterSilence, RateTypeOK
  <2>4. \A k \in Caller : asking'[k] = Quiet \/ asking'[k] \in [at : Store, stamp : Minute, tokens : Weight]
    BY <2>1, <2>2 DEF RateTypeOK, AskingKnown, AfterSilence, Store
  <2>5. CASE UNCHANGED counters
    <3>1. Bounded' /\ Sums' /\ AdmittedCounted'
      BY <2>2, <2>5 DEF Bounded, InUse, Sums, AdmittedCounted, OnDay
    <3>2. RateTypeOK'
      BY <2>2, <2>4, <2>5 DEF RateTypeOK
    <3> QED BY <2>3, <3>1, <3>2
  <2>6. CASE /\ Room(counters["redis"], m, w)
             /\ counters' = [counters EXCEPT !["redis"] = Counted(@, m, w)]
    <3> HIDE DEF m, w
    <3>0. "redis" \in Store
      BY DEF Store
    <3>2. /\ counters' \in [Store -> [req : [Minute -> Nat], tok : [Minute -> Nat],
                                       day : [Day -> Nat]]]
          /\ Bounded'
          /\ Sums'
          /\ \A n \in Minute :
                 counters'["redis"].req[n] + counters'["database"].req[n] =
                    counters["redis"].req[n] + counters["database"].req[n]
                       + (IF n = m THEN 1 ELSE 0)
      BY <3>0, <2>1, <2>2, <2>6, CountingKeeps
    <3>3. RateTypeOK'
      BY <2>2, <2>4, <3>2 DEF RateTypeOK
    <3>4. AdmittedCounted'
      BY <2>2, <3>2 DEF RateTypeOK, AdmittedCounted, Store
    <3> QED BY <2>3, <3>2, <3>3, <3>4
  <2> QED BY <1>3, <2>5, <2>6 DEF RedisSilent
<1>4. ASSUME MinutePasses PROVE RateIInv'
  <2>1. UNCHANGED <<config, counters, asking, admitted>> /\ minute' \in Minute
    BY <1>4, QuotaAssumption DEF MinutePasses, RateTypeOK, Minute
  <2>2. Bounded' /\ Sums' /\ AdmittedCounted' /\ AskingKnown' /\ AsksInUse'
    BY <2>1 DEF Bounded, InUse, Sums, AdmittedCounted, OnDay, AskingKnown, AsksInUse
  <2> QED BY <2>1, <2>2 DEF RateTypeOK
<1>5. CASE UNCHANGED rateVars
  BY <1>5 DEF rateVars, RateTypeOK, Bounded, InUse, Sums, AdmittedCounted, OnDay, AskingKnown, AsksInUse
<1> QED BY <1>1, <1>2, <1>3, <1>4, <1>5 DEF RateNext

\* A key is let through at most its quota by minute and by day, once for every store
\* that may grant it, and the counters of a day are the sums of its minutes, for any
\* number of callers, any quotas and however often Redis is silent (control_plane.py,
\* _rate_limit; shared_state.py, rate_limit).
THEOREM QuotasHold == RateSpec => []RateInv
<1> QED BY RateInitial, RateStep, RateIInvImplies, PTL DEF RateSpec

-----------------------------------------------------------------------------
(* The turns of a session *)

\* The times of the model, and what a store can hold.
Tick == 0 .. LastTick
Stored == Row \cup {NoRow}

\* calls is a function on the calls.
CallsKnown == calls = [c \in Call |-> calls[c]]

\* Every call works on a time that has been.
AskedBefore == \A c \in Call : calls[c].pc # "idle" => calls[c].at \in Tick /\ calls[c].at <= clock

\* The steps under the lock are those of the Redis store.
LockedInRedis ==
    \A c \in Call : calls[c].pc \in {"read", "written"} => backend = "redis" /\ calls[c].row \in Stored

\* A call that has read and is in time is the owner of the lock.
ReaderOwnsLock ==
    \A c \in Call : calls[c].pc = "read" =>
        /\ calls[c].until \in Nat
        /\ InTime(c) => lock.owner = c /\ lock.until = calls[c].until

\* What a call answers from is a row or none.
AnswersKnown == \A c \in Call : calls[c].pc = "done" => calls[c].base \in Stored

StickyIInv ==
    /\ StickyInv
    /\ CallsKnown /\ AskedBefore /\ LockedInRedis /\ ReaderOwnsLock /\ AnswersKnown

\* The tier of the next turn is at least the proposed one, and is below the present
\* one only when the demotion turns have been counted.
LEMMA TurnedIs ==
    ASSUME NEW tier \in Tier, NEW lower \in 0 .. DemotionTurns - 1, NEW proposed \in Tier
    PROVE  LET turn == Turned(tier, lower, proposed)
           IN  /\ turn.tier \in Tier /\ turn.lower \in 0 .. DemotionTurns - 1
               /\ Rank[turn.tier] >= Rank[proposed]
               /\ Rank[turn.tier] < Rank[tier] => lower = DemotionTurns - 1
BY DemotionAssumption DEF Turned, Tier, Rank

\* So is the tier of the row resolve writes.
LEMMA ResolvedIs ==
    ASSUME NEW stored \in Stored, NEW proposed \in Tier, NEW at \in Tick
    PROVE  LET written == Resolved(stored, proposed, at)
           IN  /\ written \in Row
               /\ Rank[written.tier] >= Rank[proposed]
               /\ Usable(stored, at) /\ Rank[written.tier] < Rank[stored.tier]
                     => stored.lower = DemotionTurns - 1
<1> DEFINE written == Resolved(stored, proposed, at)
<1>1. \A created \in Tick : Expiry(created, at) \in Nat
  BY StickyAssumption DEF Expiry, Tick, Larger, Smaller
<1>2. CASE Usable(stored, at)
  <2>1. stored \in Row
    BY <1>2 DEF Usable, Stored
  <2> DEFINE turn == Turned(stored.tier, stored.lower, proposed)
  <2>2. /\ turn.tier \in Tier /\ turn.lower \in 0 .. DemotionTurns - 1
        /\ Rank[turn.tier] >= Rank[proposed]
        /\ Rank[turn.tier] < Rank[stored.tier] => stored.lower = DemotionTurns - 1
    <3>1. stored.tier \in Tier /\ stored.lower \in 0 .. DemotionTurns - 1
      BY <2>1 DEF Row
    <3> QED BY <3>1, TurnedIs
  <2> HIDE DEF turn
  <2>3. written = [tier |-> turn.tier, lower |-> turn.lower, created_at |-> stored.created_at,
                   expires_at |-> Expiry(stored.created_at, at)]
    BY <1>2 DEF Resolved, turn
  <2> QED BY <1>1, <2>1, <2>2, <2>3 DEF Row, Tick
<1>3. CASE ~Usable(stored, at)
  <2>1. written = [tier |-> proposed, lower |-> 0, created_at |-> at, expires_at |-> Expiry(at, at)]
    BY <1>3 DEF Resolved
  <2>2. Rank[proposed] \in Int
    BY DEF Rank, Tier
  <2> QED BY <1>1, <1>3, <2>1, <2>2, DemotionAssumption DEF Row, Tick
<1> QED BY <1>2, <1>3

\* A row that has expired stays expired.
LEMMA ExpiredStays ==
    ASSUME NEW stored \in Row, NEW at \in Tick, NEW later \in Tick, at <= later, Expired(stored, at)
    PROVE  Expired(stored, later)
BY StickyAssumption DEF Expired, Row, Tick

\* What is resolved from a row and written over it lowers its tier only in turn or
\* after it expired, however long after the call took the time.
LEMMA WrittenInTurn ==
    ASSUME NEW stored \in Row, NEW proposed \in Tier, NEW at \in Tick, NEW now \in Tick, at <= now,
           Rank[Resolved(stored, proposed, at).tier] < Rank[stored.tier],
           stored # NoRow
    PROVE  stored.lower = DemotionTurns - 1 \/ Expired(stored, now)
<1>1. CASE Usable(stored, at)
  BY <1>1, ResolvedIs DEF Stored
<1>2. CASE ~Usable(stored, at)
  <2>1. Expired(stored, at)
    BY <1>2 DEF Usable
  <2> QED BY <2>1, ExpiredStays
<1> QED BY <1>1, <1>2

\* No call is under way at first.
LEMMA StickyInitial == StickyInit => StickyIInv
<1> SUFFICES ASSUME StickyInit PROVE StickyIInv
  OBVIOUS
<1>1. \A c \in Call : calls[c].pc = "idle"
  BY DEF StickyInit
<1>2. StickyTypeOK
  <2>1. row = NoRow /\ backend \in {"sqlite", "redis"} /\ overrun \in BOOLEAN
    BY DEF StickyInit
  <2>4. clock \in 0 .. LastTick
    <3>1. clock = 0 /\ LastTick \in Nat
      BY StickyAssumption DEF StickyInit
    <3> QED BY <3>1
  <2>2. lock.owner = Free /\ lock.until = 0
    BY DEF StickyInit
  <2>3. DOMAIN calls = Call
    BY DEF StickyInit
  <2> QED BY <1>1, <2>1, <2>2, <2>3, <2>4 DEF StickyTypeOK
<1>3. ReadIsCurrent /\ NeverBelowProposal /\ NoSessionTooOld
  BY <1>1 DEF ReadIsCurrent, NeverBelowProposal, NoSessionTooOld
<1>4. CallsKnown /\ AskedBefore /\ LockedInRedis /\ ReaderOwnsLock /\ AnswersKnown
  BY <1>1 DEF StickyInit, CallsKnown, AskedBefore, LockedInRedis, ReaderOwnsLock, AnswersKnown
<1> QED BY <1>2, <1>3, <1>4 DEF StickyIInv, StickyInv

\* The invariant, conjunct by conjunct.
Parts ==
    /\ StickyTypeOK /\ CallsKnown /\ AskedBefore /\ LockedInRedis /\ ReaderOwnsLock /\ AnswersKnown
    /\ ReadIsCurrent /\ NeverBelowProposal /\ NoSessionTooOld

\* Every step keeps it.  The lock decides: a call that takes it finds no other in
\* time, so nobody writes between another's read and the end of its time.
LEMMA StickyStep == StickyIInv /\ [StickyNext]_stickyVars => StickyIInv'
<1> SUFFICES ASSUME Parts, [StickyNext]_stickyVars PROVE Parts'
  BY DEF StickyIInv, StickyInv, Parts
<1> USE DEF Parts
<1>1. ASSUME NEW c \in Call, Ask(c) PROVE Parts'
  <2>1. PICK t \in Proposable : calls' = [calls EXCEPT ![c] = [pc |-> "waiting", proposed |-> t, at |-> clock]]
    BY <1>1 DEF Ask
  <2>2. UNCHANGED <<clock, backend, row, lock, overrun>>
    BY <1>1 DEF Ask
  <2>3. /\ calls'[c] = [pc |-> "waiting", proposed |-> t, at |-> clock]
        /\ \A d \in Call \ {c} : calls'[d] = calls[d]
        /\ CallsKnown' /\ DOMAIN calls' = Call
    BY <2>1 DEF CallsKnown
  <2>4. StickyTypeOK'
    BY <2>2, <2>3, StickyAssumption DEF StickyTypeOK
  <2>5. AskedBefore' /\ LockedInRedis' /\ ReaderOwnsLock' /\ AnswersKnown'
    BY <2>2, <2>3 DEF AskedBefore, LockedInRedis, ReaderOwnsLock, AnswersKnown, InTime, StickyTypeOK, Tick
  <2>6. ReadIsCurrent' /\ NeverBelowProposal' /\ NoSessionTooOld'
    BY <2>2, <2>3 DEF ReadIsCurrent, NeverBelowProposal, NoSessionTooOld, InTime
  <2> QED BY <2>3, <2>4, <2>5, <2>6
<1>2. ASSUME NEW c \in Call, ResolveInTransaction(c) PROVE Parts'
  <2> DEFINE proposed == calls[c].proposed
             at == calls[c].at
             written == Resolved(row, proposed, at)
             base == IF Usable(row, at) THEN row ELSE NoRow
  <2>1. /\ backend = "sqlite" /\ calls[c].pc = "waiting"
        /\ row' = written
        /\ calls' = [calls EXCEPT ![c] = [pc |-> "done", proposed |-> proposed, at |-> at,
                                          tier |-> written.tier, base |-> base]]
        /\ UNCHANGED <<clock, backend, lock, overrun>>
    BY <1>2 DEF ResolveInTransaction, Done
  <2>2. row \in Stored /\ proposed \in Tier /\ at \in Tick /\ at <= clock
    BY <2>1 DEF StickyTypeOK, AskedBefore, Stored
  <2> HIDE DEF proposed, at
  <2>3. /\ written \in Row
        /\ Rank[written.tier] >= Rank[proposed]
        /\ Usable(row, at) /\ Rank[written.tier] < Rank[row.tier] => row.lower = DemotionTurns - 1
    BY <2>2, ResolvedIs
  <2>4. Usable(row, at) => at < row.created_at + MaxSessionAge
    BY <2>2, StickyAssumption DEF Usable, Expired, Stored, Row, Tick
  <2>5. base \in Stored
    BY <2>2 DEF Stored
  <2> HIDE DEF written
  <2>6. /\ calls'[c] = [pc |-> "done", proposed |-> proposed, at |-> at,
                        tier |-> written.tier, base |-> base]
        /\ \A d \in Call \ {c} : calls'[d] = calls[d]
        /\ CallsKnown' /\ DOMAIN calls' = Call
    BY <2>1 DEF CallsKnown
  <2>7. \A d \in Call : calls[d].pc \notin {"read", "written"}
    BY <2>1 DEF LockedInRedis
  <2>8. written.tier \in Tier
    BY <2>3 DEF Row
  <2>9. StickyTypeOK'
    BY <2>1, <2>2, <2>3, <2>6, <2>7, <2>8 DEF StickyTypeOK, Tick
  <2>10. AskedBefore' /\ LockedInRedis' /\ ReaderOwnsLock' /\ AnswersKnown' /\ ReadIsCurrent'
    BY <2>1, <2>2, <2>5, <2>6, <2>7 DEF AskedBefore, LockedInRedis, ReaderOwnsLock, AnswersKnown, ReadIsCurrent
  <2>11. base # NoRow => base = row /\ Usable(row, at)
    OBVIOUS
  <2> HIDE DEF base
  <2>12. NeverBelowProposal' /\ NoSessionTooOld'
    BY <2>3, <2>4, <2>6, <2>11 DEF NeverBelowProposal, NoSessionTooOld
  <2> QED BY <2>6, <2>9, <2>10, <2>12
<1>3. ASSUME NEW c \in Call, LockAndGet(c) PROVE Parts'
  <2>1. /\ backend = "redis" /\ calls[c].pc = "waiting" /\ LockIsFree
        /\ lock' = [owner |-> c, until |-> clock + LockTimeout]
        /\ calls' = [calls EXCEPT ![c] = [pc |-> "read", proposed |-> calls[c].proposed, at |-> calls[c].at,
                                          row |-> row, until |-> clock + LockTimeout]]
        /\ UNCHANGED <<clock, backend, row, overrun>>
    BY <1>3 DEF LockAndGet
  <2>2. /\ calls'[c] = [pc |-> "read", proposed |-> calls[c].proposed, at |-> calls[c].at,
                                          row |-> row, until |-> clock + LockTimeout]
        /\ \A d \in Call \ {c} : calls'[d] = calls[d]
        /\ CallsKnown' /\ DOMAIN calls' = Call
    BY <2>1 DEF CallsKnown
  <2>3. clock + LockTimeout \in Nat /\ clock \in Nat
    BY StickyAssumption DEF StickyTypeOK
  <2>4. StickyTypeOK'
    BY <2>1, <2>2, <2>3 DEF StickyTypeOK
  <2>5. AskedBefore' /\ LockedInRedis' /\ AnswersKnown'
    BY <2>1, <2>2 DEF AskedBefore, LockedInRedis, AnswersKnown, StickyTypeOK, Stored
  <2>6. \A d \in Call \ {c} : calls[d].pc = "read" => ~(clock < calls[d].until)
    BY <2>1, <2>3, StickyAssumption DEF LockIsFree, ReaderOwnsLock, InTime
  <2>7. ReaderOwnsLock'
    BY <2>1, <2>2, <2>3, <2>6 DEF ReaderOwnsLock, InTime
  <2>8. ReadIsCurrent' /\ NeverBelowProposal' /\ NoSessionTooOld'
    BY <2>1, <2>2 DEF ReadIsCurrent, NeverBelowProposal, NoSessionTooOld, InTime
  <2> QED BY <2>2, <2>4, <2>5, <2>7, <2>8
<1>4. ASSUME NEW c \in Call, GiveUp(c) PROVE Parts'
  <2>1. /\ calls' = [calls EXCEPT ![c] = [pc |-> "idle"]]
        /\ UNCHANGED lock \/ (lock.owner = c /\ lock' = [owner |-> Free, until |-> 0])
        /\ UNCHANGED <<clock, backend, row, overrun>>
    BY <1>4 DEF GiveUp
  <2>2. /\ calls'[c] = [pc |-> "idle"]
        /\ \A d \in Call \ {c} : calls'[d] = calls[d]
        /\ CallsKnown' /\ DOMAIN calls' = Call
    BY <2>1 DEF CallsKnown
  <2>3. StickyTypeOK'
    BY <2>1, <2>2 DEF StickyTypeOK
  <2>4. AskedBefore' /\ LockedInRedis' /\ AnswersKnown' /\ ReaderOwnsLock'
    BY <2>1, <2>2 DEF AskedBefore, LockedInRedis, AnswersKnown, ReaderOwnsLock, InTime
  <2>5. ReadIsCurrent' /\ NeverBelowProposal' /\ NoSessionTooOld'
    BY <2>1, <2>2 DEF ReadIsCurrent, NeverBelowProposal, NoSessionTooOld, InTime
  <2> QED BY <2>2, <2>3, <2>4, <2>5
<1>5. ASSUME NEW c \in Call, Set(c) PROVE Parts'
  <2>1. /\ calls[c].pc = "read"
        /\ row' = Resolved(calls[c].row, calls[c].proposed, calls[c].at)
        /\ overrun' = (overrun \/ ~InTime(c))
        /\ calls' = [calls EXCEPT ![c] = [pc |-> "written", proposed |-> calls[c].proposed,
                                      at |-> calls[c].at, row |-> calls[c].row]]
        /\ UNCHANGED <<clock, backend, lock>>
    BY <1>5 DEF Set
  <2>2. /\ calls'[c] = [pc |-> "written", proposed |-> calls[c].proposed,
                                      at |-> calls[c].at, row |-> calls[c].row]
        /\ \A d \in Call \ {c} : calls'[d] = calls[d]
        /\ CallsKnown' /\ DOMAIN calls' = Call
    BY <2>1 DEF CallsKnown
  <2>3. /\ calls[c].row \in Stored /\ calls[c].proposed \in Tier /\ calls[c].at \in Tick
        /\ calls[c].at <= clock /\ backend = "redis"
    BY <2>1 DEF LockedInRedis, StickyTypeOK, AskedBefore
  <2>4. row' \in Row
    BY <2>1, <2>3, ResolvedIs
  <2>5. StickyTypeOK'
    BY <2>1, <2>2, <2>3, <2>4 DEF StickyTypeOK, Tick
  <2>6. AskedBefore' /\ LockedInRedis' /\ AnswersKnown' /\ ReaderOwnsLock'
    BY <2>1, <2>2, <2>3 DEF AskedBefore, LockedInRedis, AnswersKnown, ReaderOwnsLock, InTime
  <2>7. ReadIsCurrent'
    <3>1. \A d \in Call \ {c} : calls[d].pc = "read" /\ InTime(d) => ~InTime(c)
      BY <2>1 DEF ReaderOwnsLock
    <3> QED BY <2>1, <2>2, <3>1 DEF ReadIsCurrent, InTime
  <2>8. NeverBelowProposal' /\ NoSessionTooOld'
    BY <2>1, <2>2 DEF NeverBelowProposal, NoSessionTooOld
  <2> QED BY <2>2, <2>5, <2>6, <2>7, <2>8
<1>6. ASSUME NEW c \in Call, Release(c) PROVE Parts'
  <2>0. calls[c].pc = "written" /\ UNCHANGED <<clock, backend, row, overrun>>
    BY <1>6 DEF Release
  <2>1. CASE HoldsLock(c)
    <3> DEFINE proposed == calls[c].proposed
               at == calls[c].at
               stored == calls[c].row
               written == Resolved(stored, proposed, at)
               base == IF Usable(stored, at) THEN stored ELSE NoRow
    <3>1. /\ lock' = [owner |-> Free, until |-> 0]
          /\ calls' = [calls EXCEPT ![c] = [pc |-> "done", proposed |-> proposed, at |-> at,
                                          tier |-> written.tier, base |-> base]]
      BY <1>6, <2>1 DEF Release, Done
    <3>2. stored \in Stored /\ proposed \in Tier /\ at \in Tick /\ at <= clock
      BY <2>0 DEF StickyTypeOK, AskedBefore, LockedInRedis
    <3> HIDE DEF proposed, at, stored
    <3>3. /\ written \in Row
          /\ Rank[written.tier] >= Rank[proposed]
          /\ Usable(stored, at) /\ Rank[written.tier] < Rank[stored.tier] => stored.lower = DemotionTurns - 1
      BY <3>2, ResolvedIs
    <3>4. Usable(stored, at) => at < stored.created_at + MaxSessionAge
      BY <3>2, StickyAssumption DEF Usable, Expired, Stored, Row, Tick
    <3>5. base \in Stored
      BY <3>2 DEF Stored
    <3> HIDE DEF written
    <3>6. /\ calls'[c] = [pc |-> "done", proposed |-> proposed, at |-> at,
                          tier |-> written.tier, base |-> base]
          /\ \A d \in Call \ {c} : calls'[d] = calls[d]
          /\ CallsKnown' /\ DOMAIN calls' = Call
      BY <3>1 DEF CallsKnown
    <3>7. \A d \in Call \ {c} : calls[d].pc = "read" => ~InTime(d)
      BY <2>1 DEF HoldsLock, ReaderOwnsLock
    <3>8. written.tier \in Tier
      BY <3>3 DEF Row
    <3>9. StickyTypeOK'
      BY <2>0, <3>1, <3>2, <3>6, <3>8 DEF StickyTypeOK, Tick
    <3>10. AskedBefore' /\ LockedInRedis' /\ ReaderOwnsLock' /\ AnswersKnown' /\ ReadIsCurrent'
      BY <2>0, <3>1, <3>2, <3>5, <3>6, <3>7 DEF AskedBefore, LockedInRedis, ReaderOwnsLock, AnswersKnown,
           ReadIsCurrent, InTime
    <3>11. base # NoRow => base = stored /\ Usable(stored, at)
      OBVIOUS
    <3> HIDE DEF base
    <3>12. NeverBelowProposal' /\ NoSessionTooOld'
      BY <3>3, <3>4, <3>6, <3>11 DEF NeverBelowProposal, NoSessionTooOld
    <3> QED BY <3>6, <3>9, <3>10, <3>12
  <2>2. CASE ~HoldsLock(c)
    <3>1. calls' = [calls EXCEPT ![c] = [pc |-> "idle"]] /\ UNCHANGED lock
      BY <1>6, <2>2 DEF Release
    <3>2. /\ calls'[c] = [pc |-> "idle"]
          /\ \A d \in Call \ {c} : calls'[d] = calls[d]
          /\ CallsKnown' /\ DOMAIN calls' = Call
      BY <3>1 DEF CallsKnown
    <3>3. StickyTypeOK'
      BY <2>0, <3>1, <3>2 DEF StickyTypeOK
    <3>4. AskedBefore' /\ LockedInRedis' /\ AnswersKnown' /\ ReaderOwnsLock'
      BY <2>0, <3>1, <3>2 DEF AskedBefore, LockedInRedis, AnswersKnown, ReaderOwnsLock, InTime
    <3>5. ReadIsCurrent' /\ NeverBelowProposal' /\ NoSessionTooOld'
      BY <2>0, <3>1, <3>2 DEF ReadIsCurrent, NeverBelowProposal, NoSessionTooOld, InTime
    <3> QED BY <3>2, <3>3, <3>4, <3>5
  <2> QED BY <2>1, <2>2
<1>7. ASSUME NEW c \in Call, Use(c) PROVE Parts'
  <2>1. /\ calls' = [calls EXCEPT ![c] = [pc |-> "idle"]]
        /\ UNCHANGED <<clock, backend, row, lock, overrun>>
    BY <1>7 DEF Use
  <2>2. /\ calls'[c] = [pc |-> "idle"]
        /\ \A d \in Call \ {c} : calls'[d] = calls[d]
        /\ CallsKnown' /\ DOMAIN calls' = Call
    BY <2>1 DEF CallsKnown
  <2>3. StickyTypeOK'
    BY <2>1, <2>2 DEF StickyTypeOK
  <2>4. AskedBefore' /\ LockedInRedis' /\ AnswersKnown' /\ ReaderOwnsLock'
    BY <2>1, <2>2 DEF AskedBefore, LockedInRedis, AnswersKnown, ReaderOwnsLock, InTime
  <2>5. ReadIsCurrent' /\ NeverBelowProposal' /\ NoSessionTooOld'
    BY <2>1, <2>2 DEF ReadIsCurrent, NeverBelowProposal, NoSessionTooOld, InTime
  <2> QED BY <2>2, <2>3, <2>4, <2>5
<1>8. ASSUME Reset \/ Purge PROVE Parts'
  <2>1. row' = NoRow /\ UNCHANGED <<clock, backend, lock, calls, overrun>>
    BY <1>8 DEF Reset, Purge
  <2>2. StickyTypeOK'
    BY <2>1 DEF StickyTypeOK
  <2>3. ReadIsCurrent' /\ NeverBelowProposal' /\ NoSessionTooOld'
    BY <2>1 DEF ReadIsCurrent, NeverBelowProposal, NoSessionTooOld, InTime
  <2>4. CallsKnown' /\ AskedBefore' /\ LockedInRedis' /\ AnswersKnown' /\ ReaderOwnsLock'
    BY <2>1 DEF CallsKnown, AskedBefore, LockedInRedis, AnswersKnown, ReaderOwnsLock, InTime
  <2> QED BY <2>2, <2>3, <2>4
<1>9. ASSUME StickyTick PROVE Parts'
  <2>1. clock' = clock + 1 /\ clock' \in Tick /\ clock \in Tick /\ UNCHANGED <<backend, row, lock, calls, overrun>>
    BY <1>9, StickyAssumption DEF StickyTick, StickyTypeOK, Tick
  <2>2. StickyTypeOK'
    BY <2>1 DEF StickyTypeOK, Tick
  <2>3. \A c \in Call : calls[c].pc = "read" => (InTime(c)' => InTime(c))
    BY <2>1, StickyAssumption DEF InTime, ReaderOwnsLock, Tick
  <2>4. ReadIsCurrent' /\ NeverBelowProposal' /\ NoSessionTooOld'
    BY <2>1, <2>3 DEF ReadIsCurrent, NeverBelowProposal, NoSessionTooOld
  <2>5. CallsKnown' /\ AskedBefore' /\ LockedInRedis' /\ AnswersKnown' /\ ReaderOwnsLock'
    BY <2>1, <2>3, StickyAssumption DEF CallsKnown, AskedBefore, LockedInRedis, AnswersKnown, ReaderOwnsLock, Tick
  <2> QED BY <2>2, <2>4, <2>5
<1>10. CASE UNCHANGED stickyVars
  BY <1>10 DEF stickyVars, StickyTypeOK, ReadIsCurrent, NeverBelowProposal, NoSessionTooOld, InTime,
       CallsKnown, AskedBefore, LockedInRedis, AnswersKnown, ReaderOwnsLock
<1> QED BY <1>1, <1>2, <1>3, <1>4, <1>5, <1>6, <1>7, <1>8, <1>9, <1>10 DEF StickyNext

\* Whatever the number of router threads, what a call in time has read is what the
\* store holds, no answer is below the proposed tier or demotes out of turn, and none
\* comes from a session past its greatest age (sessions.py and shared_state.py,
\* resolve).
THEOREM SessionsHold == StickySpec => []StickyInv
<1>1. StickyIInv => StickyInv
  BY DEF StickyIInv
<1> QED BY <1>1, StickyInitial, StickyStep, PTL DEF StickySpec

\* The action of PromotionSticks.
Sticks ==
    row # NoRow /\ row' # NoRow /\ Rank[row'.tier] < Rank[row.tier]
          => \/ row.lower = DemotionTurns - 1
             \/ Expired(row, clock)
             \/ overrun'

\* Only the two writes of a row can lower its tier.
LEMMA StickyStepSticks == StickyIInv /\ [StickyNext]_stickyVars => [Sticks]_stickyVars
<1> SUFFICES ASSUME Parts, StickyNext, row # NoRow, row' # NoRow, Rank[row'.tier] < Rank[row.tier], ~overrun'
             PROVE  row.lower = DemotionTurns - 1 \/ Expired(row, clock)
  BY DEF StickyIInv, StickyInv, Parts, Sticks
<1> USE DEF Parts
<1>1. row \in Row /\ clock \in Tick
  BY DEF StickyTypeOK, Tick
<1>2. row' # row
  BY <1>1 DEF Row, Rank, Tier
<1>3. ASSUME NEW c \in Call, ResolveInTransaction(c)
      PROVE  row.lower = DemotionTurns - 1 \/ Expired(row, clock)
  <2>1. row' = Resolved(row, calls[c].proposed, calls[c].at) /\ calls[c].pc = "waiting"
    BY <1>3 DEF ResolveInTransaction
  <2>2. calls[c].proposed \in Tier /\ calls[c].at \in Tick /\ calls[c].at <= clock
    BY <2>1 DEF StickyTypeOK, AskedBefore
  <2> QED BY <1>1, <2>1, <2>2, WrittenInTurn
<1>4. ASSUME NEW c \in Call, Set(c)
      PROVE  row.lower = DemotionTurns - 1 \/ Expired(row, clock)
  <2>1. row' = Resolved(calls[c].row, calls[c].proposed, calls[c].at) /\ calls[c].pc = "read"
          /\ InTime(c) /\ ~overrun
    BY <1>4 DEF Set
  <2>2. calls[c].row = row
    BY <2>1 DEF ReadIsCurrent
  <2>3. calls[c].proposed \in Tier /\ calls[c].at \in Tick /\ calls[c].at <= clock
    BY <2>1 DEF StickyTypeOK, AskedBefore
  <2> QED BY <1>1, <2>1, <2>2, <2>3, WrittenInTurn
<1> QED BY <1>2, <1>3, <1>4 DEF StickyNext, Ask, LockAndGet, GiveUp, Release, Use, Reset, Purge, StickyTick

\* A session's tier is lowered only by a counted demotion, after it expired, or by a
\* write that came after its lock had expired.
THEOREM PromotionsStick == StickySpec => PromotionSticks
<1>1. StickySpec => [][Sticks]_stickyVars
  BY StickyInitial, StickyStep, StickyStepSticks, PTL DEF StickySpec
<1> QED BY <1>1 DEF PromotionSticks, Sticks

-----------------------------------------------------------------------------
(* What the stages of a pipeline leave *)

\* What a pipeline's stages work on.
Work == [profile : Profile, model : Model, retries : 0 .. MaxRetries,
         fallbacks : Seq(Model), health : [Model -> HealthRow]]

\* Asking whether a circuit lets requests through leaves a table of rows.
LEMMA AskedIs ==
    ASSUME NEW table \in [Model -> HealthRow], NEW models
    PROVE  Asked(table, models) \in [Model -> HealthRow]
<1>1. \A entry \in HealthRow : Probed(entry) \in HealthRow
  BY DEF Probed, HealthRow
<1> QED BY <1>1 DEF Asked

\* The fastest of some models is one of them.
LEMMA BestIs ==
    ASSUME NEW candidates, candidates \subseteq Model, candidates # {}, NEW table, NEW latency \in Latency
    PROVE  Best(table, candidates, latency) \in candidates
<1> DEFINE healthy == {m \in candidates : ~Refuses(table[m])}
           pool == IF healthy = {} THEN candidates ELSE healthy
           T == {latency[m] : m \in pool}
<1>0. pool # {} /\ pool \subseteq candidates
  OBVIOUS
<1> HIDE DEF pool
<1>1. \A m \in Model : latency[m] \in Nat
  <2>1. latency \in [Model -> 1 .. Cardinality(Model)]
    BY DEF Latency
  <2>2. Cardinality(Model) \in Nat
    BY FS_CardinalityType, PipelineAssumption
  <2> TAKE m \in Model
  <2>3. latency[m] \in 1 .. Cardinality(Model)
    BY <2>1
  <2> QED BY <2>2, <2>3
<1>2. T \subseteq Nat /\ T # {}
  BY <1>0, <1>1
<1>3. PICK l \in T : \A k \in T : l <= k
  <2> HIDE DEF T
  <2> QED BY <1>2, SmallestNumber
<1>4. \E m \in pool : \A n \in pool : latency[m] <= latency[n]
  BY <1>3
<1>5. (CHOOSE m \in pool : \A n \in pool : latency[m] <= latency[n]) \in pool
  BY <1>4
<1> QED BY <1>0, <1>5 DEF Best, pool

\* Sending a request to the best of some models leaves something to work on.
LEMMA AmongIs ==
    ASSUME NEW w \in Work, NEW candidates, candidates \subseteq Model, NEW latency \in Latency
    PROVE  Among(w, candidates, latency) \in Work
<1>1. CASE candidates = {}
  BY <1>1 DEF Among
<1>2. CASE candidates # {}
  <2>1. Best(w.health, candidates, latency) \in Model
    BY <1>2, BestIs
  <2>2. Asked(w.health, candidates) \in [Model -> HealthRow]
    BY AskedIs DEF Work
  <2> QED BY <1>2, <2>1, <2>2 DEF Among, Work
<1> QED BY <1>1, <1>2

\* So does giving it another profile,
LEMMA ToProfileIs ==
    ASSUME NEW w \in Work, NEW profile
    PROVE  ToProfile(w, profile) \in Work
BY PipelineAssumption DEF ToProfile, Work

\* and so does adding a fallback, by profile or by name.
LEMMA WithFallbackIs ==
    ASSUME NEW w \in Work, NEW name \in Profile \cup Model
    PROVE  WithFallback(w, name) \in Work
<1> DEFINE mapped == IF name \in Profile THEN ProfileModel[name] ELSE name
<1>1. mapped \in Model \cup {NoModel}
  BY PipelineAssumption
<1> HIDE DEF mapped
<1>2. ASSUME mapped # NoModel PROVE Append(w.fallbacks, mapped) \in Seq(Model)
  BY <1>1, <1>2 DEF Work
<1> QED BY <1>2 DEF WithFallback, Work, mapped

\* So is what a list of fallbacks leaves: by recursion along the list.
LEMMA FallbacksIs ==
    ASSUME NEW w \in Work, NEW names \in Seq(Profile \cup Model)
    PROVE  FoldLeft(WithFallback, w, names) \in Work
<1> DEFINE S == DOMAIN names
           Table(e) == e = [s \in SUBSET S |->
                               IF s = {} THEN w ELSE WithFallback(e[s \ {Max(s)}], names[Max(s)])]
           c == [s \in SUBSET S |-> Max(s)]
           G == [s \in SUBSET S |-> [v \in Work |-> IF s = {} THEN w ELSE WithFallback(v, names[Max(s)])]]
<1>1. IsFiniteSet(S) /\ S = 1 .. Len(names) /\ Len(names) \in Nat
  BY FS_Interval
<1>2. \A s \in SUBSET S : s # {} => Max(s) \in s
  BY <1>1, GreatestIndex
<1>3. \A s \in SUBSET S : s # {} => names[Max(s)] \in Profile \cup Model
  BY <1>1, <1>2
<1>4. G \in [SUBSET S -> [Work -> Work]]
  BY <1>3, WithFallbackIs
<1>5. PICK g \in [SUBSET S -> Work] : Recursive(g, S, w, G, c)
  <2>1. Steps(S, Work, w, G, c)
    BY <1>1, <1>2, <1>4 DEF Steps
  <2> HIDE DEF S, G, c
  <2> QED BY <2>1, Recursion
<1>6. Table(g)
  <2>1. \A s \in SUBSET S : g[s] = IF s = {} THEN w ELSE WithFallback(g[s \ {Max(s)}], names[Max(s)])
    BY <1>5 DEF Recursive
  <2> QED BY <2>1
<1>7. PICK h : h = (CHOOSE e : Table(e)) /\ Table(h)
  BY <1>6
<1>8. FoldLeft(WithFallback, w, names) = h[S]
  BY <1>7 DEF FoldLeft, MapThenFoldSet
<1>9. h[S] \in Work
  <2>1. h[{}] \in Work
    BY <1>7
  <2>2. ASSUME NEW s \in SUBSET S, s # {} PROVE \E x \in s : h[s \ {x}] \in Work => h[s] \in Work
    <3>1. h[s] = WithFallback(h[s \ {Max(s)}], names[Max(s)])
      BY <1>7, <2>2
    <3>2. h[s \ {Max(s)}] \in Work => h[s] \in Work
      BY <3>1, <2>2, <1>3, WithFallbackIs
    <3> QED BY <3>2, <2>2, <1>2
  <2> HIDE DEF S, Table
  <2> QED BY <1>1, <2>1, <2>2, StaysIn
<1> QED BY <1>8, <1>9

\* Every stage keeps what it works on well-typed.
LEMMA AfterStageIs ==
    ASSUME NEW w \in Work, NEW stage, StageOK(stage), NEW latency \in Latency
    PROVE  AfterStage(w, stage, latency) \in Work
<1>1. CASE stage.type = "route"
  <2>1. AfterStage(w, stage, latency) = Among(ToProfile(w, stage.profile), stage.candidates, latency)
    BY <1>1 DEF AfterStage
  <2>2. ToProfile(w, stage.profile) \in Work /\ stage.candidates \subseteq Model
    BY <1>1, ToProfileIs DEF StageOK
  <2> QED BY <2>1, <2>2, AmongIs
<1>2. CASE stage.type = "load_balance"
  <2>1. AfterStage(w, stage, latency) = Among(w, stage.candidates, latency)
    BY <1>2 DEF AfterStage
  <2> QED BY <2>1, <1>2, AmongIs DEF StageOK
<1>3. CASE stage.type = "health_filter"
  <2>1. AfterStage(w, stage, latency) = [w EXCEPT !.health = Asked(w.health, {w.model})]
    BY <1>3 DEF AfterStage
  <2>2. Asked(w.health, {w.model}) \in [Model -> HealthRow]
    BY AskedIs DEF Work
  <2> QED BY <2>1, <2>2 DEF Work
<1>4. CASE stage.type = "retry"
  <2>1. AfterStage(w, stage, latency)
            = [w EXCEPT !.retries = Larger(w.retries, Smaller(stage.retries, MaxRetries))]
    BY <1>4 DEF AfterStage
  <2>2. stage.retries \in Nat /\ w.retries \in 0 .. MaxRetries
    BY <1>4 DEF StageOK, Work
  <2>3. Larger(w.retries, Smaller(stage.retries, MaxRetries)) \in 0 .. MaxRetries
    BY <2>2 DEF Larger, Smaller, MaxRetries
  <2> QED BY <2>1, <2>3 DEF Work
<1>5. CASE stage.type = "fallback"
  <2>1. AfterStage(w, stage, latency) = FoldLeft(WithFallback, w, stage.fallback)
    BY <1>5 DEF AfterStage
  <2> QED BY <2>1, <1>5, FallbacksIs DEF StageOK
<1>6. CASE stage.type \notin {"route", "load_balance", "health_filter", "retry", "fallback"}
  BY <1>6 DEF AfterStage
<1> QED BY <1>1, <1>2, <1>3, <1>4, <1>5, <1>6

\* So does a walk from stage to stage ...
LEMMA WalkedIs ==
    ASSUME NEW w \in Work, NEW pipeline \in ToSet(Pipelines), NEW facts, NEW tier, NEW latency \in Latency
    PROVE  Walked(w, pipeline, facts, tier, latency) \in Work
<1> DEFINE ids == StageIds(pipeline)
           step(at) ==
             LET stage == StageOf(pipeline, at.id)
             IN  [w |-> AfterStage(at.w, stage, latency),
                  id |-> Following(pipeline, at.id, Port(at.w, stage, facts, tier)),
                  visited |-> at.visited \cup {at.id}]
           Next(at) == IF at.id \in ids \ at.visited THEN step(at) ELSE at
           start == [w |-> w, id |-> pipeline.entry, visited |-> {}]
           N == Len(pipeline.stages)
           Walk(e) == e = [n \in 0 .. N |-> IF n = 0 THEN start ELSE Next(e[n - 1])]
           Reached == {pipeline.entry} \cup
                      {Following(pipeline, x[1], Port(x[2], StageOf(pipeline, x[1]), facts, tier)) : x \in ids \X Work}
           At == [w : Work, id : Reached, visited : SUBSET ids]
           G == [at \in At |-> Next(at)]
<1>1. N \in Nat
  BY PipelineAssumption
<1>2. ASSUME NEW at \in At PROVE Next(at) \in At
  <2>1. CASE at.id \in ids \ at.visited
    <3> DEFINE stage == StageOf(pipeline, at.id)
    <3>1. stage \in ToSet(pipeline.stages)
      <4>1. \E s \in ToSet(pipeline.stages) : s.id = at.id
        BY <2>1 DEF StageIds
      <4> QED BY <4>1 DEF StageOf
    <3>2. StageOK(stage)
      BY <3>1, PipelineAssumption
    <3>3. AfterStage(at.w, stage, latency) \in Work
      <4> HIDE DEF stage
      <4> QED BY <3>2, AfterStageIs
    <3>4. Following(pipeline, at.id, Port(at.w, stage, facts, tier)) \in Reached
      <4>1. <<at.id, at.w>> \in ids \X Work
        BY <2>1
      <4> QED BY <4>1
    <3>5. at.visited \cup {at.id} \in SUBSET ids
      BY <2>1
    <3>6. Next(at) = [w |-> AfterStage(at.w, stage, latency),
                      id |-> Following(pipeline, at.id, Port(at.w, stage, facts, tier)),
                      visited |-> at.visited \cup {at.id}]
      BY <2>1
    <3> HIDE DEF stage, ids, Reached, Next
    <3> QED BY <3>3, <3>4, <3>5, <3>6
  <2>2. CASE ~(at.id \in ids \ at.visited)
    BY <2>2
  <2> QED BY <2>1, <2>2
<1>3. start \in At /\ G \in [At -> At]
  <2> HIDE DEF Next, ids
  <2> QED BY <1>2
<1>4. PICK g \in [0 .. N -> At] : Iterates(g, N, start, G)
  <2> HIDE DEF N, At, G, start
  <2> QED BY <1>1, <1>3, Iteration
<1>5. Walk(g)
  <2>1. ASSUME NEW n \in 0 .. N PROVE g[n] = IF n = 0 THEN start ELSE Next(g[n - 1])
    <3>1. g[n] = IF n = 0 THEN start ELSE G[g[n - 1]]
      BY <1>4 DEF Iterates
    <3>2. ASSUME n # 0 PROVE g[n - 1] \in At
      <4>1. n - 1 \in 0 .. N
        BY <3>2, <1>1
      <4> HIDE DEF At
      <4> QED BY <4>1
    <3> HIDE DEF Next, At, start
    <3> QED BY <3>1, <3>2
  <2> HIDE DEF Next, At, start
  <2> QED BY <2>1
<1>6. PICK h : h = (CHOOSE e : Walk(e)) /\ Walk(h)
  <2> HIDE DEF Walk
  <2> QED BY <1>5
<1>7. Walked(w, pipeline, facts, tier, latency) = h[N].w
  BY <1>6 DEF Walked
<1>8. \A n \in 0 .. N : h[n] \in At
  <2>1. h[0] = start
    <3>1. 0 \in 0 .. N
      BY <1>1
    <3> HIDE DEF start, Next
    <3> QED BY <1>6, <3>1
  <2>2. ASSUME NEW n \in 1 .. N, h[n - 1] \in At PROVE h[n] \in At
    <3>1. n \in 0 .. N /\ n # 0
      BY <1>1
    <3>2. h[n] = Next(h[n - 1])
      <4> HIDE DEF Next, start
      <4> QED BY <1>6, <3>1
    <3> HIDE DEF Next, At
    <3> QED BY <3>2, <2>2, <1>2
  <2> HIDE DEF Walk, At, start, N
  <2> QED BY <1>1, <1>3, <2>1, <2>2, StaysAlong
<1>9. h[N] \in At
  <2> HIDE DEF At
  <2> QED BY <1>8, <1>1
<1> QED BY <1>7, <1>9

\* ... stages in order ...
LEMMA InOrderIs ==
    ASSUME NEW w \in Work, NEW pipeline \in ToSet(Pipelines), NEW facts, NEW tier, NEW latency \in Latency
    PROVE  InOrder(w, pipeline, facts, tier, latency) \in Work
<1> DEFINE At == [w : Work, active : BOOLEAN]
           run(at, stage) ==
             IF stage.type = "condition"
             THEN [at EXCEPT !.active = @ /\ WhenMatches(stage.when, facts, tier, at.w.profile)]
             ELSE IF at.active THEN [at EXCEPT !.w = AfterStage(@, stage, latency)]
             ELSE at
           start == [w |-> w, active |-> TRUE]
           stages == pipeline.stages
           S == DOMAIN stages
           Table(e) == e = [s \in SUBSET S |->
                               IF s = {} THEN start ELSE run(e[s \ {Max(s)}], stages[Max(s)])]
           c == [s \in SUBSET S |-> Max(s)]
           G == [s \in SUBSET S |-> [v \in At |-> IF s = {} THEN start ELSE run(v, stages[Max(s)])]]
<1>1. IsFiniteSet(S) /\ S = 1 .. Len(stages) /\ Len(stages) \in Nat
  <2>1. stages \in Seq(ToSet(stages))
    BY PipelineAssumption
  <2>2. S = 1 .. Len(stages) /\ Len(stages) \in Nat
    BY <2>1
  <2> QED BY <2>2, FS_Interval
<1>2. \A s \in SUBSET S : s # {} => Max(s) \in s
  BY <1>1, GreatestIndex
<1>3. \A s \in SUBSET S : s # {} => StageOK(stages[Max(s)])
  <2>1. \A i \in S : stages[i] \in ToSet(stages)
    BY DEF ToSet
  <2> QED BY <2>1, <1>2, PipelineAssumption
<1>4. ASSUME NEW at \in At, NEW stage, StageOK(stage) PROVE run(at, stage) \in At
  <2>1. AfterStage(at.w, stage, latency) \in Work
    BY <1>4, AfterStageIs
  <2>2. CASE stage.type = "condition"
    <3>1. (at.active /\ WhenMatches(stage.when, facts, tier, at.w.profile)) \in BOOLEAN
      OBVIOUS
    <3> QED BY <2>2, <3>1
  <2>3. CASE stage.type # "condition"
    BY <2>1, <2>3
  <2> QED BY <2>2, <2>3
<1>5. start \in At /\ G \in [SUBSET S -> [At -> At]]
  <2>1. start \in At
    OBVIOUS
  <2> HIDE DEF run, At, start
  <2> QED BY <1>3, <1>4, <2>1
<1>6. PICK g \in [SUBSET S -> At] : Recursive(g, S, start, G, c)
  <2>1. Steps(S, At, start, G, c)
    <3> HIDE DEF G, start, At
    <3> QED BY <1>1, <1>2, <1>5 DEF Steps
  <2> HIDE DEF S, G, c, At, start
  <2> QED BY <2>1, Recursion
<1>7. Table(g)
  <2> HIDE DEF run, At, start
  <2>1. \A s \in SUBSET S : g[s] = IF s = {} THEN start ELSE run(g[s \ {Max(s)}], stages[Max(s)])
    BY <1>6 DEF Recursive
  <2> QED BY <2>1
<1>8. PICK h : h = (CHOOSE e : Table(e)) /\ Table(h)
  <2> HIDE DEF Table
  <2> QED BY <1>7
<1>9. InOrder(w, pipeline, facts, tier, latency) = h[S].w
  BY <1>8 DEF InOrder, FoldLeft, MapThenFoldSet
<1>10. h[S] \in At
  <2> HIDE DEF run, At, start
  <2>1. h[{}] \in At
    BY <1>5, <1>8
  <2>2. ASSUME NEW s \in SUBSET S, s # {} PROVE \E x \in s : h[s \ {x}] \in At => h[s] \in At
    <3>1. h[s] = run(h[s \ {Max(s)}], stages[Max(s)])
      BY <1>8, <2>2
    <3>2. h[s \ {Max(s)}] \in At => h[s] \in At
      BY <3>1, <2>2, <1>3, <1>4
    <3> QED BY <3>2, <2>2, <1>2
  <2> HIDE DEF S, Table
  <2> QED BY <1>1, <2>1, <2>2, StaysIn
<1> QED BY <1>9, <1>10

\* ... and every pipeline in turn.
LEMMA PipedIs ==
    ASSUME HealthTypeOK, NEW profile \in Profile, NEW model \in Model, NEW facts, NEW tier, NEW latency \in Latency
    PROVE  Piped(profile, model, facts, tier, latency) \in Work
<1> DEFINE run(w, pipeline) ==
             IF pipeline.entry \in StageIds(pipeline)
             THEN Walked(w, pipeline, facts, tier, latency)
             ELSE InOrder(w, pipeline, facts, tier, latency)
           start == [profile |-> profile, model |-> model, retries |-> 0,
                     fallbacks |-> <<>>, health |-> health]
           S == DOMAIN Pipelines
           Table(e) == e = [s \in SUBSET S |->
                               IF s = {} THEN start ELSE run(e[s \ {Max(s)}], Pipelines[Max(s)])]
           c == [s \in SUBSET S |-> Max(s)]
           G == [s \in SUBSET S |-> [v \in Work |-> IF s = {} THEN start ELSE run(v, Pipelines[Max(s)])]]
<1>1. IsFiniteSet(S) /\ S = 1 .. Len(Pipelines) /\ Len(Pipelines) \in Nat
  BY FS_Interval, PipelineAssumption
<1>2. \A s \in SUBSET S : s # {} => Max(s) \in s
  BY <1>1, GreatestIndex
<1>3. \A s \in SUBSET S : s # {} => Pipelines[Max(s)] \in ToSet(Pipelines)
  BY <1>2 DEF ToSet
<1>4. ASSUME NEW w \in Work, NEW pipeline \in ToSet(Pipelines) PROVE run(w, pipeline) \in Work
  BY WalkedIs, InOrderIs
<1>5. start \in Work /\ G \in [SUBSET S -> [Work -> Work]]
  <2>1. start \in Work
    BY DEF Work, MaxRetries, HealthTypeOK
  <2> HIDE DEF run, start
  <2> QED BY <1>3, <1>4, <2>1
<1>6. PICK g \in [SUBSET S -> Work] : Recursive(g, S, start, G, c)
  <2>1. Steps(S, Work, start, G, c)
    <3> HIDE DEF G, start
    <3> QED BY <1>1, <1>2, <1>5 DEF Steps
  <2> HIDE DEF S, G, c, start
  <2> QED BY <2>1, Recursion
<1>7. Table(g)
  <2> HIDE DEF run, start
  <2>1. \A s \in SUBSET S : g[s] = IF s = {} THEN start ELSE run(g[s \ {Max(s)}], Pipelines[Max(s)])
    BY <1>6 DEF Recursive
  <2> QED BY <2>1
<1>8. PICK h : h = (CHOOSE e : Table(e)) /\ Table(h)
  <2> HIDE DEF Table
  <2> QED BY <1>7
<1>9. Piped(profile, model, facts, tier, latency) = h[S]
  BY <1>8 DEF Piped, FoldLeft, MapThenFoldSet
<1>10. h[S] \in Work
  <2> HIDE DEF run, start
  <2>1. h[{}] \in Work
    BY <1>5, <1>8
  <2>2. ASSUME NEW s \in SUBSET S, s # {} PROVE \E x \in s : h[s \ {x}] \in Work => h[s] \in Work
    <3>1. h[s] = run(h[s \ {Max(s)}], Pipelines[Max(s)])
      BY <1>8, <2>2
    <3>2. h[s \ {Max(s)}] \in Work => h[s] \in Work
      BY <3>1, <2>2, <1>3, <1>4
    <3> QED BY <3>2, <2>2, <1>2
  <2> HIDE DEF S, Table
  <2> QED BY <1>1, <2>1, <2>2, StaysIn
<1> QED BY <1>9, <1>10

-----------------------------------------------------------------------------
(* The invariant of the requests in progress *)

\* What a request in progress carries.
Waiting(q) ==
    /\ q = [pc |-> q.pc, kind |-> q.kind, tier |-> q.tier, proposed |-> q.proposed]
    /\ q.kind.asked \in Alias

UnderWay(q) ==
    /\ q = [pc |-> q.pc, kind |-> q.kind, tier |-> q.tier, model |-> q.model, tried |-> q.tried,
            attempt |-> q.attempt, retries |-> q.retries, fallbacks |-> q.fallbacks,
            limits |-> q.limits, moved |-> q.moved]
    /\ q.retries \in 0 .. MaxRetries
    /\ q.limits \in [DOMAIN q.limits -> Nat]

\* A proposed budget is within the tier's and the client's own.
WithinProposal(limit, tier, limits) ==
    /\ limit \in Nat
    /\ limit <= MaxOutput[tier]
    /\ DOMAIN limits # {} => limit <= ClientLimit(limits)

Carries ==
    \A r \in Request :
        /\ req[r].pc \in {"sticky", "finalize"} =>
              /\ Waiting(req[r])
              /\ WithinProposal(req[r].proposed, req[r].tier, req[r].kind.limits)
        /\ req[r].pc = "sending" => UnderWay(req[r])

RequestIInv == RequestInv /\ Carries

-----------------------------------------------------------------------------
(* Tiers and limits *)

\* The token fields of a body, with their values.
Limits == UNION {[fields -> Nat] : fields \in SUBSET Field}

\* The least of some numbers.
LEMMA LeastIs ==
    ASSUME NEW S, S \subseteq Nat, S # {}
    PROVE  Min(S) \in S /\ \A n \in S : Min(S) <= n
<1>1. \E m \in S : \A n \in S : m <= n
  BY SmallestNumber
<1> QED BY <1>1 DEF Min

\* The gates answer tiers.
LEMMA DecidedIs ==
    ASSUME NEW f, NEW asked
    PROVE  Decisions(f, asked) \subseteq Tier
<1>1. ASSUME NEW t \in Tier, CapableFrom(t, f) # {} PROVE Gated(t, f) \in Tier
  <2> DEFINE able == CapableFrom(t, f)
  <2>1. able \subseteq Tier
    BY DEF CapableFrom
  <2> HIDE DEF able
  <2>2. \E u \in able : \A v \in able : Rank[u] <= Rank[v]
    BY <2>1, <1>1 DEF Tier, Rank, able
  <2>3. (CHOOSE u \in able : \A v \in able : Rank[u] <= Rank[v]) \in able
    BY <2>2
  <2> QED BY <2>1, <2>3 DEF Gated, able
<1>2. RawTiers(f, asked) \subseteq Tier
  BY DEF RawTiers, ScoredTier, Tier
<1> QED BY <1>1, <1>2 DEF Decisions

\* The client's own limit is the least of its fields.
LEMMA ClientLimitIs ==
    ASSUME NEW limits \in Limits, DOMAIN limits # {}
    PROVE  /\ ClientLimit(limits) \in Nat
           /\ \A field \in DOMAIN limits : ClientLimit(limits) <= limits[field]
           /\ \E field \in DOMAIN limits : ClientLimit(limits) = limits[field]
<1> DEFINE S == {limits[field] : field \in DOMAIN limits}
<1>1. \A field \in DOMAIN limits : limits[field] \in Nat
  BY DEF Limits
<1>2. S \subseteq Nat /\ S # {}
  BY <1>1
<1>3. Min(S) \in S /\ \A n \in S : Min(S) <= n
  <2> HIDE DEF S
  <2> QED BY <1>2, LeastIs
<1>4. ClientLimit(limits) = Min(S)
  BY DEF ClientLimit
<1> QED BY <1>1, <1>3, <1>4

\* A proposal is within the limit of its tier and the client's.
LEMMA ProposedIs ==
    ASSUME NEW f, NEW t \in Tier, NEW limits \in Limits
    PROVE  WithinProposal(ProposedLimit(f, t, limits), t, limits)
<1> DEFINE brief == IF "brief" \in f.cues THEN {700} ELSE {}
           rewrite == IF "rewrite" \in f.cues THEN {1200} ELSE {}
           structured == IF f.structured THEN {2500} ELSE {}
           S == {MaxOutput[t]} \cup brief \cup rewrite \cup structured
           cued == Min(S)
           roomy == IF f.tools THEN Smaller(MaxOutput[t], Larger(cued, 2048)) ELSE cued
<1>1. MaxOutput[t] \in Nat
  BY TierConfigAssumption
<1>2. S \subseteq Nat /\ MaxOutput[t] \in S
  BY <1>1
<1>3. cued \in Nat /\ cued <= MaxOutput[t]
  <2> HIDE DEF S
  <2>1. S # {}
    BY <1>2
  <2>2. Min(S) \in S /\ \A n \in S : Min(S) <= n
    BY <1>2, <2>1, LeastIs
  <2> QED BY <2>2, <1>2
<1> HIDE DEF cued, S
<1>4. roomy \in Nat /\ roomy <= MaxOutput[t]
  BY <1>1, <1>3 DEF Smaller, Larger
<1>5. ProposedLimit(f, t, limits)
        = IF DOMAIN limits = {} THEN roomy ELSE Smaller(roomy, ClientLimit(limits))
  BY DEF ProposedLimit, cued, S
<1> HIDE DEF roomy
<1>6. DOMAIN limits # {} => ClientLimit(limits) \in Nat
  BY ClientLimitIs
<1>7. CASE DOMAIN limits = {}
  BY <1>4, <1>5, <1>7 DEF WithinProposal
<1>8. CASE DOMAIN limits # {}
  <2>1. ProposedLimit(f, t, limits) = Smaller(roomy, ClientLimit(limits))
    BY <1>5, <1>8
  <2>2. /\ Smaller(roomy, ClientLimit(limits)) \in Nat
        /\ Smaller(roomy, ClientLimit(limits)) <= MaxOutput[t]
        /\ Smaller(roomy, ClientLimit(limits)) <= ClientLimit(limits)
    BY <1>1, <1>4, <1>6, <1>8 DEF Smaller
  <2> QED BY <2>1, <2>2 DEF WithinProposal
<1> QED BY <1>7, <1>8

\* Enforced, no field is above the proposal or the client's own value.
LEMMA EnforcedIs ==
    ASSUME NEW limits \in Limits, NEW proposed \in Nat
    PROVE  /\ Enforced(limits, proposed) \in Limits
           /\ DOMAIN Enforced(limits, proposed) # {}
           /\ ClientLimit(Enforced(limits, proposed)) <= proposed
           /\ DOMAIN limits # {} => ClientLimit(Enforced(limits, proposed)) <= ClientLimit(limits)
<1> DEFINE out == Enforced(limits, proposed)
<1>1. CASE DOMAIN limits = {}
  <2>1. out = [field \in {PreferredField} |-> proposed]
    BY <1>1 DEF Enforced
  <2>2. out \in Limits /\ DOMAIN out # {}
    BY <2>1, TierConfigAssumption DEF Limits
  <2>3. ClientLimit(out) <= out[PreferredField]
    <3> HIDE DEF out
    <3> QED BY <2>1, <2>2, ClientLimitIs
  <2> HIDE DEF out
  <2>4. ClientLimit(out) <= proposed
    BY <2>1, <2>3
  <2> QED BY <1>1, <2>2, <2>4 DEF out
<1>2. CASE DOMAIN limits # {}
  <2>0. \A field \in DOMAIN limits : limits[field] \in Nat
    BY DEF Limits
  <2>1. out = [field \in DOMAIN limits |-> Smaller(limits[field], proposed)]
    BY <1>2 DEF Enforced
  <2>2. \A field \in DOMAIN limits : Smaller(limits[field], proposed) \in Nat
    BY <2>0 DEF Smaller
  <2>3. out \in Limits /\ DOMAIN out = DOMAIN limits
    BY <2>1, <2>2 DEF Limits
  <2> HIDE DEF out
  <2>4. PICK field \in DOMAIN limits : ClientLimit(limits) = limits[field]
    BY <1>2, ClientLimitIs
  <2>5. ClientLimit(out) <= out[field] /\ ClientLimit(out) \in Nat
    BY <1>2, <2>3, ClientLimitIs
  <2>6. out[field] <= proposed /\ out[field] <= limits[field] /\ out[field] \in Nat
    BY <2>0, <2>1 DEF Smaller
  <2>7. limits[field] \in Nat
    BY <2>0
  <2>8. ClientLimit(out) <= proposed /\ ClientLimit(out) <= ClientLimit(limits)
    BY <2>4, <2>5, <2>6, <2>7
  <2> QED BY <1>2, <2>3, <2>8 DEF out
<1> QED BY <1>1, <1>2

\* A cap lowers what the body asks for to the least cap, and raises nothing.
LEMMA CappedIs ==
    ASSUME NEW limits \in Limits, NEW caps, caps \subseteq Nat
    PROVE  /\ Capped(limits, caps) \in Limits
           /\ DOMAIN limits # {} =>
                 /\ DOMAIN Capped(limits, caps) # {}
                 /\ ClientLimit(Capped(limits, caps)) <= ClientLimit(limits)
                 /\ \A cap \in caps : ClientLimit(Capped(limits, caps)) <= cap
<1> DEFINE out == Capped(limits, caps)
           field == IF "max_completion_tokens" \in DOMAIN limits
                    THEN "max_completion_tokens" ELSE "max_tokens"
<1>1. CASE caps = {}
  <2>1. out = limits
    BY <1>1 DEF Capped
  <2>2. DOMAIN limits # {} => ClientLimit(limits) \in Nat
    BY ClientLimitIs
  <2> QED BY <1>1, <2>1, <2>2
<1>2. CASE caps # {}
  <2>1. Min(caps) \in Nat /\ \A cap \in caps : Min(caps) <= cap
    BY <1>2, LeastIs
  <2>2. field \in Field /\ DOMAIN limits \subseteq Field
    BY DEF Field, Limits
  <2>0. \A x \in DOMAIN limits : limits[x] \in Nat
    BY DEF Limits
  <2>3. CASE field \in DOMAIN limits
    <3>1. out = [limits EXCEPT ![field] = Smaller(limits[field], Min(caps))]
      BY <1>2, <2>3 DEF Capped
    <3> HIDE DEF field
    <3>2. Smaller(limits[field], Min(caps)) \in Nat
      BY <2>0, <2>1, <2>3 DEF Smaller
    <3>3. out \in Limits /\ DOMAIN out = DOMAIN limits
      BY <3>1, <3>2, <2>2 DEF Limits
    <3> HIDE DEF out
    <3>4. \A x \in DOMAIN limits : out[x] \in Nat /\ out[x] <= limits[x]
      BY <3>1, <2>0, <2>1 DEF Smaller
    <3>5. out[field] <= Min(caps)
      BY <3>1, <2>0, <2>1, <2>3 DEF Smaller
    <3>6. PICK x \in DOMAIN limits : ClientLimit(limits) = limits[x]
      BY <2>3, ClientLimitIs
    <3>7. ClientLimit(out) \in Nat /\ ClientLimit(out) <= out[x] /\ ClientLimit(out) <= out[field]
      BY <3>3, <2>3, ClientLimitIs
    <3>8. ClientLimit(out) <= ClientLimit(limits)
      BY <3>4, <3>6, <3>7, <2>0
    <3>9. \A cap \in caps : ClientLimit(out) <= cap
      BY <3>4, <3>5, <3>7, <2>1, <2>3
    <3> QED BY <3>3, <3>8, <3>9, <2>3 DEF out
  <2>4. CASE field \notin DOMAIN limits
    <3>1. DOMAIN limits = {}
      BY <2>2, <2>4 DEF Field
    <3>2. out = [f \in {field} |-> Min(caps)]
      BY <1>2, <2>4 DEF Capped
    <3> HIDE DEF field
    <3>3. out \in Limits
      BY <3>2, <2>1, <2>2 DEF Limits
    <3> QED BY <3>1, <3>3
  <2> QED BY <2>3, <2>4
<1> QED BY <1>1, <1>2

-----------------------------------------------------------------------------
(* What policies and profiles make of a request *)

\* A policy's forced tier is at least the tier that was proposed.
LEMMA ForcedIs ==
    ASSUME NEW k, NEW tier \in Tier, NEW profile
    PROVE  ForcedTier(k, tier, profile) \in Tier /\ Rank[tier] <= Rank[ForcedTier(k, tier, profile)]
<1> DEFINE mins == {p.min : p \in {q \in Matching(k, tier, profile) : q.min \in Tier}}
           ranks == {Rank[tier]} \cup
                    {Rank[p.min] : p \in {q \in Matching(k, tier, profile) : q.min \in Tier}}
<1>1. ranks \subseteq 0 .. 2 /\ Rank[tier] \in ranks /\ \A n \in ranks : \E t \in Tier : n = Rank[t]
  BY DEF Rank, Tier
<1> HIDE DEF ranks
<1>0. \A n \in ranks : n \in {0, 1, 2}
  <2>1. \A n \in 0 .. 2 : n = 0 \/ n = 1 \/ n = 2
    OBVIOUS
  <2> QED BY <1>1, <2>1
<1>2. \E m \in ranks : \A n \in ranks : m >= n
  <2>1. CASE 2 \in ranks
    <3>1. \A n \in ranks : 2 >= n
      BY <1>0
    <3> QED BY <2>1, <3>1
  <2>2. CASE 2 \notin ranks /\ 1 \in ranks
    <3>1. \A n \in ranks : 1 >= n
      BY <1>0, <2>2
    <3> QED BY <2>2, <3>1
  <2>3. CASE 2 \notin ranks /\ 1 \notin ranks
    <3>1. \A n \in ranks : n = 0
      BY <1>0, <2>3
    <3>2. 0 \in ranks
      BY <3>1, <1>1
    <3>3. \A n \in ranks : 0 >= n
      BY <3>1
    <3> QED BY <3>2, <3>3
  <2> QED BY <2>1, <2>2, <2>3
<1>3. Max(ranks) \in ranks /\ \A n \in ranks : Max(ranks) >= n
  BY <1>2 DEF Max
<1>4. PICK t \in Tier : Rank[t] = Max(ranks)
  BY <1>1, <1>3
<1>5. ForcedTier(k, tier, profile) = CHOOSE u \in Tier : Rank[u] = Max(ranks)
  BY DEF ForcedTier, ranks
<1>6. ForcedTier(k, tier, profile) \in Tier /\ Rank[ForcedTier(k, tier, profile)] = Max(ranks)
  BY <1>4, <1>5
<1>7. Rank[tier] \in Int /\ Max(ranks) \in Int /\ Max(ranks) >= Rank[tier]
  <2>1. Rank[tier] \in ranks /\ Max(ranks) \in ranks
    BY <1>1, <1>3
  <2>2. \A n \in ranks : n \in Int
    BY <1>0
  <2> QED BY <2>1, <2>2, <1>3
<1> QED BY <1>6, <1>7

\* The profile found in a request is a profile,
LEMMA DetectedIs ==
    ASSUME NEW k \in Kind, NEW tier \in Tier
    PROVE  DetectedProfile(k, tier) \in Profile
<1>1. k.profile \in Profile \cup {"none"}
  BY RequestAssumption DEF KindOK
<1> QED BY <1>1 DEF DetectedProfile, Profile

\* and it has a model, its own or that of the tier.
LEMMA ModelIs ==
    ASSUME NEW profile \in Profile, NEW tier \in Tier
    PROVE  ModelOf(profile, tier) \in Model
BY PipelineAssumption, RequestAssumption DEF ModelOf

\* The body of a request is one with limits.
LEMMA KindIs ==
    ASSUME NEW k \in Kind
    PROVE  k.limits \in Limits /\ (k.asked # "explicit" => k.asked \in Alias)
<1>1. KindOK(k)
  BY RequestAssumption
<1> QED BY <1>1 DEF KindOK, Limits, Alias

\* The caps a policy for everybody sets are among those that apply.
LEMMA CapsAre ==
    ASSUME NEW k, NEW tier, NEW profile
    PROVE  /\ PolicyCaps(k, tier, profile) \subseteq Nat
           /\ \A p \in Policies :
                 p.cap > 0 /\ (\A part \in DOMAIN p.when : p.when[part] = {})
                     => p.cap \in PolicyCaps(k, tier, profile)
<1>1. \A p \in Policies : p.cap \in Nat /\ {"tiers", "profiles", "cues"} \subseteq DOMAIN p.when
  BY RequestAssumption DEF PolicyOK
<1>2. ASSUME NEW p \in Policies, p.cap > 0, \A part \in DOMAIN p.when : p.when[part] = {}
      PROVE  p \in Matching(k, tier, profile)
  <2>1. p.when.tiers = {} /\ p.when.profiles = {} /\ p.when.cues = {}
    BY <1>1, <1>2
  <2> QED BY <2>1 DEF Matching, WhenMatches
<1> QED BY <1>1, <1>2 DEF PolicyCaps, Matching

\* Configurations in which a higher tier may write as much as a lower one.  The
\* validation of the settings asks this of the context only.
OutputsRise ==
    \A t, u \in Tier : Rank[t] <= Rank[u] => MaxOutput[t] <= MaxOutput[u]

\* The limits a request is sent with, given what it carries.
BodyBounded(limits, tier, k) ==
    /\ ClientLimit(limits) <= MaxOutput[tier]
    /\ DOMAIN k.limits # {} => ClientLimit(limits) <= ClientLimit(k.limits)
    /\ \A p \in Policies :
          p.cap > 0 /\ (\A part \in DOMAIN p.when : p.when[part] = {})
              => ClientLimit(limits) <= p.cap

\* What the control plane may plan for a request: in route mode its limits are within
\* what the tier it ends in allows.
LEMMA PlansAre ==
    ASSUME HealthTypeOK, OutputsRise, mode \in Modes,
           NEW q, q.kind \in Kind, q.tier \in Tier, WithinProposal(q.proposed, q.tier, q.kind.limits),
           NEW plan \in Plans(q)
    PROVE  /\ plan.tier \in Tier /\ plan.limits \in Limits /\ plan.piped \in Work
           /\ mode = "route" => BodyBounded(plan.limits, plan.tier, q.kind)
<1> DEFINE k == q.kind
           profile == DetectedProfile(k, q.tier)
           tier == ForcedTier(k, q.tier, profile)
           forced == IF tier # q.tier /\ profile \notin {"vision", "coding"}
                     THEN tier ELSE profile
           body == IF mode = "observe" THEN k.limits ELSE Enforced(k.limits, q.proposed)
           caps == PolicyCaps(k, q.tier, profile)
           limits == Capped(body, caps)
<1>1. PICK latency \in Latency :
        plan = [tier |-> tier, limits |-> limits,
                piped |-> Piped(forced, ModelOf(forced, tier), k.facts, tier, latency),
                moved |-> Piped(forced, ModelOf(forced, tier), k.facts, tier, latency).model
                             # ModelOf(forced, tier)]
  BY DEF Plans
<1>2. profile \in Profile
  BY DetectedIs
<1> HIDE DEF profile
<1>3. tier \in Tier /\ Rank[q.tier] <= Rank[tier]
  BY ForcedIs
<1> HIDE DEF tier
<1>4. forced \in Profile
  BY <1>2, <1>3 DEF Profile
<1> HIDE DEF forced
<1>5. ModelOf(forced, tier) \in Model
  BY <1>3, <1>4, ModelIs
<1>6. Piped(forced, ModelOf(forced, tier), k.facts, tier, latency) \in Work
  BY <1>4, <1>5, PipedIs
<1>7. k.limits \in Limits /\ q.proposed \in Nat
  BY KindIs DEF WithinProposal
<1>8. Enforced(k.limits, q.proposed) \in Limits
  BY <1>7, EnforcedIs
<1>9. body \in Limits
  BY <1>7, <1>8
<1>10. caps \subseteq Nat
  BY CapsAre
<1>11. limits \in Limits
  <2> HIDE DEF body, caps
  <2> QED BY <1>9, <1>10, CappedIs
<1>12. ASSUME mode = "route" PROVE BodyBounded(limits, tier, k)
  <2>1. body = Enforced(k.limits, q.proposed)
    BY <1>12
  <2>2. /\ DOMAIN body # {} /\ ClientLimit(body) <= q.proposed
        /\ DOMAIN k.limits # {} => ClientLimit(body) <= ClientLimit(k.limits)
    BY <2>1, <1>7, EnforcedIs
  <2> HIDE DEF body
  <2>3. ClientLimit(body) \in Nat
    BY <1>9, <2>2, ClientLimitIs
  <2>4. /\ DOMAIN limits # {} /\ ClientLimit(limits) <= ClientLimit(body)
        /\ \A cap \in caps : ClientLimit(limits) <= cap
    <3> HIDE DEF caps
    <3> QED BY <1>9, <1>10, <2>2, CappedIs
  <2>5. \A p \in Policies :
          p.cap > 0 /\ (\A part \in DOMAIN p.when : p.when[part] = {})
              => ClientLimit(limits) <= p.cap
    <3>1. \A p \in Policies :
            p.cap > 0 /\ (\A part \in DOMAIN p.when : p.when[part] = {}) => p.cap \in caps
      BY CapsAre
    <3> HIDE DEF caps, limits
    <3> QED BY <2>4, <3>1
  <2> HIDE DEF limits
  <2>6. ClientLimit(limits) \in Nat
    BY <1>11, <2>4, ClientLimitIs
  <2>7. q.proposed <= MaxOutput[q.tier] /\ MaxOutput[q.tier] <= MaxOutput[tier]
    BY <1>3 DEF WithinProposal, OutputsRise
  <2>8. MaxOutput[q.tier] \in Nat /\ MaxOutput[tier] \in Nat
    BY <1>3, TierConfigAssumption
  <2>9. ClientLimit(limits) <= MaxOutput[tier]
    BY <2>2, <2>3, <2>4, <2>6, <2>7, <2>8, <1>7
  <2>10. ASSUME DOMAIN k.limits # {} PROVE ClientLimit(limits) <= ClientLimit(k.limits)
    <3>1. ClientLimit(k.limits) \in Nat
      BY <2>10, <1>7, ClientLimitIs
    <3> QED BY <2>2, <2>3, <2>4, <2>6, <2>10, <3>1
  <2> QED BY <2>5, <2>9, <2>10 DEF BodyBounded
<1> HIDE DEF limits
<1> QED BY <1>1, <1>3, <1>6, <1>11, <1>12

\* The first attempt goes to a model.
LEMMA FirstIs ==
    ASSUME NEW w \in Work, NEW tier \in Tier
    PROVE  FirstModel(w, tier) \subseteq Model
<1> DEFINE profiles == FallbackProfiles(w.profile, tier)
           models == FallbackModels(w, tier)
           open == {i \in DOMAIN models : models[i] # w.model /\ ~Refuses(w.health[models[i]])}
<1>1. w.model \in Model
  BY DEF Work
<1>2. /\ DOMAIN models = DOMAIN profiles
      /\ \A i \in DOMAIN profiles : models[i] = ModelOf(profiles[i], profiles[i])
  BY DEF FallbackModels
<1>3. DOMAIN profiles \subseteq 1 .. 2 /\ \A i \in DOMAIN profiles : profiles[i] \in Tier
  BY DEF FallbackProfiles, Tier
<1>4. \A i \in DOMAIN models : models[i] \in Model
  <2> HIDE DEF models, profiles
  <2>1. \A t \in Tier : ModelOf(t, t) \in Model
    BY ModelIs DEF Profile
  <2> QED BY <1>2, <1>3, <2>1
<1>5. open \subseteq Nat /\ open \subseteq DOMAIN models
  BY <1>2, <1>3
<1> HIDE DEF open, models
<1>6. ASSUME open # {} PROVE models[Min(open)] \in Model
  <2>1. Min(open) \in open
    BY <1>5, <1>6, LeastIs
  <2> QED BY <2>1, <1>4, <1>5
<1> QED BY <1>1, <1>6 DEF FirstModel, open, models

\* Some columns of a row are an update,
LEMMA UpdateIs ==
    ASSUME NEW entry \in HealthRow, NEW columns, columns \subseteq Column
    PROVE  Restrict(entry, columns) \in Update
BY DEF Update

\* which over a row leaves a row.
LEMMA OverwrittenIs ==
    ASSUME NEW old \in HealthRow, NEW update \in Update
    PROVE  Overwritten(old, update) \in HealthRow
<1>1. PICK entry \in HealthRow, columns \in SUBSET Column : update = Restrict(entry, columns)
  BY DEF Update
<1>2. DOMAIN update = columns /\ \A c \in columns : update[c] = entry[c]
  BY <1>1 DEF Restrict
<1>3. /\ "state" \in columns => update["state"] = entry.state
      /\ "failures" \in columns => update["failures"] = entry.failures
      /\ "cooling" \in columns => update["cooling"] = entry.cooling
  BY <1>2
<1> QED BY <1>2, <1>3 DEF Overwritten, HealthRow

\* What record() writes is one.
LEMMA RecordedIs ==
    ASSUME NEW entry \in HealthRow, NEW status
    PROVE  Recorded(entry, status) \subseteq Update
<1>1. Threshold \in Nat \ {0} /\ Cooldown \in Nat \ {0}
  BY BreakerAssumption
<1>2. entry.failures \in 0 .. Threshold /\ entry.cooling \in 0 .. Cooldown
  BY DEF HealthRow
<1>3. NewRow \in HealthRow
  BY <1>1 DEF NewRow, HealthRow
<1> DEFINE counted == IF status \in Qualifying THEN {"failures"} ELSE {}
           failures == IF status \in Qualifying /\ entry.failures < Threshold
                       THEN entry.failures + 1 ELSE entry.failures
           opened == IF entry.state = "CIRCUIT_OPEN" THEN {} ELSE {"state"}
           full == [state |-> "CIRCUIT_OPEN", failures |-> failures, cooling |-> Cooldown]
           below == [entry EXCEPT !.failures = failures, !.state = "CLOSED"]
<1>4. failures \in 0 .. Threshold
  BY <1>1, <1>2
<1>5. counted \subseteq Column /\ opened \subseteq Column /\ {"state", "cooling"} \subseteq Column
  BY DEF Column
<1>6. Recovered(entry) \subseteq Update
  <2> DEFINE reset == IF entry.failures = 0 THEN {} ELSE {"failures"}
  <2>1. reset \subseteq Column /\ reset \cup {"state", "cooling"} \subseteq Column
    BY DEF Column
  <2>2. /\ Restrict(NewRow, reset) \in Update
        /\ Restrict(NewRow, reset \cup {"state", "cooling"}) \in Update
    <3> HIDE DEF reset
    <3> QED BY <1>3, <2>1, UpdateIs
  <2>3. Recovered(entry) \subseteq {Restrict(NewRow, reset), Restrict(NewRow, reset \cup {"state", "cooling"})}
    BY DEF Recovered
  <2> HIDE DEF reset
  <2> QED BY <2>2, <2>3
<1>7. full \in HealthRow /\ below \in HealthRow
  <2> HIDE DEF failures
  <2>1. full \in HealthRow
    BY <1>1, <1>4 DEF HealthRow
  <2>2. below \in HealthRow
    BY <1>4 DEF HealthRow
  <2> QED BY <2>1, <2>2
<1>8. Recorded(entry, status) = IF status \in Success THEN Recovered(entry)
                                ELSE IF failures >= Threshold
                                THEN {Restrict(full, counted \cup opened \cup {"cooling"})}
                                ELSE {Restrict(below, columns) : columns \in {counted, counted \cup {"state"}}}
  BY DEF Recorded
<1>9. /\ Restrict(full, counted \cup opened \cup {"cooling"}) \in Update
      /\ \A columns \in {counted, counted \cup {"state"}} : Restrict(below, columns) \in Update
  <2> HIDE DEF full, below, counted, opened
  <2>1. /\ counted \cup opened \cup {"cooling"} \subseteq Column
        /\ \A columns \in {counted, counted \cup {"state"}} : columns \subseteq Column
    BY <1>5
  <2>2. Restrict(full, counted \cup opened \cup {"cooling"}) \in Update
    BY <1>7, <2>1, UpdateIs
  <2>3. \A columns \in {counted, counted \cup {"state"}} : Restrict(below, columns) \in Update
    BY <1>7, <2>1, UpdateIs
  <2> QED BY <2>2, <2>3
<1> HIDE DEF full, below, counted, opened, failures
<1> QED BY <1>6, <1>8, <1>9

\* Time that passes leaves a table of rows.
LEMMA TickIs == HealthTypeOK /\ HealthTick => HealthTypeOK'
<1> SUFFICES ASSUME HealthTypeOK, HealthTick PROVE HealthTypeOK'
  OBVIOUS
<1>1. ASSUME NEW entry \in HealthRow
      PROVE  [entry EXCEPT !.cooling = IF entry.cooling = 0 THEN 0 ELSE entry.cooling - 1] \in HealthRow
  <2>1. entry.cooling \in 0 .. Cooldown /\ Cooldown \in Nat
    BY BreakerAssumption DEF HealthRow
  <2>2. (IF entry.cooling = 0 THEN 0 ELSE entry.cooling - 1) \in 0 .. Cooldown
    BY <2>1
  <2> QED BY <2>2 DEF HealthRow
<1> QED BY <1>1 DEF HealthTypeOK, HealthTick

-----------------------------------------------------------------------------
(* One request at a time *)

\* RequestIInv, request by request: what the record of one says under a mode.
LocalOK(m, q) ==
    /\ q.pc \in Pc
    /\ q.pc \in {"sticky", "finalize", "sending"} => q.kind \in Kind /\ q.tier \in Tier
    /\ q.pc \in {"sticky", "finalize"} =>
          Waiting(q) /\ WithinProposal(q.proposed, q.tier, q.kind.limits)
    /\ q.pc = "sending" =>
          /\ q.tried \in Model /\ q.model \in Model
          /\ q.attempt \in 0 .. MaxRetries
          /\ q.fallbacks \in Seq(Model)
          /\ UnderWay(q)
          /\ m = "route" /\ q.kind.asked # "explicit" => BodyBounded(q.limits, q.tier, q.kind)
    /\ q.pc = "save" => q.model \in Model /\ q.update \in Update

Shared ==
    /\ HealthTypeOK
    /\ mode \in Modes
    /\ session \in [Alias -> Stuck \cup {NoSession}]
    /\ spent \in Nat
    /\ down \subseteq Model

Locals == DOMAIN req = Request /\ \A r \in Request : LocalOK(mode, req[r])

\* The invariant is one of the shared state, one of each request, and one of the budget.
LEMMA ByRequest == RequestIInv <=> Shared /\ Locals /\ OvershootBounded
<1>1. RequestIInv => Shared /\ Locals /\ OvershootBounded
  BY DEF RequestIInv, RequestInv, RequestTypeOK, Shared, Locals, LocalOK, Carries, OutputWithinLimits,
         BodyBounded, Automatic
<1>2. Shared /\ Locals /\ OvershootBounded => RequestTypeOK
  BY DEF RequestTypeOK, Shared, Locals, LocalOK
<1>3. Locals => Carries
  BY DEF Carries, Locals, LocalOK
<1>4. Locals => OutputWithinLimits
  BY DEF Locals, LocalOK, OutputWithinLimits, BodyBounded, Automatic
<1> QED BY <1>1, <1>2, <1>3, <1>4 DEF RequestIInv, RequestInv

\* A step of one request.
LEMMA OneMoves ==
    ASSUME Locals, NEW r \in Request, NEW q, LocalOK(mode, q), req' = [req EXCEPT ![r] = q], mode' = mode
    PROVE  Locals'
<1>1. DOMAIN req' = Request /\ \A s \in Request : req'[s] = IF s = r THEN q ELSE req[s]
  BY DEF Locals
<1>2. \A s \in Request : LocalOK(mode', req'[s])
  BY <1>1 DEF Locals
<1> QED BY <1>1, <1>2 DEF Locals

\* A request that is over leaves nothing behind.
LEMMA IdleIs == \A m : LocalOK(m, Idle)
BY DEF LocalOK, Idle, Pc

-----------------------------------------------------------------------------
(* The month's budget *)

\* MaxCost is the greatest cost of an answer.
LEMMA CostIs ==
    /\ MaxCost \in Nat
    /\ \A t \in Tier : CostOf[t] \in Nat /\ CostOf[t] <= MaxCost
<1> DEFINE S == {CostOf[t] : t \in Tier}
<1>1. \A t \in Tier : CostOf[t] \in Nat
  BY RequestAssumption
<1>2. \E t \in Tier : \A u \in Tier : CostOf[t] >= CostOf[u]
  <2>1. CostOf["fast"] \in Nat /\ CostOf["standard"] \in Nat /\ CostOf["strong"] \in Nat
    BY <1>1 DEF Tier
  <2> QED BY <2>1 DEF Tier
<1>3. \E n \in S : \A k \in S : n >= k
  BY <1>2
<1>4. Max(S) \in S /\ \A k \in S : Max(S) >= k
  <2> HIDE DEF S
  <2> QED BY <1>3 DEF Max
<1>5. MaxCost = Max(S)
  BY DEF MaxCost
<1>6. MaxCost \in Nat
  BY <1>1, <1>4, <1>5
<1>7. ASSUME NEW t \in Tier PROVE CostOf[t] <= MaxCost
  <2>1. CostOf[t] \in S
    OBVIOUS
  <2>2. MaxCost >= CostOf[t]
    BY <2>1, <1>4, <1>5
  <2> QED BY <2>2, <1>1, <1>6
<1> QED BY <1>1, <1>6, <1>7

\* There are at most as many requests under way as there are requests.
LEMMA InFlightIs ==
    /\ IsFiniteSet(InFlight) /\ Cardinality(InFlight) \in Nat
    /\ Cardinality(Request) \in Nat /\ Cardinality(InFlight) <= Cardinality(Request)
<1>1. InFlight \subseteq Request /\ IsFiniteSet(Request)
  BY RequestAssumption DEF InFlight
<1> QED BY <1>1, FS_Subset, FS_CardinalityType

\* The same lemma in the next state.
LEMMA InFlightNext ==
    /\ IsFiniteSet(InFlight') /\ Cardinality(InFlight') \in Nat
    /\ Cardinality(InFlight') <= Cardinality(Request)
<1>1. InFlight' \subseteq Request /\ IsFiniteSet(Request)
  BY RequestAssumption DEF InFlight
<1> QED BY <1>1, FS_Subset, FS_CardinalityType

\* Products keep the order of their first factors.
LEMMA Product ==
    ASSUME NEW a \in Nat, NEW b \in Nat, NEW x \in Nat, a <= b
    PROVE  a * x \in Nat /\ b * x \in Nat /\ a * x <= b * x
<1>1. PICK d \in Nat : b = a + d
  <2>1. b - a \in Nat /\ b = a + (b - a)
    OBVIOUS
  <2> QED BY <2>1
<1>2. b * x = a * x + d * x
  BY <1>1
<1>3. a * x \in Nat /\ d * x \in Nat
  OBVIOUS
<1> QED BY <1>2, <1>3

\* Fewer requests under way and less spent keep the bound.
LEMMA NoMoreSpent ==
    ASSUME OvershootBounded, spent \in Nat, spent' \in Nat, spent' <= spent, InFlight' \subseteq InFlight
    PROVE  OvershootBounded'
<1>1. Cardinality(InFlight') <= Cardinality(InFlight)
  BY InFlightIs, FS_Subset
<1> DEFINE a == Cardinality(InFlight')
           b == Cardinality(InFlight)
<1>2. a \in Nat /\ b \in Nat /\ MaxCost \in Nat
  BY InFlightIs, InFlightNext, CostIs
<1> HIDE DEF a, b
<1>3. a * MaxCost \in Nat /\ b * MaxCost \in Nat /\ a * MaxCost <= b * MaxCost
  BY <1>1, <1>2, Product DEF a, b
<1> DEFINE top == MonthlyLimit + Cardinality(Request) * MaxCost
<1>4. top \in Nat
  <2>1. Cardinality(Request) * MaxCost \in Nat
    BY <1>2, InFlightIs, Product
  <2> QED BY <2>1, RequestAssumption
<1>5. MonthlyLimit > 0 => spent + b * MaxCost < top
  BY DEF OvershootBounded, b
<1> HIDE DEF top
<1>6. MonthlyLimit > 0 => spent' + a * MaxCost < top
  BY <1>3, <1>4, <1>5
<1>7. MaxCost' = MaxCost
  BY DEF MaxCost
<1> QED BY <1>6, <1>7 DEF OvershootBounded, a, top

\* A request that passes the check finds the month not yet spent.
LEMMA OneMoreAsked ==
    ASSUME spent \in Nat, spent' = spent, ~BudgetExhausted
    PROVE  OvershootBounded'
<1> DEFINE a == Cardinality(InFlight')
           b == Cardinality(Request)
<1>2. a \in Nat /\ b \in Nat /\ MaxCost \in Nat /\ a <= b
  BY InFlightIs, InFlightNext, CostIs
<1> HIDE DEF a, b
<1>3. a * MaxCost \in Nat /\ b * MaxCost \in Nat /\ a * MaxCost <= b * MaxCost
  BY <1>2, Product
<1>4. MonthlyLimit > 0 => spent < MonthlyLimit
  BY RequestAssumption DEF BudgetExhausted
<1>5. MonthlyLimit > 0 => spent' + a * MaxCost < MonthlyLimit + b * MaxCost
  BY <1>3, <1>4, RequestAssumption
<1>6. MaxCost' = MaxCost
  BY DEF MaxCost
<1> QED BY <1>5, <1>6 DEF OvershootBounded, a, b

\* A request that ends adds at most what it was counted for.
LEMMA OneAnswered ==
    ASSUME OvershootBounded, spent \in Nat, NEW r \in InFlight, InFlight' = InFlight \ {r},
           NEW cost \in Nat, cost <= MaxCost, spent' = spent + cost
    PROVE  OvershootBounded'
<1> DEFINE a == Cardinality(InFlight')
           b == Cardinality(InFlight)
<1>1. a = b - 1
  BY InFlightIs, FS_RemoveElement
<1>2. a \in Nat /\ b \in Nat /\ MaxCost \in Nat
  BY InFlightIs, InFlightNext, CostIs
<1> HIDE DEF a, b
<1>3. b = a + 1
  BY <1>1, <1>2
<1>4. b * MaxCost = a * MaxCost + MaxCost /\ a * MaxCost \in Nat
  BY <1>2, <1>3
<1> DEFINE top == MonthlyLimit + Cardinality(Request) * MaxCost
<1>5. top \in Nat
  <2>1. Cardinality(Request) * MaxCost \in Nat
    BY <1>2, InFlightIs, Product
  <2> QED BY <2>1, RequestAssumption
<1>6. MonthlyLimit > 0 => spent + b * MaxCost < top
  BY DEF OvershootBounded, b
<1> HIDE DEF top
<1> DEFINE p == a * MaxCost
<1>7. b * MaxCost = p + MaxCost /\ p \in Nat
  BY <1>4
<1> HIDE DEF p
<1>8. MonthlyLimit > 0 => spent' + p < top
  <2>1. MonthlyLimit > 0 => spent + (p + MaxCost) < top
    BY <1>6, <1>7
  <2> QED BY <2>1, <1>2, <1>5, <1>7
<1>9. MaxCost' = MaxCost
  BY DEF MaxCost
<1> QED BY <1>8, <1>9 DEF OvershootBounded, a, p, top

-----------------------------------------------------------------------------
(* The requests: RequestIInv is inductive *)

\* The bound when one request moves and nothing is spent: unless it starts to be sent,
\* no more requests are under way.
LEMMA NoneStarts ==
    ASSUME DOMAIN req = Request, OvershootBounded, spent \in Nat, spent' = spent,
           NEW r \in Request, NEW q, req' = [req EXCEPT ![r] = q],
           q.pc = "sending" /\ q.kind.asked # "explicit" => Automatic(r)
    PROVE  OvershootBounded'
<1>1. \A s \in Request : req'[s] = IF s = r THEN q ELSE req[s]
  OBVIOUS
<1>2. InFlight' \subseteq InFlight
  BY <1>1 DEF InFlight, Automatic
<1>3. spent' \in Nat /\ spent' <= spent
  OBVIOUS
<1> QED BY <1>2, <1>3, NoMoreSpent

\* The invariant holds at first,
LEMMA RequestInitial == RequestInit => RequestIInv
<1> SUFFICES ASSUME RequestInit PROVE RequestIInv
  OBVIOUS
<1>1. Shared
  <2>1. NewRow \in HealthRow
    BY BreakerAssumption DEF NewRow, HealthRow
  <2> QED BY <2>1 DEF RequestInit, HealthInit, Shared, HealthTypeOK
<1>2. Locals
  BY IdleIs DEF Locals, RequestInit
<1>3. OvershootBounded
  <2>1. InFlight = {}
    BY DEF RequestInit, InFlight, Automatic, Idle
  <2>2. Cardinality(InFlight) = 0 /\ spent = 0
    BY <2>1, FS_EmptySet DEF RequestInit
  <2>3. MaxCost \in Nat /\ Cardinality(Request) \in Nat
    BY CostIs, InFlightIs
  <2>4. 0 * MaxCost = 0 /\ Cardinality(Request) * MaxCost \in Nat
    BY <2>3, Product
  <2>5. MonthlyLimit > 0 => 0 + 0 < MonthlyLimit + Cardinality(Request) * MaxCost
    BY <2>4, RequestAssumption
  <2> QED BY <2>2, <2>4, <2>5 DEF OvershootBounded
<1> QED BY <1>1, <1>2, <1>3, ByRequest

\* and every step keeps it.
LEMMA RequestStep ==
    ASSUME OutputsRise
    PROVE  RequestIInv /\ [RequestNext]_requestVars => RequestIInv'
<1> SUFFICES ASSUME RequestIInv, [RequestNext]_requestVars PROVE Shared' /\ Locals' /\ OvershootBounded'
  <2>1. Shared' /\ Locals' /\ OvershootBounded' => RequestIInv'
    BY ByRequest, PTL
  <2> QED BY <2>1
<1>1. Shared /\ Locals /\ OvershootBounded
  BY ByRequest
<1>2. spent \in Nat
  BY <1>1 DEF Shared
<1>3. DOMAIN req = Request
  BY <1>1 DEF Locals
<1>a. ASSUME NEW r \in Request, Arrive(r) PROVE Shared' /\ Locals' /\ OvershootBounded'
  <2>1. PICK k \in Kind :
           \/ k.asked = "explicit" /\ req' = [req EXCEPT ![r] = Explicit(k)]
           \/ /\ k.asked # "explicit"
              /\ \E t \in Decisions(k.facts, k.asked) :
                   req' = [req EXCEPT ![r] =
                       [pc |-> IF mode = "route" /\ k.session THEN "sticky" ELSE "finalize",
                        kind |-> k, tier |-> t,
                        proposed |-> ProposedLimit(k.facts, t, k.limits)]]
    BY <1>a DEF Arrive
  <2>2. UNCHANGED <<mode, session, spent, down, health>>
    BY <1>a DEF Arrive
  <2>3. Shared'
    BY <1>1, <2>2 DEF Shared, HealthTypeOK
  <2>4. k.limits \in Limits /\ (k.asked # "explicit" => k.asked \in Alias)
    BY KindIs
  <2>5. CASE k.asked = "explicit"
    <3>1. req' = [req EXCEPT ![r] = Explicit(k)]
      BY <2>1, <2>5
    <3>2. k.model \in Model
      BY <2>5, RequestAssumption DEF KindOK
    <3>3. LocalOK(mode, Explicit(k))
      <4>1. k.limits \in [DOMAIN k.limits -> Nat]
        BY <2>4 DEF Limits
      <4> QED BY <4>1, <3>2, <2>5 DEF LocalOK, Explicit, Pc, UnderWay, MaxRetries, Tier
    <3>4. Locals'
      BY <1>1, <3>1, <3>3, <2>2, OneMoves
    <3>5. Explicit(k).kind.asked = "explicit"
      BY <2>5 DEF Explicit
    <3>6. OvershootBounded'
      BY <1>1, <1>2, <1>3, <2>2, <3>1, <3>5, NoneStarts
    <3> QED BY <2>3, <3>4, <3>6
  <2>6. CASE k.asked # "explicit"
    <3>1. PICK t \in Decisions(k.facts, k.asked) :
             req' = [req EXCEPT ![r] =
                       [pc |-> IF mode = "route" /\ k.session THEN "sticky" ELSE "finalize",
                        kind |-> k, tier |-> t,
                        proposed |-> ProposedLimit(k.facts, t, k.limits)]]
      BY <2>1, <2>6
    <3> DEFINE q == [pc |-> IF mode = "route" /\ k.session THEN "sticky" ELSE "finalize",
                     kind |-> k, tier |-> t, proposed |-> ProposedLimit(k.facts, t, k.limits)]
    <3>2. t \in Tier
      BY DecidedIs
    <3>3. WithinProposal(ProposedLimit(k.facts, t, k.limits), t, k.limits)
      BY <2>4, <3>2, ProposedIs
    <3>4. LocalOK(mode, q)
      BY <2>4, <2>6, <3>2, <3>3 DEF LocalOK, Pc, Waiting
    <3>5. q.pc # "sending"
      OBVIOUS
    <3> HIDE DEF q
    <3>6. req' = [req EXCEPT ![r] = q]
      BY <3>1 DEF q
    <3>7. Locals' /\ OvershootBounded'
      BY <1>1, <1>2, <1>3, <2>2, <3>4, <3>5, <3>6, OneMoves, NoneStarts
    <3> QED BY <2>3, <3>7
  <2> QED BY <2>5, <2>6
<1>b. ASSUME NEW r \in Request, ResolveSession(r) PROVE Shared' /\ Locals' /\ OvershootBounded'
  <2> DEFINE q == req[r]
             k == q.kind
             stuck == IF session[k.asked] = NoSession THEN [tier |-> q.tier, lower |-> 0]
                      ELSE Turned(session[k.asked].tier, session[k.asked].lower, q.tier)
             t == StickyTier(stuck.tier, k, q.tier)
             n == WithTier(q, t)
  <2>1. /\ q.pc = "sticky"
        /\ session' = [session EXCEPT ![k.asked] = stuck]
        /\ req' = [req EXCEPT ![r] = n]
        /\ UNCHANGED <<mode, spent, down, health>>
    BY <1>b DEF ResolveSession
  <2>2. LocalOK(mode, q)
    BY <1>1 DEF Locals
  <2>3. k \in Kind /\ q.tier \in Tier /\ Waiting(q) /\ WithinProposal(q.proposed, q.tier, k.limits)
    BY <2>1, <2>2 DEF LocalOK
  <2>4. k.asked \in Alias
    BY <2>3 DEF Waiting
  <2>5. stuck \in Stuck
    <3>1. session[k.asked] \in Stuck \cup {NoSession}
      BY <1>1, <2>4 DEF Shared
    <3>2. DemotionTurns \in Nat \ {0}
      BY DemotionAssumption
    <3>3. CASE session[k.asked] = NoSession
      <4>1. 0 \in 0 .. DemotionTurns - 1
        BY <3>2
      <4> QED BY <3>3, <4>1, <2>3 DEF Stuck
    <3>4. CASE session[k.asked] # NoSession
      <4>1. session[k.asked].tier \in Tier /\ session[k.asked].lower \in 0 .. DemotionTurns - 1
        BY <3>1, <3>4 DEF Stuck
      <4>2. Turned(session[k.asked].tier, session[k.asked].lower, q.tier) \in Stuck
        BY <4>1, <2>3, <3>2 DEF Turned, Stuck, Tier, Rank
      <4> QED BY <3>4, <4>2
    <3> QED BY <3>3, <3>4
  <2>6. stuck.tier \in Tier
    BY <2>5 DEF Stuck
  <2> HIDE DEF stuck
  <2>7. t \in Tier
    BY <2>3, <2>6 DEF StickyTier
  <2> HIDE DEF t
  <2>8. k.limits \in Limits
    BY <2>3, KindIs
  <2>9. WithinProposal(ProposedLimit(k.facts, t, k.limits), t, k.limits)
    BY <2>7, <2>8, ProposedIs
  <2>10. q = [pc |-> q.pc, kind |-> q.kind, tier |-> q.tier, proposed |-> q.proposed]
    BY <2>3 DEF Waiting
  <2>11. n = [pc |-> "finalize", kind |-> k, tier |-> t,
              proposed |-> IF t = q.tier THEN q.proposed ELSE ProposedLimit(k.facts, t, k.limits)]
    <3> DEFINE proposed == IF t = q.tier THEN q.proposed ELSE ProposedLimit(k.facts, t, k.limits)
    <3> HIDE DEF q
    <3>1. n = [q EXCEPT !.pc = "finalize", !.tier = t, !.proposed = proposed]
      BY DEF WithTier
    <3> HIDE DEF n, proposed
    <3>2. n = [pc |-> "finalize", kind |-> q.kind, tier |-> t, proposed |-> proposed]
      BY <2>10, <3>1
    <3> QED BY <3>2 DEF proposed
  <2>12. WithinProposal(n.proposed, t, k.limits)
    BY <2>3, <2>9, <2>11
  <2>13. LocalOK(mode, n)
    <3> HIDE DEF n, k
    <3> QED BY <2>3, <2>4, <2>7, <2>11, <2>12 DEF LocalOK, Pc, Waiting
  <2>14. n.pc # "sending"
    BY <2>11
  <2>15. Shared'
    <3>1. session' \in [Alias -> Stuck \cup {NoSession}]
      <4> HIDE DEF k
      <4> QED BY <1>1, <2>1, <2>4, <2>5 DEF Shared
    <3> HIDE DEF n
    <3> QED BY <3>1, <1>1, <2>1 DEF Shared, HealthTypeOK
  <2> HIDE DEF n
  <2>16. Locals' /\ OvershootBounded'
    BY <1>1, <1>2, <1>3, <2>1, <2>13, <2>14, OneMoves, NoneStarts
  <2> QED BY <2>15, <2>16
<1>c. ASSUME NEW r \in Request, SessionStoreFails(r) PROVE Shared' /\ Locals' /\ OvershootBounded'
  <2> DEFINE q == req[r]
             n == [q EXCEPT !.pc = "finalize"]
  <2>1. q.pc = "sticky" /\ req' = [req EXCEPT ![r] = n] /\ UNCHANGED <<mode, session, spent, down, health>>
    BY <1>c DEF SessionStoreFails
  <2>2. LocalOK(mode, q)
    BY <1>1 DEF Locals
  <2>3. Waiting(q)
    BY <2>1, <2>2 DEF LocalOK
  <2>4. n = [pc |-> "finalize", kind |-> q.kind, tier |-> q.tier, proposed |-> q.proposed]
    BY <2>3 DEF Waiting
  <2>5. LocalOK(mode, n) /\ n.pc # "sending"
    <3> HIDE DEF n
    <3> QED BY <2>1, <2>2, <2>4 DEF LocalOK, Pc, Waiting
  <2>6. Shared'
    BY <1>1, <2>1 DEF Shared, HealthTypeOK
  <2> HIDE DEF n
  <2>7. Locals' /\ OvershootBounded'
    BY <1>1, <1>2, <1>3, <2>1, <2>5, OneMoves, NoneStarts
  <2> QED BY <2>6, <2>7
<1>d. ASSUME NEW a \in Alias, SessionEnds(a) PROVE Shared' /\ Locals' /\ OvershootBounded'
  <2>1. session' = [session EXCEPT ![a] = NoSession] /\ UNCHANGED <<mode, req, spent, down, health>>
    BY <1>d DEF SessionEnds
  <2>2. Shared' /\ Locals'
    BY <1>1, <2>1 DEF Shared, HealthTypeOK, Locals
  <2>3. OvershootBounded'
    <3>1. InFlight' \subseteq InFlight
      BY <2>1 DEF InFlight, Automatic
    <3>2. spent' \in Nat /\ spent' <= spent
      BY <1>2, <2>1
    <3> QED BY <1>1, <1>2, <3>1, <3>2, NoMoreSpent
  <2> QED BY <2>2, <2>3
<1>e. ASSUME NEW r \in Request, Finalize(r) PROVE Shared' /\ Locals' /\ OvershootBounded'
  <2> DEFINE q == req[r]
  <2>1. q.pc = "finalize" /\ UNCHANGED <<mode, session, spent, down>>
    BY <1>e DEF Finalize
  <2>2. LocalOK(mode, q)
    BY <1>1 DEF Locals
  <2>3. q.kind \in Kind /\ q.tier \in Tier /\ WithinProposal(q.proposed, q.tier, q.kind.limits)
    BY <2>1, <2>2 DEF LocalOK
  <2>4. ASSUME req' = [req EXCEPT ![r] = Idle] PROVE Locals' /\ OvershootBounded'
    <3>1. Idle.pc # "sending"
      BY DEF Idle
    <3> QED BY <1>1, <1>2, <1>3, <2>1, <2>4, <3>1, IdleIs, OneMoves, NoneStarts
  <2>5. ASSUME ~Refused(q), NEW plan \in Plans(q), NEW m \in Model, NEW retries \in 0 .. MaxRetries,
               NEW fallbacks \in Seq(Model), req' = [req EXCEPT ![r] = Sending(q, plan, m, retries, fallbacks)]
        PROVE  Locals' /\ OvershootBounded'
    <3>1. /\ plan.tier \in Tier /\ plan.limits \in Limits
          /\ mode = "route" => BodyBounded(plan.limits, plan.tier, q.kind)
      BY <1>1, <2>3, PlansAre DEF Shared
    <3>2. plan.limits \in [DOMAIN plan.limits -> Nat]
      BY <3>1 DEF Limits
    <3> DEFINE n == Sending(q, plan, m, retries, fallbacks)
    <3>3. n = [pc |-> "sending", kind |-> q.kind, tier |-> plan.tier, model |-> m,
               tried |-> m, attempt |-> 0, retries |-> retries,
               fallbacks |-> fallbacks, limits |-> plan.limits, moved |-> plan.moved]
      BY DEF Sending
    <3> HIDE DEF n
    <3>4. LocalOK(mode, n)
      <4>1. 0 \in 0 .. MaxRetries
        BY DEF MaxRetries
      <4>2. UnderWay(n)
        BY <3>2, <3>3 DEF UnderWay
      <4> QED BY <2>3, <3>1, <3>3, <4>1, <4>2 DEF LocalOK, Pc
    <3>5. Locals'
      BY <1>1, <2>1, <2>5, <3>4, OneMoves DEF n
    <3>6. ~BudgetExhausted
      BY <2>5 DEF Refused
    <3> QED BY <3>5, <3>6, <1>2, <2>1, OneMoreAsked
  <2>6. CASE Refused(q)
    <3>1. req' = [req EXCEPT ![r] = Idle] /\ health' = health
      BY <1>e, <2>6 DEF Finalize
    <3>2. Shared'
      BY <1>1, <2>1, <3>1 DEF Shared, HealthTypeOK
    <3> QED BY <2>4, <3>1, <3>2
  <2>7. CASE ~Refused(q) /\ mode = "observe"
    <3>1. PICK plan \in Plans(q) :
             req' = [req EXCEPT ![r] = Sending(q, plan, ObservedModel(plan.tier, q.tier), 0, <<>>)]
      BY <1>e, <2>7 DEF Finalize
    <3>2. health' = health
      BY <1>e, <2>7 DEF Finalize
    <3>3. plan.tier \in Tier
      BY <1>1, <2>3, PlansAre DEF Shared
    <3>4. ObservedModel(plan.tier, q.tier) \in Model
      BY <3>3, RequestAssumption DEF ObservedModel
    <3>5. 0 \in 0 .. MaxRetries /\ <<>> \in Seq(Model)
      BY DEF MaxRetries
    <3>6. Locals' /\ OvershootBounded'
      <4> HIDE DEF q
      <4> QED BY <2>5, <2>7, <3>1, <3>4, <3>5
    <3>7. Shared'
      BY <1>1, <2>1, <3>2 DEF Shared, HealthTypeOK
    <3> QED BY <3>6, <3>7
  <2>8. CASE ~Refused(q) /\ mode = "route"
    <3>1. PICK plan \in Plans(q) :
             LET w == plan.piped
                 first == FirstModel(w, plan.tier)
             IN  /\ health' = Asked(w.health, first)
                 /\ \/ first = {} /\ req' = [req EXCEPT ![r] = Idle]
                    \/ \E m \in first :
                          req' = [req EXCEPT ![r] = Sending(q, plan, m, w.retries, w.fallbacks)]
      BY <1>e, <2>8 DEF Finalize
    <3> DEFINE w == plan.piped
               first == FirstModel(w, plan.tier)
    <3>2. plan.tier \in Tier /\ w \in Work
      BY <1>1, <2>3, PlansAre DEF Shared
    <3>3. first \subseteq Model
      BY <3>2, FirstIs
    <3>4. w.health \in [Model -> HealthRow] /\ w.retries \in 0 .. MaxRetries /\ w.fallbacks \in Seq(Model)
      BY <3>2 DEF Work
    <3>5. Shared'
      <4>1. health' \in [Model -> HealthRow]
        BY <3>1, <3>4, AskedIs
      <4> QED BY <1>1, <2>1, <4>1 DEF Shared, HealthTypeOK
    <3>6. Locals' /\ OvershootBounded'
      <4>1. CASE req' = [req EXCEPT ![r] = Idle]
        BY <2>4, <4>1
      <4>2. ASSUME NEW m \in first, req' = [req EXCEPT ![r] = Sending(q, plan, m, w.retries, w.fallbacks)]
            PROVE  Locals' /\ OvershootBounded'
        <5>1. m \in Model
          BY <3>3
        <5> HIDE DEF q, w
        <5> QED BY <2>5, <2>8, <3>4, <4>2, <5>1
      <4> QED BY <3>1, <4>1, <4>2
    <3> QED BY <3>5, <3>6
  <2>9. mode \in {"observe", "route"}
    BY <1>1, RequestAssumption DEF Shared
  <2> QED BY <2>6, <2>7, <2>8, <2>9
<1>f. ASSUME NEW r \in Request, Retry(r) PROVE Shared' /\ Locals' /\ OvershootBounded'
  <2> DEFINE q == req[r]
             n == NextAttempt(q)
  <2>1. /\ q.pc = "sending" /\ req' = [req EXCEPT ![r] = n]
        /\ UNCHANGED <<mode, session, spent, down, health>>
        /\ q.attempt < q.retries
    BY <1>f DEF Retry, Retries
  <2>2. LocalOK(mode, q)
    BY <1>1 DEF Locals
  <2>3. /\ q.kind \in Kind /\ q.tier \in Tier /\ q.tried \in Model /\ q.model \in Model
        /\ q.attempt \in 0 .. MaxRetries /\ q.fallbacks \in Seq(Model) /\ UnderWay(q)
        /\ mode = "route" /\ q.kind.asked # "explicit" => BodyBounded(q.limits, q.tier, q.kind)
    BY <2>1, <2>2 DEF LocalOK
  <2>4. q.attempt + 1 \in 0 .. MaxRetries
    BY <2>1, <2>3 DEF UnderWay, MaxRetries
  <2> DEFINE tried == IF q.attempt + 1 <= Len(q.fallbacks) THEN q.fallbacks[q.attempt + 1] ELSE q.tried
  <2>5. tried \in Model
    <3>1. ASSUME q.attempt + 1 <= Len(q.fallbacks) PROVE q.fallbacks[q.attempt + 1] \in Model
      <4>1. q.attempt + 1 \in 1 .. Len(q.fallbacks)
        BY <3>1, <2>3
      <4> QED BY <4>1, <2>3
    <3> QED BY <3>1, <2>3
  <2>6. n = [pc |-> "sending", kind |-> q.kind, tier |-> q.tier, model |-> q.model, tried |-> tried,
             attempt |-> q.attempt + 1, retries |-> q.retries, fallbacks |-> q.fallbacks,
             limits |-> q.limits, moved |-> q.moved]
    <3> HIDE DEF q
    <3>1. n = [q EXCEPT !.attempt = q.attempt + 1, !.tried = tried]
      BY DEF NextAttempt
    <3> HIDE DEF n, tried
    <3> QED BY <2>1, <2>3, <3>1 DEF UnderWay
  <2>7. LocalOK(mode, n)
    <3> HIDE DEF n, tried
    <3>1. UnderWay(n)
      BY <2>3, <2>6 DEF UnderWay
    <3> QED BY <2>3, <2>4, <2>5, <2>6, <3>1 DEF LocalOK, Pc
  <2>8. n.pc = "sending" /\ n.kind.asked # "explicit" => Automatic(r)
    BY <2>1, <2>6 DEF Automatic
  <2> HIDE DEF n
  <2>9. Shared'
    BY <1>1, <2>1 DEF Shared, HealthTypeOK
  <2>10. Locals' /\ OvershootBounded'
    BY <1>1, <1>2, <1>3, <2>1, <2>7, <2>8, OneMoves, NoneStarts
  <2> QED BY <2>9, <2>10
<1>g. ASSUME NEW r \in Request, Answer(r) PROVE Shared' /\ Locals' /\ OvershootBounded'
  <2> DEFINE q == req[r]
  <2>1. PICK status \in Answers(q.tried) :
           \/ /\ q.kind.asked = "explicit"
              /\ req' = [req EXCEPT ![r] = Idle]
              /\ UNCHANGED spent
           \/ /\ q.kind.asked # "explicit"
              /\ \E c \in Costs(q, status) : spent' = spent + c
              /\ \E entry \in Recorded(health[q.model], status) :
                    req' = [req EXCEPT ![r] = [pc |-> "save", model |-> q.model, update |-> entry]]
    BY <1>g DEF Answer
  <2>2. q.pc = "sending" /\ UNCHANGED <<mode, session, down, health>>
    BY <1>g DEF Answer
  <2>3. LocalOK(mode, q)
    BY <1>1 DEF Locals
  <2>4. q.model \in Model /\ q.tier \in Tier
    BY <2>2, <2>3 DEF LocalOK
  <2>5. CASE q.kind.asked = "explicit"
    <3>1. req' = [req EXCEPT ![r] = Idle] /\ spent' = spent
      BY <2>1, <2>5
    <3>2. Shared'
      BY <1>1, <2>2, <3>1 DEF Shared, HealthTypeOK
    <3>3. Idle.pc # "sending"
      BY DEF Idle
    <3>4. Locals' /\ OvershootBounded'
      BY <1>1, <1>2, <1>3, <2>2, <3>1, <3>3, IdleIs, OneMoves, NoneStarts
    <3> QED BY <3>2, <3>4
  <2>6. CASE q.kind.asked # "explicit"
    <3>1. PICK cost \in Costs(q, status) : spent' = spent + cost
      BY <2>1, <2>6
    <3>2. PICK entry \in Recorded(health[q.model], status) :
             req' = [req EXCEPT ![r] = [pc |-> "save", model |-> q.model, update |-> entry]]
      BY <2>1, <2>6
    <3>3. cost \in Nat /\ cost <= MaxCost
      BY <2>4, CostIs DEF Costs
    <3>4. entry \in Update
      <4>1. health[q.model] \in HealthRow
        BY <1>1, <2>4 DEF Shared, HealthTypeOK
      <4> QED BY <4>1, RecordedIs
    <3> DEFINE n == [pc |-> "save", model |-> q.model, update |-> entry]
    <3>5. LocalOK(mode, n) /\ n.pc # "sending"
      BY <2>4, <3>4 DEF LocalOK, Pc
    <3> HIDE DEF n
    <3>6. req' = [req EXCEPT ![r] = n]
      BY <3>2 DEF n
    <3>7. Locals'
      BY <1>1, <2>2, <3>5, <3>6, OneMoves
    <3>8. r \in InFlight /\ InFlight' = InFlight \ {r}
      <4>1. \A s \in Request : req'[s] = IF s = r THEN n ELSE req[s]
        BY <1>3, <3>6
      <4> QED BY <4>1, <2>2, <2>6, <3>5 DEF InFlight, Automatic
    <3>9. OvershootBounded'
      BY <1>1, <1>2, <3>1, <3>3, <3>8, OneAnswered
    <3>10. Shared'
      <4>1. spent' \in Nat
        BY <1>2, <3>1, <3>3
      <4> QED BY <1>1, <2>2, <4>1 DEF Shared, HealthTypeOK
    <3> QED BY <3>7, <3>9, <3>10
  <2> QED BY <2>5, <2>6
<1>h. ASSUME NEW r \in Request, SaveHealth(r) PROVE Shared' /\ Locals' /\ OvershootBounded'
  <2> DEFINE q == req[r]
  <2>1. /\ q.pc = "save" /\ health' = [health EXCEPT ![q.model] = Overwritten(health[q.model], q.update)]
        /\ req' = [req EXCEPT ![r] = Idle] /\ UNCHANGED <<mode, session, spent, down>>
    BY <1>h DEF SaveHealth
  <2>2. LocalOK(mode, q)
    BY <1>1 DEF Locals
  <2>3. q.model \in Model /\ q.update \in Update
    BY <2>1, <2>2 DEF LocalOK
  <2>4. Shared'
    <3>1. health[q.model] \in HealthRow
      BY <1>1, <2>3 DEF Shared, HealthTypeOK
    <3>2. Overwritten(health[q.model], q.update) \in HealthRow
      BY <2>3, <3>1, OverwrittenIs
    <3>3. health' \in [Model -> HealthRow]
      BY <1>1, <2>1, <2>3, <3>2 DEF Shared, HealthTypeOK
    <3> QED BY <1>1, <2>1, <3>3 DEF Shared, HealthTypeOK
  <2>5. Idle.pc # "sending"
    BY DEF Idle
  <2>6. Locals' /\ OvershootBounded'
    BY <1>1, <1>2, <1>3, <2>1, <2>5, IdleIs, OneMoves, NoneStarts
  <2> QED BY <2>4, <2>6
<1>i. ASSUME UNCHANGED <<mode, req, session, spent>>, down' \subseteq Model, health' \in [Model -> HealthRow]
      PROVE  Shared' /\ Locals' /\ OvershootBounded'
  <2>1. Shared' /\ Locals'
    BY <1>1, <1>i DEF Shared, HealthTypeOK, Locals
  <2>2. InFlight' \subseteq InFlight
    BY <1>i DEF InFlight, Automatic
  <2>3. OvershootBounded'
    <3>1. spent' \in Nat /\ spent' <= spent
      BY <1>2, <1>i
    <3> QED BY <1>1, <1>2, <2>2, <3>1, NoMoreSpent
  <2> QED BY <2>1, <2>3
<1>j. ASSUME NEW m \in Model, ProviderFails(m) PROVE Shared' /\ Locals' /\ OvershootBounded'
  <2>1. UNCHANGED <<mode, req, session, spent, health>> /\ down' = down \cup {m}
    BY <1>j DEF ProviderFails
  <2>2. down' \subseteq Model /\ health' \in [Model -> HealthRow]
    BY <1>1, <2>1 DEF Shared, HealthTypeOK
  <2> QED BY <1>i, <2>1, <2>2
<1>k. ASSUME Cool PROVE Shared' /\ Locals' /\ OvershootBounded'
  <2>1. UNCHANGED <<mode, req, session, spent, down>> /\ HealthTick
    BY <1>k DEF Cool
  <2>2. down' \subseteq Model /\ health' \in [Model -> HealthRow]
    BY <1>1, <2>1, TickIs DEF Shared, HealthTypeOK
  <2> QED BY <1>i, <2>1, <2>2
<1>l. ASSUME MonthEnds PROVE Shared' /\ Locals' /\ OvershootBounded'
  <2>1. spent > 0 /\ spent' = 0 /\ UNCHANGED <<mode, req, session, down, health>>
    BY <1>l DEF MonthEnds
  <2>2. Shared' /\ Locals'
    BY <1>1, <2>1 DEF Shared, HealthTypeOK, Locals
  <2>3. InFlight' \subseteq InFlight /\ spent' \in Nat /\ spent' <= spent
    BY <1>2, <2>1 DEF InFlight, Automatic
  <2>4. OvershootBounded'
    BY <1>1, <1>2, <2>3, NoMoreSpent
  <2> QED BY <2>2, <2>4
<1>m. CASE UNCHANGED requestVars
  <2>1. UNCHANGED <<mode, req, session, spent, down, health>>
    BY <1>m DEF requestVars
  <2>2. down' \subseteq Model /\ health' \in [Model -> HealthRow]
    BY <1>1, <2>1 DEF Shared, HealthTypeOK
  <2> QED BY <1>i, <2>1, <2>2
<1> QED BY <1>a, <1>b, <1>c, <1>d, <1>e, <1>f, <1>g, <1>h, <1>j, <1>k, <1>l, <1>m DEF RequestNext, Serve

\* In configurations in which a higher tier may write as much as a lower one, the
\* output of a request and the month's overspending are bounded as RequestInv says,
\* whatever sessions, policies, pipelines, retries and replicas do.
THEOREM RequestsWithinLimits ==
    ASSUME OutputsRise
    PROVE  RequestSpec => []RequestInv
<1>1. RequestIInv => RequestInv
  BY DEF RequestIInv
<1> QED BY <1>1, RequestInitial, RequestStep, PTL DEF RequestSpec
=============================================================================
