----------------------------- MODULE StickySession -----------------------------
(***************************************************************************)
(* One session in the two stores of smart_router/database.py, used by      *)
(* concurrent calls of resolve and reset.  RouteStore does the whole of    *)
(* resolve in one SQLite transaction under a lock of the process.          *)
(* RedisRouteStore reads and writes the row in two commands while it holds *)
(* a Redis lock that expires after LockTimeout, finished or not, and that  *)
(* reset does not take.  A call reads the clock before it waits.           *)
(***************************************************************************)
EXTENDS StickyRules

CONSTANTS
    Call,           \* threads of the router that use the session
    Proposable,     \* the tiers that are proposed for its turns
    SessionTTL,     \* session_ttl_seconds, in ticks
    MaxSessionAge,  \* max_session_age_seconds
    LockTimeout,    \* SMART_ROUTER_REDIS_LOCK_TIMEOUT
    LastTick,       \* the bound on the clock
    NoRow,          \* no row in the store
    Free            \* the lock has no owner

ASSUME StickyAssumption ==
    /\ Proposable \subseteq Tier
    /\ SessionTTL \in Nat \ {0} /\ MaxSessionAge \in Nat \ {0}
    /\ LockTimeout \in Nat \ {0} /\ LastTick \in Nat
    /\ Free \notin Call

VARIABLES
    clock,    \* time.time()
    backend,  \* "sqlite" or "redis", as create_route_store chose
    row,      \* the session's row
    lock,     \* the Redis lock: who took it and until when it holds
    calls,    \* call -> what it is doing
    overrun   \* a call has worked on after its lock expired

stickyVars == <<clock, backend, row, lock, calls, overrun>>

Row == [tier : Tier, lower : 0 .. DemotionTurns - 1,
        created_at : 0 .. LastTick, expires_at : Nat]

StickyTypeOK ==
    /\ clock \in 0 .. LastTick
    /\ backend \in {"sqlite", "redis"}
    /\ row \in Row \cup {NoRow}
    /\ lock.owner \in Call \cup {Free} /\ lock.until \in Nat
    /\ DOMAIN calls = Call
    /\ \A c \in Call :
          /\ calls[c].pc \in {"idle", "waiting", "read", "written", "done"}
          /\ calls[c].pc \in {"waiting", "read", "written", "done"} =>
                calls[c].proposed \in Tier /\ calls[c].at \in 0 .. LastTick
          /\ calls[c].pc = "read" => calls[c].row \in Row \cup {NoRow}
          /\ calls[c].pc = "done" => calls[c].tier \in Tier
    /\ overrun \in BOOLEAN

StickyInit ==
    /\ clock = 0
    /\ backend \in {"sqlite", "redis"}
    /\ row = NoRow
    /\ lock = [owner |-> Free, until |-> 0]
    /\ calls = [c \in Call |-> [pc |-> "idle"]]
    /\ overrun = FALSE

-----------------------------------------------------------------------------

\* The tests resolve makes before it uses a row.
Expired(stored, at) ==
    \/ stored.expires_at <= at
    \/ stored.created_at + MaxSessionAge <= at

Usable(stored, at) == stored # NoRow /\ ~Expired(stored, at)

\* The Redis store ends a row at the latest when the session is too old; at least
\* one tick is left of a row that is written.
Expiry(created, at) ==
    IF backend = "sqlite" THEN at + SessionTTL
    ELSE at + Larger(1, Smaller(SessionTTL, created + MaxSessionAge - at))

\* The row resolve writes, given the row it read.
Resolved(stored, proposed, at) ==
    IF Usable(stored, at)
    THEN LET turn == Turned(stored.tier, stored.lower, proposed)
         IN  [tier |-> turn.tier, lower |-> turn.lower,
              created_at |-> stored.created_at,
              expires_at |-> Expiry(stored.created_at, at)]
    ELSE [tier |-> proposed, lower |-> 0, created_at |-> at,
          expires_at |-> Expiry(at, at)]

\* What a call answers; `base' is the row it answers from.
Done(c, tier, stored) ==
    [pc |-> "done", proposed |-> calls[c].proposed, at |-> calls[c].at,
     tier |-> tier, base |-> IF Usable(stored, calls[c].at) THEN stored ELSE NoRow]

-----------------------------------------------------------------------------

\* resolve(): the time is taken first.
Ask(c) ==
    /\ calls[c].pc = "idle"
    /\ \E t \in Proposable :
          calls' = [calls EXCEPT ![c] = [pc |-> "waiting", proposed |-> t, at |-> clock]]
    /\ UNCHANGED <<clock, backend, row, lock, overrun>>

\* RouteStore.resolve, from BEGIN IMMEDIATE to the commit.
ResolveInTransaction(c) ==
    LET written == Resolved(row, calls[c].proposed, calls[c].at)
    IN  /\ backend = "sqlite"
        /\ calls[c].pc = "waiting"
        /\ row' = written
        /\ calls' = [calls EXCEPT ![c] = Done(c, written.tier, row)]
        /\ UNCHANGED <<clock, backend, lock, overrun>>

\* A lock nobody checks.
LockIsIgnored == TRUE

LockIsFree == lock.owner = Free \/ lock.until <= clock

\* The lock is taken and the row is read.
LockAndGet(c) ==
    /\ backend = "redis"
    /\ calls[c].pc = "waiting"
    /\ LockIsFree
    /\ lock' = [owner |-> c, until |-> clock + LockTimeout]
    /\ calls' = [calls EXCEPT ![c] = [pc |-> "read", proposed |-> @.proposed, at |-> @.at,
                                      row |-> row, until |-> clock + LockTimeout]]
    /\ UNCHANGED <<clock, backend, row, overrun>>

\* The lock was not given in time, or Redis does not answer, after a SET that it
\* may have done: resolve raises and the request goes on with its own proposal, as
\* one without a session.  The lock is released if Redis answers to that.
GiveUp(c) ==
    /\ backend = "redis"
    /\ calls[c].pc \in {"waiting", "read", "written"}
    /\ calls' = [calls EXCEPT ![c] = [pc |-> "idle"]]
    /\ \/ UNCHANGED lock
       \/ lock.owner = c /\ lock' = [owner |-> Free, until |-> 0]
    /\ UNCHANGED <<clock, backend, row, overrun>>

HoldsLock(c) == lock.owner = c /\ clock < lock.until

\* What the call believes: its time under the lock is not over.
InTime(c) == clock < calls[c].until

\* SET: nothing checks that the lock still holds.
Set(c) ==
    /\ calls[c].pc = "read"
    /\ row' = Resolved(calls[c].row, calls[c].proposed, calls[c].at)
    /\ overrun' = (overrun \/ ~InTime(c))
    /\ calls' = [calls EXCEPT ![c] = [pc |-> "written", proposed |-> @.proposed,
                                      at |-> @.at, row |-> @.row]]
    /\ UNCHANGED <<clock, backend, lock>>

\* The lock is released.  Releasing a lock that expired raises, and the caller
\* falls back to its proposal although the row is written.
Release(c) ==
    /\ calls[c].pc = "written"
    /\ IF HoldsLock(c)
       THEN /\ lock' = [owner |-> Free, until |-> 0]
            /\ calls' = [calls EXCEPT ![c] =
                  Done(c, Resolved(@.row, @.proposed, @.at).tier, @.row)]
       ELSE /\ calls' = [calls EXCEPT ![c] = [pc |-> "idle"]]
            /\ UNCHANGED lock
    /\ UNCHANGED <<clock, backend, row, overrun>>

\* The tier is used and the thread is free for another request.
Use(c) ==
    /\ calls[c].pc = "done"
    /\ calls' = [calls EXCEPT ![c] = [pc |-> "idle"]]
    /\ UNCHANGED <<clock, backend, row, lock, overrun>>

\* reset(): one DELETE, without the lock.
Reset ==
    /\ row # NoRow
    /\ row' = NoRow
    /\ UNCHANGED <<clock, backend, lock, calls, overrun>>

\* purge_expired, or Redis dropping a key whose time is over.
Purge ==
    /\ row # NoRow
    /\ Expired(row, clock)
    /\ row' = NoRow
    /\ UNCHANGED <<clock, backend, lock, calls, overrun>>

StickyTick ==
    /\ clock < LastTick
    /\ clock' = clock + 1
    /\ UNCHANGED <<backend, row, lock, calls, overrun>>

StickyNext ==
    \/ \E c \in Call :
          \/ Ask(c) \/ ResolveInTransaction(c) \/ LockAndGet(c) \/ GiveUp(c)
          \/ Set(c) \/ Release(c) \/ Use(c)
    \/ Reset \/ Purge \/ StickyTick

StickySpec == StickyInit /\ [][StickyNext]_stickyVars

-----------------------------------------------------------------------------

\* RedisRouteStore's comment: the lock "keeps promotion/demotion counters atomic".
\* While a call whose lock has not expired is between reading and writing, nobody
\* else has written the row: it is as the call read it, or has been deleted.
ReadIsCurrent ==
    \A c \in Call :
        calls[c].pc = "read" /\ InTime(c) /\ ~overrun
            => row \in {calls[c].row, NoRow}

\* A session is answered with a tier below the one it stuck to only after the
\* demotion turns have been counted, and never with less than the turn asked for.
NeverBelowProposal ==
    \A c \in Call :
        calls[c].pc = "done" =>
            /\ Rank[calls[c].tier] >= Rank[calls[c].proposed]
            /\ calls[c].base # NoRow /\ Rank[calls[c].tier] < Rank[calls[c].base.tier]
                  => calls[c].base.lower = DemotionTurns - 1

\* No turn is answered from a session older than its greatest age.
NoSessionTooOld ==
    \A c \in Call :
        calls[c].pc = "done" /\ calls[c].base # NoRow
            => calls[c].at < calls[c].base.created_at + MaxSessionAge

\* The tier of a session goes down by a counted demotion, by a session that expired,
\* or by a write that came after its lock had expired.
PromotionSticks ==
    [][row # NoRow /\ row' # NoRow /\ Rank[row'.tier] < Rank[row.tier]
          => \/ row.lower = DemotionTurns - 1
             \/ Expired(row, clock)
             \/ overrun']_stickyVars

\* The turns of a session, whatever the number of routers that serve it.
StickyInv == StickyTypeOK /\ ReadIsCurrent /\ NeverBelowProposal /\ NoSessionTooOld
=============================================================================
