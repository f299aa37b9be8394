--------------------------- MODULE CapabilityStore ---------------------------
(***************************************************************************)
(* The broker's table of capabilities (execution-broker/src/broker/        *)
(* store.py).  Every method holds the store's lock for one SQL statement,  *)
(* so every operation here is one atomic step on `caps'.  The operations   *)
(* leave the rest of the system alone; the modules that call them say what *)
(* else their step changes.                                                *)
(***************************************************************************)
EXTENDS Integers

CONSTANTS
    Nonce,      \* the nonces token_urlsafe can return; one is never drawn twice
    Binding,    \* what a row is bound to: feature, digest, user and session
    NoRow,      \* the value of a nonce that has no row in the table
    TTL,        \* CAPABILITY_TTL_SECONDS, in ticks of the clock
    PurgeAfter  \* how long an expired row is kept, in ticks

ASSUME TTLAssumption == TTL \in Nat \ {0}
ASSUME PurgeAssumption == PurgeAfter \in Nat

VARIABLES
    caps,  \* the table: nonce -> row
    now    \* time.time(); the approver runs on the same host and reads it too

storeVars == <<caps, now>>

(***************************************************************************)
(* `approved' and `consumed' are INTEGER columns that hold 0 or 1.         *)
(***************************************************************************)
Row == [bound : Binding, generation : Nat, expires_at : Nat,
        approved : {0, 1}, consumed : {0, 1}]

ASSUME NoRowAssumption == NoRow \notin Row

StoreTypeOK ==
    /\ caps \in [Nonce -> Row \cup {NoRow}]
    /\ now \in Nat

StoreInit ==
    /\ caps = [n \in Nonce |-> NoRow]
    /\ now = 0

-----------------------------------------------------------------------------
(* Tests on a row *)

\* The row exists and every bound column has the value the caller gives.
Bound(n, b, g) ==
    /\ caps[n] # NoRow
    /\ caps[n].bound = b
    /\ caps[n].generation = g

\* Neither approved, nor consumed, nor expired: what approve, cancel_bound and
\* the polling loop of consume require.
Pending(n, b, g) ==
    /\ Bound(n, b, g)
    /\ caps[n].approved = 0
    /\ caps[n].consumed = 0
    /\ caps[n].expires_at > now

\* Claimable if rows already claimed were not excluded.
ClaimableAgain(n, b, g) ==
    /\ Bound(n, b, g)
    /\ caps[n].approved = 1
    /\ caps[n].expires_at > now

\* Claimable if the approved column were not tested.
ClaimableUnapproved(n, b, g) ==
    /\ Bound(n, b, g)
    /\ caps[n].consumed = 0
    /\ caps[n].expires_at > now

\* The WHERE clause of the UPDATE in consume.
Claimable(n, b, g) ==
    /\ Bound(n, b, g)
    /\ caps[n].approved = 1
    /\ caps[n].consumed = 0
    /\ caps[n].expires_at > now

-----------------------------------------------------------------------------
(* Operations *)

PurgeExpired(rows) ==
    [n \in Nonce |->
        IF rows[n] # NoRow /\ rows[n].expires_at < now - PurgeAfter
        THEN NoRow
        ELSE rows[n]]

Issue(n, b, g) ==
    caps' = PurgeExpired([caps EXCEPT ![n] =
                [bound |-> b, generation |-> g, expires_at |-> now + TTL,
                 approved |-> 0, consumed |-> 0]])

Approve(n, b, g) ==
    /\ Pending(n, b, g)
    /\ caps' = [caps EXCEPT ![n].approved = 1]

CancelBound(n, b, g) ==
    /\ Pending(n, b, g)
    /\ caps' = [caps EXCEPT ![n].consumed = 1]

\* The UPDATE ... RETURNING of consume.
ClaimRow(n, b, g) ==
    /\ Claimable(n, b, g)
    /\ caps' = [caps EXCEPT ![n].consumed = 1]

\* cancel that forgets the row instead of marking it.
CancelNothing(n) == caps' = caps

\* cancel updates whatever row there is, and no row at all when there is none.
Cancel(n) ==
    caps' = [caps EXCEPT ![n] =
                IF @ = NoRow THEN NoRow ELSE [@ EXCEPT !.consumed = 1]]

CancelGeneration(g) ==
    caps' = [n \in Nonce |->
                IF caps[n] = NoRow \/ caps[n].generation = g
                THEN caps[n]
                ELSE [caps[n] EXCEPT !.consumed = 1]]
=============================================================================
