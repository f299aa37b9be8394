--------------------------- MODULE TelegramApprover ---------------------------
(***************************************************************************)
(* The approver's table of approval requests and its polling thread        *)
(* (execution-broker/src/broker/approver.py).  Each store method is one    *)
(* SQL statement under the store's lock, so one step; TelegramApprover     *)
(* calls several of them with network calls in between, and those are      *)
(* separate steps of the module that composes approver and broker.         *)
(*                                                                         *)
(* Telegram itself is external: a prompt that was sent stays in the        *)
(* private chat of its user, who may press its buttons at any time and     *)
(* more than once (updates that were not acknowledged when the approver    *)
(* restarts are delivered again, which is one more press).                 *)
(***************************************************************************)
EXTENDS CapabilityStore

CONSTANT RequestTTL  \* ttl_seconds of _request, in ticks of the clock

ASSUME RequestTTLAssumption == RequestTTL \in Nat \ {0}

VARIABLES
    request,  \* the approval_requests table: capability -> row
    prompt,   \* capability -> 1 once its message is in the user's chat
    poller    \* the thread of TelegramApprover.run

approverVars == <<request, prompt, poller>>

Request == [bound : Binding, generation : Nat, expires_at : Nat,
            decision : {"pending", "approved", "denied"},
            delivered : {0, 1}, granted : {0, 1}]

ASSUME NoRequestAssumption == NoRow \notin Request

(***************************************************************************)
(* poller.state: "idle" between two decisions, "waiting" for the broker's  *)
(* answer about poller.nonce, "accepted" or "refused" when the answer has  *)
(* arrived, and "dead" when an exception that run does not catch has ended *)
(* the thread.                                                             *)
(***************************************************************************)
Poller == [state : {"idle", "waiting", "accepted", "refused", "dead"},
           nonce : Nonce \cup {NoRow}]

PollerIdle == [state |-> "idle", nonce |-> NoRow]

ApproverTypeOK ==
    /\ request \in [Nonce -> Request \cup {NoRow}]
    /\ prompt \in [Nonce -> {0, 1}]
    /\ poller \in Poller

ApproverInit ==
    /\ request = [n \in Nonce |-> NoRow]
    /\ prompt = [n \in Nonce |-> 0]
    /\ poller = PollerIdle

-----------------------------------------------------------------------------
(* ApprovalRequestStore *)

CreateRequest(n, b, g) ==
    request' = [request EXCEPT ![n] =
        [bound |-> b, generation |-> g, expires_at |-> now + RequestTTL,
         decision |-> "pending", delivered |-> 0, granted |-> 0]]

\* mark_delivered updates the row if there is one.
MarkDelivered(n) ==
    request' = [request EXCEPT ![n] =
        IF @ = NoRow THEN NoRow ELSE [@ EXCEPT !.delivered = 1]]

\* discard deletes the row only while it is undecided.
Discard(n) ==
    request' = [request EXCEPT ![n] =
        IF @ # NoRow /\ @.decision = "pending" THEN NoRow ELSE @]

\* Resolvable for rows that were already decided.
ResolvableAgain(n) ==
    /\ request[n] # NoRow
    /\ request[n].delivered = 1
    /\ request[n].expires_at > now

\* The WHERE clause of resolve.
Resolvable(n) ==
    /\ request[n] # NoRow
    /\ request[n].decision = "pending"
    /\ request[n].delivered = 1
    /\ request[n].expires_at > now

Resolve(n, d) ==
    /\ Resolvable(n)
    /\ request' = [request EXCEPT ![n].decision = d]

\* A row unresolved_decisions returns, to be sent to the broker again.
UnresolvedDecision(n) ==
    /\ request[n] # NoRow
    /\ request[n].decision # "pending"
    /\ request[n].granted = 0
    /\ request[n].expires_at > now

\* mark_granted names the decision in its WHERE clause; a decided row keeps it.
MarkGranted(n) ==
    request' = [request EXCEPT ![n] =
        IF @ = NoRow THEN NoRow ELSE [@ EXCEPT !.granted = 1]]
=============================================================================
