----------------------------- MODULE OneTimeGrant -----------------------------
(***************************************************************************)
(* What the execution brokers promise, with no tables, messages, clocks or *)
(* restarts: an operation is prepared, its user gives one verdict that     *)
(* nothing changes afterwards, a grant becomes usable only after the       *)
(* verdict "approved", it is claimed at most once, and only a claimed one  *)
(* runs, once.  At any time a grant that is not claimed may become void    *)
(* for good.  ExecutionApproval implements this.                           *)
(***************************************************************************)
EXTENDS Naturals

CONSTANT Nonce

VARIABLES
    grant,    \* nonce -> where its grant stands
    verdict,  \* nonce -> what its user decided
    runs      \* nonce -> how often its operation was run

vars == <<grant, verdict, runs>>

TypeOK ==
    /\ grant \in [Nonce ->
                    {"unissued", "pending", "approved", "claimed", "void"}]
    /\ verdict \in [Nonce -> {"none", "approved", "denied"}]
    /\ runs \in [Nonce -> {0, 1}]

Init ==
    /\ grant = [n \in Nonce |-> "unissued"]
    /\ verdict = [n \in Nonce |-> "none"]
    /\ runs = [n \in Nonce |-> 0]

Move(n, from, to) ==
    /\ grant[n] = from
    /\ grant' = [grant EXCEPT ![n] = to]

Issue(n) == Move(n, "unissued", "pending") /\ UNCHANGED <<verdict, runs>>

Decide(n, d) ==
    /\ grant[n] # "unissued"
    /\ verdict[n] = "none"
    /\ verdict' = [verdict EXCEPT ![n] = d]
    /\ UNCHANGED <<grant, runs>>

Approve(n) ==
    /\ verdict[n] = "approved"
    /\ Move(n, "pending", "approved")
    /\ UNCHANGED <<verdict, runs>>

Claim(n) == Move(n, "approved", "claimed") /\ UNCHANGED <<verdict, runs>>

\* Cancellation, denial, expiry or a superseded policy, of several grants at once.
Void(ns) ==
    /\ \A n \in ns : grant[n] \in {"pending", "approved"}
    /\ grant' = [n \in Nonce |-> IF n \in ns THEN "void" ELSE grant[n]]
    /\ UNCHANGED <<verdict, runs>>

Run(n) ==
    /\ grant[n] = "claimed"
    /\ runs[n] = 0
    /\ runs' = [runs EXCEPT ![n] = 1]
    /\ UNCHANGED <<grant, verdict>>

Next ==
    \/ \E n \in Nonce : Issue(n) \/ Approve(n) \/ Claim(n) \/ Run(n)
    \/ \E n \in Nonce, d \in {"approved", "denied"} : Decide(n, d)
    \/ \E ns \in SUBSET Nonce : Void(ns)

Spec == Init /\ [][Next]_vars

\* What a reader takes home: nothing runs without its user's approval.
RunsOnlyApproved == \A n \in Nonce : runs[n] = 1 => verdict[n] = "approved"

\* Why it holds: a grant is approved or claimed only after the verdict "approved",
\* and has run only if it is claimed.
GrantInv ==
    /\ TypeOK
    /\ \A n \in Nonce :
        /\ grant[n] \in {"approved", "claimed"} => verdict[n] = "approved"
        /\ runs[n] = 1 => grant[n] = "claimed"
=============================================================================
