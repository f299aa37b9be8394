--------------------------- MODULE ExecutionApproval ---------------------------
(***************************************************************************)
(* The approval-gated execution protocol: a client (the Hermes plugin)     *)
(* prepares, executes and cancels operations at a broker; the broker       *)
(* submits each prepared operation to the approver, which shows it to the  *)
(* operator in Telegram, records the operator's decision, and posts it     *)
(* back, signed; the broker runs the operation once for one approval       *)
(* (execution-broker/src/broker/server.py, with store.py and approver.py   *)
(* through the modules extended here).                                     *)
(*                                                                         *)
(* Every HTTP request is a thread.  The client may call /execute and       *)
(* /cancel with any capability it was told of, any number of times and     *)
(* with any binding: what the plugin adds on its side is defence in depth, *)
(* and the broker does not rely on it.                                     *)
(***************************************************************************)
EXTENDS ExecutionAdmin, TelegramApprover, FiniteSets

CONSTANTS
    Asked,          \* the operation the call that is given nonce n asks for
    FeatureOf,      \* the feature an operation belongs to
    UserOf,         \* the user an operation is prepared for
    Thread,         \* threads that serve /execute
    MAX_CONCURRENT, \* permits of the _slots semaphore
    CutReplies,     \* TRUE: a connection may break in the middle of a reply
    MaxNow,         \* bound: the clock stops there
    MaxFaults       \* bound: timeouts, lost connections, restarts

ASSUME AskedAssumption ==
    /\ Asked \in [Nonce -> Binding]
    /\ FeatureOf \in [Binding -> Feature]
    /\ UserOf \in [Binding -> User]

ASSUME SlotsAssumption == MAX_CONCURRENT \in Nat \ {0}

ASSUME ThreadAssumption == IsFiniteSet(Thread)

ASSUME BoundsAssumption == MaxNow \in Nat /\ MaxFaults \in Nat

VARIABLES
    prepare,     \* nonce -> progress of the /prepare call it was drawn for
    submission,  \* nonce -> progress of the /request call about it
    posts,       \* decision POSTs on their way to the broker
    accepting,   \* decision POSTs whose target, generation and feature passed
    calls,       \* thread -> the /execute call it serves
    slots,       \* permits left in the _slots semaphore
    claims,      \* history: the nonces whose row consume has returned
    runs,        \* history: nonce -> how often its operation was run
    faults       \* failures so far, for the bound

callVars == <<prepare, submission, posts, accepting, calls, slots>>
history == <<claims, runs>>
vars == <<adminVars, storeVars, approverVars, callVars, history, faults>>

(***************************************************************************)
(* prepare: "issued" the row is inserted; "submitting" _submit waits for   *)
(* the approver; "prepared" and "failed" are the two answers; "lost" the   *)
(* broker died first, or failed with an exception: no answer names the row.*)
(*                                                                         *)
(* submission: "sent" on the network; "created" the row exists and         *)
(* sendMessage is called; "shown" Telegram has the message; "ok" and       *)
(* "error" are the two answers.  It keeps the generation the broker sent.  *)
(***************************************************************************)
PrepareState == {"none", "issued", "submitting", "prepared", "failed", "lost"}

Submission ==
    [state : {"none", "sent", "created", "shown", "ok", "error"},
     generation : Nat]

Post == [nonce : Nonce, bound : Binding, generation : Nat,
         decision : {"approved", "denied"}]

NoCall == [state |-> "idle", nonce |-> NoRow, bound |-> NoRow, generation |-> 0]

Call == [state : {"idle", "waiting", "claimed", "running"},
         nonce : Nonce \cup {NoRow}, bound : Binding \cup {NoRow},
         generation : Nat]

TypeOK ==
    /\ AdminTypeOK
    /\ StoreTypeOK
    /\ ApproverTypeOK
    /\ prepare \in [Nonce -> PrepareState]
    /\ submission \in [Nonce -> Submission]
    /\ posts \subseteq Post
    /\ accepting \subseteq Post
    /\ calls \in [Thread -> Call]
    /\ slots \in 0..MAX_CONCURRENT
    /\ claims \subseteq Nonce
    /\ runs \in [Nonce -> Nat]
    /\ faults \in Nat

Init ==
    /\ AdminInit
    /\ StoreInit
    /\ ApproverInit
    /\ prepare = [n \in Nonce |-> "none"]
    /\ submission = [n \in Nonce |-> [state |-> "none", generation |-> 0]]
    /\ posts = {}
    /\ accepting = {}
    /\ calls = [t \in Thread |-> NoCall]
    /\ slots = MAX_CONCURRENT
    /\ claims = {}
    /\ runs = [n \in Nonce |-> 0]
    /\ faults = 0

Enabled(b) == FeatureOf[b] \in features

Fault == faults < MaxFaults /\ faults' = faults + 1

-----------------------------------------------------------------------------
(* /prepare, at the broker *)

\* The checks passed and the row is inserted under the generation read now.
\* (The clock's bound leaves room for the row to expire.)
Prepare(n) ==
    /\ prepare[n] = "none"
    /\ Enabled(Asked[n])
    /\ now + TTL <= MaxNow
    /\ Issue(n, Asked[n], generation)
    /\ prepare' = [prepare EXCEPT ![n] = "issued"]
    /\ UNCHANGED <<adminVars, now, approverVars, submission, posts, accepting,
                   calls, slots, history, faults>>

\* The payload is built with the generation read a second time.
Submit(n) ==
    /\ prepare[n] = "issued"
    /\ prepare' = [prepare EXCEPT ![n] = "submitting"]
    /\ submission' = [submission EXCEPT ![n] =
                        [state |-> "sent", generation |-> generation]]
    /\ UNCHANGED <<adminVars, storeVars, approverVars, posts, accepting, calls,
                   slots, history, faults>>

\* The approver refused: _prepare cancels the row it issued.
PrepareFails(n) ==
    /\ Cancel(n)
    /\ prepare' = [prepare EXCEPT ![n] = "failed"]
    /\ UNCHANGED <<adminVars, now, approverVars, submission, posts, accepting,
                   calls, slots, history>>

PrepareAnswered(n) ==
    /\ prepare[n] = "submitting"
    /\ \/ /\ submission[n].state = "ok"
          /\ prepare' = [prepare EXCEPT ![n] = "prepared"]
          /\ UNCHANGED <<adminVars, storeVars, approverVars, submission, posts,
                         accepting, calls, slots, history>>
       \/ /\ submission[n].state = "error"
          /\ PrepareFails(n)
    /\ UNCHANGED faults

\* _submit gives up after 20 seconds, or loses the connection, while the
\* approver works on: sendMessage alone may take 35.
SubmitTimesOut(n) ==
    /\ prepare[n] = "submitting"
    /\ Fault
    /\ PrepareFails(n)

\* The approver's answer breaks off in its body: no except clause of _submit or
\* _prepare catches that, the client is answered 500 and the row is not cancelled.
SubmitReplyCut(n) ==
    /\ CutReplies
    /\ prepare[n] = "submitting"
    /\ Fault
    /\ prepare' = [prepare EXCEPT ![n] = "lost"]
    /\ UNCHANGED <<adminVars, storeVars, approverVars, submission, posts,
                   accepting, calls, slots, history>>

-----------------------------------------------------------------------------
(* /request, at the approver *)

SetSubmission(n, state) ==
    submission' = [submission EXCEPT ![n].state = state]

\* validate_submission and the test of the user in submit.
Admissible(n) ==
    /\ submission[n].generation = generation
    /\ UserOf[Asked[n]] \in users

ReceiveRequest(n) ==
    /\ submission[n].state = "sent"
    /\ IF Admissible(n)
       THEN /\ CreateRequest(n, Asked[n], submission[n].generation)
            /\ SetSubmission(n, "created")
       ELSE /\ UNCHANGED request
            /\ SetSubmission(n, "error")
    /\ UNCHANGED <<adminVars, storeVars, prompt, poller, prepare, posts,
                   accepting, calls, slots, history, faults>>

\* Telegram puts the message into the user's chat ...
ShowPrompt(n) ==
    /\ submission[n].state = "created"
    /\ prompt' = [prompt EXCEPT ![n] = 1]
    /\ SetSubmission(n, "shown")
    /\ UNCHANGED <<adminVars, storeVars, request, poller, prepare, posts,
                   accepting, calls, slots, history, faults>>

\* ... and only then does the approver learn that it did.
PromptDelivered(n) ==
    /\ submission[n].state = "shown"
    /\ MarkDelivered(n)
    /\ SetSubmission(n, "ok")
    /\ UNCHANGED <<adminVars, storeVars, prompt, poller, prepare, posts,
                   accepting, calls, slots, history, faults>>

\* sendMessage raises, whether or not Telegram has shown the message.
SendMessageFails(n) ==
    /\ submission[n].state \in {"created", "shown"}
    /\ Fault
    /\ Discard(n)
    /\ SetSubmission(n, "error")
    /\ UNCHANGED <<adminVars, storeVars, prompt, poller, prepare, posts,
                   accepting, calls, slots, history>>

-----------------------------------------------------------------------------
(* The approver's polling thread *)

DecisionOn(n, d) ==
    [nonce |-> n, bound |-> request[n].bound,
     generation |-> request[n].generation, decision |-> d]

\* _send_decision: the post is on its way and the thread waits for its answer.
SendDecision(n, d) ==
    /\ posts' = posts \cup {DecisionOn(n, d)}
    /\ poller' = [state |-> "waiting", nonce |-> n]

\* _handle_callback: the user presses a button of a prompt he can see.
HandlePress(n, d) ==
    /\ poller.state = "idle"
    /\ prompt[n] = 1
    /\ UserOf[Asked[n]] \in users
    /\ Resolve(n, d)
    /\ SendDecision(n, d)
    /\ UNCHANGED <<adminVars, storeVars, prompt, prepare, submission, accepting,
                   calls, slots, history, faults>>

\* The loop over unresolved_decisions that follows every getUpdates.
RetryDecision(n) ==
    /\ poller.state = "idle"
    /\ UnresolvedDecision(n)
    /\ SendDecision(n, request[n].decision)
    /\ UNCHANGED <<adminVars, storeVars, request, prompt, prepare, submission,
                   accepting, calls, slots, history, faults>>

\* The thread marks the decision granted without looking at the answer.
MarkRegardless ==
    /\ poller.state \in {"accepted", "refused"}
    /\ MarkGranted(poller.nonce)
    /\ poller' = PollerIdle
    /\ UNCHANGED <<adminVars, storeVars, prompt, callVars, history, faults>>

\* The answer has arrived: only an accepted decision is marked granted.
DecisionAnswered ==
    /\ poller.state \in {"accepted", "refused"}
    /\ IF poller.state = "accepted" THEN MarkGranted(poller.nonce)
                                    ELSE UNCHANGED request
    /\ poller' = PollerIdle
    /\ UNCHANGED <<adminVars, storeVars, prompt, callVars, history, faults>>

\* A timeout that is taken for an accepted decision.
TimeoutGrants ==
    /\ poller.state \in {"waiting", "accepted", "refused"}
    /\ Fault
    /\ MarkGranted(poller.nonce)
    /\ poller' = PollerIdle
    /\ posts' \in {posts, {p \in posts : p.nonce # poller.nonce}}
    /\ UNCHANGED <<adminVars, storeVars, prompt, prepare, submission, accepting,
                   calls, slots, history>>

\* No answer within 15 seconds: the post was lost, or is still on its way, or
\* was served and its answer lost.
DecisionTimesOut ==
    /\ poller.state \in {"waiting", "accepted", "refused"}
    /\ Fault
    /\ poller' = PollerIdle
    /\ posts' \in {posts, {p \in posts : p.nonce # poller.nonce}}
    /\ UNCHANGED <<adminVars, storeVars, request, prompt, prepare, submission,
                   accepting, calls, slots, history>>

\* A reply that breaks off in its body raises http.client.IncompleteRead, which
\* neither _send_decision, nor _api, nor run catches: the thread ends while the
\* service goes on answering /request and /health.
PollerDies ==
    /\ CutReplies
    /\ poller.state \in {"idle", "accepted", "refused"}
    /\ Fault
    /\ poller' = [state |-> "dead", nonce |-> NoRow]
    /\ UNCHANGED <<adminVars, storeVars, request, prompt, callVars, history>>

ApproverRestart ==
    /\ Fault
    /\ poller' = PollerIdle
    /\ submission' = [n \in Nonce |->
           IF submission[n].state \in {"sent", "created", "shown"}
           THEN [submission[n] EXCEPT !.state = "error"]
           ELSE submission[n]]
    /\ UNCHANGED <<adminVars, storeVars, request, prompt, prepare, posts,
                   accepting, calls, slots, history>>

-----------------------------------------------------------------------------
(* /approval-grant, at the broker *)

Answer(n, result) ==
    poller' = IF poller.state = "waiting" /\ poller.nonce = n
              THEN [poller EXCEPT !.state = result]
              ELSE poller

\* The checks of _accept that precede the store.
CheckDecision(p) ==
    /\ p \in posts
    /\ posts' = posts \ {p}
    /\ IF p.generation = generation /\ Enabled(p.bound)
       THEN /\ accepting' = accepting \cup {p}
            /\ UNCHANGED poller
       ELSE /\ UNCHANGED accepting
            /\ Answer(p.nonce, "refused")
    /\ UNCHANGED <<adminVars, storeVars, request, prompt, prepare, submission,
                   calls, slots, history, faults>>

\* The store is asked to approve for either decision.
ApprovesEither(p) == Approve(p.nonce, p.bound, generation)

\* The store is given the generation read once more, not the decision's own.
DecisionApplies(p) ==
    IF p.decision = "approved"
    THEN Approve(p.nonce, p.bound, generation)
    ELSE CancelBound(p.nonce, p.bound, generation)

ApplyDecision(p) ==
    /\ p \in accepting
    /\ accepting' = accepting \ {p}
    /\ \/ /\ DecisionApplies(p)
          /\ Answer(p.nonce, "accepted")
       \/ /\ ~Pending(p.nonce, p.bound, generation)
          /\ UNCHANGED caps
          /\ Answer(p.nonce, "refused")
    /\ UNCHANGED <<adminVars, now, request, prompt, prepare, submission, posts,
                   calls, slots, history, faults>>

-----------------------------------------------------------------------------
(* /execute and /cancel, at the broker *)

\* The thread takes a permit without blocking; the policy generation is read
\* once, here, and is the one every poll of consume compares.
ExecuteBegins(t, n, b) ==
    /\ calls[t].state = "idle"
    /\ prepare[n] = "prepared"
    /\ Enabled(b)
    /\ slots > 0
    /\ slots' = slots - 1
    /\ calls' = [calls EXCEPT ![t] = [state |-> "waiting", nonce |-> n,
                                      bound |-> b, generation |-> generation]]
    /\ UNCHANGED <<adminVars, storeVars, approverVars, prepare, submission,
                   posts, accepting, history, faults>>

Return(t) ==
    /\ calls' = [calls EXCEPT ![t] = NoCall]
    /\ slots' = slots + 1

Wait(t) == calls[t].state = "waiting"

ExecuteClaims(t) ==
    /\ Wait(t)
    /\ ClaimRow(calls[t].nonce, calls[t].bound, calls[t].generation)
    /\ calls' = [calls EXCEPT ![t].state = "claimed"]
    /\ claims' = claims \cup {calls[t].nonce}
    /\ UNCHANGED <<adminVars, now, approverVars, prepare, submission, posts,
                   accepting, slots, runs, faults>>

\* A call that gives up and keeps its permit.
GivesUpWithPermit(t) ==
    /\ Wait(t)
    /\ ~Claimable(calls[t].nonce, calls[t].bound, calls[t].generation)
    /\ ~Pending(calls[t].nonce, calls[t].bound, calls[t].generation)
    /\ calls' = [calls EXCEPT ![t] = NoCall]
    /\ UNCHANGED <<adminVars, storeVars, approverVars, prepare, submission,
                   posts, accepting, slots, history, faults>>

\* A poll finds the row neither claimable nor pending.  The deadline of 300
\* seconds never comes first: the row was issued before the call began.
ExecuteGivesUp(t) ==
    /\ Wait(t)
    /\ ~Claimable(calls[t].nonce, calls[t].bound, calls[t].generation)
    /\ ~Pending(calls[t].nonce, calls[t].bound, calls[t].generation)
    /\ Return(t)
    /\ UNCHANGED <<adminVars, storeVars, approverVars, prepare, submission,
                   posts, accepting, history, faults>>

ExecuteRuns(t) ==
    /\ calls[t].state = "claimed"
    /\ calls' = [calls EXCEPT ![t].state = "running"]
    /\ runs' = [runs EXCEPT ![calls[t].nonce] = @ + 1]
    /\ UNCHANGED <<adminVars, storeVars, approverVars, prepare, submission,
                   posts, accepting, slots, claims, faults>>

\* Either the operation ended, or the image, profile, container or network is
\* not the one that was sealed; the claimed row stays consumed.
ExecuteReturns(t) ==
    /\ calls[t].state \in {"claimed", "running"}
    /\ Return(t)
    /\ UNCHANGED <<adminVars, storeVars, approverVars, prepare, submission,
                   posts, accepting, history, faults>>

ClientCancels(n) ==
    /\ prepare[n] = "prepared"
    /\ Cancel(n)
    /\ UNCHANGED <<adminVars, now, approverVars, callVars, history, faults>>

\* The process dies and starts again: its threads and permits are gone, the
\* table stays, and rows of another generation than the file's are consumed.
BrokerRestart ==
    /\ Fault
    /\ CancelGeneration(generation)
    /\ prepare' = [n \in Nonce |->
           IF prepare[n] \in {"issued", "submitting"} THEN "lost" ELSE prepare[n]]
    /\ posts' = {}
    /\ accepting' = {}
    /\ calls' = [t \in Thread |-> NoCall]
    /\ slots' = MAX_CONCURRENT
    /\ poller' = IF poller.state = "waiting" THEN PollerIdle ELSE poller
    /\ UNCHANGED <<adminVars, now, request, prompt, submission, history>>

-----------------------------------------------------------------------------

Tick ==
    /\ now < MaxNow
    /\ now' = now + 1
    /\ UNCHANGED <<adminVars, caps, approverVars, callVars, history, faults>>

PolicyChanges ==
    /\ \/ /\ \E a \in Admin : AdminStep(a) \/ WriteGeneration(a)
          /\ UNCHANGED faults
       \/ (AdminRestart \/ \E a \in Admin : MutationFails(a)) /\ Fault
    /\ UNCHANGED <<storeVars, approverVars, callVars, history>>

Broker ==
    \/ \E n \in Nonce :
        Prepare(n) \/ Submit(n) \/ PrepareAnswered(n) \/ SubmitTimesOut(n)
            \/ SubmitReplyCut(n)
    \/ \E n \in Nonce : ClientCancels(n)
    \/ \E p \in posts : CheckDecision(p)
    \/ \E p \in accepting : ApplyDecision(p)
    \/ \E t \in Thread, n \in Nonce, b \in Binding : ExecuteBegins(t, n, b)
    \/ \E t \in Thread : ExecuteClaims(t) \/ ExecuteGivesUp(t)
                            \/ ExecuteRuns(t) \/ ExecuteReturns(t)
    \/ BrokerRestart

Approver ==
    \/ \E n \in Nonce : ReceiveRequest(n) \/ ShowPrompt(n)
                            \/ PromptDelivered(n) \/ SendMessageFails(n)
    \/ \E n \in Nonce, d \in {"approved", "denied"} : HandlePress(n, d)
    \/ \E n \in Nonce : RetryDecision(n)
    \/ DecisionAnswered
    \/ DecisionTimesOut
    \/ PollerDies
    \/ ApproverRestart

Next == Broker \/ Approver \/ PolicyChanges \/ Tick

Spec == Init /\ [][Next]_vars

-----------------------------------------------------------------------------
(* Safety *)

\* One approval runs its operation at most once, whatever the client calls and
\* whichever of the parties restarts: the claim in consume is the only gate.
RunsAtMostOnce == \A n \in Nonce : runs[n] <= 1

\* What runs is the operation the approver has on record for that capability,
\* and its user approved it there: three tables and two messages agree.
RunsAsApproved ==
    \A t \in Thread :
        calls[t].state \in {"claimed", "running"} =>
            /\ request[calls[t].nonce] # NoRow
            /\ request[calls[t].nonce].decision = "approved"
            /\ request[calls[t].nonce].bound = calls[t].bound
            /\ caps[calls[t].nonce] # NoRow => caps[calls[t].nonce].consumed = 1

\* The approver stops retrying a decision only when the broker has applied it:
\* the broker's row is approved, or denied and spent, or gone.
GrantedMeansApplied ==
    \A n \in Nonce :
        (request[n] # NoRow /\ request[n].granted = 1 /\ caps[n] # NoRow) =>
            IF request[n].decision = "approved" THEN caps[n].approved = 1
                                                ELSE caps[n].consumed = 1

\* A capability whose /prepare answered with an error can never run, even when
\* its prompt reached the user and he approves it before or after the answer.
FailedPrepareIsDead ==
    \A n \in Nonce :
        prepare[n] = "failed" => caps[n] = NoRow \/ caps[n].consumed = 1

\* A row that is approved carries the binding the approver showed to the user, who
\* approved it: the broker's table never gets ahead of the approver's.
GrantMatchesPrompt ==
    \A n \in Nonce :
        (caps[n] # NoRow /\ caps[n].approved = 1) =>
            /\ request[n] # NoRow
            /\ request[n].decision = "approved"
            /\ request[n].bound = caps[n].bound

\* Every permit is either free or held by one call in progress.
Busy == {t \in Thread : calls[t].state # "idle"}

PermitsAccounted == slots + Cardinality(Busy) = MAX_CONCURRENT

\* No step takes a decision of the user back or turns it into the other one.
DecisionIsFinal ==
    [][\A n \in Nonce :
        (request[n] # NoRow /\ request[n].decision # "pending") =>
            /\ request'[n] # NoRow
            /\ request'[n].decision = request[n].decision]_vars

\* What the guide says of a feature policy that is saved: a claim that succeeds finds
\* its feature enabled, or a change still on its way.  It does not hold: a call reads
\* the features once, before it waits for the approval, and the claim does not.
DisablingIsImmediate ==
    [][\A t \in Thread :
        (/\ calls[t].state = "waiting" /\ calls'[t].state = "claimed"
         /\ \A a \in Admin : mutation[a].step = "idle") => Enabled(calls[t].bound)]_vars

-----------------------------------------------------------------------------
(* The inductive invariant *)

Spent(n) == caps[n] = NoRow \/ caps[n].consumed = 1

Decided(n) == request[n] # NoRow /\ request[n].decision # "pending"

\* The broker's row shows the effect of the decision on record, or is gone.
Applied(n) ==
    caps[n] # NoRow =>
        IF request[n].decision = "approved" THEN caps[n].approved = 1
                                            ELSE caps[n].consumed = 1

\* A request's row is created once: the submission is sent once, and there is no
\* row before the approver has received it.
SubmittedOnce ==
    \A n \in Nonce :
        /\ prepare[n] \in {"none", "issued"} => submission[n].state = "none"
        /\ submission[n].state \in {"none", "sent"} => request[n] = NoRow

\* A decision under way is the one on record.
PostsOnRecord ==
    \A p \in posts \cup accepting :
        /\ request[p.nonce] # NoRow
        /\ p = [nonce |-> p.nonce, bound |-> request[p.nonce].bound,
                generation |-> request[p.nonce].generation,
                decision |-> request[p.nonce].decision]

\* A claimed row stays spent: the table never gets it back.
ClaimsSpent ==
    \A n \in claims : prepare[n] = "prepared" /\ Spent(n)

\* A call is about a capability its client was told of.
CallsKnown ==
    \A t \in Thread :
        calls[t].state # "idle" =>
            calls[t].nonce \in Nonce /\ prepare[calls[t].nonce] = "prepared"

\* What a call past its claim may rely on.
CallsClaimed ==
    \A t \in Thread :
        calls[t].state \in {"claimed", "running"} =>
            /\ calls[t].nonce \in claims
            /\ Decided(calls[t].nonce)
            /\ request[calls[t].nonce].decision = "approved"
            /\ request[calls[t].nonce].bound = calls[t].bound

\* A claim has one owner, and only a claimed operation has run.
OneClaimant ==
    /\ \A t, u \in Thread :
        (/\ calls[t].state = "claimed"
         /\ calls[u].state = "claimed"
         /\ calls[t].nonce = calls[u].nonce) => t = u
    /\ \A t \in Thread :
        calls[t].state = "claimed" => runs[calls[t].nonce] = 0
    /\ \A n \in Nonce : n \notin claims => runs[n] = 0

\* The polling thread believes only answers that are true.
AnswersTrue ==
    /\ poller.state \in {"waiting", "accepted", "refused"} =>
            poller.nonce \in Nonce /\ Decided(poller.nonce)
    /\ poller.state = "accepted" => Applied(poller.nonce)

GrantedApplied ==
    \A n \in Nonce :
        (request[n] # NoRow /\ request[n].granted = 1) =>
            Decided(n) /\ Applied(n)

IInv ==
    /\ TypeOK
    /\ SubmittedOnce
    /\ PostsOnRecord
    /\ GrantMatchesPrompt
    /\ ClaimsSpent
    /\ CallsKnown
    /\ CallsClaimed
    /\ OneClaimant
    /\ AnswersTrue
    /\ GrantedApplied
    /\ FailedPrepareIsDead
    /\ RunsAtMostOnce
    /\ PermitsAccounted

-----------------------------------------------------------------------------
(* Liveness *)

(***************************************************************************)
(* Time passes, and a thread that serves /execute goes on polling and,     *)
(* because every engine call has a timeout, its operation ends.            *)
(***************************************************************************)
CallFairness ==
    /\ WF_vars(Tick)
    /\ \A t \in Thread :
        /\ WF_vars(ExecuteClaims(t) \/ ExecuteGivesUp(t))
        /\ WF_vars(ExecuteRuns(t) \/ ExecuteReturns(t))

CallSpec == Spec /\ CallFairness

\* Calls that wait for an approval that never comes hold their permits only
\* until their capabilities expire: the broker never refuses for ever.
APermitComesBack == (slots = 0) ~> (slots > 0)

(***************************************************************************)
(* The polling thread goes through unresolved_decisions after every        *)
(* getUpdates, so each of them gets its turn again and again; the broker   *)
(* serves the requests that reach it.  Time need not pass: expiry is no    *)
(* excuse here.                                                            *)
(***************************************************************************)
DeliveryFairness ==
    /\ WF_vars(DecisionAnswered)
    /\ \A n \in Nonce : SF_vars(RetryDecision(n))
    /\ WF_vars(\E p \in posts : CheckDecision(p))
    /\ WF_vars(\E p \in accepting : ApplyDecision(p))

DeliverySpec == Spec /\ DeliveryFairness

\* The broker has nothing left to learn from the decision on n: its row is
\* resolved, expired or gone, or the policy refuses the decision.
Landed(n) ==
    \/ ~Pending(n, request[n].bound, request[n].generation)
    \/ request[n].generation # generation
    \/ ~Enabled(request[n].bound)

\* A decision the approver has recorded reaches the broker, through lost posts,
\* lost answers and restarts of either side: unresolved_decisions is retried.
EveryDecisionLands ==
    \A n \in Nonce :
        (request[n] # NoRow /\ request[n].decision # "pending") ~>
            (request[n] # NoRow /\ Landed(n))

-----------------------------------------------------------------------------
(* Refinement *)

\* Where the grant of a capability stands, read off the broker's table.
GrantState(n) ==
    CASE prepare[n] = "none" -> "unissued"
      [] prepare[n] # "none" /\ n \in claims -> "claimed"
      [] prepare[n] # "none" /\ n \notin claims ->
            IF caps[n] = NoRow THEN "void"
            ELSE IF caps[n].consumed = 1 \/ caps[n].expires_at <= now THEN "void"
            ELSE IF caps[n].approved = 1 THEN "approved" ELSE "pending"

\* What its user decided, read off the approver's table.
Verdict(n) ==
    IF request[n] = NoRow \/ request[n].decision = "pending"
    THEN "none" ELSE request[n].decision

Grant == INSTANCE OneTimeGrant WITH
            grant <- [n \in Nonce |-> GrantState(n)],
            verdict <- [n \in Nonce |-> Verdict(n)]

\* The protocol keeps the promise of OneTimeGrant, through every interleaving,
\* timeout, lost answer and restart.
ImplementsOneTimeGrant == Grant!Spec
=============================================================================
