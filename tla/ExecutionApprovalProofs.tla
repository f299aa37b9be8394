------------------------ MODULE ExecutionApprovalProofs ------------------------
(***************************************************************************)
(* Safety of the approval protocol for every value of its constants: the   *)
(* inductive invariant IInv and what follows from it, after type           *)
(* correctness and the account of the permits.  What the steps do to the   *)
(* two tables and to the permits is stated once, by StoreOperation,        *)
(* ApproverOperation and PermitStep.                                       *)
(*                                                                         *)
(* The argument: a row of the broker's table is issued once, and from then *)
(* on it only moves towards being approved, spent or gone (RowStep); a     *)
(* request the user has decided keeps its decision (RequestStep); so what  *)
(* a message on the network says of a decision stays true while it         *)
(* travels, and what one table has recorded of the other stays true too.   *)
(*                                                                         *)
(* The same lemma about the admin service, AdminType, serves the policy    *)
(* generation by itself (PolicyInv, for any number of mutations and        *)
(* capabilities), which ends the module.                                   *)
(***************************************************************************)
EXTENDS ExecutionApproval, ExecutionPolicy, FiniteSetTheorems, TLAPS

-----------------------------------------------------------------------------
(* Type correctness *)

\* Every step of the admin service, failed ones and its restart included, keeps
\* the policy files and the progress of its requests well typed.
LEMMA AdminType ==
    ASSUME AdminTypeOK,
           \/ \E a \in Admin : AdminStep(a) \/ WriteGeneration(a) \/ MutationFails(a)
           \/ AdminRestart
    PROVE  AdminTypeOK'
<1>0. /\ features \subseteq Feature /\ users \subseteq User /\ generation \in Nat
      /\ mutation \in [Admin -> Mutation] /\ mutations \in Nat
  BY DEF AdminTypeOK
<1> USE <1>0 DEF Mutation
<1>1. CASE AdminRestart
  BY <1>1 DEF AdminRestart, AdminTypeOK, Idle, Targets, Values, Payload
<1>2. ASSUME NEW a \in Admin, AdminStep(a) \/ WriteGeneration(a) \/ MutationFails(a)
      PROVE  AdminTypeOK'
  <2>1. ASSUME NEW target \in Targets, NEW v \in Values,
               StartMutation(a, target, v)
        PROVE  AdminTypeOK'
    <3>1. features' \subseteq Feature /\ users' \subseteq User
      BY <2>1 DEF StartMutation, Truncate
    <3>2. mutation' \in [Admin -> Mutation]
      BY <2>1 DEF StartMutation
    <3>3. ASSUME NEW x \in Admin
          PROVE  mutation'[x].value \in Payload(mutation'[x].target)
      <4>1. CASE x = a
        <5>1. mutation'[x].value = v /\ mutation'[x].target = target
          BY <4>1, <2>1 DEF StartMutation
        <5>2. v \in Payload(target)
          BY <2>1 DEF StartMutation
        <5>3. QED
          BY <5>1, <5>2
      <4>2. CASE x # a
        BY <4>2, <2>1 DEF StartMutation, AdminTypeOK
      <4>3. QED
        BY <4>1, <4>2
    <3>4. generation' \in Nat /\ mutations' \in Nat
      BY <2>1 DEF StartMutation
    <3>5. QED
      BY <3>1, <3>2, <3>3, <3>4 DEF AdminTypeOK
  <2>2. CASE WriteTarget(a)
    <3>1. features' \subseteq Feature
      BY <2>2 DEF WriteTarget, WriteContent, Overlay, AdminTypeOK, Payload
    <3>2. users' \subseteq User
      BY <2>2 DEF WriteTarget, WriteContent, Overlay, AdminTypeOK, Payload
    <3>3. mutation' \in [Admin -> Mutation]
      BY <2>2 DEF WriteTarget
    <3>4. \A x \in Admin : /\ mutation'[x].value = mutation[x].value
                          /\ mutation'[x].target = mutation[x].target
      BY <2>2 DEF WriteTarget
    <3>5. generation' \in Nat /\ mutations' \in Nat
      BY <2>2 DEF WriteTarget
    <3>6. \A x \in Admin : mutation'[x].value \in Payload(mutation'[x].target)
      BY <3>4 DEF AdminTypeOK
    <3>7. QED
      BY <3>1, <3>2, <3>3, <3>5, <3>6 DEF AdminTypeOK
  <2>3. CASE ReadGeneration(a)
    <3>1. mutation' \in [Admin -> Mutation]
      <4>1. generation + 1 \in Nat
        OBVIOUS
      <4>2. [mutation[a] EXCEPT !.step = "read", !.next = generation + 1]
                \in Mutation
        BY <4>1
      <4>3. mutation' = [mutation EXCEPT ![a] =
                [mutation[a] EXCEPT !.step = "read", !.next = generation + 1]]
        BY <2>3 DEF ReadGeneration
      <4>4. QED
        BY <4>2, <4>3
    <3>2. \A x \in Admin : /\ mutation'[x].value = mutation[x].value
                          /\ mutation'[x].target = mutation[x].target
      BY <2>3 DEF ReadGeneration
    <3>3. \A x \in Admin : mutation'[x].value \in Payload(mutation'[x].target)
      BY <3>2 DEF AdminTypeOK
    <3>4. QED
      BY <2>3, <3>1, <3>3 DEF ReadGeneration, AdminTypeOK
  <2>4. CASE TruncateGeneration(a)
    <3>1. mutation' \in [Admin -> Mutation]
      BY <2>4 DEF TruncateGeneration
    <3>2. \A x \in Admin : /\ mutation'[x].value = mutation[x].value
                          /\ mutation'[x].target = mutation[x].target
      BY <2>4 DEF TruncateGeneration
    <3>3. \A x \in Admin : mutation'[x].value \in Payload(mutation'[x].target)
      BY <3>2 DEF AdminTypeOK
    <3>4. QED
      BY <2>4, <3>1, <3>3 DEF TruncateGeneration, AdminTypeOK
  <2>5. CASE WriteGeneration(a)
    BY <2>5 DEF WriteGeneration, AdminTypeOK, Idle, Targets, Values, Payload
  <2>6. CASE MutationFails(a)
    BY <2>6 DEF MutationFails, AdminTypeOK, Idle, Targets, Values, Payload
  <2>7. QED
    BY <1>2, <2>1, <2>2, <2>3, <2>4, <2>5, <2>6 DEF AdminStep
<1>3. QED
  BY <1>1, <1>2

\* The broker's table stays well typed under every operation of the store.
LEMMA StoreType ==
    ASSUME StoreTypeOK, NEW n \in Nonce, NEW b \in Binding, NEW g \in Nat,
           \/ Issue(n, b, g)
           \/ Approve(n, b, g)
           \/ CancelBound(n, b, g)
           \/ ClaimRow(n, b, g)
           \/ Cancel(n)
           \/ CancelGeneration(g)
           \/ UNCHANGED caps
    PROVE  caps' \in [Nonce -> Row \cup {NoRow}]
<1> USE NoRowAssumption DEF StoreTypeOK, Row
<1>1. CASE Issue(n, b, g)
  BY <1>1, TTLAssumption DEF Issue, PurgeExpired
<1>2. CASE Approve(n, b, g)
  BY <1>2 DEF Approve, Pending, Bound
<1>3. CASE CancelBound(n, b, g)
  BY <1>3 DEF CancelBound, Pending, Bound
<1>4. CASE ClaimRow(n, b, g)
  BY <1>4 DEF ClaimRow, Claimable, Bound
<1>5. CASE Cancel(n)
  BY <1>5 DEF Cancel
<1>6. CASE CancelGeneration(g)
  BY <1>6 DEF CancelGeneration
<1>7. CASE UNCHANGED caps
  BY <1>7
<1>8. QED
  BY <1>1, <1>2, <1>3, <1>4, <1>5, <1>6, <1>7

\* The approver's table stays well typed under every operation of its store.
LEMMA RequestType ==
    ASSUME ApproverTypeOK, now \in Nat,
           NEW n \in Nonce, NEW b \in Binding, NEW g \in Nat,
           NEW d \in {"approved", "denied"},
           \/ CreateRequest(n, b, g)
           \/ MarkDelivered(n)
           \/ Discard(n)
           \/ Resolve(n, d)
           \/ MarkGranted(n)
           \/ UNCHANGED request
    PROVE  request' \in [Nonce -> Request \cup {NoRow}]
<1> USE NoRequestAssumption DEF ApproverTypeOK, Request
<1>1. CASE CreateRequest(n, b, g)
  BY <1>1, RequestTTLAssumption DEF CreateRequest
<1>2. CASE MarkDelivered(n)
  BY <1>2 DEF MarkDelivered
<1>3. CASE Discard(n)
  BY <1>3 DEF Discard
<1>4. CASE Resolve(n, d)
  BY <1>4 DEF Resolve, Resolvable
<1>5. CASE MarkGranted(n)
  BY <1>5 DEF MarkGranted
<1>6. CASE UNCHANGED request
  BY <1>6
<1>7. QED
  BY <1>1, <1>2, <1>3, <1>4, <1>5, <1>6
-----------------------------------------------------------------------------
(* The permits of /execute *)

\* What a step may do to the calls and the permits: nothing, take a permit for an
\* idle thread, give back the permit of a busy one, move a busy one, start again.
PermitStep ==
    \/ UNCHANGED <<calls, slots>>
    \/ \E t \in Thread, c \in Call :
        /\ calls[t].state = "idle" /\ c.state # "idle" /\ slots > 0
        /\ calls' = [calls EXCEPT ![t] = c]
        /\ slots' = slots - 1
    \/ \E t \in Thread :
        /\ calls[t].state # "idle"
        /\ calls' = [calls EXCEPT ![t] = NoCall]
        /\ slots' = slots + 1
    \/ \E t \in Thread, s \in {"claimed", "running"} :
        /\ calls[t].state # "idle"
        /\ calls' = [calls EXCEPT ![t].state = s]
        /\ slots' = slots
    \/ /\ calls' = [t \in Thread |-> NoCall]
       /\ slots' = MAX_CONCURRENT

\* Such a step keeps the account of the permits, and with it their number within
\* the bounds of the semaphore.
LEMMA PermitsKept ==
    ASSUME calls \in [Thread -> Call], slots \in 0..MAX_CONCURRENT,
           PermitsAccounted, PermitStep
    PROVE  /\ PermitsAccounted'
           /\ calls' \in [Thread -> Call]
           /\ slots' \in 0..MAX_CONCURRENT
<1>1. IsFiniteSet(Busy) /\ Cardinality(Busy) \in Nat
  BY ThreadAssumption, FS_Subset, FS_CardinalityType DEF Busy
<1>2. MAX_CONCURRENT \in Nat
  BY SlotsAssumption
<1>3. NoCall \in Call /\ NoCall.state = "idle"
  BY DEF NoCall, Call
<1>4. CASE UNCHANGED <<calls, slots>>
  BY <1>4 DEF PermitsAccounted, Busy
<1>5. ASSUME NEW t \in Thread, NEW c \in Call,
             calls[t].state = "idle", c.state # "idle", slots > 0,
             calls' = [calls EXCEPT ![t] = c], slots' = slots - 1
      PROVE  /\ PermitsAccounted'
             /\ calls' \in [Thread -> Call]
             /\ slots' \in 0..MAX_CONCURRENT
  <2>1. Busy' = Busy \cup {t} /\ t \notin Busy
    BY <1>5 DEF Busy
  <2>2. Cardinality(Busy') = Cardinality(Busy) + 1
    BY <2>1, <1>1, FS_AddElement
  <2>3. slots' \in 0..MAX_CONCURRENT
    BY <1>2, <1>5
  <2>4. QED
    BY <2>2, <2>3, <1>1, <1>2, <1>5 DEF PermitsAccounted
<1>6. ASSUME NEW t \in Thread,
             calls[t].state # "idle",
             calls' = [calls EXCEPT ![t] = NoCall], slots' = slots + 1
      PROVE  /\ PermitsAccounted'
             /\ calls' \in [Thread -> Call]
             /\ slots' \in 0..MAX_CONCURRENT
  <2>1. Busy' = Busy \ {t} /\ t \in Busy
    BY <1>3, <1>6 DEF Busy
  <2>2. IsFiniteSet(Busy') /\ Cardinality(Busy') = Cardinality(Busy) - 1
    BY <2>1, <1>1, FS_RemoveElement
  <2>3. Cardinality(Busy') \in Nat
    BY <2>2, FS_CardinalityType
  <2>4. slots' + Cardinality(Busy') = MAX_CONCURRENT
    BY <2>2, <1>1, <1>2, <1>6 DEF PermitsAccounted
  <2>5. slots' \in 0..MAX_CONCURRENT
    BY <2>3, <2>4, <1>2, <1>6
  <2>6. QED
    BY <2>4, <2>5, <1>3, <1>6 DEF PermitsAccounted
<1>7. ASSUME NEW t \in Thread, NEW s \in {"claimed", "running"},
             calls[t].state # "idle",
             calls' = [calls EXCEPT ![t].state = s], slots' = slots
      PROVE  /\ PermitsAccounted'
             /\ calls' \in [Thread -> Call]
             /\ slots' \in 0..MAX_CONCURRENT
  <2>1. Busy' = Busy
    BY <1>7 DEF Busy, Call
  <2>2. calls' \in [Thread -> Call]
    BY <1>7 DEF Call
  <2>3. QED
    BY <2>1, <2>2, <1>7 DEF PermitsAccounted
<1>8. ASSUME calls' = [t \in Thread |-> NoCall], slots' = MAX_CONCURRENT
      PROVE  /\ PermitsAccounted'
             /\ calls' \in [Thread -> Call]
             /\ slots' \in 0..MAX_CONCURRENT
  <2>1. Busy' = {}
    BY <1>3, <1>8 DEF Busy
  <2>2. Cardinality(Busy') = 0
    BY <2>1, FS_EmptySet
  <2>3. QED
    BY <2>2, <1>2, <1>3, <1>8 DEF PermitsAccounted
<1>9. QED
  BY <1>4, <1>5, <1>6, <1>7, <1>8 DEF PermitStep
-----------------------------------------------------------------------------
(* Type correctness and permits are inductive together *)

\* What TypeOK says of the messages and calls, without the permits.
MessagesTypeOK ==
    /\ prepare \in [Nonce -> PrepareState]
    /\ submission \in [Nonce -> Submission]
    /\ posts \subseteq Post
    /\ accepting \subseteq Post

HistoryTypeOK ==
    /\ claims \subseteq Nonce
    /\ runs \in [Nonce -> Nat]
    /\ faults \in Nat

LEMMA TypeInit == Init => TypeOK /\ PermitsAccounted
<1> SUFFICES ASSUME Init PROVE TypeOK /\ PermitsAccounted
  OBVIOUS
<1>1. AdminTypeOK
  BY GenerationAssumption DEF Init, AdminInit, AdminTypeOK, Mutation, Idle, Targets,
     Values, Payload
<1>2. StoreTypeOK
  BY DEF Init, StoreInit, StoreTypeOK
<1>3. ApproverTypeOK
  BY DEF Init, ApproverInit, ApproverTypeOK, PollerIdle, Poller
<1>4. MessagesTypeOK
  BY DEF Init, MessagesTypeOK, PrepareState, Submission
<1>5. calls \in [Thread -> Call] /\ slots \in 0..MAX_CONCURRENT
  BY SlotsAssumption DEF Init, NoCall, Call
<1>6. HistoryTypeOK
  BY DEF Init, HistoryTypeOK
<1>7. PermitsAccounted
  <2>1. Busy = {}
    BY DEF Init, Busy, NoCall
  <2>2. QED
    BY <2>1, FS_EmptySet, SlotsAssumption DEF Init, PermitsAccounted
<1>8. QED
  BY <1>1, <1>2, <1>3, <1>4, <1>5, <1>6, <1>7 DEF TypeOK, MessagesTypeOK, HistoryTypeOK

\* Every step takes, gives back or keeps permits as PermitStep says.
LEMMA StepMovesPermits ==
    ASSUME TypeOK, Next
    PROVE  PermitStep
<1> USE DEF TypeOK
<1>1. CASE Approver
  BY <1>1 DEF Approver, ReceiveRequest, ShowPrompt, PromptDelivered,
     SendMessageFails, HandlePress, RetryDecision, DecisionAnswered,
     DecisionTimesOut, PollerDies, ApproverRestart, callVars, PermitStep
<1>2. CASE PolicyChanges \/ Tick
  BY <1>2 DEF PolicyChanges, Tick, callVars, PermitStep
<1>3. ASSUME NEW n \in Nonce,
             Prepare(n) \/ Submit(n) \/ PrepareAnswered(n) \/ SubmitTimesOut(n)
             \/ SubmitReplyCut(n) \/ ClientCancels(n)
      PROVE  PermitStep
  BY <1>3 DEF Prepare, Submit, PrepareAnswered, PrepareFails, SubmitTimesOut,
     SubmitReplyCut, ClientCancels, callVars, PermitStep
<1>4. ASSUME NEW p, CheckDecision(p) \/ ApplyDecision(p)
      PROVE  PermitStep
  BY <1>4 DEF CheckDecision, ApplyDecision, PermitStep
<1>5. ASSUME NEW t \in Thread, NEW n \in Nonce, NEW b \in Binding,
             ExecuteBegins(t, n, b)
      PROVE  PermitStep
  <2> DEFINE c == [state |-> "waiting", nonce |-> n, bound |-> b,
                   generation |-> generation]
  <2>1. c \in Call /\ c.state # "idle"
    BY DEF Call, AdminTypeOK
  <2>2. /\ calls[t].state = "idle" /\ slots > 0 /\ slots' = slots - 1
        /\ calls' = [calls EXCEPT ![t] = c]
    BY <1>5 DEF ExecuteBegins
  <2> HIDE DEF c
  <2>3. QED
    BY <2>1, <2>2 DEF PermitStep
<1>6. ASSUME NEW t \in Thread, ExecuteClaims(t)
      PROVE  PermitStep
  BY <1>6 DEF ExecuteClaims, Wait, PermitStep
<1>7. ASSUME NEW t \in Thread, ExecuteRuns(t)
      PROVE  PermitStep
  BY <1>7 DEF ExecuteRuns, PermitStep
<1>8. ASSUME NEW t \in Thread, ExecuteGivesUp(t) \/ ExecuteReturns(t)
      PROVE  PermitStep
  BY <1>8 DEF ExecuteGivesUp, ExecuteReturns, Return, Wait, PermitStep
<1>9. CASE BrokerRestart
  BY <1>9 DEF BrokerRestart, PermitStep
<1>10. QED
  BY <1>1, <1>2, <1>3, <1>4, <1>5, <1>6, <1>7, <1>8, <1>9 DEF Next, Broker

\* The parts of TypeOK that speak of one table or file survive every step.
LEMMA AdminTypeStep ==
    ASSUME TypeOK, Next
    PROVE  AdminTypeOK'
<1> USE DEF TypeOK
<1>1. CASE PolicyChanges
  BY <1>1, AdminType DEF PolicyChanges
<1>2. ASSUME UNCHANGED adminVars PROVE AdminTypeOK'
  BY <1>2 DEF AdminTypeOK, adminVars
<1>3. CASE Broker
  BY <1>3, <1>2 DEF Broker, Prepare, Submit, PrepareAnswered, PrepareFails,
     SubmitTimesOut, SubmitReplyCut, ClientCancels, CheckDecision,
     ApplyDecision, ExecuteBegins,
     ExecuteClaims, ExecuteGivesUp, ExecuteRuns, ExecuteReturns, BrokerRestart
<1>4. CASE Approver
  BY <1>4, <1>2 DEF Approver, ReceiveRequest, ShowPrompt, PromptDelivered,
     SendMessageFails, HandlePress, RetryDecision, DecisionAnswered,
     DecisionTimesOut, PollerDies, ApproverRestart
<1>5. CASE Tick
  BY <1>5, <1>2 DEF Tick
<1>6. QED
  BY <1>1, <1>3, <1>4, <1>5 DEF Next

\* Every step that changes the broker's table is one operation of the store.
StoreOperation ==
    \/ UNCHANGED caps
    \/ \E n \in Nonce :
        \/ prepare[n] = "none" /\ prepare'[n] = "issued"
           /\ Issue(n, Asked[n], generation)
        \/ Cancel(n)
    \/ \E p \in accepting : DecisionApplies(p)
    \/ \E t \in Thread :
        /\ calls[t].state = "waiting"
        /\ ClaimRow(calls[t].nonce, calls[t].bound, calls[t].generation)
    \/ CancelGeneration(generation)

LEMMA StepIsStoreOperation ==
    ASSUME TypeOK, Next
    PROVE  StoreOperation
<1>1. CASE Approver \/ PolicyChanges \/ Tick
  BY <1>1 DEF Approver, ReceiveRequest, ShowPrompt, PromptDelivered,
     SendMessageFails, HandlePress, RetryDecision, DecisionAnswered,
     DecisionTimesOut, PollerDies, ApproverRestart, PolicyChanges, Tick,
     storeVars, StoreOperation
<1>2. ASSUME NEW n \in Nonce, Prepare(n)
      PROVE  StoreOperation
  BY <1>2 DEF Prepare, StoreOperation, TypeOK
<1>3. ASSUME NEW n \in Nonce,
             Submit(n) \/ PrepareAnswered(n) \/ SubmitTimesOut(n)
             \/ SubmitReplyCut(n) \/ ClientCancels(n)
      PROVE  StoreOperation
  BY <1>3 DEF Submit, PrepareAnswered, PrepareFails, SubmitTimesOut, SubmitReplyCut,
     ClientCancels, storeVars, StoreOperation
<1>4. ASSUME NEW p \in posts, CheckDecision(p)
      PROVE  StoreOperation
  BY <1>4 DEF CheckDecision, storeVars, StoreOperation
<1>5. ASSUME NEW p \in accepting, ApplyDecision(p)
      PROVE  StoreOperation
  BY <1>5 DEF ApplyDecision, StoreOperation
<1>6. ASSUME NEW t \in Thread, ExecuteClaims(t)
      PROVE  StoreOperation
  BY <1>6 DEF ExecuteClaims, Wait, StoreOperation
<1>7. ASSUME NEW t \in Thread,
             \/ \E n \in Nonce, b \in Binding : ExecuteBegins(t, n, b)
             \/ ExecuteGivesUp(t) \/ ExecuteRuns(t) \/ ExecuteReturns(t)
      PROVE  StoreOperation
  BY <1>7 DEF ExecuteBegins, ExecuteGivesUp, ExecuteRuns, ExecuteReturns,
     storeVars, StoreOperation
<1>8. CASE BrokerRestart
  BY <1>8 DEF BrokerRestart, StoreOperation
<1>9. QED
  BY <1>1, <1>2, <1>3, <1>4, <1>5, <1>6, <1>7, <1>8 DEF Next, Broker

LEMMA StoreTypeStep ==
    ASSUME TypeOK, Next
    PROVE  StoreTypeOK'
<1> USE DEF TypeOK, AdminTypeOK
<1>1. now' \in Nat
  <2>1. now' = now \/ now' = now + 1
    BY DEF Next, Broker, Prepare, Submit, PrepareAnswered, PrepareFails,
       SubmitTimesOut, SubmitReplyCut, ClientCancels, CheckDecision,
       ApplyDecision, ExecuteBegins,
       ExecuteClaims, ExecuteGivesUp, ExecuteRuns, ExecuteReturns, BrokerRestart,
       Approver, ReceiveRequest, ShowPrompt, PromptDelivered, SendMessageFails,
       HandlePress, RetryDecision, DecisionAnswered, DecisionTimesOut, PollerDies,
       ApproverRestart, PolicyChanges, Tick, storeVars
  <2>2. QED
    BY <2>1 DEF StoreTypeOK
<1>2. CASE UNCHANGED caps
  BY <1>1, <1>2 DEF StoreTypeOK
<1>3. ASSUME NEW n \in Nonce, Issue(n, Asked[n], generation) \/ Cancel(n)
      PROVE  StoreTypeOK'
  BY <1>1, <1>3, StoreType, AskedAssumption DEF StoreTypeOK
<1>4. ASSUME NEW p \in accepting, DecisionApplies(p)
      PROVE  StoreTypeOK'
  <2>1. p.nonce \in Nonce /\ p.bound \in Binding /\ p.generation \in Nat
    BY DEF Post
  <2>2. QED
    BY <1>1, <1>4, <2>1, StoreType DEF StoreTypeOK, DecisionApplies
<1>5. ASSUME NEW t \in Thread,
             ClaimRow(calls[t].nonce, calls[t].bound, calls[t].generation)
      PROVE  StoreTypeOK'
  <2>1. CASE calls[t].nonce \in Nonce
    BY <1>1, <1>5, <2>1, NoRowAssumption DEF ClaimRow, Claimable, Bound,
       StoreTypeOK, Row
  <2>2. CASE calls[t].nonce \notin Nonce
    BY <1>1, <1>5, <2>2 DEF ClaimRow, StoreTypeOK
  <2>3. QED
    BY <2>1, <2>2
<1>6. CASE CancelGeneration(generation)
  BY <1>1, <1>6, NoRowAssumption DEF CancelGeneration, StoreTypeOK, Row
<1>7. QED
  BY <1>2, <1>3, <1>4, <1>5, <1>6, StepIsStoreOperation DEF StoreOperation

\* Every step that changes the approver's table is one operation of its store.
ApproverOperation ==
    \/ UNCHANGED request
    \/ \E n \in Nonce :
        \/ /\ submission[n].state = "sent"
           /\ submission'[n].state = "created"
           /\ CreateRequest(n, Asked[n], submission[n].generation)
        \/ /\ submission[n].state \in {"created", "shown"}
           /\ MarkDelivered(n) \/ Discard(n)
        \/ \E d \in {"approved", "denied"} : Resolve(n, d)
    \/ /\ poller.state = "accepted"
       /\ MarkGranted(poller.nonce)

LEMMA StepIsApproverOperation ==
    ASSUME TypeOK, Next
    PROVE  ApproverOperation
<1>1. CASE Broker
  BY <1>1 DEF Broker, Prepare, Submit, PrepareAnswered, PrepareFails,
     SubmitTimesOut, SubmitReplyCut, ClientCancels, CheckDecision,
     ApplyDecision, ExecuteBegins,
     ExecuteClaims, ExecuteGivesUp, ExecuteRuns, ExecuteReturns, BrokerRestart,
     approverVars, ApproverOperation
<1>2. CASE PolicyChanges \/ Tick
  BY <1>2 DEF PolicyChanges, Tick, approverVars, ApproverOperation
<1>3. ASSUME NEW n \in Nonce, ReceiveRequest(n)
      PROVE  ApproverOperation
  <2>1. CASE Admissible(n)
    <3>1. /\ submission[n].state = "sent"
          /\ CreateRequest(n, Asked[n], submission[n].generation)
      BY <1>3, <2>1 DEF ReceiveRequest
    <3>2. submission'[n].state = "created"
      BY <1>3, <2>1 DEF ReceiveRequest, SetSubmission, TypeOK, Submission
    <3>3. QED
      BY <3>1, <3>2 DEF ApproverOperation
  <2>2. CASE ~Admissible(n)
    BY <1>3, <2>2 DEF ReceiveRequest, ApproverOperation
  <2>3. QED
    BY <2>1, <2>2
<1>4. ASSUME NEW n \in Nonce,
             ShowPrompt(n) \/ PromptDelivered(n) \/ SendMessageFails(n)
      PROVE  ApproverOperation
  BY <1>4 DEF ShowPrompt, PromptDelivered, SendMessageFails, ApproverOperation
<1>5. ASSUME NEW n \in Nonce, NEW d \in {"approved", "denied"}, HandlePress(n, d)
      PROVE  ApproverOperation
  BY <1>5 DEF HandlePress, ApproverOperation
<1>6. CASE \/ \E n \in Nonce : RetryDecision(n)
           \/ DecisionTimesOut \/ PollerDies \/ ApproverRestart
  BY <1>6 DEF RetryDecision, DecisionTimesOut, PollerDies, ApproverRestart,
     ApproverOperation
<1>7. CASE DecisionAnswered
  BY <1>7 DEF DecisionAnswered, ApproverOperation
<1>8. QED
  BY <1>1, <1>2, <1>3, <1>4, <1>5, <1>6, <1>7 DEF Next, Approver

LEMMA RequestTypeStep ==
    ASSUME TypeOK, Next
    PROVE  request' \in [Nonce -> Request \cup {NoRow}]
<1> USE DEF TypeOK
<1>1. ApproverTypeOK /\ now \in Nat
  BY DEF StoreTypeOK
<1>2. CASE UNCHANGED request
  BY <1>2 DEF ApproverTypeOK
<1>3. ASSUME NEW n \in Nonce,
             CreateRequest(n, Asked[n], submission[n].generation)
      PROVE  request' \in [Nonce -> Request \cup {NoRow}]
  <2>1. Asked[n] \in Binding /\ submission[n].generation \in Nat
    BY AskedAssumption DEF Submission
  <2>2. QED
    BY <1>1, <1>3, <2>1, RequestType
<1>4. ASSUME NEW n \in Nonce, MarkDelivered(n) \/ Discard(n)
      PROVE  request' \in [Nonce -> Request \cup {NoRow}]
  BY <1>4, NoRequestAssumption DEF ApproverTypeOK, Request, MarkDelivered, Discard
<1>5. ASSUME NEW n \in Nonce, NEW d \in {"approved", "denied"}, Resolve(n, d)
      PROVE  request' \in [Nonce -> Request \cup {NoRow}]
  BY <1>5, NoRequestAssumption DEF ApproverTypeOK, Request, Resolve, Resolvable
<1>6. ASSUME MarkGranted(poller.nonce)
      PROVE  request' \in [Nonce -> Request \cup {NoRow}]
  <2>1. CASE poller.nonce \in Nonce
    BY <1>6, <2>1, NoRequestAssumption DEF ApproverTypeOK, Request, MarkGranted
  <2>2. CASE poller.nonce \notin Nonce
    BY <1>6, <2>2 DEF ApproverTypeOK, MarkGranted
  <2>3. QED
    BY <2>1, <2>2
<1>7. QED
  BY <1>2, <1>3, <1>4, <1>5, <1>6, StepIsApproverOperation DEF ApproverOperation

\* A decision that is sent has the type of a message, because it is on record.
LEMMA DecisionIsPost ==
    ASSUME TypeOK, NEW n \in Nonce, NEW d \in {"approved", "denied"},
           request[n] # NoRow
    PROVE  DecisionOn(n, d) \in Post
BY DEF TypeOK, ApproverTypeOK, Request, DecisionOn, Post

LEMMA ApproverTypeStep ==
    ASSUME TypeOK, Next
    PROVE  ApproverTypeOK'
<1> USE DEF TypeOK, ApproverTypeOK
<1>1. request' \in [Nonce -> Request \cup {NoRow}]
  BY RequestTypeStep
<1>2. CASE PolicyChanges \/ Tick
  BY <1>1, <1>2 DEF PolicyChanges, Tick, approverVars
<1>3. ASSUME NEW n \in Nonce,
             Prepare(n) \/ Submit(n) \/ PrepareAnswered(n) \/ SubmitTimesOut(n)
             \/ SubmitReplyCut(n) \/ ClientCancels(n)
      PROVE  ApproverTypeOK'
  BY <1>1, <1>3 DEF Prepare, Submit, PrepareAnswered, PrepareFails,
     SubmitTimesOut, SubmitReplyCut, ClientCancels, approverVars
<1>4. ASSUME NEW p, CheckDecision(p) \/ ApplyDecision(p)
      PROVE  ApproverTypeOK'
  <2>1. poller' = poller \/ \E r \in {"accepted", "refused"} :
                                poller' = [poller EXCEPT !.state = r]
    BY <1>4 DEF CheckDecision, ApplyDecision, Answer
  <2>2. poller' \in Poller /\ prompt' = prompt
    BY <1>4, <2>1 DEF CheckDecision, ApplyDecision, Poller
  <2>3. QED
    BY <1>1, <2>2
<1>5. ASSUME NEW t \in Thread,
             \/ \E n \in Nonce, b \in Binding : ExecuteBegins(t, n, b)
             \/ ExecuteClaims(t) \/ ExecuteGivesUp(t) \/ ExecuteRuns(t)
             \/ ExecuteReturns(t)
      PROVE  ApproverTypeOK'
  BY <1>1, <1>5 DEF ExecuteBegins, ExecuteClaims, ExecuteGivesUp, ExecuteRuns,
     ExecuteReturns, approverVars
<1>6. CASE BrokerRestart
  BY <1>1, <1>6 DEF BrokerRestart, PollerIdle, Poller
<1>7. ASSUME NEW n \in Nonce,
             \/ ReceiveRequest(n) \/ ShowPrompt(n) \/ PromptDelivered(n)
             \/ SendMessageFails(n) \/ RetryDecision(n)
             \/ \E d \in {"approved", "denied"} : HandlePress(n, d)
      PROVE  ApproverTypeOK'
  BY <1>1, <1>7 DEF ReceiveRequest, ShowPrompt, PromptDelivered, SendMessageFails,
     RetryDecision, HandlePress, SendDecision, Poller
<1>8. CASE DecisionAnswered \/ DecisionTimesOut \/ PollerDies \/ ApproverRestart
  BY <1>1, <1>8 DEF DecisionAnswered, DecisionTimesOut, PollerDies,
     ApproverRestart, PollerIdle, Poller
<1>9. QED
  BY <1>2, <1>3, <1>4, <1>5, <1>6, <1>7, <1>8 DEF Next, Broker, Approver

LEMMA MessagesTypeStep ==
    ASSUME TypeOK, Next
    PROVE  MessagesTypeOK'
<1> USE DEF TypeOK, MessagesTypeOK
<1>1. CASE PolicyChanges \/ Tick
  BY <1>1 DEF PolicyChanges, Tick, callVars
<1>2. ASSUME NEW n \in Nonce,
             Prepare(n) \/ Submit(n) \/ PrepareAnswered(n) \/ SubmitTimesOut(n)
             \/ SubmitReplyCut(n) \/ ClientCancels(n)
      PROVE  MessagesTypeOK'
  <2>1. CASE Prepare(n) \/ SubmitReplyCut(n) \/ ClientCancels(n)
    BY <2>1 DEF Prepare, SubmitReplyCut, ClientCancels, callVars, PrepareState
  <2>2. CASE Submit(n)
    BY <2>2 DEF Submit, PrepareState, Submission, AdminTypeOK
  <2>3. CASE PrepareAnswered(n) \/ SubmitTimesOut(n)
    BY <2>3 DEF PrepareAnswered, SubmitTimesOut, PrepareFails, PrepareState
  <2>4. QED
    BY <1>2, <2>1, <2>2, <2>3
<1>3. ASSUME NEW p, CheckDecision(p) \/ ApplyDecision(p)
      PROVE  MessagesTypeOK'
  BY <1>3 DEF CheckDecision, ApplyDecision
<1>4. ASSUME NEW t \in Thread,
             \/ \E n \in Nonce, b \in Binding : ExecuteBegins(t, n, b)
             \/ ExecuteClaims(t) \/ ExecuteGivesUp(t) \/ ExecuteRuns(t)
             \/ ExecuteReturns(t)
      PROVE  MessagesTypeOK'
  BY <1>4 DEF ExecuteBegins, ExecuteClaims, ExecuteGivesUp, ExecuteRuns,
     ExecuteReturns
<1>5. CASE BrokerRestart
  BY <1>5 DEF BrokerRestart, PrepareState
<1>6. ASSUME NEW n \in Nonce,
             \/ ReceiveRequest(n) \/ ShowPrompt(n) \/ PromptDelivered(n)
             \/ SendMessageFails(n)
      PROVE  MessagesTypeOK'
  BY <1>6 DEF ReceiveRequest, ShowPrompt, PromptDelivered, SendMessageFails,
     SetSubmission, Submission
<1>7. ASSUME NEW n \in Nonce, NEW d \in {"approved", "denied"}, HandlePress(n, d)
      PROVE  MessagesTypeOK'
  <2>1. DecisionOn(n, d) \in Post
    BY <1>7, DecisionIsPost DEF HandlePress, Resolve, Resolvable
  <2>2. QED
    BY <1>7, <2>1 DEF HandlePress, SendDecision
<1>8. ASSUME NEW n \in Nonce, RetryDecision(n)
      PROVE  MessagesTypeOK'
  <2>1. request[n] # NoRow /\ request[n].decision \in {"approved", "denied"}
    BY <1>8 DEF RetryDecision, UnresolvedDecision, ApproverTypeOK, Request
  <2>2. DecisionOn(n, request[n].decision) \in Post
    BY <2>1, DecisionIsPost
  <2>3. QED
    BY <1>8, <2>2 DEF RetryDecision, SendDecision
<1>9. CASE DecisionAnswered \/ DecisionTimesOut \/ PollerDies
  BY <1>9 DEF DecisionAnswered, DecisionTimesOut, PollerDies, callVars
<1>10. CASE ApproverRestart
  BY <1>10 DEF ApproverRestart, Submission
<1>11. QED
  BY <1>1, <1>2, <1>3, <1>4, <1>5, <1>6, <1>7, <1>8, <1>9, <1>10
     DEF Next, Broker, Approver

LEMMA HistoryTypeStep ==
    ASSUME TypeOK, CallsKnown, Next
    PROVE  HistoryTypeOK'
<1> USE DEF TypeOK, HistoryTypeOK
<1>1. faults' \in Nat
  <2>1. faults' = faults \/ faults' = faults + 1
    BY DEF Next, Broker, Prepare, Submit, PrepareAnswered, PrepareFails,
       SubmitTimesOut, SubmitReplyCut, ClientCancels, CheckDecision,
       ApplyDecision, ExecuteBegins,
       ExecuteClaims, ExecuteGivesUp, ExecuteRuns, ExecuteReturns, BrokerRestart,
       Approver, ReceiveRequest, ShowPrompt, PromptDelivered, SendMessageFails,
       HandlePress, RetryDecision, DecisionAnswered, DecisionTimesOut, PollerDies,
       ApproverRestart, PolicyChanges, Tick, Fault
  <2>2. QED
    BY <2>1
<1>2. CASE UNCHANGED <<claims, runs>>
  BY <1>1, <1>2
<1>3. ASSUME NEW t \in Thread, ExecuteClaims(t)
      PROVE  HistoryTypeOK'
  BY <1>1, <1>3 DEF ExecuteClaims, Wait, CallsKnown
<1>4. ASSUME NEW t \in Thread, ExecuteRuns(t)
      PROVE  HistoryTypeOK'
  <2>1. /\ runs' = [runs EXCEPT ![calls[t].nonce] = runs[calls[t].nonce] + 1]
        /\ claims' = claims
    BY <1>4 DEF ExecuteRuns
  <2>2. calls[t].nonce \in Nonce
    BY <1>4 DEF ExecuteRuns, CallsKnown
  <2>3. runs[calls[t].nonce] + 1 \in Nat
    BY <2>2
  <2>4. QED
    BY <1>1, <2>1, <2>3
<1>5. CASE Approver \/ PolicyChanges \/ Tick
  BY <1>2, <1>5 DEF Approver, ReceiveRequest, ShowPrompt, PromptDelivered,
     SendMessageFails, HandlePress, RetryDecision, DecisionAnswered,
     DecisionTimesOut, PollerDies, ApproverRestart, PolicyChanges, Tick, history
<1>6. CASE Broker
  BY <1>2, <1>3, <1>4, <1>6 DEF Broker, Prepare, Submit, PrepareAnswered,
     PrepareFails, SubmitTimesOut, SubmitReplyCut, ClientCancels,
     CheckDecision, ApplyDecision,
     ExecuteBegins, ExecuteGivesUp, ExecuteReturns, BrokerRestart, history
<1>7. QED
  BY <1>5, <1>6 DEF Next

\* A /prepare call that has been answered is over.
LEMMA PreparedStays ==
    ASSUME TypeOK, Next, NEW n \in Nonce, prepare[n] \in {"prepared", "failed"}
    PROVE  prepare'[n] = prepare[n]
<1> USE DEF TypeOK
<1>1. CASE Approver \/ PolicyChanges \/ Tick
  BY <1>1 DEF Approver, ReceiveRequest, ShowPrompt, PromptDelivered,
     SendMessageFails, HandlePress, RetryDecision, DecisionAnswered,
     DecisionTimesOut, PollerDies, ApproverRestart, PolicyChanges, Tick, callVars
<1>2. CASE Broker
  BY <1>2 DEF Broker, Prepare, Submit, PrepareAnswered, PrepareFails,
     SubmitTimesOut, SubmitReplyCut, ClientCancels, CheckDecision,
     ApplyDecision, ExecuteBegins,
     ExecuteClaims, ExecuteGivesUp, ExecuteRuns, ExecuteReturns, BrokerRestart,
     callVars
<1>3. QED
  BY <1>1, <1>2 DEF Next

\* A call is about a capability its client was told of, after every step too.
LEMMA CallsKnownStep ==
    ASSUME TypeOK, CallsKnown, Next
    PROVE  CallsKnown'
<1>1. SUFFICES ASSUME NEW t \in Thread, calls'[t].state # "idle"
               PROVE  /\ calls'[t].nonce \in Nonce
                      /\ prepare[calls'[t].nonce] = "prepared"
  BY PreparedStays DEF CallsKnown
<1>2. CASE /\ calls[t].state # "idle"
           /\ calls'[t].nonce = calls[t].nonce
  BY <1>2 DEF CallsKnown
<1>3. CASE \E n \in Nonce : calls'[t].nonce = n /\ prepare[n] = "prepared"
  BY <1>3
<1>4. \/ calls[t].state # "idle" /\ calls'[t].nonce = calls[t].nonce
      \/ \E n \in Nonce : calls'[t].nonce = n /\ prepare[n] = "prepared"
  <2> USE <1>1 DEF TypeOK
  <2>1. CASE UNCHANGED calls
    BY <2>1
  <2>2. CASE Approver \/ PolicyChanges \/ Tick
    BY <2>1, <2>2 DEF Approver, ReceiveRequest, ShowPrompt, PromptDelivered,
       SendMessageFails, HandlePress, RetryDecision, DecisionAnswered,
       DecisionTimesOut, PollerDies, ApproverRestart, PolicyChanges, Tick, callVars
  <2>3. ASSUME NEW n \in Nonce,
               Prepare(n) \/ Submit(n) \/ PrepareAnswered(n) \/ SubmitTimesOut(n)
               \/ SubmitReplyCut(n) \/ ClientCancels(n)
        PROVE  UNCHANGED calls
    BY <2>3 DEF Prepare, Submit, PrepareAnswered, PrepareFails, SubmitTimesOut,
     SubmitReplyCut, ClientCancels, callVars
  <2>4. ASSUME NEW p, CheckDecision(p) \/ ApplyDecision(p)
        PROVE  UNCHANGED calls
    BY <2>4 DEF CheckDecision, ApplyDecision
  <2>5. ASSUME NEW u \in Thread, NEW n \in Nonce, NEW b \in Binding,
               ExecuteBegins(u, n, b)
        PROVE  \/ calls[t].state # "idle" /\ calls'[t].nonce = calls[t].nonce
               \/ \E m \in Nonce : calls'[t].nonce = m /\ prepare[m] = "prepared"
    <3>1. CASE u = t
      BY <2>5, <3>1 DEF ExecuteBegins
    <3>2. CASE u # t
      BY <2>5, <3>2 DEF ExecuteBegins
    <3>3. QED
      BY <3>1, <3>2
  <2>6. ASSUME NEW u \in Thread,
               ExecuteClaims(u) \/ ExecuteGivesUp(u) \/ ExecuteRuns(u)
                  \/ ExecuteReturns(u)
        PROVE  \/ calls[t].state # "idle" /\ calls'[t].nonce = calls[t].nonce
               \/ \E m \in Nonce : calls'[t].nonce = m /\ prepare[m] = "prepared"
    BY <2>6 DEF ExecuteClaims, ExecuteGivesUp, ExecuteRuns, ExecuteReturns, Return,
       Wait, NoCall, Call
  <2>7. CASE BrokerRestart
    BY <2>7 DEF BrokerRestart, NoCall
  <2>8. QED
    BY <2>1, <2>2, <2>3, <2>4, <2>5, <2>6, <2>7 DEF Next, Broker
<1>5. QED
  BY <1>2, <1>3, <1>4

\* TypeOK alone is not inductive: the bound of `slots' needs the account of the
\* permits, and the type of `claims' needs the calls to be about known nonces.
TypeInv == TypeOK /\ PermitsAccounted /\ CallsKnown

LEMMA TypeStep ==
    ASSUME TypeInv, [Next]_vars
    PROVE  TypeInv'
<1> USE DEF TypeInv
<1>1. CASE Next
  <2>1. /\ calls' \in [Thread -> Call]
        /\ slots' \in 0..MAX_CONCURRENT
        /\ PermitsAccounted'
    BY <1>1, StepMovesPermits, PermitsKept DEF TypeOK
  <2>2. CallsKnown'
    BY <1>1, CallsKnownStep
  <2>3. TypeOK'
    BY <1>1, <2>1, AdminTypeStep, StoreTypeStep, ApproverTypeStep, MessagesTypeStep,
       HistoryTypeStep DEF TypeOK, MessagesTypeOK, HistoryTypeOK
  <2>4. QED
    BY <2>1, <2>2, <2>3
<1>2. CASE UNCHANGED vars
  BY <1>2 DEF vars, adminVars, storeVars, approverVars, callVars, history, TypeOK,
     AdminTypeOK, StoreTypeOK, ApproverTypeOK, PermitsAccounted, Busy, CallsKnown
<1>3. QED
  BY <1>1, <1>2

LEMMA TypeInvariant == Spec => []TypeInv
<1>1. Init => TypeInv
  BY TypeInit DEF TypeInv, Init, CallsKnown, NoCall
<1>2. TypeInv /\ [Next]_vars => TypeInv'
  BY TypeStep
<1>3. QED
  BY <1>1, <1>2, PTL DEF Spec

\* In every reachable state every table, message and call has its type, and the
\* semaphore has between 0 and MAX_CONCURRENT permits.
THEOREM TypeCorrect == Spec => []TypeOK
<1>1. TypeInv => TypeOK
  BY DEF TypeInv
<1>2. QED
  BY <1>1, TypeInvariant, PTL

\* In every reachable state every permit of the semaphore is free or held by one
\* call: no path through /execute loses a permit or gives one back twice.
THEOREM PermitsCorrect == Spec => []PermitsAccounted
<1>1. TypeInv => PermitsAccounted
  BY DEF TypeInv
<1>2. QED
  BY <1>1, TypeInvariant, PTL
-----------------------------------------------------------------------------
(* How the two tables evolve *)

\* What a step may do to the broker's row of n.
RowStep(n) ==
    \/ caps'[n] = caps[n]
    \/ caps'[n] = NoRow
    \/ /\ prepare[n] = "none"
       /\ prepare'[n] = "issued"
       /\ caps'[n] # NoRow
       /\ caps'[n].approved = 0
    \/ /\ caps[n] # NoRow
       /\ caps'[n] # NoRow
       /\ caps'[n].bound = caps[n].bound
       /\ caps'[n].generation = caps[n].generation
       /\ caps[n].approved = 1 => caps'[n].approved = 1
       /\ caps[n].consumed = 1 => caps'[n].consumed = 1
       /\ caps'[n].approved = 1 =>
            \/ caps[n].approved = 1
            \/ \E p \in accepting :
                /\ p.nonce = n
                /\ p.decision = "approved"
                /\ p.bound = caps[n].bound

LEMMA RowsEvolve ==
    ASSUME TypeOK, Next, NEW n \in Nonce
    PROVE  RowStep(n)
<1> USE NoRowAssumption DEF TypeOK, StoreTypeOK, Row
<1>1. CASE UNCHANGED caps
  BY <1>1 DEF RowStep
<1>2. ASSUME NEW m \in Nonce, prepare[m] = "none", prepare'[m] = "issued",
             Issue(m, Asked[m], generation)
      PROVE  RowStep(n)
  <2>1. CASE m = n
    BY <1>2, <2>1, AskedAssumption, TTLAssumption
       DEF Issue, PurgeExpired, RowStep, AdminTypeOK
  <2>2. CASE m # n
    BY <1>2, <2>2 DEF Issue, PurgeExpired, RowStep
  <2>3. QED
    BY <2>1, <2>2
<1>3. ASSUME NEW m \in Nonce, Cancel(m)
      PROVE  RowStep(n)
  BY <1>3 DEF Cancel, RowStep
<1>4. ASSUME NEW p \in accepting, DecisionApplies(p)
      PROVE  RowStep(n)
  <2>1. p.nonce \in Nonce /\ p.decision \in {"approved", "denied"}
    BY DEF Post
  <2>2. CASE p.nonce # n
    BY <1>4, <2>1, <2>2
       DEF DecisionApplies, Approve, CancelBound, RowStep
  <2>3. CASE p.nonce = n
    BY <1>4, <2>1, <2>3
       DEF DecisionApplies, Approve, CancelBound, Pending, Bound, RowStep
  <2>4. QED
    BY <2>2, <2>3
<1>5. ASSUME NEW t \in Thread,
             ClaimRow(calls[t].nonce, calls[t].bound, calls[t].generation)
      PROVE  RowStep(n)
  <2>1. CASE calls[t].nonce = n
    BY <1>5, <2>1 DEF ClaimRow, Claimable, Bound, RowStep
  <2>2. CASE calls[t].nonce # n
    BY <1>5, <2>2 DEF ClaimRow, RowStep
  <2>3. QED
    BY <2>1, <2>2
<1>6. CASE CancelGeneration(generation)
  BY <1>6 DEF CancelGeneration, RowStep
<1>7. QED
  BY <1>1, <1>2, <1>3, <1>4, <1>5, <1>6, StepIsStoreOperation DEF StoreOperation

\* What a step may do to the approver's row of n.
RequestStep(n) ==
    \/ request'[n] = request[n]
    \/ /\ submission[n].state = "sent"
       /\ submission'[n].state = "created"
       /\ request'[n] # NoRow
       /\ request'[n].decision = "pending"
       /\ request'[n].granted = 0
    \/ ~Decided(n) /\ request'[n] = NoRow
    \/ /\ request[n] # NoRow
       /\ request'[n] # NoRow
       /\ request'[n].bound = request[n].bound
       /\ request'[n].generation = request[n].generation
       /\ Decided(n) => request'[n].decision = request[n].decision
       /\ request'[n].granted = 1 =>
            \/ request[n].granted = 1
            \/ poller.state = "accepted" /\ poller.nonce = n

LEMMA RequestsEvolve ==
    ASSUME TypeOK, Next, NEW n \in Nonce
    PROVE  RequestStep(n)
<1> USE NoRequestAssumption DEF TypeOK, ApproverTypeOK, Request, Decided
<1>1. CASE UNCHANGED request
  BY <1>1 DEF RequestStep
<1>2. ASSUME NEW m \in Nonce, submission[m].state = "sent",
             submission'[m].state = "created",
             CreateRequest(m, Asked[m], submission[m].generation)
      PROVE  RequestStep(n)
  <2>1. CASE m = n
    <3>1. request'[n] \in Request
      <4>1. Asked[m] \in Binding /\ submission[m].generation \in Nat
        BY AskedAssumption DEF Submission
      <4>2. now + RequestTTL \in Nat
        BY RequestTTLAssumption DEF StoreTypeOK
      <4>3. QED
        BY <1>2, <2>1, <4>1, <4>2 DEF CreateRequest
    <3>2. request'[n].decision = "pending" /\ request'[n].granted = 0
      BY <1>2, <2>1 DEF CreateRequest
    <3>3. QED
      BY <1>2, <2>1, <3>1, <3>2 DEF RequestStep
  <2>2. CASE m # n
    BY <1>2, <2>2 DEF CreateRequest, RequestStep
  <2>3. QED
    BY <2>1, <2>2
<1>3. ASSUME NEW m \in Nonce, MarkDelivered(m) \/ Discard(m)
      PROVE  RequestStep(n)
  BY <1>3 DEF MarkDelivered, Discard, RequestStep
<1>4. ASSUME NEW m \in Nonce, NEW d \in {"approved", "denied"}, Resolve(m, d)
      PROVE  RequestStep(n)
  BY <1>4 DEF Resolve, Resolvable, RequestStep
<1>5. ASSUME poller.state = "accepted", MarkGranted(poller.nonce)
      PROVE  RequestStep(n)
  BY <1>5 DEF MarkGranted, RequestStep
<1>6. QED
  BY <1>1, <1>2, <1>3, <1>4, <1>5, StepIsApproverOperation DEF ApproverOperation

-----------------------------------------------------------------------------
(* The approver's side: submissions, decisions and messages about them *)

LEMMA SubmittedOnceStep ==
    ASSUME TypeOK, SubmittedOnce, Next
    PROVE  SubmittedOnce'
<1> USE DEF TypeOK, SubmittedOnce
<1>1. CASE PolicyChanges \/ Tick
  BY <1>1 DEF PolicyChanges, Tick, approverVars, callVars
<1>2. ASSUME NEW n \in Nonce,
             Prepare(n) \/ Submit(n) \/ PrepareAnswered(n) \/ SubmitTimesOut(n)
             \/ SubmitReplyCut(n) \/ ClientCancels(n)
      PROVE  SubmittedOnce'
  BY <1>2 DEF Prepare, Submit, PrepareAnswered, PrepareFails, SubmitTimesOut,
     SubmitReplyCut, ClientCancels, approverVars, callVars, Submission
<1>3. ASSUME NEW p, CheckDecision(p) \/ ApplyDecision(p)
      PROVE  SubmittedOnce'
  BY <1>3 DEF CheckDecision, ApplyDecision
<1>4. ASSUME NEW t \in Thread,
             \/ \E n \in Nonce, b \in Binding : ExecuteBegins(t, n, b)
             \/ ExecuteClaims(t) \/ ExecuteGivesUp(t) \/ ExecuteRuns(t)
             \/ ExecuteReturns(t)
      PROVE  SubmittedOnce'
  BY <1>4 DEF ExecuteBegins, ExecuteClaims, ExecuteGivesUp, ExecuteRuns,
     ExecuteReturns, approverVars
<1>5. CASE BrokerRestart
  BY <1>5 DEF BrokerRestart
<1>6. ASSUME NEW n \in Nonce,
             \/ ReceiveRequest(n) \/ ShowPrompt(n) \/ PromptDelivered(n)
             \/ SendMessageFails(n)
      PROVE  SubmittedOnce'
  BY <1>6 DEF ReceiveRequest, ShowPrompt, PromptDelivered, SendMessageFails,
     SetSubmission, Submission, CreateRequest, MarkDelivered, Discard, ApproverTypeOK
<1>7. ASSUME NEW n \in Nonce, NEW d \in {"approved", "denied"}, HandlePress(n, d)
      PROVE  SubmittedOnce'
  BY <1>7 DEF HandlePress, Resolve, Resolvable, ApproverTypeOK
<1>8. CASE DecisionAnswered
  BY <1>8 DEF DecisionAnswered, MarkGranted, callVars, ApproverTypeOK
<1>9. CASE \/ \E n \in Nonce : RetryDecision(n)
           \/ DecisionTimesOut \/ PollerDies
  BY <1>9 DEF RetryDecision, DecisionTimesOut, PollerDies, callVars
<1>10. CASE ApproverRestart
  BY <1>10 DEF ApproverRestart, Submission
<1>11. QED
  BY <1>1, <1>2, <1>3, <1>4, <1>5, <1>6, <1>7, <1>8, <1>9, <1>10
     DEF Next, Broker, Approver

\* A decision on record stays on record, as it is.
LEMMA DecidedStays ==
    ASSUME TypeOK, SubmittedOnce, Next, NEW n \in Nonce, Decided(n)
    PROVE  /\ Decided(n)'
           /\ request'[n].decision = request[n].decision
           /\ request'[n].bound = request[n].bound
           /\ request'[n].generation = request[n].generation
BY RequestsEvolve DEF RequestStep, Decided, SubmittedOnce

\* The messages in flight are those that were there, or say what is on record.
LEMMA PostsOnRecordStep ==
    ASSUME TypeOK, SubmittedOnce, PostsOnRecord, Next
    PROVE  PostsOnRecord'
<1> DEFINE OnRecord(p) ==
        /\ request[p.nonce] # NoRow
        /\ p = [nonce |-> p.nonce, bound |-> request[p.nonce].bound,
                generation |-> request[p.nonce].generation,
                decision |-> request[p.nonce].decision]
<1>1. ASSUME NEW p \in posts \cup accepting
      PROVE  OnRecord(p)'
  <2>1. OnRecord(p) /\ p \in Post
    BY DEF TypeOK, PostsOnRecord
  <2>2. p.nonce \in Nonce /\ Decided(p.nonce)
    BY <2>1 DEF Post, Decided
  <2>3. QED
    BY <2>1, <2>2, DecidedStays DEF Decided
<1>2. CASE posts' \cup accepting' \subseteq posts \cup accepting
  BY <1>1, <1>2 DEF PostsOnRecord
<1>3. ASSUME NEW n \in Nonce, NEW d \in {"approved", "denied"}, HandlePress(n, d)
      PROVE  PostsOnRecord'
  <2>1. /\ request[n] # NoRow
        /\ request' = [request EXCEPT ![n].decision = d]
        /\ posts' = posts \cup {DecisionOn(n, d)}
        /\ accepting' = accepting
    BY <1>3 DEF HandlePress, Resolve, Resolvable, SendDecision
  <2>2. /\ request'[n] # NoRow
        /\ DecisionOn(n, d) =
              [nonce |-> n, bound |-> request'[n].bound,
               generation |-> request'[n].generation,
               decision |-> request'[n].decision]
    BY <2>1, NoRequestAssumption DEF DecisionOn, TypeOK, ApproverTypeOK, Request
  <2>3. QED
    BY <1>1, <2>1, <2>2 DEF PostsOnRecord
<1>4. ASSUME NEW n \in Nonce, RetryDecision(n)
      PROVE  PostsOnRecord'
  <2>1. /\ request[n] # NoRow
        /\ request' = request
        /\ posts' = posts \cup {DecisionOn(n, request[n].decision)}
        /\ accepting' = accepting
    BY <1>4 DEF RetryDecision, UnresolvedDecision, SendDecision
  <2>2. /\ request'[n] # NoRow
        /\ DecisionOn(n, request[n].decision) =
              [nonce |-> n, bound |-> request'[n].bound,
               generation |-> request'[n].generation,
               decision |-> request'[n].decision]
    BY <2>1 DEF DecisionOn
  <2>3. QED
    BY <1>1, <2>1, <2>2 DEF PostsOnRecord
<1>5. CASE PolicyChanges \/ Tick
  BY <1>2, <1>5 DEF PolicyChanges, Tick, callVars
<1>6. CASE Broker
  BY <1>2, <1>6 DEF Broker, Prepare, Submit, PrepareAnswered, PrepareFails,
     SubmitTimesOut, SubmitReplyCut, ClientCancels, CheckDecision,
     ApplyDecision, ExecuteBegins,
     ExecuteClaims, ExecuteGivesUp, ExecuteRuns, ExecuteReturns, BrokerRestart,
     callVars
<1>7. CASE Approver
  BY <1>2, <1>3, <1>4, <1>7 DEF Approver, ReceiveRequest, ShowPrompt,
     PromptDelivered, SendMessageFails, DecisionAnswered, DecisionTimesOut,
     PollerDies, ApproverRestart, callVars
<1>8. QED
  BY <1>5, <1>6, <1>7 DEF Next

-----------------------------------------------------------------------------
(* The broker's side: rows, claims and calls *)

\* An approved row matches the request: it was approved by a message, and what
\* the message says is on record.
LEMMA GrantMatchesPromptStep ==
    ASSUME TypeOK, SubmittedOnce, PostsOnRecord, GrantMatchesPrompt, Next
    PROVE  GrantMatchesPrompt'
<1>1. SUFFICES ASSUME NEW n \in Nonce, caps'[n] # NoRow, caps'[n].approved = 1
               PROVE  /\ request'[n] # NoRow
                      /\ request'[n].decision = "approved"
                      /\ request'[n].bound = caps'[n].bound
  BY DEF GrantMatchesPrompt
<1>2. /\ caps[n] # NoRow
      /\ caps'[n].bound = caps[n].bound
      /\ \/ caps[n].approved = 1
         \/ \E p \in accepting :
              /\ p.nonce = n
              /\ p.decision = "approved"
              /\ p.bound = caps[n].bound
  BY <1>1, RowsEvolve DEF RowStep
<1>3. /\ request[n] # NoRow
      /\ request[n].decision = "approved"
      /\ request[n].bound = caps[n].bound
  <2>1. CASE caps[n].approved = 1
    BY <1>2, <2>1 DEF GrantMatchesPrompt
  <2>2. ASSUME NEW p \in accepting, p.nonce = n, p.decision = "approved",
               p.bound = caps[n].bound
        PROVE  <1>3
    BY <2>2 DEF PostsOnRecord
  <2>3. QED
    BY <1>2, <2>1, <2>2
<1>4. QED
  BY <1>2, <1>3, DecidedStays DEF Decided

\* A spent row stays spent, once its nonce has been used.
LEMMA SpentStays ==
    ASSUME TypeOK, Next, NEW n \in Nonce, prepare[n] # "none", Spent(n)
    PROVE  Spent(n)'
BY RowsEvolve, NoRowAssumption DEF RowStep, Spent, TypeOK, StoreTypeOK, Row

\* A call whose claim succeeds finds the row unclaimed and approved.
LEMMA ClaimFacts ==
    ASSUME TypeOK, CallsKnown, ClaimsSpent, GrantMatchesPrompt,
           NEW t \in Thread, ExecuteClaims(t)
    PROVE  /\ calls[t].nonce \in Nonce
           /\ prepare[calls[t].nonce] = "prepared"
           /\ calls[t].nonce \notin claims
           /\ caps'[calls[t].nonce].consumed = 1
           /\ Decided(calls[t].nonce)
           /\ request[calls[t].nonce].decision = "approved"
           /\ request[calls[t].nonce].bound = calls[t].bound
<1>1. /\ calls[t].nonce \in Nonce
      /\ prepare[calls[t].nonce] = "prepared"
  BY DEF ExecuteClaims, Wait, CallsKnown
<1>2. /\ caps[calls[t].nonce] # NoRow
      /\ caps[calls[t].nonce].bound = calls[t].bound
      /\ caps[calls[t].nonce].approved = 1
      /\ caps[calls[t].nonce].consumed = 0
  BY DEF ExecuteClaims, ClaimRow, Claimable, Bound
<1>3. calls[t].nonce \notin claims
  BY <1>2 DEF ClaimsSpent, Spent
<1>4. caps'[calls[t].nonce].consumed = 1
  BY <1>1, <1>2, NoRowAssumption
     DEF ExecuteClaims, ClaimRow, TypeOK, StoreTypeOK, Row
<1>5. QED
  BY <1>1, <1>2, <1>3, <1>4 DEF GrantMatchesPrompt, Decided

\* Only the claim in consume extends the set of claims.
LEMMA ClaimsGrow ==
    ASSUME TypeOK, Next
    PROVE  \/ claims' = claims
           \/ \E t \in Thread :
                ExecuteClaims(t) /\ claims' = claims \cup {calls[t].nonce}
<1>1. CASE Approver \/ PolicyChanges \/ Tick
  BY <1>1 DEF Approver, ReceiveRequest, ShowPrompt, PromptDelivered,
     SendMessageFails, HandlePress, RetryDecision, DecisionAnswered,
     DecisionTimesOut, PollerDies, ApproverRestart, PolicyChanges, Tick, history
<1>2. ASSUME NEW t \in Thread, ExecuteClaims(t)
      PROVE  claims' = claims \cup {calls[t].nonce}
  BY <1>2 DEF ExecuteClaims
<1>3. CASE Broker
  BY <1>2, <1>3 DEF Broker, Prepare, Submit, PrepareAnswered, PrepareFails,
     SubmitTimesOut, SubmitReplyCut, ClientCancels, CheckDecision,
     ApplyDecision, ExecuteBegins,
     ExecuteGivesUp, ExecuteRuns, ExecuteReturns, BrokerRestart, history
<1>4. QED
  BY <1>1, <1>3 DEF Next

LEMMA ClaimsSpentStep ==
    ASSUME TypeOK, CallsKnown, ClaimsSpent, GrantMatchesPrompt, Next
    PROVE  ClaimsSpent'
<1>1. ASSUME NEW n \in claims
      PROVE  prepare'[n] = "prepared" /\ Spent(n)'
  <2>1. n \in Nonce /\ prepare[n] = "prepared" /\ Spent(n)
    BY DEF ClaimsSpent, TypeOK
  <2>2. QED
    BY <2>1, PreparedStays, SpentStays
<1>2. ASSUME NEW t \in Thread, ExecuteClaims(t), NEW n \in {calls[t].nonce}
      PROVE  prepare'[n] = "prepared" /\ Spent(n)'
  BY <1>2, ClaimFacts, PreparedStays DEF Spent
<1>3. CASE claims' = claims
  BY <1>1, <1>3 DEF ClaimsSpent
<1>4. ASSUME NEW t \in Thread, ExecuteClaims(t),
             claims' = claims \cup {calls[t].nonce}
      PROVE  ClaimsSpent'
  BY <1>1, <1>2, <1>4 DEF ClaimsSpent
<1>5. QED
  BY <1>3, <1>4, ClaimsGrow

\* What a step does to the call of a thread that is past its claim afterwards: it
\* was past it and only moved on, or has claimed its row in this very step.
LEMMA ClaimedCalls ==
    ASSUME TypeOK, Next, NEW t \in Thread,
           calls'[t].state \in {"claimed", "running"}
    PROVE  /\ calls'[t].nonce = calls[t].nonce
           /\ calls'[t].bound = calls[t].bound
           /\ \/ calls'[t].state = calls[t].state
              \/ ExecuteClaims(t) /\ calls'[t].state = "claimed"
              \/ ExecuteRuns(t) /\ calls'[t].state = "running"
<1> USE DEF TypeOK
<1>1. CASE UNCHANGED calls
  BY <1>1
<1>2. CASE Approver \/ PolicyChanges \/ Tick
  BY <1>1, <1>2 DEF Approver, ReceiveRequest, ShowPrompt, PromptDelivered,
     SendMessageFails, HandlePress, RetryDecision, DecisionAnswered,
     DecisionTimesOut, PollerDies, ApproverRestart, PolicyChanges, Tick, callVars
<1>3. ASSUME NEW n \in Nonce,
             Prepare(n) \/ Submit(n) \/ PrepareAnswered(n) \/ SubmitTimesOut(n)
             \/ SubmitReplyCut(n) \/ ClientCancels(n)
      PROVE  UNCHANGED calls
  BY <1>3 DEF Prepare, Submit, PrepareAnswered, PrepareFails, SubmitTimesOut,
     SubmitReplyCut, ClientCancels, callVars
<1>4. ASSUME NEW p, CheckDecision(p) \/ ApplyDecision(p)
      PROVE  UNCHANGED calls
  BY <1>4 DEF CheckDecision, ApplyDecision
<1>5. ASSUME NEW u \in Thread, NEW n \in Nonce, NEW b \in Binding,
             ExecuteBegins(u, n, b)
      PROVE  u # t /\ calls'[t] = calls[t]
  BY <1>5 DEF ExecuteBegins
<1>6. ASSUME NEW u \in Thread, ExecuteGivesUp(u) \/ ExecuteReturns(u)
      PROVE  u # t /\ calls'[t] = calls[t]
  BY <1>6 DEF ExecuteGivesUp, ExecuteReturns, Return, NoCall
<1>7. ASSUME NEW u \in Thread, ExecuteClaims(u) \/ ExecuteRuns(u), u # t
      PROVE  calls'[t] = calls[t]
  BY <1>7 DEF ExecuteClaims, ExecuteRuns
<1>8. ASSUME ExecuteClaims(t) \/ ExecuteRuns(t)
      PROVE  /\ calls'[t].nonce = calls[t].nonce
             /\ calls'[t].bound = calls[t].bound
             /\ \/ ExecuteClaims(t) /\ calls'[t].state = "claimed"
                \/ ExecuteRuns(t) /\ calls'[t].state = "running"
  BY <1>8 DEF ExecuteClaims, ExecuteRuns, Call
<1>9. CASE BrokerRestart
  BY <1>9 DEF BrokerRestart, NoCall
<1>10. QED
  BY <1>1, <1>2, <1>3, <1>4, <1>5, <1>6, <1>7, <1>8, <1>9 DEF Next, Broker

LEMMA CallsClaimedStep ==
    ASSUME TypeOK, SubmittedOnce, CallsKnown, ClaimsSpent, GrantMatchesPrompt,
           CallsClaimed, Next
    PROVE  CallsClaimed'
<1>1. SUFFICES ASSUME NEW t \in Thread,
                      calls'[t].state \in {"claimed", "running"},
                      NEW n \in {calls'[t].nonce}
               PROVE  /\ n \in claims'
                      /\ Decided(n)'
                      /\ request'[n].decision = "approved"
                      /\ request'[n].bound = calls'[t].bound
  BY DEF CallsClaimed
<1>2. /\ n = calls[t].nonce
      /\ calls'[t].bound = calls[t].bound
      /\ \/ calls[t].state \in {"claimed", "running"}
         \/ ExecuteClaims(t)
  BY <1>1, ClaimedCalls DEF ExecuteRuns
<1>3. /\ n \in Nonce
      /\ n \in claims'
      /\ Decided(n)
      /\ request[n].decision = "approved"
      /\ request[n].bound = calls[t].bound
  <2>1. CASE calls[t].state \in {"claimed", "running"}
    BY <1>2, <2>1, ClaimsGrow DEF CallsClaimed, CallsKnown
  <2>2. CASE ExecuteClaims(t)
    BY <1>2, <2>2, ClaimFacts DEF ExecuteClaims
  <2>3. QED
    BY <1>2, <2>1, <2>2
<1>4. QED
  BY <1>2, <1>3, DecidedStays

\* Only ExecuteRuns counts a run, of the operation of its own call.
LEMMA RunsGrow ==
    ASSUME TypeOK, Next
    PROVE  \/ runs' = runs
           \/ \E t \in Thread :
                /\ ExecuteRuns(t)
                /\ runs' = [runs EXCEPT ![calls[t].nonce] = @ + 1]
<1>1. CASE Approver \/ PolicyChanges \/ Tick
  BY <1>1 DEF Approver, ReceiveRequest, ShowPrompt, PromptDelivered,
     SendMessageFails, HandlePress, RetryDecision, DecisionAnswered,
     DecisionTimesOut, PollerDies, ApproverRestart, PolicyChanges, Tick, history
<1>2. ASSUME NEW t \in Thread, ExecuteRuns(t)
      PROVE  runs' = [runs EXCEPT ![calls[t].nonce] = @ + 1]
  BY <1>2 DEF ExecuteRuns
<1>3. CASE Broker
  BY <1>2, <1>3 DEF Broker, Prepare, Submit, PrepareAnswered, PrepareFails,
     SubmitTimesOut, SubmitReplyCut, ClientCancels, CheckDecision,
     ApplyDecision, ExecuteBegins,
     ExecuteClaims, ExecuteGivesUp, ExecuteReturns, BrokerRestart, history
<1>4. QED
  BY <1>1, <1>3 DEF Next

\* A claim keeps its one owner, who has not run it yet; hence it runs once.
LEMMA OneClaimantStep ==
    ASSUME TypeOK, CallsKnown, ClaimsSpent, GrantMatchesPrompt, CallsClaimed,
           OneClaimant, Next
    PROVE  OneClaimant'
<1>1. ASSUME NEW t \in Thread, calls'[t].state = "claimed"
      PROVE  /\ calls[t].nonce \in Nonce
             /\ calls'[t].nonce = calls[t].nonce
             /\ runs[calls[t].nonce] = 0
             /\ ~ExecuteRuns(t)
             /\ \/ calls[t].state = "claimed"
                \/ ExecuteClaims(t) /\ calls[t].nonce \notin claims
  <2>1. /\ calls'[t].nonce = calls[t].nonce
        /\ calls[t].state = "claimed" \/ ExecuteClaims(t)
    BY <1>1, ClaimedCalls
  <2>2. ~ExecuteRuns(t)
    BY <1>1 DEF ExecuteRuns, TypeOK, Call
  <2>3. CASE calls[t].state = "claimed"
    BY <2>1, <2>2, <2>3 DEF OneClaimant, CallsKnown
  <2>4. CASE ExecuteClaims(t)
    BY <2>1, <2>2, <2>4, ClaimFacts DEF OneClaimant
  <2>5. QED
    BY <2>1, <2>3, <2>4
<1>2. ASSUME NEW t \in Thread, NEW u \in Thread,
             calls'[t].state = "claimed", calls'[u].state = "claimed",
             calls'[t].nonce = calls'[u].nonce
      PROVE  t = u
  <2>1. CASE calls[t].state = "claimed" /\ calls[u].state = "claimed"
    BY <1>1, <1>2, <2>1 DEF OneClaimant
  <2>2. CASE ExecuteClaims(t) /\ calls[u].state = "claimed"
    BY <1>1, <1>2, <2>2 DEF CallsClaimed, ExecuteClaims, Wait
  <2>3. CASE calls[t].state = "claimed" /\ ExecuteClaims(u)
    BY <1>1, <1>2, <2>3 DEF CallsClaimed, ExecuteClaims, Wait
  <2>4. CASE ExecuteClaims(t) /\ ExecuteClaims(u)
    BY <1>2, <2>4 DEF ExecuteClaims, Wait, TypeOK, Call
  <2>5. QED
    BY <1>1, <1>2, <2>1, <2>2, <2>3, <2>4
<1>3. ASSUME NEW t \in Thread, calls'[t].state = "claimed"
      PROVE  runs'[calls'[t].nonce] = 0
  <2>1. CASE runs' = runs
    BY <1>1, <1>3, <2>1
  <2>2. ASSUME NEW u \in Thread, ExecuteRuns(u),
               runs' = [runs EXCEPT ![calls[u].nonce] = @ + 1]
        PROVE  runs'[calls'[t].nonce] = 0
    <3>1. u # t /\ calls[u].state = "claimed"
      BY <1>1, <1>3, <2>2 DEF ExecuteRuns
    <3>2. calls[t].state = "claimed"
      BY <1>1, <1>3, <2>2, <3>1 DEF ExecuteRuns, ExecuteClaims, Wait, TypeOK, Call
    <3>3. calls[t].nonce # calls[u].nonce
      BY <3>1, <3>2 DEF OneClaimant
    <3>4. QED
      BY <1>1, <1>3, <2>2, <3>3 DEF TypeOK
  <2>3. QED
    BY <2>1, <2>2, RunsGrow
<1>4. ASSUME NEW n \in Nonce, n \notin claims'
      PROVE  runs'[n] = 0
  <2>1. n \notin claims /\ runs[n] = 0
    BY <1>4, ClaimsGrow DEF OneClaimant
  <2>2. ASSUME NEW u \in Thread, ExecuteRuns(u)
        PROVE  calls[u].nonce # n
    BY <2>1, <2>2 DEF ExecuteRuns, CallsClaimed
  <2>3. QED
    BY <2>1, <2>2, RunsGrow DEF TypeOK
<1>5. QED
  BY <1>2, <1>3, <1>4 DEF OneClaimant

LEMMA RunsAtMostOnceStep ==
    ASSUME TypeOK, OneClaimant, RunsAtMostOnce, Next
    PROVE  RunsAtMostOnce'
<1>1. ASSUME NEW t \in Thread, ExecuteRuns(t)
      PROVE  runs[calls[t].nonce] = 0
  BY <1>1 DEF ExecuteRuns, OneClaimant
<1>2. QED
  BY <1>1, RunsGrow DEF RunsAtMostOnce, TypeOK

\* Only a /prepare that cancels its row answers with an error.
LEMMA FailedPrepareIsDeadStep ==
    ASSUME TypeOK, FailedPrepareIsDead, Next
    PROVE  FailedPrepareIsDead'
<1>1. SUFFICES ASSUME NEW n \in Nonce, prepare'[n] = "failed"
               PROVE  Spent(n)'
  BY DEF FailedPrepareIsDead, Spent
<1>2. CASE prepare[n] = "failed"
  BY <1>2, SpentStays DEF FailedPrepareIsDead, Spent
<1>3. CASE prepare[n] # "failed"
  <2> USE <1>1, <1>3 DEF TypeOK
  <2>1. ASSUME PrepareFails(n)
        PROVE  Spent(n)'
    BY <2>1, NoRowAssumption
       DEF PrepareFails, Cancel, Spent, StoreTypeOK, Row
  <2>2. CASE Approver \/ PolicyChanges \/ Tick
    BY <2>2 DEF Approver, ReceiveRequest, ShowPrompt, PromptDelivered,
       SendMessageFails, HandlePress, RetryDecision, DecisionAnswered,
       DecisionTimesOut, PollerDies, ApproverRestart, PolicyChanges, Tick, callVars
  <2>3. ASSUME NEW m \in Nonce, Prepare(m) \/ Submit(m) \/ ClientCancels(m)
        PROVE  FALSE
    BY <2>3 DEF Prepare, Submit, ClientCancels, callVars
  <2>4. ASSUME NEW m \in Nonce, PrepareAnswered(m) \/ SubmitTimesOut(m)
                                \/ SubmitReplyCut(m)
        PROVE  m = n /\ PrepareFails(n)
    BY <2>4 DEF PrepareAnswered, SubmitTimesOut, SubmitReplyCut, PrepareFails
  <2>5. CASE Broker
    BY <2>1, <2>3, <2>4, <2>5 DEF Broker, CheckDecision, ApplyDecision,
       ExecuteBegins, ExecuteClaims, ExecuteGivesUp, ExecuteRuns, ExecuteReturns,
       BrokerRestart
  <2>6. QED
    BY <2>2, <2>5 DEF Next
<1>4. QED
  BY <1>2, <1>3

-----------------------------------------------------------------------------
(* What the approver knows of the broker's table *)

\* The effect of a decision on the broker's row lasts: the decision is final, an
\* approved row stays approved, a spent one spent, and no row is issued again for
\* a nonce that already has a request.
LEMMA AppliedStays ==
    ASSUME TypeOK, SubmittedOnce, Next, NEW n \in Nonce, Decided(n), Applied(n)
    PROVE  Decided(n)' /\ Applied(n)'
<1>1. /\ Decided(n)'
      /\ request'[n].decision = request[n].decision
  BY DecidedStays
<1>2. prepare[n] # "none"
  BY DEF Decided, SubmittedOnce
<1>3. caps'[n] # NoRow => /\ caps[n] # NoRow
                          /\ caps[n].approved = 1 => caps'[n].approved = 1
                          /\ caps[n].consumed = 1 => caps'[n].consumed = 1
  BY <1>2, RowsEvolve DEF RowStep
<1>4. QED
  BY <1>1, <1>3 DEF Applied

\* A step by which the polling thread comes to have an answer, or goes on having
\* one: what it is waiting for does not change, and "accepted" is said in the very
\* step that applies the decision.
LEMMA PollerMoves ==
    ASSUME TypeOK, Next,
           poller'.state \in {"waiting", "accepted", "refused"}
    PROVE  \/ poller' = poller
           \/ /\ poller'.state = "waiting"
              /\ \E n \in Nonce :
                    /\ poller'.nonce = n
                    /\ \/ \E d \in {"approved", "denied"} : HandlePress(n, d)
                       \/ RetryDecision(n)
           \/ /\ poller.state = "waiting"
              /\ poller'.nonce = poller.nonce
              /\ \/ poller'.state = "refused"
                 \/ /\ poller'.state = "accepted"
                    /\ \E p \in accepting :
                        p.nonce = poller.nonce /\ DecisionApplies(p)
<1> USE DEF TypeOK, ApproverTypeOK, Poller
<1>1. CASE PolicyChanges \/ Tick
  BY <1>1 DEF PolicyChanges, Tick, approverVars
<1>2. ASSUME NEW n \in Nonce,
             Prepare(n) \/ Submit(n) \/ PrepareAnswered(n) \/ SubmitTimesOut(n)
             \/ SubmitReplyCut(n) \/ ClientCancels(n)
      PROVE  poller' = poller
  BY <1>2 DEF Prepare, Submit, PrepareAnswered, PrepareFails, SubmitTimesOut,
     SubmitReplyCut, ClientCancels, approverVars
<1>3. ASSUME NEW p \in posts, CheckDecision(p)
      PROVE  \/ poller' = poller
             \/ /\ poller.state = "waiting"
                /\ poller'.nonce = poller.nonce
                /\ poller'.state = "refused"
  BY <1>3 DEF CheckDecision, Answer
<1>4. ASSUME NEW p \in accepting, ApplyDecision(p)
      PROVE  \/ poller' = poller
             \/ /\ poller.state = "waiting"
                /\ poller'.nonce = poller.nonce
                /\ \/ poller'.state = "refused"
                   \/ /\ poller'.state = "accepted"
                      /\ p.nonce = poller.nonce
                      /\ DecisionApplies(p)
  BY <1>4 DEF ApplyDecision, Answer
<1>5. ASSUME NEW t \in Thread,
             \/ \E n \in Nonce, b \in Binding : ExecuteBegins(t, n, b)
             \/ ExecuteClaims(t) \/ ExecuteGivesUp(t) \/ ExecuteRuns(t)
             \/ ExecuteReturns(t)
      PROVE  poller' = poller
  BY <1>5 DEF ExecuteBegins, ExecuteClaims, ExecuteGivesUp, ExecuteRuns,
     ExecuteReturns, approverVars
<1>6. CASE BrokerRestart
  BY <1>6 DEF BrokerRestart, PollerIdle
<1>7. ASSUME NEW n \in Nonce,
             \/ ReceiveRequest(n) \/ ShowPrompt(n) \/ PromptDelivered(n)
             \/ SendMessageFails(n)
      PROVE  poller' = poller
  BY <1>7 DEF ReceiveRequest, ShowPrompt, PromptDelivered, SendMessageFails
<1>8. ASSUME NEW n \in Nonce,
             \/ \E d \in {"approved", "denied"} : HandlePress(n, d)
             \/ RetryDecision(n)
      PROVE  poller'.state = "waiting" /\ poller'.nonce = n
  BY <1>8 DEF HandlePress, RetryDecision, SendDecision
<1>9. ASSUME DecisionAnswered \/ DecisionTimesOut \/ PollerDies \/ ApproverRestart
      PROVE  FALSE
  BY <1>9 DEF DecisionAnswered, DecisionTimesOut, PollerDies, ApproverRestart,
     PollerIdle
<1>10. QED
  BY <1>1, <1>2, <1>3, <1>4, <1>5, <1>6, <1>7, <1>8, <1>9 DEF Next, Broker, Approver

LEMMA AnswersTrueStep ==
    ASSUME TypeOK, SubmittedOnce, PostsOnRecord, AnswersTrue, Next
    PROVE  AnswersTrue'
<1>1. SUFFICES ASSUME poller'.state \in {"waiting", "accepted", "refused"}
               PROVE  /\ poller'.nonce \in Nonce
                      /\ Decided(poller.nonce)'
                      /\ poller'.state = "accepted" => Applied(poller.nonce)'
  BY DEF AnswersTrue
<1>2. CASE poller' = poller
  BY <1>1, <1>2, DecidedStays, AppliedStays DEF AnswersTrue
<1>3. ASSUME NEW n \in Nonce, poller'.nonce = n, poller'.state = "waiting",
             (\E d \in {"approved", "denied"} : HandlePress(n, d)) \/ RetryDecision(n)
      PROVE  poller'.nonce \in Nonce /\ Decided(poller.nonce)'
  <2>1. Decided(n)'
    <3>1. CASE RetryDecision(n)
      BY <3>1 DEF RetryDecision, UnresolvedDecision, Decided
    <3>2. ASSUME NEW d \in {"approved", "denied"}, HandlePress(n, d)
          PROVE  Decided(n)'
      BY <3>2, NoRequestAssumption DEF HandlePress, Resolve, Resolvable, Decided,
         TypeOK, ApproverTypeOK, Request
    <3>3. QED
      BY <1>3, <3>1, <3>2
  <2>2. QED
    BY <1>3, <2>1
<1>4. ASSUME poller.state = "waiting", poller'.nonce = poller.nonce
      PROVE  poller'.nonce \in Nonce /\ Decided(poller.nonce)'
  BY <1>4, DecidedStays DEF AnswersTrue
<1>5. ASSUME poller.state = "waiting", poller'.nonce = poller.nonce,
             NEW p \in accepting, p.nonce = poller.nonce, DecisionApplies(p)
      PROVE  Applied(poller.nonce)'
  <2> DEFINE n == p.nonce
  <2>1. /\ n \in Nonce /\ Decided(n)
        /\ p.decision = request[n].decision
        /\ p.decision \in {"approved", "denied"}
    BY <1>5 DEF AnswersTrue, PostsOnRecord, TypeOK, Post
  <2>2. request'[n].decision = request[n].decision
    BY <2>1, DecidedStays
  <2>3. IF p.decision = "approved" THEN caps'[n].approved = 1
                                   ELSE caps'[n].consumed = 1
    BY <1>5, <2>1, NoRowAssumption DEF DecisionApplies, Approve, CancelBound,
       Pending, Bound, TypeOK, StoreTypeOK, Row
  <2>4. QED
    BY <1>5, <2>1, <2>2, <2>3 DEF Applied
<1>6. QED
  BY <1>1, <1>2, <1>3, <1>4, <1>5, PollerMoves

LEMMA GrantedAppliedStep ==
    ASSUME TypeOK, SubmittedOnce, AnswersTrue, GrantedApplied, Next
    PROVE  GrantedApplied'
<1>1. SUFFICES ASSUME NEW n \in Nonce, request'[n] # NoRow, request'[n].granted = 1
               PROVE  Decided(n)' /\ Applied(n)'
  BY DEF GrantedApplied
<1>2. /\ request[n] # NoRow
      /\ request[n].granted = 1 \/ (poller.state = "accepted" /\ poller.nonce = n)
  BY <1>1, RequestsEvolve DEF RequestStep, GrantedApplied
<1>3. Decided(n) /\ Applied(n)
  BY <1>2 DEF GrantedApplied, AnswersTrue
<1>4. QED
  BY <1>3, AppliedStays

-----------------------------------------------------------------------------
(* The invariant and what it gives *)

LEMMA InvInit == Init => IInv
<1> SUFFICES ASSUME Init PROVE IInv
  OBVIOUS
<1>1. TypeOK /\ PermitsAccounted
  BY TypeInit
<1>2. SubmittedOnce
  BY DEF Init, ApproverInit, SubmittedOnce
<1>3. PostsOnRecord
  BY DEF Init, PostsOnRecord
<1>4. GrantMatchesPrompt /\ FailedPrepareIsDead
  BY DEF Init, StoreInit, GrantMatchesPrompt, FailedPrepareIsDead
<1>5. ClaimsSpent /\ RunsAtMostOnce
  BY DEF Init, ClaimsSpent, RunsAtMostOnce
<1>6. CallsKnown /\ CallsClaimed /\ OneClaimant
  BY DEF Init, CallsKnown, CallsClaimed, OneClaimant, NoCall
<1>7. AnswersTrue
  BY DEF Init, ApproverInit, PollerIdle, AnswersTrue
<1>8. GrantedApplied
  BY DEF Init, ApproverInit, GrantedApplied
<1>9. QED
  BY <1>1, <1>2, <1>3, <1>4, <1>5, <1>6, <1>7, <1>8 DEF IInv

LEMMA InvStep ==
    ASSUME IInv, [Next]_vars
    PROVE  IInv'
<1> USE DEF IInv
<1>1. CASE Next
  <2>1. TypeOK' /\ PermitsAccounted' /\ CallsKnown'
    BY <1>1, TypeStep DEF TypeInv
  <2>2. SubmittedOnce' /\ PostsOnRecord'
    BY <1>1, SubmittedOnceStep, PostsOnRecordStep
  <2>3. GrantMatchesPrompt' /\ ClaimsSpent'
    BY <1>1, GrantMatchesPromptStep, ClaimsSpentStep
  <2>4. CallsClaimed' /\ OneClaimant' /\ RunsAtMostOnce'
    BY <1>1, CallsClaimedStep, OneClaimantStep, RunsAtMostOnceStep
  <2>5. AnswersTrue' /\ GrantedApplied' /\ FailedPrepareIsDead'
    BY <1>1, AnswersTrueStep, GrantedAppliedStep, FailedPrepareIsDeadStep
  <2>6. QED
    BY <2>1, <2>2, <2>3, <2>4, <2>5
<1>2. CASE UNCHANGED vars
  <2> USE <1>2 DEF vars, adminVars, storeVars, approverVars, callVars, history
  <2>1. TypeOK' /\ PermitsAccounted' /\ CallsKnown'
    BY TypeStep DEF TypeInv
  <2>2. SubmittedOnce' /\ PostsOnRecord'
    BY DEF SubmittedOnce, PostsOnRecord
  <2>3. GrantMatchesPrompt' /\ ClaimsSpent'
    BY DEF GrantMatchesPrompt, ClaimsSpent, Spent
  <2>4. CallsClaimed' /\ OneClaimant' /\ RunsAtMostOnce'
    BY DEF CallsClaimed, Decided, OneClaimant, RunsAtMostOnce
  <2>5. AnswersTrue' /\ GrantedApplied' /\ FailedPrepareIsDead'
    BY DEF AnswersTrue, GrantedApplied, Decided, Applied, FailedPrepareIsDead
  <2>6. QED
    BY <2>1, <2>2, <2>3, <2>4, <2>5
<1>3. QED
  BY <1>1, <1>2

\* The inductive invariant holds in every reachable state.
THEOREM Invariance == Spec => []IInv
<1>1. Init => IInv
  BY InvInit
<1>2. IInv /\ [Next]_vars => IInv'
  BY InvStep
<1>3. QED
  BY <1>1, <1>2, PTL DEF Spec

\* One approval runs its operation at most once, for any number of operations,
\* threads, calls and failures.
THEOREM AtMostOnce == Spec => []RunsAtMostOnce
<1>1. IInv => RunsAtMostOnce
  BY DEF IInv
<1>2. QED
  BY <1>1, Invariance, PTL

\* A call past its claim is about an operation that its user approved, as the
\* approver has it on record, and its row is spent.
THEOREM AsApproved == Spec => []RunsAsApproved
<1>1. IInv => RunsAsApproved
  BY DEF IInv, CallsClaimed, ClaimsSpent, Spent, Decided, RunsAsApproved
<1>2. QED
  BY <1>1, Invariance, PTL

\* An approved row carries the binding of the prompt its user approved.
THEOREM ApprovalMatchesPrompt == Spec => []GrantMatchesPrompt
<1>1. IInv => GrantMatchesPrompt
  BY DEF IInv
<1>2. QED
  BY <1>1, Invariance, PTL

\* The approver stops retrying a decision only when the broker has applied it.
THEOREM RetriedUntilApplied == Spec => []GrantedMeansApplied
<1>1. IInv => GrantedMeansApplied
  BY DEF IInv, GrantedApplied, Decided, Applied, GrantedMeansApplied
<1>2. QED
  BY <1>1, Invariance, PTL

\* A capability whose /prepare answered with an error can never run.
THEOREM FailureIsFinal == Spec => []FailedPrepareIsDead
<1>1. IInv => FailedPrepareIsDead
  BY DEF IInv
<1>2. QED
  BY <1>1, Invariance, PTL

\* No step takes a decision of the user back or turns it into the other one.
THEOREM DecisionsAreFinal == Spec => DecisionIsFinal
<1>1. IInv /\ [Next]_vars =>
        [\A n \in Nonce :
            (request[n] # NoRow /\ request[n].decision # "pending") =>
                /\ request'[n] # NoRow
                /\ request'[n].decision = request[n].decision]_vars
  BY DecidedStays DEF IInv, Decided
<1>2. QED
  BY <1>1, Invariance, PTL DEF Spec, DecisionIsFinal

-----------------------------------------------------------------------------
(***************************************************************************)
(* ExecutionApproval implements OneTimeGrant.  The mapping reads a grant   *)
(* off the broker's row and its verdict off the approver's; every step of  *)
(* the protocol is one step of OneTimeGrant, or none: the user's press     *)
(* decides, the broker's acceptance approves, the UPDATE in consume        *)
(* claims, and everything else that touches a row (denial, cancellation, a *)
(* restart under a newer policy, the clock) voids grants that were not     *)
(* claimed.                                                                *)
(***************************************************************************)

G == [n \in Nonce |-> GrantState(n)]
V == [n \in Nonce |-> Verdict(n)]

-----------------------------------------------------------------------------
(* Steps seen through the mapping *)

LEMMA InitMaps == Init => Grant!Init
<1> SUFFICES ASSUME Init PROVE Grant!Init
  OBVIOUS
<1>1. \A n \in Nonce : GrantState(n) = "unissued"
  BY DEF Init, GrantState
<1>2. \A n \in Nonce : Verdict(n) = "none"
  BY DEF Init, ApproverInit, Verdict
<1>3. QED
  BY <1>1, <1>2 DEF Init, Grant!Init

\* Only the press of a button changes a verdict.
LEMMA VerdictSteps ==
    ASSUME IInv, Next
    PROVE  \/ V' = V
           \/ \E n \in Nonce, d \in {"approved", "denied"} : HandlePress(n, d)
<1>0. TypeOK /\ SubmittedOnce
  BY DEF IInv
<1> USE <1>0, NoRequestAssumption DEF TypeOK, ApproverTypeOK, Request, Verdict, V
<1>1. CASE UNCHANGED request
  BY <1>1
<1>2. CASE Broker \/ PolicyChanges \/ Tick
  BY <1>1, <1>2 DEF Broker, Prepare, Submit, PrepareAnswered, PrepareFails,
     SubmitTimesOut, SubmitReplyCut, ClientCancels, CheckDecision,
     ApplyDecision, ExecuteBegins,
     ExecuteClaims, ExecuteGivesUp, ExecuteRuns, ExecuteReturns, BrokerRestart,
     PolicyChanges, Tick, approverVars
<1>3. ASSUME NEW n \in Nonce, ReceiveRequest(n)
      PROVE  V' = V
  <2>1. request[n] = NoRow
    BY <1>3 DEF ReceiveRequest, SubmittedOnce
  <2>2. \A m \in Nonce : Verdict(m)' = Verdict(m)
    BY <1>3, <2>1 DEF ReceiveRequest, CreateRequest
  <2>3. QED
    BY <2>2
<1>4. ASSUME NEW n \in Nonce,
             ShowPrompt(n) \/ PromptDelivered(n) \/ SendMessageFails(n)
      PROVE  V' = V
  <2>1. \A m \in Nonce : Verdict(m)' = Verdict(m)
    BY <1>4 DEF ShowPrompt, PromptDelivered, SendMessageFails, MarkDelivered, Discard
  <2>2. QED
    BY <2>1
<1>5. CASE DecisionAnswered
  <2>1. \A m \in Nonce : Verdict(m)' = Verdict(m)
    BY <1>5 DEF DecisionAnswered, MarkGranted
  <2>2. QED
    BY <2>1
<1>6. CASE \/ \E n \in Nonce : RetryDecision(n)
           \/ DecisionTimesOut \/ PollerDies \/ ApproverRestart
  BY <1>1, <1>6 DEF RetryDecision, DecisionTimesOut, PollerDies, ApproverRestart
<1>7. QED
  BY <1>2, <1>3, <1>4, <1>5, <1>6 DEF Next, Approver

\* Grants that change only by becoming void are voided by one step of OneTimeGrant.
LEMMA VoidMaps ==
    ASSUME V' = V, runs' = runs,
           \A n \in Nonce :
              \/ G'[n] = G[n]
              \/ G[n] \in {"pending", "approved"} /\ G'[n] = "void"
    PROVE  Grant!Next
<1> DEFINE ns == {n \in Nonce : G'[n] # G[n]}
<1>1. \A n \in ns : G[n] \in {"pending", "approved"}
  OBVIOUS
<1>2. G' = [n \in Nonce |-> IF n \in ns THEN "void" ELSE G[n]]
  BY DEF G
<1>3. Grant!Void(ns)
  BY <1>1, <1>2 DEF Grant!Void, G, V
<1>4. QED
  BY <1>3 DEF Grant!Next

\* What the mapping says of a row that is not claimed.
LEMMA GrantOfRow ==
    ASSUME NEW n \in Nonce, n \notin claims, prepare[n] # "none"
    PROVE  /\ Spent(n) => GrantState(n) = "void"
           /\ ~Spent(n) =>
                GrantState(n) = IF caps[n].expires_at <= now THEN "void"
                                ELSE IF caps[n].approved = 1 THEN "approved"
                                ELSE "pending"
BY DEF GrantState, Spent

\* A grant does not move with a step that leaves its row, its claim, the clock and
\* the fact that it was issued alone.
LEMMA GrantSame ==
    ASSUME NEW n \in Nonce, caps'[n] = caps[n], now' = now,
           n \in claims <=> n \in claims',
           prepare[n] = "none" <=> prepare'[n] = "none"
    PROVE  G'[n] = G[n]
BY DEF G, GrantState

\* As time passes, or its row is spent or deleted, it at most becomes void.
LEMMA GrantVoided ==
    ASSUME TypeOK, ClaimsSpent, NEW n \in Nonce, now' \in Nat, now' >= now,
           caps'[n] = caps[n] \/ Spent(n)',
           claims' = claims,
           prepare[n] = "none" <=> prepare'[n] = "none"
    PROVE  \/ G'[n] = G[n]
           \/ G[n] \in {"pending", "approved"} /\ G'[n] = "void"
<1>1. CASE prepare[n] = "none"
  BY <1>1 DEF G, GrantState
<1>2. CASE prepare[n] # "none" /\ n \in claims
  BY <1>2 DEF G, GrantState
<1>3. CASE prepare[n] # "none" /\ n \notin claims
  <2>1. G[n] \in {"pending", "approved", "void"}
    BY <1>3 DEF G, GrantState
  <2>2. CASE Spent(n)'
    <3>1. G'[n] = "void"
      BY <1>3, <2>2 DEF G, GrantState, Spent
    <3>2. QED
      BY <2>1, <3>1
  <2>3. CASE caps'[n] = caps[n] /\ ~Spent(n)
    <3>1. now \in Nat /\ caps[n].expires_at \in Nat
      BY <2>3 DEF TypeOK, StoreTypeOK, Row, Spent
    <3>2. CASE caps[n].expires_at <= now'
      <4>1. G'[n] = "void"
        BY <1>3, <2>3, <3>2 DEF G, GrantState
      <4>2. QED
        BY <2>1, <4>1
    <3>3. CASE ~(caps[n].expires_at <= now')
      <4>1. ~(caps[n].expires_at <= now)
        BY <3>1, <3>3
      <4>2. QED
        BY <1>3, <2>3, <3>3, <4>1 DEF G, GrantState
    <3>4. QED
      BY <3>2, <3>3
  <2>4. CASE caps'[n] = caps[n] /\ Spent(n)
    BY <1>3, <2>4 DEF G, GrantState, Spent
  <2>5. QED
    BY <2>2, <2>3, <2>4
<1>4. QED
  BY <1>1, <1>2, <1>3

-----------------------------------------------------------------------------
(* The steps, one by one *)

LEMMA PressMaps ==
    ASSUME IInv, NEW n \in Nonce, NEW d \in {"approved", "denied"}, HandlePress(n, d)
    PROVE  Grant!Next
<1>0. TypeOK /\ SubmittedOnce
  BY DEF IInv
<1>1. G' = G /\ runs' = runs
  <2>1. \A m \in Nonce : G'[m] = G[m]
    BY GrantSame DEF HandlePress, storeVars, history
  <2>2. QED
    BY <2>1 DEF G, HandlePress, history
<1>2. G[n] # "unissued"
  <2>1. prepare[n] # "none"
    BY <1>0 DEF HandlePress, Resolve, Resolvable, SubmittedOnce
  <2>2. QED
    BY <2>1 DEF G, GrantState
<1>3. V[n] = "none" /\ V' = [V EXCEPT ![n] = d]
  <2>1. request[n] # NoRow /\ request[n].decision = "pending"
    BY DEF HandlePress, Resolve, Resolvable
  <2>2. request' = [request EXCEPT ![n].decision = d]
    BY DEF HandlePress, Resolve
  <2>3. request'[n] # NoRow /\ request'[n].decision = d
    BY <1>0, <2>1, <2>2, NoRequestAssumption DEF TypeOK, ApproverTypeOK, Request
  <2>4. Verdict(n) = "none" /\ Verdict(n)' = d
    BY <2>1, <2>3 DEF Verdict
  <2>5. \A m \in Nonce \ {n} : Verdict(m)' = Verdict(m)
    BY <1>0, <2>2 DEF Verdict, TypeOK, ApproverTypeOK
  <2>6. QED
    BY <2>4, <2>5 DEF V
<1>4. Grant!Decide(n, d)
  BY <1>1, <1>2, <1>3 DEF Grant!Decide, G, V
<1>5. QED
  BY <1>4 DEF Grant!Next

LEMMA RunMaps ==
    ASSUME IInv, NEW t \in Thread, ExecuteRuns(t)
    PROVE  Grant!Next
<1>1. /\ calls[t].nonce \in claims
      /\ calls[t].nonce \in Nonce
      /\ prepare[calls[t].nonce] = "prepared"
      /\ runs[calls[t].nonce] = 0
  BY DEF IInv, ExecuteRuns, CallsClaimed, CallsKnown, OneClaimant
<1>2. G' = G /\ V' = V
  <2>1. \A m \in Nonce : G'[m] = G[m]
    BY GrantSame DEF ExecuteRuns, storeVars
  <2>2. \A m \in Nonce : Verdict(m)' = Verdict(m)
    BY DEF ExecuteRuns, approverVars, Verdict
  <2>3. QED
    BY <2>1, <2>2 DEF G, V
<1>3. G[calls[t].nonce] = "claimed"
  BY <1>1 DEF G, GrantState
<1>4. runs' = [runs EXCEPT ![calls[t].nonce] = 1]
  BY <1>1 DEF ExecuteRuns
<1>5. Grant!Run(calls[t].nonce)
  BY <1>1, <1>2, <1>3, <1>4 DEF Grant!Run, G, V
<1>6. QED
  BY <1>1, <1>5 DEF Grant!Next

LEMMA PrepareMaps ==
    ASSUME IInv, NEW n \in Nonce, Prepare(n), V' = V
    PROVE  Grant!Next
<1>0. TypeOK /\ ClaimsSpent
  BY DEF IInv
<1>1. /\ prepare[n] = "none" /\ prepare' = [prepare EXCEPT ![n] = "issued"]
      /\ Issue(n, Asked[n], generation)
      /\ now' = now /\ claims' = claims /\ runs' = runs
  BY DEF Prepare, history
<1>2. n \notin claims
  BY <1>0, <1>1 DEF ClaimsSpent
<1>3. G[n] = "unissued" /\ G'[n] = "pending"
  <2>1. /\ caps'[n] # NoRow
        /\ caps'[n].consumed = 0
        /\ caps'[n].approved = 0
        /\ ~(caps'[n].expires_at <= now)
    <3> DEFINE r == [bound |-> Asked[n], generation |-> generation,
                     expires_at |-> now + TTL, approved |-> 0, consumed |-> 0]
    <3>1. now \in Nat /\ TTL \in Nat \ {0} /\ PurgeAfter \in Nat
      BY <1>0, TTLAssumption, PurgeAssumption DEF TypeOK, StoreTypeOK
    <3>2. r \in Row /\ r # NoRow
      BY <1>0, <3>1, AskedAssumption, NoRowAssumption DEF TypeOK, AdminTypeOK, Row
    <3>3. ~(r.expires_at < now - PurgeAfter) /\ ~(r.expires_at <= now)
      BY <3>1
    <3>4. caps'[n] = r
      BY <1>0, <1>1, <3>2, <3>3 DEF Issue, PurgeExpired, TypeOK, StoreTypeOK
    <3>5. QED
      BY <3>2, <3>3, <3>4
  <2>2. prepare'[n] = "issued"
    BY <1>0, <1>1 DEF TypeOK
  <2>3. QED
    BY <1>1, <1>2, <2>1, <2>2 DEF G, GrantState
<1>4. ASSUME NEW m \in Nonce, m # n
      PROVE  G'[m] = G[m]
  <2>1. prepare'[m] = prepare[m]
    BY <1>0, <1>1, <1>4 DEF TypeOK
  <2>2. CASE caps'[m] = caps[m]
    BY <1>1, <2>1, <2>2, GrantSame
  <2>3. CASE caps'[m] = NoRow /\ caps[m] # NoRow
    <3>1. caps[m].expires_at <= now
      BY <1>0, <1>1, <1>4, <2>3, PurgeAssumption
         DEF Issue, PurgeExpired, TypeOK, StoreTypeOK, Row
    <3>2. QED
      BY <1>1, <2>1, <2>3, <3>1 DEF G, GrantState
  <2>4. caps'[m] = caps[m] \/ (caps'[m] = NoRow /\ caps[m] # NoRow)
    BY <1>0, <1>1, <1>4 DEF Issue, PurgeExpired, TypeOK, StoreTypeOK
  <2>5. QED
    BY <2>2, <2>3, <2>4
<1>5. G' = [G EXCEPT ![n] = "pending"]
  BY <1>3, <1>4 DEF G
<1>6. Grant!Issue(n)
  BY <1>1, <1>3, <1>5 DEF Grant!Issue, Grant!Move, G, V
<1>7. QED
  BY <1>6 DEF Grant!Next

LEMMA ClaimMaps ==
    ASSUME IInv, NEW t \in Thread, ExecuteClaims(t), V' = V
    PROVE  Grant!Next
<1> DEFINE n == calls[t].nonce
<1>0. TypeOK /\ ClaimsSpent /\ CallsKnown /\ GrantMatchesPrompt
  BY DEF IInv
<1>1. /\ n \in Nonce /\ prepare[n] = "prepared" /\ n \notin claims
      /\ claims' = claims \cup {n}
      /\ now' = now /\ prepare' = prepare /\ runs' = runs
      /\ caps' = [caps EXCEPT ![n].consumed = 1]
  BY <1>0, ClaimFacts DEF ExecuteClaims, ClaimRow
<1>2. caps[n] # NoRow /\ caps[n].approved = 1 /\ caps[n].consumed = 0
      /\ caps[n].expires_at > now
  BY DEF ExecuteClaims, ClaimRow, Claimable, Bound
<1>3. G[n] = "approved"
  <2>1. ~(caps[n].expires_at <= now)
    BY <1>0, <1>1, <1>2 DEF TypeOK, StoreTypeOK, Row
  <2>2. QED
    BY <1>1, <1>2, <2>1 DEF G, GrantState
<1> HIDE DEF n
<1>4. [m \in Nonce |-> GrantState(m)]' = [G EXCEPT ![n] = "claimed"]
  <2>1. ASSUME NEW m \in Nonce, m # n
        PROVE  G'[m] = G[m]
    BY <1>0, <1>1, <2>1, GrantSame DEF TypeOK, StoreTypeOK
  <2>2. G'[n] = "claimed"
    BY <1>1 DEF G, GrantState
  <2>3. QED
    BY <2>1, <2>2 DEF G
<1>5. Grant!Claim(n)
  BY <1>1, <1>3, <1>4 DEF Grant!Claim, Grant!Move, G, V
<1>6. QED
  BY <1>1, <1>5 DEF Grant!Next

\* The broker accepts a decision: the grant is approved, after its verdict, or
\* void, or the step changes nothing that the mapping sees.
LEMMA ApplyMaps ==
    ASSUME IInv, NEW p \in accepting, ApplyDecision(p), V' = V
    PROVE  Grant!Next
<1> DEFINE n == p.nonce
<1>0. TypeOK /\ ClaimsSpent /\ PostsOnRecord /\ SubmittedOnce
  BY DEF IInv
<1>1. /\ now' = now /\ claims' = claims /\ runs' = runs /\ prepare' = prepare
      /\ now \in Nat
  BY <1>0 DEF ApplyDecision, history, TypeOK, StoreTypeOK
<1>2. /\ n \in Nonce /\ p.decision \in {"approved", "denied"}
      /\ request[n] # NoRow
      /\ p.decision = request[n].decision
  BY <1>0 DEF TypeOK, Post, PostsOnRecord
<1> HIDE DEF n
<1>3. CASE UNCHANGED caps
  <2>1. \A m \in Nonce : G'[m] = G[m]
    BY <1>1, <1>3, GrantSame
  <2>2. QED
    BY <1>1, <2>1, VoidMaps
<1>4. CASE DecisionApplies(p) /\ p.decision = "denied"
  <2>1. caps' = [caps EXCEPT ![n].consumed = 1] /\ caps[n] # NoRow
    BY <1>4 DEF DecisionApplies, CancelBound, Pending, Bound, n
  <2>2. \A m \in Nonce : caps'[m] = caps[m] \/ Spent(m)'
    BY <1>0, <2>1 DEF TypeOK, StoreTypeOK, Row, Spent
  <2>3. QED
    BY <1>0, <1>1, <2>2, GrantVoided, VoidMaps
<1>5. CASE DecisionApplies(p) /\ p.decision = "approved"
  <2>1. /\ caps' = [caps EXCEPT ![n].approved = 1]
        /\ caps[n] # NoRow /\ caps[n].approved = 0 /\ caps[n].consumed = 0
        /\ caps[n].expires_at > now
    BY <1>5 DEF DecisionApplies, Approve, Pending, Bound, n
  <2>2. caps[n] \in Row
    BY <1>0, <1>2, <2>1 DEF TypeOK, StoreTypeOK
  <2>3. /\ caps'[n] # NoRow /\ caps'[n].approved = 1 /\ caps'[n].consumed = 0
        /\ caps'[n].expires_at = caps[n].expires_at
    BY <1>0, <1>2, <2>1, <2>2, NoRowAssumption DEF TypeOK, StoreTypeOK, Row
  <2>4. ~(caps[n].expires_at <= now)
    BY <1>1, <2>1, <2>2 DEF Row
  <2>5. prepare[n] # "none" /\ n \notin claims
    BY <1>0, <1>2, <2>1 DEF SubmittedOnce, ClaimsSpent, Spent
  <2>6. G[n] = "pending" /\ G'[n] = "approved"
    BY <1>1, <1>2, <2>1, <2>3, <2>4, <2>5 DEF G, GrantState
  <2>7. ASSUME NEW m \in Nonce, m # n
        PROVE  G'[m] = G[m]
    BY <1>0, <1>1, <2>1, <2>7, GrantSame DEF TypeOK, StoreTypeOK
  <2>8. G' = [G EXCEPT ![n] = "approved"]
    BY <2>6, <2>7 DEF G
  <2>9. V[n] = "approved"
    BY <1>2, <1>5 DEF V, Verdict
  <2>10. Grant!Approve(n)
    BY <1>1, <2>6, <2>8, <2>9 DEF Grant!Approve, Grant!Move, G, V
  <2>11. QED
    BY <1>2, <2>10 DEF Grant!Next
<1>6. DecisionApplies(p) \/ UNCHANGED caps
  BY DEF ApplyDecision
<1>7. QED
  BY <1>2, <1>3, <1>4, <1>5, <1>6

\* The steps that are left: to the mapping, time passes and rows are spent.
LEMMA OtherMaps ==
    ASSUME IInv, V' = V,
           \/ \E n \in Nonce : Submit(n) \/ PrepareAnswered(n) \/ SubmitTimesOut(n)
                               \/ SubmitReplyCut(n) \/ ClientCancels(n)
           \/ \E p \in posts : CheckDecision(p)
           \/ \E t \in Thread, n \in Nonce, b \in Binding : ExecuteBegins(t, n, b)
           \/ \E t \in Thread : ExecuteGivesUp(t) \/ ExecuteReturns(t)
           \/ BrokerRestart
           \/ \E n \in Nonce : ReceiveRequest(n) \/ ShowPrompt(n)
                                  \/ PromptDelivered(n) \/ SendMessageFails(n)
                                  \/ RetryDecision(n)
           \/ DecisionAnswered \/ DecisionTimesOut \/ PollerDies \/ ApproverRestart
           \/ PolicyChanges
           \/ Tick
    PROVE  Grant!Next
<1>0. TypeOK /\ ClaimsSpent /\ now \in Nat
  BY DEF IInv, TypeOK, StoreTypeOK
<1>1. claims' = claims /\ runs' = runs
  BY DEF Submit, PrepareAnswered, PrepareFails, SubmitTimesOut, SubmitReplyCut,
     ClientCancels,
     CheckDecision, ExecuteBegins, ExecuteGivesUp, ExecuteReturns, BrokerRestart,
     ReceiveRequest, ShowPrompt, PromptDelivered, SendMessageFails, RetryDecision,
     DecisionAnswered, DecisionTimesOut, PollerDies, ApproverRestart, PolicyChanges,
     Tick, history
<1>2. now' \in Nat /\ now' >= now
  <2>1. now' = now \/ now' = now + 1
    BY DEF Submit, PrepareAnswered, PrepareFails, SubmitTimesOut,
       SubmitReplyCut, ClientCancels,
       CheckDecision, ExecuteBegins, ExecuteGivesUp, ExecuteReturns, BrokerRestart,
       ReceiveRequest, ShowPrompt, PromptDelivered, SendMessageFails, RetryDecision,
       DecisionAnswered, DecisionTimesOut, PollerDies, ApproverRestart,
       PolicyChanges, Tick, storeVars
  <2>2. QED
    BY <1>0, <2>1
<1>3. \A m \in Nonce : prepare[m] = "none" <=> prepare'[m] = "none"
  BY <1>0 DEF TypeOK, Submit, PrepareAnswered, PrepareFails, SubmitTimesOut,
     SubmitReplyCut, ClientCancels, CheckDecision, ExecuteBegins, ExecuteGivesUp, ExecuteReturns,
     BrokerRestart, ReceiveRequest, ShowPrompt, PromptDelivered, SendMessageFails,
     RetryDecision, DecisionAnswered, DecisionTimesOut, PollerDies, ApproverRestart,
     PolicyChanges, Tick, callVars
<1>4. \A m \in Nonce : caps'[m] = caps[m] \/ Spent(m)'
  <2>1. CASE \E n \in Nonce : Cancel(n)
    BY <1>0, <2>1 DEF Cancel, Spent, TypeOK, StoreTypeOK, Row
  <2>2. CASE CancelGeneration(generation)
    BY <1>0, <2>2 DEF CancelGeneration, Spent, TypeOK, StoreTypeOK, Row
  <2>3. UNCHANGED caps \/ (\E n \in Nonce : Cancel(n)) \/ CancelGeneration(generation)
    BY DEF Submit, PrepareAnswered, PrepareFails, SubmitTimesOut,
       SubmitReplyCut, ClientCancels,
       CheckDecision, ExecuteBegins, ExecuteGivesUp, ExecuteReturns, BrokerRestart,
       ReceiveRequest, ShowPrompt, PromptDelivered, SendMessageFails, RetryDecision,
       DecisionAnswered, DecisionTimesOut, PollerDies, ApproverRestart,
       PolicyChanges, Tick, storeVars
  <2>4. QED
    BY <2>1, <2>2, <2>3
<1>5. QED
  BY <1>0, <1>1, <1>2, <1>3, <1>4, GrantVoided, VoidMaps

-----------------------------------------------------------------------------

LEMMA StepMaps ==
    ASSUME IInv, [Next]_vars
    PROVE  [Grant!Next]_(Grant!vars)
<1>1. CASE UNCHANGED vars
  <2>1. \A m \in Nonce : G'[m] = G[m] /\ Verdict(m)' = Verdict(m)
    BY <1>1 DEF vars, storeVars, approverVars, callVars, history, G, GrantState,
       Verdict
  <2>2. G' = G /\ V' = V
    BY <2>1 DEF G, V
  <2>3. QED
    BY <1>1, <2>2 DEF vars, history, Grant!vars, G, V
<1>2. CASE \E n \in Nonce, d \in {"approved", "denied"} : HandlePress(n, d)
  BY <1>2, PressMaps
<1>3. CASE Next /\ V' = V
  BY <1>2, <1>3, PrepareMaps, ClaimMaps, RunMaps, ApplyMaps, OtherMaps
     DEF Next, Broker, Approver
<1>4. QED
  BY <1>1, <1>2, <1>3, VerdictSteps

\* The approval protocol, with its tables, messages, clocks and restarts, keeps
\* the promise of OneTimeGrant.
THEOREM Refinement == Spec => ImplementsOneTimeGrant
<1>1. Init => Grant!Init
  BY InitMaps
<1>2. IInv /\ [Next]_vars => [Grant!Next]_(Grant!vars)
  BY StepMaps
<1>3. QED
  BY <1>1, <1>2, Invariance, PTL DEF Spec, ImplementsOneTimeGrant, Grant!Spec

\* No step of OneTimeGrant breaks what makes its promise hold.
LEMMA GrantStays == Grant!GrantInv /\ [Grant!Next]_(Grant!vars) => Grant!GrantInv'
<1> SUFFICES ASSUME Grant!GrantInv, [Grant!Next]_(Grant!vars) PROVE Grant!GrantInv'
  OBVIOUS
<1> USE DEF Grant!GrantInv, Grant!TypeOK
<1>2. ASSUME NEW n \in Nonce, Grant!Issue(n) PROVE Grant!GrantInv'
  BY <1>2 DEF Grant!Issue, Grant!Move
<1>3. ASSUME NEW n \in Nonce, Grant!Approve(n) PROVE Grant!GrantInv'
  BY <1>3 DEF Grant!Approve, Grant!Move
<1>4. ASSUME NEW n \in Nonce, Grant!Claim(n) PROVE Grant!GrantInv'
  BY <1>4 DEF Grant!Claim, Grant!Move
<1>5. ASSUME NEW n \in Nonce, Grant!Run(n) PROVE Grant!GrantInv'
  BY <1>5 DEF Grant!Run
<1>6. ASSUME NEW n \in Nonce, NEW d \in {"approved", "denied"}, Grant!Decide(n, d)
      PROVE  Grant!GrantInv'
  BY <1>6 DEF Grant!Decide
<1>7. ASSUME NEW ns \in SUBSET Nonce, Grant!Void(ns) PROVE Grant!GrantInv'
  BY <1>7 DEF Grant!Void
<1>8. CASE UNCHANGED Grant!vars
  BY <1>8 DEF Grant!vars
<1> QED BY <1>2, <1>3, <1>4, <1>5, <1>6, <1>7, <1>8 DEF Grant!Next

\* So of the protocol too nothing runs without its user's approval, which is the
\* decision the approver has on record.
THEOREM NothingRunsUnapproved == Spec => []Grant!RunsOnlyApproved
<1>1. Grant!Init => Grant!GrantInv
  BY DEF Grant!Init, Grant!GrantInv, Grant!TypeOK
<1>2. Grant!GrantInv => Grant!RunsOnlyApproved
  BY DEF Grant!GrantInv, Grant!RunsOnlyApproved
<1> QED BY <1>1, <1>2, GrantStays, Refinement, PTL DEF ImplementsOneTimeGrant, Grant!Spec

-----------------------------------------------------------------------------
(* The policy generation *)

\* A request that has read the generation still has the present one; one that has
\* truncated the file is about to write more than any capability was issued under
\* that is not exposed.
BumpOK(a) ==
    /\ mutation[a].step = "read" => mutation[a].next = generation + 1
    /\ mutation[a].step = "bumping" =>
          /\ generation = 0 /\ mutation[a].next > 0
          /\ \A c \in Issued \ exposed : under[c] < mutation[a].next

\* Otherwise nothing was issued under a later generation, and what was superseded
\* was issued under an earlier one.
GenerationsRise ==
    Bumping = {} => /\ \A c \in Issued \ exposed : under[c] <= generation
                    /\ \A c \in superseded \ exposed : under[c] < generation

OneBump == \A a, b \in InFlight : a = b

\* What holds while no two bumps overlap.
Undisturbed == OneBump /\ (\A a \in Admin : BumpOK(a)) /\ GenerationsRise

PolicyIInv ==
    /\ PolicyTypeOK
    /\ superseded \subseteq Issued /\ exposed \subseteq Issued
    /\ overlap => Issued \subseteq exposed
    /\ ~overlap => Undisturbed

LEMMA PolicyInitOK == PolicyInit => PolicyIInv
<1> SUFFICES ASSUME PolicyInit PROVE PolicyIInv
  OBVIOUS
<1>1. AdminTypeOK
  BY GenerationAssumption DEF PolicyInit, AdminInit, AdminTypeOK, Idle, Mutation, Targets, Values, Payload
<1>2. /\ Issued = {} /\ superseded = {} /\ exposed = {} /\ overlap = FALSE
      /\ \A a \in Admin : mutation[a].step = "idle"
      /\ under \in [Capability -> Nat \cup {NotIssued}]
  BY DEF PolicyInit, AdminInit, Issued, Idle
<1>3. Undisturbed
  BY <1>2 DEF Undisturbed, OneBump, InFlight, BumpOK, GenerationsRise
<1> QED
  BY <1>1, <1>2, <1>3 DEF PolicyIInv, PolicyTypeOK

\* A step of the admin service taken by one request, that ends without an overlap.
LEMMA MutateUndisturbed ==
    ASSUME PolicyIInv, NEW a \in Admin, Mutate(a), ~overlap'
    PROVE  Undisturbed'
<1>0. /\ generation \in Nat /\ mutation \in [Admin -> Mutation]
      /\ \A c \in Issued : c \in Capability /\ under[c] \in Nat
      /\ superseded \subseteq Issued /\ overlap \in BOOLEAN
  BY DEF PolicyIInv, PolicyTypeOK, AdminTypeOK, Issued
<1>1. /\ AdminStep(a) /\ ~overlap /\ exposed' = exposed
      /\ under' = under /\ superseded' = superseded /\ Issued' = Issued
      /\ \A b, d \in InFlight' : b = d
  BY <1>0 DEF Mutate, Issued
<1>2. Undisturbed
  BY <1>1 DEF PolicyIInv
<1>3. OneBump'
  BY <1>1 DEF OneBump
<1>4. CASE mutation'[a].step \in {"truncated", "written"}
  <2>1. /\ generation' = generation /\ mutation[a].step \notin {"read", "bumping"}
        /\ \A b \in Admin : b # a => mutation'[b] = mutation[b]
    BY <1>0, <1>1, <1>4 DEF AdminStep, StartMutation, WriteTarget, ReadGeneration, TruncateGeneration, Mutation
  <2>2. \A b \in Admin : BumpOK(b)'
    BY <1>1, <1>2, <1>4, <2>1 DEF Undisturbed, BumpOK
  <2>3. Bumping' = Bumping
    BY <1>4, <2>1 DEF Bumping
  <2> QED BY <1>1, <1>2, <1>3, <2>1, <2>2, <2>3 DEF Undisturbed, GenerationsRise
<1>5. CASE ReadGeneration(a)
  <2>1. /\ mutation[a].step = "written" /\ generation' = generation
        /\ mutation' = [mutation EXCEPT ![a] =
              [mutation[a] EXCEPT !.step = "read", !.next = generation + 1]]
    BY <1>5 DEF ReadGeneration
  <2>2. mutation'[a].step = "read" /\ mutation'[a].next = generation + 1
    BY <1>0, <2>1 DEF Mutation
  <2>3. \A b \in Admin : b # a => mutation'[b] = mutation[b]
    BY <1>0, <2>1
  <2>4. \A b \in Admin : BumpOK(b)'
    BY <1>1, <1>2, <2>1, <2>2, <2>3 DEF Undisturbed, BumpOK
  <2>5. Bumping' = Bumping
    BY <2>1, <2>2, <2>3 DEF Bumping
  <2> QED BY <1>1, <1>2, <1>3, <2>1, <2>4, <2>5 DEF Undisturbed, GenerationsRise
<1>6. CASE TruncateGeneration(a)
  <2>1. /\ mutation[a].step = "read" /\ generation' = 0
        /\ mutation'[a].step = "bumping" /\ mutation'[a].next = mutation[a].next
        /\ \A b \in Admin : b # a => mutation'[b] = mutation[b]
    BY <1>0, <1>6 DEF TruncateGeneration, Mutation
  <2>2. mutation[a].next = generation + 1
    BY <1>2, <2>1 DEF Undisturbed, BumpOK
  <2>3. \A b \in Admin : b # a => b \notin InFlight'
    BY <1>1, <2>1 DEF InFlight
  <2>4. Bumping = {} /\ Bumping' # {}
    <3>1. \A b \in Admin : b # a => mutation[b].step # "bumping"
      BY <2>1, <2>3 DEF InFlight
    <3> QED BY <2>1, <3>1 DEF Bumping
  <2>5. \A c \in Issued \ exposed : under[c] <= generation
    BY <1>2, <2>4 DEF Undisturbed, GenerationsRise
  <2>6. BumpOK(a)'
    BY <1>0, <1>1, <2>1, <2>2, <2>5 DEF BumpOK
  <2>7. \A b \in Admin : b # a => BumpOK(b)'
    BY <2>3 DEF BumpOK, InFlight
  <2> QED BY <1>3, <2>4, <2>6, <2>7 DEF Undisturbed, GenerationsRise
<1>7. QED
  <2>1. ASSUME NEW target \in Targets, NEW v \in Values, StartMutation(a, target, v)
        PROVE  mutation'[a].step = "truncated"
    BY <1>0, <2>1 DEF StartMutation
  <2>2. WriteTarget(a) => mutation'[a].step = "written"
    BY <1>0 DEF WriteTarget, Mutation
  <2> QED BY <1>1, <1>4, <1>5, <1>6, <2>1, <2>2 DEF AdminStep

LEMMA PolicyNextOK == PolicyIInv /\ [PolicyNext]_policyVars => PolicyIInv'
<1> SUFFICES ASSUME PolicyIInv, [PolicyNext]_policyVars PROVE PolicyIInv'
  OBVIOUS
<1>0. /\ generation \in Nat /\ mutation \in [Admin -> Mutation] /\ overlap \in BOOLEAN
      /\ under \in [Capability -> Nat \cup {NotIssued}]
      /\ superseded \subseteq Issued /\ exposed \subseteq Issued
      /\ \A c \in Issued : c \in Capability /\ under[c] \in Nat
      /\ overlap => Issued \subseteq exposed
      /\ ~overlap => Undisturbed
      /\ Issued \subseteq Capability
  BY DEF PolicyIInv, PolicyTypeOK, AdminTypeOK, Issued
<1>1. ASSUME NEW c \in Capability, IssueUnderPolicy(c) PROVE PolicyIInv'
  <2>1. /\ under[c] = NotIssued /\ under' = [under EXCEPT ![c] = generation]
        /\ UNCHANGED <<features, users, generation, mutation, mutations, superseded, overlap>>
        /\ exposed' = IF overlap THEN exposed \cup {c} ELSE exposed
    BY <1>1 DEF IssueUnderPolicy, adminVars
  <2>2. Issued' = Issued \cup {c} /\ c \notin Issued
    BY <1>0, <2>1, NotIssuedAssumption DEF Issued
  <2>3. PolicyTypeOK'
    BY <1>0, <2>1 DEF PolicyIInv, PolicyTypeOK, AdminTypeOK
  <2>4. (\A d \in Issued : under'[d] = under[d]) /\ under'[c] = generation
    BY <1>0, <2>1, <2>2
  <2>5. CASE overlap
    BY <1>0, <2>1, <2>2, <2>3, <2>5 DEF PolicyIInv
  <2>6. CASE ~overlap
    <3>1. exposed' = exposed /\ Undisturbed
      BY <1>0, <2>1, <2>6
    <3>2. ASSUME NEW a \in Admin PROVE BumpOK(a)'
      <4>1. BumpOK(a) /\ mutation'[a] = mutation[a]
        BY <2>1, <3>1 DEF Undisturbed
      <4> QED BY <1>0, <2>1, <2>2, <2>4, <3>1, <4>1 DEF BumpOK
    <3>3. GenerationsRise'
      BY <1>0, <2>1, <2>2, <2>4, <3>1 DEF Undisturbed, GenerationsRise, Bumping
    <3>4. OneBump'
      BY <2>1, <3>1 DEF Undisturbed, OneBump, InFlight
    <3> QED BY <1>0, <2>1, <2>2, <2>3, <2>6, <3>1, <3>2, <3>3, <3>4 DEF PolicyIInv, Undisturbed
  <2> QED BY <2>5, <2>6
<1>2. ASSUME NEW a \in Admin, CompleteMutation(a) PROVE PolicyIInv'
  <2>1. /\ mutation[a].step = "bumping" /\ generation' = mutation[a].next
        /\ mutation' = [mutation EXCEPT ![a] = Idle]
        /\ superseded' = Issued /\ exposed' = exposed /\ Issued' = Issued /\ under' = under
        /\ overlap' = (overlap /\ InFlight \ {a} # {})
    BY <1>2 DEF CompleteMutation, WriteGeneration, BumpEnds, Issued
  <2>2. PolicyTypeOK'
    <3>1. AdminTypeOK'
      BY <1>2, AdminType DEF CompleteMutation, PolicyIInv, PolicyTypeOK
    <3> QED BY <1>0, <2>1, <3>1 DEF PolicyIInv, PolicyTypeOK
  <2>3. InFlight' = InFlight \ {a}
    BY <1>0, <2>1 DEF InFlight, Idle
  <2>4. ASSUME ~overlap' PROVE Undisturbed'
    <3>1. CASE overlap
      <4>1. InFlight' = {} /\ Issued' \subseteq exposed' /\ superseded' \subseteq Issued'
        BY <1>0, <2>1, <2>3, <2>4, <3>1
      <4> QED BY <4>1 DEF Undisturbed, OneBump, BumpOK, GenerationsRise, InFlight
    <3>2. CASE ~overlap
      <4>1. Undisturbed /\ a \in InFlight
        BY <1>0, <2>1, <3>2 DEF InFlight
      <4>2. InFlight' = {}
        BY <2>3, <4>1 DEF Undisturbed, OneBump
      <4>3. \A c \in Issued \ exposed : under[c] < generation'
        BY <2>1, <4>1 DEF Undisturbed, BumpOK
      <4>4. mutation[a].next \in Nat
        BY <1>0 DEF Mutation
      <4>5. GenerationsRise'
        BY <1>0, <2>1, <4>3, <4>4 DEF GenerationsRise
      <4>6. \A b \in Admin : BumpOK(b)'
        BY <4>2 DEF BumpOK, InFlight
      <4> QED BY <4>2, <4>5, <4>6 DEF Undisturbed, OneBump
    <3> QED BY <3>1, <3>2
  <2> QED BY <1>0, <2>1, <2>2, <2>4 DEF PolicyIInv
<1>3. ASSUME NEW a \in Admin, Mutate(a) PROVE PolicyIInv'
  <2>1. /\ under' = under /\ superseded' = superseded /\ Issued' = Issued
        /\ overlap' = (overlap \/ \E b, d \in InFlight' : b # d)
        /\ exposed' = IF overlap' THEN Issued ELSE exposed
    BY <1>3 DEF Mutate, Issued
  <2>2. PolicyTypeOK'
    <3>1. AdminTypeOK'
      BY <1>3, AdminType DEF Mutate, PolicyIInv, PolicyTypeOK
    <3> QED BY <1>0, <2>1, <3>1 DEF PolicyIInv, PolicyTypeOK
  <2>3. ~overlap' => Undisturbed'
    BY <1>3, MutateUndisturbed
  <2> QED BY <1>0, <2>1, <2>2, <2>3 DEF PolicyIInv
<1>4. ASSUME NEW a \in Admin, FailMutation(a) PROVE PolicyIInv'
  <2>1. /\ mutation[a].step # "idle" /\ generation' = generation
        /\ mutation' = [mutation EXCEPT ![a] = Idle]
        /\ superseded' = superseded /\ Issued' = Issued /\ under' = under
        /\ exposed' = IF a \in Bumping THEN Issued ELSE exposed
        /\ overlap' = (overlap /\ InFlight \ {a} # {})
    BY <1>4 DEF FailMutation, MutationFails, BumpEnds, Issued
  <2>2. PolicyTypeOK'
    <3>1. AdminTypeOK'
      BY <1>4, AdminType DEF FailMutation, PolicyIInv, PolicyTypeOK
    <3> QED BY <1>0, <2>1, <3>1 DEF PolicyIInv, PolicyTypeOK
  <2>3. /\ InFlight' = InFlight \ {a} /\ Bumping' = Bumping \ {a}
        /\ \A b \in Admin : b # a => mutation'[b] = mutation[b]
        /\ mutation'[a].step = "idle"
    BY <1>0, <2>1 DEF InFlight, Bumping, Idle
  <2>4. ASSUME ~overlap' PROVE Undisturbed'
    <3>1. CASE InFlight' = {} /\ Issued' \subseteq exposed'
      BY <1>0, <2>1, <3>1 DEF Undisturbed, OneBump, BumpOK, GenerationsRise, InFlight
    <3>2. CASE overlap
      BY <1>0, <2>1, <2>3, <2>4, <3>1, <3>2
    <3>3. CASE ~overlap /\ a \in Bumping
      <4>1. OneBump /\ a \in InFlight
        BY <1>0, <3>3 DEF Undisturbed, Bumping, InFlight
      <4> QED BY <2>1, <2>3, <3>1, <3>3, <4>1 DEF OneBump
    <3>4. CASE ~overlap /\ a \notin Bumping
      <4>1. Undisturbed /\ exposed' = exposed /\ Bumping' = Bumping
        BY <1>0, <2>1, <2>3, <3>4
      <4>2. \A b \in Admin : BumpOK(b)'
        BY <2>1, <2>3, <4>1 DEF Undisturbed, BumpOK
      <4> QED BY <2>1, <2>3, <4>1, <4>2 DEF Undisturbed, OneBump, GenerationsRise
    <3> QED BY <3>2, <3>3, <3>4
  <2> QED BY <1>0, <2>1, <2>2, <2>4 DEF PolicyIInv
<1>5. CASE ServiceDies
  <2>1. /\ \A a \in Admin : mutation'[a].step = "idle"
        /\ UNCHANGED <<generation, under, superseded>> /\ Issued' = Issued
        /\ overlap' = FALSE /\ exposed' = IF Bumping # {} THEN Issued ELSE exposed
    BY <1>5 DEF ServiceDies, AdminRestart, Idle, Issued
  <2>2. PolicyTypeOK'
    <3>1. AdminTypeOK'
      BY <1>5, AdminType DEF ServiceDies, PolicyIInv, PolicyTypeOK
    <3> QED BY <1>0, <2>1, <3>1 DEF PolicyIInv, PolicyTypeOK
  <2>3. OneBump' /\ \A a \in Admin : BumpOK(a)'
    BY <2>1 DEF OneBump, BumpOK, InFlight
  <2>4. GenerationsRise'
    BY <1>0, <2>1 DEF Undisturbed, GenerationsRise
  <2> QED BY <1>0, <2>1, <2>2, <2>3, <2>4 DEF PolicyIInv, Undisturbed
<1>6. CASE UNCHANGED policyVars
  BY <1>0, <1>6 DEF policyVars, adminVars, issueVars, PolicyIInv, PolicyTypeOK, AdminTypeOK, Issued, BumpOK,
       GenerationsRise, Bumping, InFlight, OneBump, Undisturbed
<1> QED BY <1>1, <1>2, <1>3, <1>4, <1>5, <1>6 DEF PolicyNext

\* A superseded capability that is not exposed is under the present generation only
\* while it reads 0.
LEMMA PolicyIInvImplies == PolicyIInv => PolicyInv
<1> SUFFICES ASSUME PolicyIInv, NEW c \in superseded \ exposed, Honoured(c)
             PROVE  generation = 0 /\ Bumping # {}
  BY DEF PolicyIInv, PolicyInv, SupersededOnlyWhileTruncated
<1>1. under[c] = generation /\ generation \in Nat
  BY DEF Honoured, PolicyIInv, PolicyTypeOK, AdminTypeOK
<1>2. Undisturbed
  BY DEF PolicyIInv, PolicyTypeOK
<1>3. Bumping # {}
  BY <1>1, <1>2 DEF Undisturbed, GenerationsRise
<1> QED BY <1>2, <1>3 DEF Bumping, Undisturbed, BumpOK

\* A mutation that has been answered revokes every capability issued before it,
\* with three exceptions: a capability issued while the generation file read 0 is
\* honoured again while it reads 0 once more, and so may be one that was issued
\* before two bumps overlapped (or while they did), or before a bump was given up
\* with the file empty, by a write that failed or the death of the service
\* (server.py, _accept and _execute; admin.py, _bump_generation).
THEOREM SupersededNotHonoured == PolicySpec => []PolicyInv
<1> QED BY PolicyInitOK, PolicyNextOK, PolicyIInvImplies, PTL DEF PolicySpec
=============================================================================
