-------------------------- MODULE OrchestratorProofs --------------------------
(***************************************************************************)
(* What Orchestrator guarantees for every plan, every number of requests   *)
(* and any number of restarts.                                             *)
(***************************************************************************)
EXTENDS Orchestrator, TLAPS

AtWork(c) == request[c].state \in {"working", "reviewing"}

\* The requests in line are those that are not over, each once.
LineOK ==
    /\ \A k, l \in 1..Len(line) : line[k] = line[l] => k = l
    /\ \A c \in Caller : request[c].state # "over" <=> \E k \in 1..Len(line) : line[k] = c

\* An agent works on a step of the plan.
WorkHasAStep == \A c \in Caller : request[c].state = "working" => request[c].step \in Step

\* Nobody works for a run with a step that waits for a decision.
WorkOrWait ==
    \A c \in Caller : AtWork(c) => Is(steps, "awaiting_approval") = {}

\* A row has run as often as it may, and may run again only if an attempt is left.
RowOK(s, i) ==
    /\ s[i].attempts <= MaxAttempts[i]
    /\ s[i].status \in {"pending", "awaiting_approval"} => s[i].attempts < MaxAttempts[i]
    /\ s[i].attempts > 0 /\ s[i].approval_required => s[i].approved

RowsOK(s) ==
    /\ \A i \in Step : RowOK(s, i)
    /\ \A i, j \in Is(s, "awaiting_approval") : i = j

\* The inductive invariant.
IInv ==
    /\ TypeOK
    /\ LineOK
    /\ WorkIsOnRecord
    /\ WorkHasAStep
    /\ WorkOrWait
    /\ RowsOK(steps)
    /\ PausedOnOneStep

-----------------------------------------------------------------------------
(* The line *)

\* The holder leaves the line.
LEMMA LineReleased ==
    ASSUME TypeOK, LineOK, NEW c \in Caller, line # <<>>, Head(line) = c,
           request' = [request EXCEPT ![c] = Over], line' = Tail(line)
    PROVE  LineOK' /\ line' \in Seq(Caller)
<1>1. line \in Seq(Caller) /\ Len(line) \in Nat /\ Len(line) > 0 /\ line[1] = c
  BY DEF TypeOK
<1>2. /\ line' \in Seq(Caller)
      /\ Len(line') = Len(line) - 1
      /\ \A k \in 1..Len(line') : line'[k] = line[k + 1]
  BY <1>1
<1>3. \A k, l \in 1..Len(line') : line'[k] = line'[l] => k = l
  <2> TAKE k, l \in 1..Len(line')
  <2>1. k + 1 \in 1..Len(line) /\ l + 1 \in 1..Len(line)
    BY <1>1, <1>2
  <2>2. (line[k + 1] = line[l + 1]) => (k + 1 = l + 1)
    BY <2>1 DEF LineOK
  <2>3. QED
    BY <1>2, <2>2
<1>4. ASSUME NEW d \in Caller
      PROVE  request'[d].state # "over" <=> \E k \in 1..Len(line') : line'[k] = d
  <2>1. CASE d = c
    <3>1. request'[d].state = "over"
      BY <2>1 DEF TypeOK, Over
    <3>2. ASSUME NEW k \in 1..Len(line'), line'[k] = d
          PROVE  FALSE
      <4>1. k + 1 \in 1..Len(line) /\ 1 \in 1..Len(line) /\ line[k + 1] = line[1]
        BY <1>1, <1>2, <2>1, <3>2
      <4>2. k + 1 = 1
        BY <4>1 DEF LineOK
      <4>3. QED
        BY <4>2
    <3>3. QED
      BY <3>1, <3>2
  <2>2. CASE d # c
    <3>1. request'[d] = request[d]
      BY <2>2 DEF TypeOK
    <3>2. ASSUME NEW k \in 1..Len(line), line[k] = d
          PROVE  \E l \in 1..Len(line') : line'[l] = d
      <4>1. k # 1
        BY <1>1, <2>2, <3>2
      <4>2. k - 1 \in 1..Len(line') /\ line'[k - 1] = line[k]
        BY <4>1, <1>1, <1>2
      <4>3. QED
        BY <4>2, <3>2
    <3>3. ASSUME NEW k \in 1..Len(line'), line'[k] = d
          PROVE  \E l \in 1..Len(line) : line[l] = d
      <4>1. k + 1 \in 1..Len(line) /\ line[k + 1] = d
        BY <1>1, <1>2, <3>3
      <4>2. QED
        BY <4>1
    <3>4. QED
      BY <3>1, <3>2, <3>3 DEF LineOK
  <2>3. QED
    BY <2>1, <2>2
<1>5. QED
  BY <1>2, <1>3, <1>4 DEF LineOK

\* A request that is not in line joins it at the end.
LEMMA LineJoined ==
    ASSUME TypeOK, LineOK, NEW c \in Caller, request[c].state = "over",
           NEW r \in Request, r.state # "over",
           request' = [request EXCEPT ![c] = r], line' = Append(line, c)
    PROVE  LineOK' /\ line' \in Seq(Caller)
<1>1. line \in Seq(Caller) /\ Len(line) \in Nat
  BY DEF TypeOK
<1>2. /\ line' \in Seq(Caller)
      /\ Len(line') = Len(line) + 1
      /\ \A k \in 1..Len(line) : line'[k] = line[k]
      /\ line'[Len(line) + 1] = c
  BY <1>1
<1>3. \A k \in 1..Len(line) : line[k] # c
  BY DEF LineOK
<1>4. \A k, l \in 1..Len(line') : line'[k] = line'[l] => k = l
  <2> TAKE k, l \in 1..Len(line')
  <2>1. CASE k \in 1..Len(line) /\ l \in 1..Len(line)
    BY <2>1, <1>2 DEF LineOK
  <2>2. CASE k = Len(line) + 1 \/ l = Len(line) + 1
    BY <2>2, <1>1, <1>2, <1>3
  <2>3. QED
    BY <2>1, <2>2, <1>1, <1>2
<1>5. ASSUME NEW d \in Caller
      PROVE  request'[d].state # "over" <=> \E k \in 1..Len(line') : line'[k] = d
  <2>1. CASE d = c
    <3>1. request'[d].state # "over"
      BY <2>1 DEF TypeOK
    <3>2. Len(line) + 1 \in 1..Len(line')
      BY <1>1, <1>2
    <3>3. QED
      BY <3>1, <3>2, <1>2, <2>1
  <2>2. CASE d # c
    <3>1. request'[d] = request[d]
      BY <2>2 DEF TypeOK
    <3>2. \A k \in 1..Len(line') : line'[k] = d => k \in 1..Len(line) /\ line[k] = d
      BY <1>1, <1>2, <2>2
    <3>3. \A k \in 1..Len(line) : k \in 1..Len(line') /\ line'[k] = line[k]
      BY <1>1, <1>2
    <3>4. QED
      BY <3>1, <3>2, <3>3 DEF LineOK
  <2>3. QED
    BY <2>1, <2>2
<1>6. QED
  BY <1>2, <1>4, <1>5 DEF LineOK

\* The holder goes to the end of the line.
LEMMA LineRejoined ==
    ASSUME TypeOK, LineOK, NEW c \in Caller, line # <<>>, Head(line) = c,
           NEW r \in Request, r.state # "over",
           request' = [request EXCEPT ![c] = r], line' = Append(Tail(line), c)
    PROVE  LineOK' /\ line' \in Seq(Caller)
<1>1. line \in Seq(Caller) /\ Len(line) \in Nat /\ Len(line) > 0 /\ line[1] = c
  BY DEF TypeOK
<1>2. /\ line' \in Seq(Caller)
      /\ Len(line') = Len(line)
      /\ \A k \in 1..(Len(line) - 1) : line'[k] = line[k + 1]
      /\ line'[Len(line)] = c
  <2>1. /\ Tail(line) \in Seq(Caller) /\ Len(Tail(line)) = Len(line) - 1
        /\ \A k \in 1..(Len(line) - 1) : Tail(line)[k] = line[k + 1]
    BY <1>1
  <2>2. QED
    BY <1>1, <2>1
<1>3. \A k \in 1..(Len(line) - 1) : line[k + 1] # c
  <2> TAKE k \in 1..(Len(line) - 1)
  <2>1. k + 1 \in 1..Len(line) /\ 1 \in 1..Len(line) /\ k + 1 # 1
    BY <1>1
  <2>2. QED
    BY <1>1, <2>1 DEF LineOK
<1>4. \A k, l \in 1..Len(line') : line'[k] = line'[l] => k = l
  <2> DEFINE n == Len(line)
  <2>1. ASSUME NEW k \in 1..(n - 1), NEW l \in 1..(n - 1), line'[k] = line'[l]
        PROVE  k = l
    <3>1. k + 1 \in 1..n /\ l + 1 \in 1..n
      BY <1>1
    <3>2. line[k + 1] = line[l + 1]
      BY <2>1, <1>2
    <3>3. k + 1 = l + 1
      BY <3>1, <3>2 DEF LineOK
    <3>4. QED
      BY <3>3
  <2>2. \A k \in 1..(n - 1) : line'[k] # line'[n]
    BY <1>2, <1>3
  <2>3. Len(line') = n /\ n \in Nat
    BY <1>1, <1>2
  <2> HIDE DEF n
  <2>4. \A k \in 1..n : k \in 1..(n - 1) \/ k = n
    BY <2>3
  <2>5. QED
    BY <2>1, <2>2, <2>3, <2>4
<1>5. ASSUME NEW d \in Caller
      PROVE  request'[d].state # "over" <=> \E k \in 1..Len(line') : line'[k] = d
  <2>1. CASE d = c
    <3>1. request'[d].state # "over"
      BY <2>1 DEF TypeOK
    <3>2. Len(line) \in 1..Len(line')
      BY <1>1, <1>2
    <3>3. QED
      BY <3>1, <3>2, <1>2, <2>1
  <2>2. CASE d # c
    <3>1. request'[d] = request[d]
      BY <2>2 DEF TypeOK
    <3>2. ASSUME NEW k \in 1..Len(line'), line'[k] = d
          PROVE  \E l \in 1..Len(line) : line[l] = d
      <4>1. k \in 1..(Len(line) - 1)
        <5>1. k \in 1..Len(line) /\ k # Len(line)
          BY <1>2, <2>2, <3>2
        <5>2. QED
          BY <5>1, <1>1
      <4>2. k + 1 \in 1..Len(line) /\ line[k + 1] = d
        BY <4>1, <1>1, <1>2, <3>2
      <4>3. QED
        BY <4>2
    <3>3. ASSUME NEW k \in 1..Len(line), line[k] = d
          PROVE  \E l \in 1..Len(line') : line'[l] = d
      <4>1. k # 1
        BY <1>1, <2>2, <3>3
      <4>2. k - 1 \in 1..(Len(line) - 1) /\ k - 1 \in 1..Len(line') /\ line[(k - 1) + 1] = d
        BY <4>1, <1>1, <1>2, <3>3
      <4>3. line'[k - 1] = d
        BY <4>2, <1>2
      <4>4. QED
        BY <4>2, <4>3
    <3>4. QED
      BY <3>1, <3>2, <3>3 DEF LineOK
  <2>3. QED
    BY <2>1, <2>2
<1>6. QED
  BY <1>2, <1>4, <1>5 DEF LineOK

\* A line that stays is as good when those who are over stay over.
LEMMA LineKept ==
    ASSUME LineOK, line' = line,
           \A d \in Caller : request'[d].state # "over" <=> request[d].state # "over"
    PROVE  LineOK'
  BY DEF LineOK

\* Only the holder of the lock is at work.
LEMMA OthersRest ==
    ASSUME WorkIsOnRecord, NEW c \in Caller, line # <<>>, Head(line) = c
    PROVE  \A d \in Caller : AtWork(d) => d = c
  BY DEF WorkIsOnRecord, AtWork

\* A request in line that is served holds the lock.
LEMMA LockHeld ==
    ASSUME TypeOK, LineOK, NEW c \in Caller, NEW op, HasLock(c, op)
    PROVE  line # <<>> /\ Head(line) = c
<1>1. request[c].state # "over"
  BY DEF HasLock
<1>2. PICK k \in 1..Len(line) : line[k] = c
  BY <1>1 DEF LineOK
<1>3. line # <<>>
  BY <1>2 DEF TypeOK
<1>4. QED
  BY <1>3 DEF HasLock

-----------------------------------------------------------------------------
(* The steps of a run *)

\* Nobody is at work after the holder has let go.
LEMMA ReleaseRests ==
    ASSUME IInv, NEW c \in Caller, line # <<>>, Head(line) = c, Release(c)
    PROVE  /\ LineOK' /\ line' \in Seq(Caller) /\ request' \in [Caller -> Request]
           /\ \A d \in Caller : ~(AtWork(d)')
<1>1. request' = [request EXCEPT ![c] = Over] /\ line' = Tail(line)
  BY DEF Release
<1>2. LineOK' /\ line' \in Seq(Caller)
  BY <1>1, LineReleased DEF IInv
<1>3. Over \in Request /\ Over.state = "over"
  BY LastAssumption DEF Over, Request
<1>4. request' \in [Caller -> Request]
  BY <1>1, <1>3 DEF IInv, TypeOK
<1>5. ASSUME NEW d \in Caller
      PROVE  ~(AtWork(d)')
  <2>1. CASE d = c
    BY <2>1, <1>1, <1>3 DEF IInv, TypeOK, AtWork
  <2>2. CASE d # c
    BY <2>2, <1>1, OthersRest DEF IInv, TypeOK, AtWork
  <2>3. QED
    BY <2>1, <2>2
<1>6. QED
  BY <1>2, <1>4, <1>5

\* With nobody at work, the invariant is a matter of the rows and the run's status.
LEMMA RestOK ==
    ASSUME TypeOK', LineOK', \A d \in Caller : ~(AtWork(d)'), RowsOK(steps)',
           PausedOnOneStep'
    PROVE  IInv'
  BY DEF IInv, WorkIsOnRecord, WorkHasAStep, WorkOrWait, AtWork

\* One pass of the loop, from rows that are in order.
LEMMA LoopOK ==
    ASSUME IInv, NEW c \in Caller, line # <<>>, Head(line) = c,
           request[c].state # "over",
           NEW s \in [Step -> StepRow], RowsOK(s), Loop(c, s),
           UNCHANGED <<deleted, died>>
    PROVE  IInv'
<1>0. /\ request \in [Caller -> Request] /\ line \in Seq(Caller)
      /\ deleted' \in BOOLEAN /\ died' \in BOOLEAN
  BY DEF IInv, TypeOK
<1>1. CASE Paused(s) /\ steps' = s /\ Pause(c)
  <2>1. run' = "awaiting_approval" /\ Release(c)
    BY <1>1 DEF Pause
  <2>2. TypeOK'
    BY <1>0, <1>1, <2>1, ReleaseRests DEF TypeOK, RunStatus
  <2>3. RowsOK(steps)' /\ PausedOnOneStep'
    BY <1>1, <2>1 DEF RowsOK, PausedOnOneStep, Paused, Is, RUN_TERMINAL_STATUSES, RowOK
  <2>4. QED
    BY <2>1, <2>2, <2>3, ReleaseRests, RestOK
<1>2. ASSUME NEW i \in Step, IsFirst(i, Is(s, "pending")), ~Paused(s), ~MayRun(s, i),
             steps' = [s EXCEPT ![i].status = "awaiting_approval"], Pause(c)
      PROVE  IInv'
  <2>1. run' = "awaiting_approval" /\ Release(c)
    BY <1>2 DEF Pause
  <2>2. steps' \in [Step -> StepRow]
    BY <1>2 DEF StepRow
  <2>3. TypeOK'
    BY <1>0, <2>1, <2>2, ReleaseRests DEF TypeOK, RunStatus
  <2>4. /\ steps'[i].status = "awaiting_approval" /\ s[i].status = "pending"
        /\ steps'[i].attempts = s[i].attempts /\ steps'[i].approved = s[i].approved
        /\ steps'[i].approval_required = s[i].approval_required
        /\ \A j \in Step : j # i => steps'[j] = s[j]
    BY <1>2 DEF StepRow, IsFirst, Is
  <2>5. Is(steps', "awaiting_approval") = {i}
    BY <1>2, <2>4 DEF Paused, Is
  <2>6. \A j \in Step : RowOK(steps', j)
    BY <2>4 DEF RowsOK, RowOK
  <2>7. RowsOK(steps)' /\ PausedOnOneStep'
    BY <2>1, <2>5, <2>6 DEF RowsOK, PausedOnOneStep, RUN_TERMINAL_STATUSES
  <2>8. QED
    BY <2>1, <2>3, <2>7, ReleaseRests, RestOK
<1>3. ASSUME NEW i \in Step, IsFirst(i, Is(s, "pending")), ~Paused(s), MayRun(s, i),
             steps' = [s EXCEPT ![i].status = "running", ![i].attempts = @ + 1],
             run' = "running", Await(c, "working", i)
      PROVE  IInv'
  <2>1. /\ request' = [request EXCEPT ![c].state = "working", ![c].step = i]
        /\ line' = line
    BY <1>3 DEF Await
  <2>2. request' \in [Caller -> Request]
    <3>1. i \in 0..Last
      BY LastAssumption DEF Step
    <3>2. [request[c] EXCEPT !.state = "working", !.step = i] \in Request
      BY <3>1, <1>0 DEF Request
    <3>3. request' = [request EXCEPT ![c] = [@ EXCEPT !.state = "working", !.step = i]]
      BY <2>1, <1>0
    <3>4. QED
      BY <3>2, <3>3, <1>0
  <2>3. steps' \in [Step -> StepRow]
    BY <1>3 DEF StepRow
  <2>4. TypeOK'
    BY <1>0, <1>3, <2>1, <2>2, <2>3 DEF TypeOK, RunStatus
  <2>5. /\ request'[c].state = "working" /\ request'[c].step = i
        /\ \A d \in Caller : d # c => request'[d] = request[d]
    BY <2>1, <1>0 DEF Request
  <2>6. LineOK'
    BY <2>1, <2>5, LineKept DEF IInv
  <2>7. \A d \in Caller : AtWork(d)' => d = c
    BY <2>5, OthersRest DEF IInv, AtWork
  <2>8. /\ steps'[i].status = "running" /\ s[i].status = "pending"
        /\ s[i].attempts \in Nat /\ steps'[i].attempts = s[i].attempts + 1
        /\ steps'[i].approved = s[i].approved
        /\ steps'[i].approval_required = s[i].approval_required
        /\ \A j \in Step : j # i => steps'[j] = s[j]
    BY <1>3 DEF StepRow, IsFirst, Is
  <2>9. Is(steps', "awaiting_approval") = {}
    BY <1>3, <2>8 DEF Paused, Is
  <2>10. MaxAttempts[i] \in Nat
    BY PlanAssumption DEF MAX_ATTEMPTS_LIMIT
  <2>11. \A j \in Step : RowOK(steps', j)
    BY <1>3, <2>8, <2>10 DEF RowsOK, RowOK, MayRun
  <2>12. RowsOK(steps)' /\ PausedOnOneStep'
    BY <1>3, <2>9, <2>11 DEF RowsOK, PausedOnOneStep, RUN_TERMINAL_STATUSES
  <2>13. WorkIsOnRecord'
    BY <1>3, <2>1, <2>5, <2>7, <2>8 DEF WorkIsOnRecord, AtWork
  <2>14. WorkHasAStep' /\ WorkOrWait'
    BY <2>5, <2>7, <2>9 DEF WorkHasAStep, WorkOrWait, AtWork
  <2>15. QED
    BY <2>4, <2>6, <2>12, <2>13, <2>14 DEF IInv
<1>4. CASE /\ ~Paused(s) /\ Is(s, "pending") = {} /\ steps' = s
           /\ run' = "running" /\ Await(c, "reviewing", 0)
  <2>1. /\ request' = [request EXCEPT ![c].state = "reviewing", ![c].step = 0]
        /\ line' = line
    BY <1>4 DEF Await
  <2>2. request' \in [Caller -> Request]
    <3>0. 0 \in 0..Last
      BY LastAssumption
    <3>1. [request[c] EXCEPT !.state = "reviewing", !.step = 0] \in Request
      BY <3>0, <1>0 DEF Request
    <3>2. request' = [request EXCEPT ![c] = [@ EXCEPT !.state = "reviewing", !.step = 0]]
      BY <2>1, <1>0
    <3>3. QED
      BY <3>1, <3>2, <1>0
  <2>3. TypeOK'
    BY <1>0, <1>4, <2>1, <2>2 DEF TypeOK, RunStatus
  <2>4. /\ request'[c].state = "reviewing"
        /\ \A d \in Caller : d # c => request'[d] = request[d]
    BY <2>1, <1>0 DEF Request
  <2>5. LineOK'
    BY <2>1, <2>4, LineKept DEF IInv
  <2>6. \A d \in Caller : AtWork(d)' => d = c
    BY <2>4, OthersRest DEF IInv, AtWork
  <2>7. WorkIsOnRecord' /\ WorkHasAStep' /\ WorkOrWait'
    BY <1>4, <2>1, <2>4, <2>6 DEF WorkIsOnRecord, WorkHasAStep, WorkOrWait, AtWork, Paused
  <2>8. RowsOK(steps)' /\ PausedOnOneStep'
    BY <1>4 DEF RowsOK, RowOK, PausedOnOneStep, Paused, RUN_TERMINAL_STATUSES
  <2>9. QED
    BY <2>3, <2>5, <2>7, <2>8 DEF IInv
<1>5. QED
  BY <1>1, <1>2, <1>3, <1>4 DEF Loop

LEMMA NewStepsOK ==
    ASSUME NEW required \in [Step -> BOOLEAN], NEW s,
           s = [i \in Step |-> [NewStep EXCEPT !.approval_required = required[i]]]
    PROVE  /\ s \in [Step -> StepRow] /\ RowsOK(s)
           /\ Is(s, "awaiting_approval") = {}
<1>1. ASSUME NEW i \in Step
      PROVE  s[i] \in StepRow /\ s[i].status = "pending" /\ s[i].attempts = 0
  <2>1. s[i] = [NewStep EXCEPT !.approval_required = required[i]]
    OBVIOUS
  <2>2. required[i] \in BOOLEAN
    OBVIOUS
  <2>3. QED
    BY <2>1, <2>2 DEF NewStep, StepRow
<1>2. \A i \in Step : MaxAttempts[i] \in 1..3
  BY PlanAssumption DEF MAX_ATTEMPTS_LIMIT
<1>3. s \in [Step -> StepRow]
  BY <1>1
<1>4. Is(s, "awaiting_approval") = {}
  BY <1>1 DEF Is
<1>5. ASSUME NEW i \in Step
      PROVE  RowOK(s, i)
  <2>1. MaxAttempts[i] \in Nat /\ 0 < MaxAttempts[i]
    BY <1>2
  <2>2. QED
    BY <1>1, <2>1 DEF RowOK
<1>6. QED
  BY <1>3, <1>4, <1>5 DEF RowsOK

LEMMA InitOK == Init => IInv
<1> SUFFICES ASSUME Init PROVE IInv
  OBVIOUS
<1>1. steps = [i \in Step |-> [NewStep EXCEPT !.approval_required = [j \in Step |-> FALSE][i]]]
  BY DEF Init, NewStep
<1>2. /\ steps \in [Step -> StepRow] /\ RowsOK(steps)
      /\ Is(steps, "awaiting_approval") = {}
  <2>1. [j \in Step |-> FALSE] \in [Step -> BOOLEAN]
    OBVIOUS
  <2>2. QED
    BY <1>1, <2>1, NewStepsOK
<1>3. Over \in Request /\ Over.state = "over"
  BY LastAssumption DEF Over, Request
<1>4. /\ request \in [Caller -> Request]
      /\ \A c \in Caller : request[c].state = "over"
  BY <1>3 DEF Init
<1>5. line \in Seq(Caller) /\ Len(line) = 0
  BY DEF Init
<1>6. TypeOK
  BY <1>2, <1>4, <1>5 DEF Init, TypeOK, RunStatus
<1>7. LineOK
  BY <1>4, <1>5 DEF LineOK
<1>8. WorkIsOnRecord /\ WorkHasAStep /\ WorkOrWait
  BY <1>4 DEF WorkIsOnRecord, WorkHasAStep, WorkOrWait, AtWork
<1>9. PausedOnOneStep
  BY <1>2 DEF Init, PausedOnOneStep
<1>10. QED
  BY <1>2, <1>6, <1>7, <1>8, <1>9 DEF IInv

\* A new request disturbs nobody.
LEMMA EnqueueOK ==
    ASSUME IInv, NEW c \in Caller, NEW op \in {"execute", "approve", "reject"},
           Enqueue(c, op)
    PROVE  /\ LineOK' /\ line' \in Seq(Caller) /\ request' \in [Caller -> Request]
           /\ \A d \in Caller : AtWork(d)' => AtWork(d) /\ request'[d] = request[d]
           /\ line # <<>> => line' # <<>> /\ Head(line') = Head(line)
<1>1. PICK i \in 0..Last : request' = [request EXCEPT ![c] = InLine(op, i, line)]
  BY DEF Enqueue
<1>2. request[c].state = "over" /\ line' = Append(line, c)
  BY DEF Enqueue
<1>3. /\ InLine(op, i, line) \in Request
      /\ InLine(op, i, line).state \in {"entering", "queued"}
  BY DEF InLine, Request
<1>4. LineOK' /\ line' \in Seq(Caller)
  BY <1>1, <1>2, <1>3, LineJoined DEF IInv
<1>5. request' \in [Caller -> Request]
  BY <1>1, <1>3 DEF IInv, TypeOK
<1>6. \A d \in Caller : AtWork(d)' => AtWork(d) /\ request'[d] = request[d]
  BY <1>1, <1>3 DEF IInv, TypeOK, AtWork
<1>7. ASSUME line # <<>>
      PROVE  line' # <<>> /\ Head(line') = Head(line)
  <2>1. line \in Seq(Caller)
    BY DEF IInv, TypeOK
  <2>2. QED
    BY <2>1, <1>2, <1>7
<1>8. QED
  BY <1>4, <1>5, <1>6, <1>7

LEMMA AskOK ==
    ASSUME IInv, NEW c \in Caller, NEW op \in {"execute", "approve", "reject"},
           Ask(c, op)
    PROVE  IInv'
<1>1. Enqueue(c, op) /\ UNCHANGED <<run, deleted, steps, died>>
  BY DEF Ask
<1>2. TypeOK' /\ LineOK'
  BY <1>1, EnqueueOK DEF IInv, TypeOK
<1>3. WorkIsOnRecord' /\ WorkHasAStep' /\ WorkOrWait'
  BY <1>1, EnqueueOK DEF IInv, WorkIsOnRecord, WorkHasAStep, WorkOrWait, AtWork, Is
<1>4. RowsOK(steps)' /\ PausedOnOneStep'
  BY <1>1 DEF IInv, RowsOK, RowOK, PausedOnOneStep, Is
<1>5. QED
  BY <1>2, <1>3, <1>4 DEF IInv

LEMMA CreateRunOK ==
    ASSUME IInv, NEW c \in Caller, NEW mode \in {"auto", "always", "never"},
           NEW auto \in BOOLEAN, CreateRun(c, mode, auto)
    PROVE  IInv'
<1> DEFINE required == [i \in Step |-> approval_decision(i, mode)]
<1>1. \A d \in Caller : ~AtWork(d)
  BY DEF IInv, CreateRun, WorkIsOnRecord, AtWork
<1>2. required \in [Step -> BOOLEAN]
  BY DEF approval_decision
<1>3. steps' = [i \in Step |-> [NewStep EXCEPT !.approval_required = required[i]]]
  BY DEF CreateRun
<1>4. /\ steps' \in [Step -> StepRow] /\ RowsOK(steps')
      /\ Is(steps', "awaiting_approval") = {}
  BY <1>2, <1>3, NewStepsOK
<1>5. run' = "planned" /\ UNCHANGED <<deleted, died>>
  BY DEF CreateRun
<1>6. /\ LineOK' /\ line' \in Seq(Caller) /\ request' \in [Caller -> Request]
      /\ \A d \in Caller : ~(AtWork(d)')
  <2>1. CASE Enqueue(c, "execute")
    BY <2>1, <1>1, EnqueueOK
  <2>2. CASE UNCHANGED <<request, line>>
    BY <2>2, <1>1, LineKept DEF IInv, TypeOK, AtWork
  <2>3. QED
    BY <2>1, <2>2 DEF CreateRun
<1>7. TypeOK'
  BY <1>4, <1>5, <1>6 DEF IInv, TypeOK, RunStatus
<1>8. PausedOnOneStep' /\ RowsOK(steps)'
  BY <1>4, <1>5 DEF PausedOnOneStep, RUN_TERMINAL_STATUSES, RowsOK, RowOK, Is
<1>9. QED
  BY <1>6, <1>7, <1>8, RestOK

-----------------------------------------------------------------------------
(* The steps of the holder of the lock *)

LEMMA RefuseOK ==
    ASSUME IInv, NEW c \in Caller, line # <<>>, Head(line) = c, Refuse(c)
    PROVE  IInv'
<1>1. Release(c) /\ UNCHANGED <<run, deleted, steps, died>>
  BY DEF Refuse
<1>2. TypeOK'
  BY <1>1, ReleaseRests DEF IInv, TypeOK
<1>3. RowsOK(steps)' /\ PausedOnOneStep'
  BY <1>1 DEF IInv, RowsOK, RowOK, PausedOnOneStep, Is
<1>4. QED
  BY <1>1, <1>2, <1>3, ReleaseRests, RestOK

LEMMA AdvanceBeginsOK ==
    ASSUME IInv, NEW c \in Caller, AdvanceBegins(c)
    PROVE  IInv'
<1>1. line # <<>> /\ Head(line) = c /\ request[c].state # "over"
  BY LockHeld DEF IInv, AdvanceBegins, HasLock
<1>2. CASE Refuse(c)
  BY <1>1, <1>2, RefuseOK
<1>3. CASE Loop(c, steps) /\ UNCHANGED <<deleted, died>>
  BY <1>1, <1>3, LoopOK DEF IInv, TypeOK
<1>4. QED
  BY <1>2, <1>3 DEF AdvanceBegins

\* The step an agent works on, and who waits for it.
LEMMA AgentAtWork ==
    ASSUME IInv, NEW c \in Caller, request[c].state = "working"
    PROVE  /\ line # <<>> /\ Head(line) = c /\ run = "running"
           /\ request[c].step \in Step
           /\ steps[request[c].step].status = "running"
           /\ Is(steps, "awaiting_approval") = {}
  BY DEF IInv, WorkIsOnRecord, WorkHasAStep, WorkOrWait, AtWork

\* A step gets the status that its agent's answer, or the lack of one, gives it.
LEMMA AnsweredOK ==
    ASSUME IInv, NEW i \in Step, Is(steps, "awaiting_approval") = {},
           NEW status \in {"done", "failed", "pending"},
           status = "pending" => steps[i].attempts < MaxAttempts[i],
           NEW s, s = [steps EXCEPT ![i].status = status]
    PROVE  /\ s \in [Step -> StepRow] /\ RowsOK(s)
           /\ Is(s, "awaiting_approval") = {}
<1>0. steps \in [Step -> StepRow]
  BY DEF IInv, TypeOK
<1>1. s \in [Step -> StepRow]
  BY <1>0 DEF StepRow
<1>2. /\ s[i].status = status /\ s[i].attempts = steps[i].attempts
      /\ s[i].approved = steps[i].approved
      /\ s[i].approval_required = steps[i].approval_required
      /\ \A j \in Step : j # i => s[j] = steps[j]
  BY <1>0 DEF StepRow
<1>3. Is(s, "awaiting_approval") = {}
  BY <1>2 DEF Is
<1>4. \A j \in Step : RowOK(s, j)
  BY <1>2 DEF IInv, RowsOK, RowOK
<1>5. QED
  BY <1>1, <1>3, <1>4 DEF RowsOK

LEMMA StepDoneOK ==
    ASSUME IInv, NEW c \in Caller, StepDone(c)
    PROVE  IInv'
<1> DEFINE i == request[c].step
           s == [steps EXCEPT ![i].status = "done"]
<1>1. request[c].state = "working" /\ Loop(c, s) /\ UNCHANGED <<deleted, died>>
  BY DEF StepDone
<1>2. s \in [Step -> StepRow] /\ RowsOK(s)
  BY <1>1, AgentAtWork, AnsweredOK
<1> HIDE DEF s
<1>3. QED
  BY <1>1, <1>2, AgentAtWork, LoopOK

LEMMA StepFailsOK ==
    ASSUME IInv, NEW c \in Caller, StepFails(c)
    PROVE  IInv'
<1> DEFINE i == request[c].step
<1>1. request[c].state = "working" /\ UNCHANGED <<deleted, died>>
  BY DEF StepFails
<1>2. CASE steps[i].attempts < MaxAttempts[i]
  <2> DEFINE s == [steps EXCEPT ![i].status = "pending"]
  <2>1. Loop(c, s)
    BY <1>2 DEF StepFails
  <2>2. s \in [Step -> StepRow] /\ RowsOK(s)
    BY <1>1, <1>2, AgentAtWork, AnsweredOK
  <2> HIDE DEF s
  <2>3. QED
    BY <1>1, <2>1, <2>2, AgentAtWork, LoopOK
<1>3. CASE ~(steps[i].attempts < MaxAttempts[i])
  <2>1. steps' = [steps EXCEPT ![i].status = "failed"] /\ run' = "failed" /\ Release(c)
    BY <1>3 DEF StepFails
  <2>2. /\ steps' \in [Step -> StepRow] /\ RowsOK(steps')
        /\ Is(steps', "awaiting_approval") = {}
    BY <1>1, <2>1, AgentAtWork, AnsweredOK
  <2>3. TypeOK'
    BY <1>1, <2>1, <2>2, AgentAtWork, ReleaseRests
    DEF IInv, TypeOK, RunStatus, RUN_TERMINAL_STATUSES
  <2>4. PausedOnOneStep' /\ RowsOK(steps)'
    BY <2>1, <2>2 DEF PausedOnOneStep, RowsOK, RowOK, Is
  <2>5. QED
    BY <1>1, <2>1, <2>3, <2>4, AgentAtWork, ReleaseRests, RestOK
<1>4. QED
  BY <1>2, <1>3

LEMMA ReviewedOK ==
    ASSUME IInv, NEW c \in Caller, NEW verdict, Reviewed(c, verdict)
    PROVE  IInv'
<1>1. /\ request[c].state = "reviewing" /\ run' \in {"failed", "completed"}
      /\ Release(c) /\ UNCHANGED <<deleted, steps, died>>
  BY DEF Reviewed
<1>2. line # <<>> /\ Head(line) = c /\ Is(steps, "awaiting_approval") = {}
  BY <1>1 DEF IInv, WorkIsOnRecord, WorkOrWait, AtWork
<1>3. TypeOK'
  BY <1>1, <1>2, ReleaseRests DEF IInv, TypeOK, RunStatus, RUN_TERMINAL_STATUSES
<1>4. RowsOK(steps)' /\ PausedOnOneStep'
  BY <1>1, <1>2 DEF IInv, RowsOK, RowOK, PausedOnOneStep, Is
<1>5. QED
  BY <1>1, <1>2, <1>3, <1>4, ReleaseRests, RestOK

LEMMA ApproveOK ==
    ASSUME IInv, NEW c \in Caller, Approve(c)
    PROVE  IInv'
<1>0. steps \in [Step -> StepRow] /\ request \in [Caller -> Request]
  BY DEF IInv, TypeOK
<1>1. line # <<>> /\ Head(line) = c
  BY LockHeld DEF IInv, Approve
<1>2. CASE Refuse(c)
  BY <1>1, <1>2, RefuseOK
<1>3. ASSUME NEW i \in Step, IsFirst(i, Is(steps, "awaiting_approval")),
             steps' = [steps EXCEPT ![i].status = "pending", ![i].approved = TRUE],
             run' = "running",
             request' = [request EXCEPT ![c] = InLine("execute", 0, Tail(line))],
             line' = Append(Tail(line), c), UNCHANGED <<deleted, died>>
      PROVE  IInv'
  <2>1. /\ InLine("execute", 0, Tail(line)) \in Request
        /\ InLine("execute", 0, Tail(line)).state \in {"entering", "queued"}
    <3>1. 0 \in 0..Last
      BY LastAssumption
    <3>2. QED
      BY <3>1 DEF InLine, Request
  <2>2. LineOK' /\ line' \in Seq(Caller)
    BY <1>1, <1>3, <2>1, LineRejoined DEF IInv
  <2>3. request' \in [Caller -> Request]
    BY <1>0, <1>3, <2>1
  <2>4. \A d \in Caller : ~(AtWork(d)')
    BY <1>0, <1>1, <1>3, <2>1, OthersRest DEF IInv, AtWork
  <2>5. steps' \in [Step -> StepRow]
    BY <1>0, <1>3 DEF StepRow
  <2>6. /\ steps[i].status = "awaiting_approval"
        /\ steps'[i].status = "pending" /\ steps'[i].approved = TRUE
        /\ steps'[i].attempts = steps[i].attempts
        /\ \A j \in Step : j # i => steps'[j] = steps[j]
    BY <1>0, <1>3 DEF StepRow, IsFirst, Is
  <2>7. \A j \in Step : RowOK(steps', j)
    BY <2>6 DEF IInv, RowsOK, RowOK
  <2>8. Is(steps', "awaiting_approval") = {}
    BY <2>6 DEF IInv, RowsOK, Is
  <2>9. TypeOK'
    BY <1>3, <2>2, <2>3, <2>5 DEF IInv, TypeOK, RunStatus
  <2>10. RowsOK(steps)' /\ PausedOnOneStep'
    BY <1>3, <2>7, <2>8 DEF RowsOK, PausedOnOneStep, RUN_TERMINAL_STATUSES
  <2>11. QED
    BY <2>2, <2>4, <2>9, <2>10, RestOK
<1>4. QED
  BY <1>2, <1>3 DEF Approve

LEMMA RejectOK ==
    ASSUME IInv, NEW c \in Caller, Reject(c)
    PROVE  IInv'
<1>0. steps \in [Step -> StepRow]
  BY DEF IInv, TypeOK
<1>1. line # <<>> /\ Head(line) = c
  BY LockHeld DEF IInv, Reject
<1>2. CASE Refuse(c)
  BY <1>1, <1>2, RefuseOK
<1>3. ASSUME NEW i \in Step, IsFirst(i, Is(steps, "awaiting_approval")),
             steps' = [j \in Step |->
                        IF j = i THEN [steps[j] EXCEPT !.status = "rejected"]
                        ELSE IF steps[j].status = "pending"
                             THEN [steps[j] EXCEPT !.status = "skipped"]
                             ELSE steps[j]],
             run' = "rejected", Release(c), UNCHANGED <<deleted, died>>
      PROVE  IInv'
  <2>1. \A j \in Step :
            /\ steps'[j] \in StepRow
            /\ steps'[j].attempts = steps[j].attempts
            /\ steps'[j].approved = steps[j].approved
            /\ steps'[j].approval_required = steps[j].approval_required
            /\ steps'[j].status # "pending"
            /\ steps'[j].status = "awaiting_approval" => j # i /\ steps[j].status = "awaiting_approval"
    BY <1>0, <1>3 DEF StepRow
  <2>2. steps' \in [Step -> StepRow]
    BY <1>3, <2>1
  <2>3. Is(steps', "awaiting_approval") = {}
    BY <1>3, <2>1 DEF IInv, RowsOK, Is, IsFirst
  <2>4. \A j \in Step : RowOK(steps', j)
    BY <2>1, <2>3 DEF IInv, RowsOK, RowOK, Is
  <2>5. TypeOK'
    BY <1>1, <1>3, <2>2, ReleaseRests DEF IInv, TypeOK, RunStatus, RUN_TERMINAL_STATUSES
  <2>6. RowsOK(steps)' /\ PausedOnOneStep'
    BY <1>3, <2>3, <2>4 DEF RowsOK, PausedOnOneStep
  <2>7. QED
    BY <1>1, <1>3, <2>5, <2>6, ReleaseRests, RestOK
<1>4. QED
  BY <1>2, <1>3 DEF Reject

LEMMA DeleteRunOK ==
    ASSUME IInv, DeleteRun
    PROVE  IInv'
<1>1. /\ run # "running" /\ run' = "absent" /\ deleted' = TRUE
      /\ steps' = [i \in Step |-> NewStep] /\ UNCHANGED <<request, line, died>>
  BY DEF DeleteRun
<1>2. \A d \in Caller : ~(AtWork(d)')
  BY <1>1 DEF IInv, WorkIsOnRecord, AtWork
<1>3. LineOK'
  BY <1>1, LineKept DEF IInv
<1>4. /\ steps' \in [Step -> StepRow] /\ RowsOK(steps')
      /\ Is(steps', "awaiting_approval") = {}
  <2>1. steps' = [i \in Step |-> [NewStep EXCEPT !.approval_required = [j \in Step |-> FALSE][i]]]
    BY <1>1 DEF NewStep
  <2>2. [j \in Step |-> FALSE] \in [Step -> BOOLEAN]
    OBVIOUS
  <2>3. QED
    BY <2>1, <2>2, NewStepsOK
<1>5. TypeOK'
  BY <1>1, <1>4 DEF IInv, TypeOK, RunStatus
<1>6. RowsOK(steps)' /\ PausedOnOneStep'
  BY <1>1, <1>4 DEF RowsOK, RowOK, Is, PausedOnOneStep
<1>7. QED
  BY <1>2, <1>3, <1>5, <1>6, RestOK

LEMMA RestartOK ==
    ASSUME IInv, Restart
    PROVE  IInv'
<1>1. /\ request' = [c \in Caller |-> Over] /\ line' = <<>>
      /\ died' = TRUE /\ deleted' = deleted
  BY DEF Restart
<1>2. Over \in Request /\ Over.state = "over"
  BY LastAssumption DEF Over, Request
<1>3. /\ request' \in [Caller -> Request]
      /\ \A d \in Caller : request'[d].state = "over"
  BY <1>1, <1>2
<1>4. line' \in Seq(Caller) /\ Len(line') = 0
  BY <1>1
<1>5. LineOK' /\ \A d \in Caller : ~(AtWork(d)')
  BY <1>3, <1>4 DEF LineOK, AtWork
<1>6. /\ run' \in RunStatus /\ steps' \in [Step -> StepRow] /\ RowsOK(steps')
      /\ PausedOnOneStep'
  <2>1. CASE UNCHANGED <<run, steps>>
    BY <2>1 DEF IInv, TypeOK, RowsOK, RowOK, PausedOnOneStep, Is
  <2>2. CASE run' = "running" /\ UNCHANGED steps
    BY <2>2 DEF IInv, TypeOK, RowsOK, RowOK, PausedOnOneStep, Is, RunStatus, RUN_TERMINAL_STATUSES
  <2>3. ASSUME NEW c \in Caller, NEW status \in {"done", "pending"},
               request[c].state = "working",
               status = "pending" =>
                    steps[request[c].step].attempts < MaxAttempts[request[c].step],
               steps' = [steps EXCEPT ![request[c].step].status = status],
               UNCHANGED run
        PROVE  /\ run' \in RunStatus /\ steps' \in [Step -> StepRow] /\ RowsOK(steps')
               /\ PausedOnOneStep'
    <3>1. /\ run = "running" /\ request[c].step \in Step
          /\ Is(steps, "awaiting_approval") = {}
      BY <2>3, AgentAtWork
    <3>2. /\ steps' \in [Step -> StepRow] /\ RowsOK(steps')
          /\ Is(steps', "awaiting_approval") = {}
      BY <2>3, <3>1, AnsweredOK
    <3>3. QED
      BY <2>3, <3>1, <3>2 DEF RunStatus, PausedOnOneStep, RUN_TERMINAL_STATUSES
  <2>4. QED
    BY <2>1, <2>2, <2>3 DEF Restart
<1>7. TypeOK'
  BY <1>1, <1>3, <1>4, <1>6 DEF IInv, TypeOK
<1>8. RowsOK(steps)'
  BY <1>6 DEF RowsOK, RowOK, Is
<1>9. QED
  BY <1>5, <1>6, <1>7, <1>8, RestOK

-----------------------------------------------------------------------------
(* The theorems *)

LEMMA NextOK == IInv /\ [Next]_vars => IInv'
<1> SUFFICES ASSUME IInv, [Next]_vars PROVE IInv'
  OBVIOUS
<1>1. CASE UNCHANGED vars
  BY <1>1 DEF vars, IInv, TypeOK, LineOK, WorkIsOnRecord, WorkHasAStep, WorkOrWait,
     AtWork, RowsOK, RowOK, PausedOnOneStep, Is
<1>2. ASSUME NEW c \in Caller, NEW mode \in {"auto", "always", "never"},
             NEW auto \in BOOLEAN, CreateRun(c, mode, auto)
      PROVE  IInv'
  BY <1>2, CreateRunOK
<1>3. ASSUME NEW c \in Caller, NEW op \in {"execute", "approve", "reject"}, Ask(c, op)
      PROVE  IInv'
  BY <1>3, AskOK
<1>4. ASSUME NEW c \in Caller, Work(c)
      PROVE  IInv'
  BY <1>4, AdvanceBeginsOK, ApproveOK, RejectOK, StepDoneOK, StepFailsOK, ReviewedOK
  DEF Work
<1>5. CASE DeleteRun
  BY <1>5, DeleteRunOK
<1>6. CASE Restart
  BY <1>6, RestartOK
<1>7. QED
  BY <1>1, <1>2, <1>3, <1>4, <1>5, <1>6 DEF Next

\* The invariant of a run, whoever asks what and whenever the process dies.
THEOREM Invariance == Spec => []IInv
  BY InitOK, NextOK, PTL DEF Spec

\* Type correctness.
THEOREM TypeCorrect == Spec => []TypeOK
<1>1. IInv => TypeOK
  BY DEF IInv
<1>2. QED
  BY <1>1, Invariance, PTL

\* No agent is set to work on a step that needs a decision and has none: not by a
\* later execute, not by the decision on another step, not after a restart.
THEOREM Gated == Spec => []NothingRunsUnapproved
<1>1. IInv => NothingRunsUnapproved
  BY DEF IInv, RowsOK, RowOK, NothingRunsUnapproved
<1>2. QED
  BY <1>1, Invariance, PTL

\* max_attempts bounds the attempts at a step over all requests and restarts.
THEOREM Bounded == Spec => []AttemptsBounded
<1>1. IInv => AttemptsBounded
  BY DEF IInv, RowsOK, RowOK, AttemptsBounded
<1>2. QED
  BY <1>1, Invariance, PTL

\* The lock and the status "running" keep all others, delete_run included, off a
\* run that somebody works for.
THEOREM OnRecord == Spec => []WorkIsOnRecord
<1>1. IInv => WorkIsOnRecord
  BY DEF IInv
<1>2. QED
  BY <1>1, Invariance, PTL

\* A pause waits on exactly one step.
THEOREM OnePause == Spec => []PausedOnOneStep
<1>1. IInv => PausedOnOneStep
  BY DEF IInv
<1>2. QED
  BY <1>1, Invariance, PTL

\* The rows of a run and those at work on it agree, all of the above together.
THEOREM RunCorrect == Spec => []RunInv
  BY TypeCorrect, Bounded, OnRecord, OnePause, PTL DEF RunInv

\* A run that has ended is changed by nothing but its deletion.
THEOREM Final == Spec => TheEndIsFinal
<1>1. ASSUME IInv, [Next]_vars
      PROVE  [(run \in RUN_TERMINAL_STATUSES) => run' = "absent" \/ (run' = run /\ steps' = steps)]_vars
  <2> SUFFICES ASSUME run \in RUN_TERMINAL_STATUSES, Next
               PROVE  run' = "absent" \/ (run' = run /\ steps' = steps)
    BY <1>1
  <2>1. /\ run \notin {"absent", "running"}
        /\ Is(steps, "awaiting_approval") = {}
        /\ \A c \in Caller : ~AtWork(c)
    BY <1>1 DEF IInv, RUN_TERMINAL_STATUSES, PausedOnOneStep, WorkIsOnRecord, AtWork
  <2>2. ASSUME NEW c \in Caller, Work(c)
        PROVE  run' = run /\ steps' = steps
    BY <2>1, <2>2 DEF Work, AdvanceBegins, Approve, Reject, StepDone, StepFails, Reviewed,
       Refuse, AtWork
  <2>3. CASE Restart
    BY <2>1, <2>3 DEF Restart, AtWork
  <2>4. CASE DeleteRun
    BY <2>4 DEF DeleteRun
  <2>5. QED
    BY <2>1, <2>2, <2>3, <2>4 DEF Next, CreateRun, Ask
<1>2. QED
  BY <1>1, Invariance, PTL DEF Spec, TheEndIsFinal

-----------------------------------------------------------------------------
(* The order of the steps *)

Live == {"planned", "running", "awaiting_approval"}

\* The steps are taken from the front; one taken is done, at work, waits for a
\* decision, or was left behind.
InOrder(s) ==
    /\ \A i \in Step : s[i].status \in {"pending", "running", "awaiting_approval", "done"}
    /\ \A j \in Step, i \in Step :
        i < j /\ s[j].status # "pending" => s[i].status \in {"done", "running"}

\* A step that says "running" has an agent at work, or had one in a process that died.
RunningExplained ==
    \A i \in Step : steps[i].status = "running" =>
        died \/ \E c \in Caller : request[c].state = "working" /\ request[c].step = i

\* Nothing was taken after the step at work.
RestIsAhead ==
    \A c \in Caller, j \in Step :
        request[c].state = "working" /\ request[c].step < j => steps[j].status = "pending"

\* The reviewer is asked when every step was taken.
ReviewedLast ==
    \A c \in Caller, i \in Step :
        request[c].state = "reviewing" => steps[i].status \in {"done", "running"}

Ordered ==
    /\ run \in Live => InOrder(steps)
    /\ RunningExplained
    /\ RestIsAhead
    /\ ReviewedLast
    /\ CompletesWhatIsLeft

LEMMA InitOrdered == Init => Ordered
<1> SUFFICES ASSUME Init PROVE Ordered
  OBVIOUS
<1>1. /\ run = "absent" /\ \A i \in Step : steps[i].status = "pending"
      /\ \A c \in Caller : request[c].state = "over"
  BY DEF Init, NewStep, Over
<1>2. QED
  BY <1>1 DEF Ordered, Live, RunningExplained, RestIsAhead, ReviewedLast, CompletesWhatIsLeft

\* When nobody is at work, the order is a matter of the rows and the run's status.
LEMMA RestOrdered ==
    ASSUME \A d \in Caller : ~(AtWork(d)'), (run \in Live => InOrder(steps))',
           \A i \in Step : steps'[i].status = "running" => died', CompletesWhatIsLeft'
    PROVE  Ordered'
  BY DEF Ordered, RunningExplained, RestIsAhead, ReviewedLast, AtWork

\* One pass of the loop, from rows in order none of which has an agent at work.
LEMMA LoopOrdered ==
    ASSUME IInv, Ordered, NEW c \in Caller, line # <<>>, Head(line) = c,
           NEW s \in [Step -> StepRow], InOrder(s),
           \A i \in Step : s[i].status = "running" => died,
           Loop(c, s), UNCHANGED <<deleted, died>>
    PROVE  Ordered'
<1>0. request \in [Caller -> Request]
  BY DEF IInv, TypeOK
<1>1. CASE Paused(s) /\ steps' = s /\ Pause(c)
  <2>1. run' = "awaiting_approval" /\ Release(c)
    BY <1>1 DEF Pause
  <2>2. CompletesWhatIsLeft'
    BY <2>1 DEF CompletesWhatIsLeft
  <2>3. InOrder(steps)'
    BY <1>1 DEF InOrder
  <2>4. QED
    BY <1>1, <2>1, <2>2, <2>3, ReleaseRests, RestOrdered
<1>2. ASSUME NEW i \in Step, IsFirst(i, Is(s, "pending")), ~Paused(s),
             steps' = [s EXCEPT ![i].status = "awaiting_approval"], Pause(c)
      PROVE  Ordered'
  <2>1. run' = "awaiting_approval" /\ Release(c)
    BY <1>2 DEF Pause
  <2>2. /\ s[i].status = "pending" /\ steps'[i].status = "awaiting_approval"
        /\ \A j \in Step : j # i => steps'[j] = s[j]
        /\ \A j \in Step : j < i => s[j].status \notin {"pending", "awaiting_approval"}
    BY <1>2, LastAssumption DEF StepRow, IsFirst, Is, Paused, Step
  <2>3. InOrder(steps')
    BY <2>2 DEF InOrder
  <2>4. CompletesWhatIsLeft' /\ InOrder(steps)'
    BY <2>1, <2>3 DEF CompletesWhatIsLeft, InOrder
  <2>5. \A j \in Step : steps'[j].status = "running" => died'
    BY <2>2
  <2>6. QED
    BY <2>1, <2>4, <2>5, ReleaseRests, RestOrdered
<1>3. ASSUME NEW i \in Step, IsFirst(i, Is(s, "pending")), ~Paused(s),
             steps' = [s EXCEPT ![i].status = "running", ![i].attempts = @ + 1],
             run' = "running", Await(c, "working", i)
      PROVE  Ordered'
  <2>1. /\ request'[c].state = "working" /\ request'[c].step = i
        /\ \A d \in Caller : d # c => request'[d] = request[d]
    BY <1>0, <1>3 DEF Await, Request
  <2>2. \A d \in Caller : AtWork(d)' => d = c
    BY <2>1, OthersRest DEF IInv, AtWork
  <2>3. /\ s[i].status = "pending" /\ steps'[i].status = "running"
        /\ \A j \in Step : j # i => steps'[j] = s[j]
        /\ \A j \in Step : j < i => s[j].status \notin {"pending", "awaiting_approval"}
    BY <1>3, LastAssumption DEF StepRow, IsFirst, Is, Paused, Step
  <2>4. InOrder(steps')
    BY <2>3 DEF InOrder
  <2>5. \A j \in Step : i < j => steps'[j].status = "pending"
    BY <2>3 DEF InOrder, Step
  <2>6. RunningExplained'
    BY <2>1, <2>3 DEF RunningExplained
  <2>7. RestIsAhead' /\ ReviewedLast'
    BY <2>1, <2>2, <2>5 DEF RestIsAhead, ReviewedLast, AtWork
  <2>8. CompletesWhatIsLeft' /\ InOrder(steps)'
    BY <1>3, <2>4 DEF CompletesWhatIsLeft, InOrder
  <2>9. QED
    BY <2>6, <2>7, <2>8 DEF Ordered
<1>4. CASE /\ ~Paused(s) /\ Is(s, "pending") = {} /\ steps' = s
           /\ run' = "running" /\ Await(c, "reviewing", 0)
  <2>1. /\ request'[c].state = "reviewing"
        /\ \A d \in Caller : d # c => request'[d] = request[d]
    BY <1>0, <1>4 DEF Await, Request
  <2>2. \A d \in Caller : AtWork(d)' => d = c
    BY <2>1, OthersRest DEF IInv, AtWork
  <2>3. \A i \in Step : steps'[i].status \in {"done", "running"}
    BY <1>4 DEF InOrder, Paused, Is
  <2>4. RunningExplained' /\ RestIsAhead' /\ ReviewedLast'
    BY <1>4, <2>1, <2>2, <2>3 DEF RunningExplained, RestIsAhead, ReviewedLast, AtWork
  <2>5. CompletesWhatIsLeft' /\ InOrder(steps)'
    BY <1>4 DEF CompletesWhatIsLeft, InOrder
  <2>6. QED
    BY <2>4, <2>5 DEF Ordered
<1>5. QED
  BY <1>1, <1>2, <1>3, <1>4 DEF Loop

\* The rows after an agent's answer, or after it failed with an attempt left.
LEMMA AnsweredInOrder ==
    ASSUME IInv, Ordered, NEW c \in Caller, request[c].state = "working",
           NEW status \in {"done", "pending"}, NEW s,
           s = [steps EXCEPT ![request[c].step].status = status]
    PROVE  InOrder(s) /\ \A i \in Step : s[i].status = "running" => died
<1> DEFINE k == request[c].step
<1>0. steps \in [Step -> StepRow]
  BY DEF IInv, TypeOK
<1>1. /\ k \in Step /\ run = "running" /\ steps[k].status = "running"
      /\ line # <<>> /\ Head(line) = c
  BY AgentAtWork
<1>2. s[k].status = status /\ \A j \in Step : j # k => s[j] = steps[j]
  BY <1>0, <1>1 DEF StepRow
<1>3. InOrder(steps) /\ \A j \in Step : k < j => steps[j].status = "pending"
  BY <1>1 DEF Ordered, Live, RestIsAhead
<1>4. InOrder(s)
  BY <1>1, <1>2, <1>3 DEF InOrder
<1>5. \A d \in Caller : request[d].state = "working" => d = c
  BY <1>1, OthersRest DEF IInv, AtWork
<1>6. \A i \in Step : i # k /\ steps[i].status = "running" => died
  BY <1>5 DEF Ordered, RunningExplained
<1>7. QED
  BY <1>2, <1>4, <1>6

\* Letting go without a change of the run.
LEMMA RefuseOrdered ==
    ASSUME IInv, Ordered, NEW c \in Caller, line # <<>>, Head(line) = c, ~AtWork(c),
           Refuse(c)
    PROVE  Ordered'
<1>1. Release(c) /\ UNCHANGED <<run, deleted, steps, died>>
  BY DEF Refuse
<1>2. \A i \in Step : steps[i].status = "running" => died
  BY OthersRest DEF IInv, Ordered, RunningExplained, AtWork
<1>3. (run \in Live => InOrder(steps))' /\ CompletesWhatIsLeft'
  BY <1>1 DEF Ordered, InOrder, CompletesWhatIsLeft, LeftRunning
<1>4. QED
  BY <1>1, <1>2, <1>3, ReleaseRests, RestOrdered

LEMMA WorkOrdered ==
    ASSUME IInv, Ordered, NEW c \in Caller, Work(c)
    PROVE  Ordered'
<1>0. steps \in [Step -> StepRow] /\ request \in [Caller -> Request]
  BY DEF IInv, TypeOK
<1>1. ASSUME NEW op, HasLock(c, op)
      PROVE  /\ line # <<>> /\ Head(line) = c /\ ~AtWork(c)
             /\ \A d \in Caller : ~AtWork(d)
             /\ \A i \in Step : steps[i].status = "running" => died
  <2>1. line # <<>> /\ Head(line) = c /\ ~AtWork(c)
    BY <1>1, LockHeld DEF IInv, HasLock, AtWork
  <2>2. \A d \in Caller : ~AtWork(d)
    BY <2>1, OthersRest DEF IInv
  <2>3. QED
    BY <2>1, <2>2 DEF Ordered, RunningExplained, AtWork
<1>2. CASE AdvanceBegins(c)
  <2>1. HasLock(c, "execute")
    BY <1>2 DEF AdvanceBegins
  <2>2. CASE Refuse(c)
    BY <1>1, <2>1, <2>2, RefuseOrdered
  <2>3. CASE run \notin RUN_TERMINAL_STATUSES \cup {"absent"} /\ Loop(c, steps)
             /\ UNCHANGED <<deleted, died>>
    <3>1. run \in Live
      BY <2>3 DEF IInv, TypeOK, RunStatus, Live
    <3>2. InOrder(steps)
      BY <3>1 DEF Ordered
    <3>3. QED
      BY <1>0, <1>1, <2>1, <2>3, <3>2, LoopOrdered
  <2>4. QED
    BY <1>2, <2>2, <2>3 DEF AdvanceBegins
<1>3. CASE Approve(c)
  <2>1. HasLock(c, "approve")
    BY <1>3 DEF Approve
  <2>2. CASE Refuse(c)
    BY <1>1, <2>1, <2>2, RefuseOrdered
  <2>3. ASSUME NEW i \in Step, run # "absent", IsFirst(i, Is(steps, "awaiting_approval")),
               steps' = [steps EXCEPT ![i].status = "pending", ![i].approved = TRUE],
               run' = "running",
               request' = [request EXCEPT ![c] = InLine("execute", 0, Tail(line))],
               UNCHANGED died
        PROVE  Ordered'
    <3>1. \A d \in Caller : ~(AtWork(d)')
      BY <1>0, <1>1, <2>1, <2>3 DEF InLine, AtWork
    <3>2. /\ steps[i].status = "awaiting_approval" /\ steps'[i].status = "pending"
          /\ \A j \in Step : j # i => steps'[j] = steps[j]
      BY <1>0, <2>3 DEF StepRow, IsFirst, Is
    <3>3. run \in Live
      BY <2>3, <3>2 DEF IInv, TypeOK, RunStatus, Live, PausedOnOneStep, Is
    <3>4. InOrder(steps')
      BY <3>2, <3>3 DEF Ordered, InOrder
    <3>5. (run \in Live => InOrder(steps))' /\ CompletesWhatIsLeft'
      BY <2>3, <3>4 DEF InOrder, CompletesWhatIsLeft
    <3>6. QED
      BY <1>1, <2>1, <2>3, <3>1, <3>2, <3>5, RestOrdered
  <2>4. QED
    BY <1>3, <2>2, <2>3 DEF Approve
<1>4. CASE Reject(c)
  <2>1. HasLock(c, "reject")
    BY <1>4 DEF Reject
  <2>2. CASE Refuse(c)
    BY <1>1, <2>1, <2>2, RefuseOrdered
  <2>3. ASSUME NEW i \in Step,
               steps' = [j \in Step |->
                        IF j = i THEN [steps[j] EXCEPT !.status = "rejected"]
                        ELSE IF steps[j].status = "pending"
                             THEN [steps[j] EXCEPT !.status = "skipped"]
                             ELSE steps[j]],
               run' = "rejected", Release(c), UNCHANGED died
        PROVE  Ordered'
    <3>1. \A j \in Step : steps'[j].status = "running" => steps[j].status = "running"
      BY <1>0, <2>3 DEF StepRow
    <3>2. (run \in Live => InOrder(steps))' /\ CompletesWhatIsLeft'
      BY <2>3 DEF Live, CompletesWhatIsLeft
    <3>3. QED
      BY <1>1, <2>1, <2>3, <3>1, <3>2, ReleaseRests, RestOrdered
  <2>4. QED
    BY <1>4, <2>2, <2>3 DEF Reject
<1>5. ASSUME request[c].state = "working", NEW status \in {"done", "pending"},
             status = "pending" => steps[request[c].step].attempts < MaxAttempts[request[c].step],
             Loop(c, [steps EXCEPT ![request[c].step].status = status]),
             UNCHANGED <<deleted, died>>
      PROVE  Ordered'
  <2> DEFINE s == [steps EXCEPT ![request[c].step].status = status]
  <2>1. InOrder(s) /\ \A i \in Step : s[i].status = "running" => died
    BY <1>5, AnsweredInOrder
  <2>2. s \in [Step -> StepRow]
    BY <1>5, AgentAtWork, AnsweredOK
  <2>3. Loop(c, s)
    BY <1>5
  <2> HIDE DEF s
  <2>4. QED
    BY <1>5, <2>1, <2>2, <2>3, AgentAtWork, LoopOrdered
<1>6. CASE StepDone(c)
  BY <1>5, <1>6 DEF StepDone
<1>7. CASE StepFails(c)
  <2>1. request[c].state = "working" /\ UNCHANGED <<deleted, died>>
    BY <1>7 DEF StepFails
  <2>2. CASE steps[request[c].step].attempts < MaxAttempts[request[c].step]
    BY <1>5, <1>7, <2>1, <2>2 DEF StepFails
  <2>3. CASE ~(steps[request[c].step].attempts < MaxAttempts[request[c].step])
    <3>1. /\ steps' = [steps EXCEPT ![request[c].step].status = "failed"]
          /\ run' = "failed" /\ Release(c)
      BY <1>7, <2>3 DEF StepFails
    <3>2. [steps EXCEPT ![request[c].step].status = "done"] \in [Step -> StepRow]
      BY <2>1, AgentAtWork, AnsweredOK
    <3>3. \A j \in Step : steps'[j].status = "running" =>
            [steps EXCEPT ![request[c].step].status = "done"][j].status = "running"
      BY <1>0, <2>1, <3>1, AgentAtWork DEF StepRow
    <3>4. \A j \in Step : steps'[j].status = "running" => died'
      BY <2>1, <3>3, AnsweredInOrder
    <3>5. (run \in Live => InOrder(steps))' /\ CompletesWhatIsLeft'
      BY <3>1 DEF Live, CompletesWhatIsLeft
    <3>6. QED
      BY <2>1, <3>1, <3>4, <3>5, AgentAtWork, ReleaseRests, RestOrdered
  <2>4. QED
    BY <2>2, <2>3
<1>8. ASSUME NEW verdict, Reviewed(c, verdict)
      PROVE  Ordered'
  <2>1. /\ request[c].state = "reviewing" /\ run' \in {"failed", "completed"}
        /\ Release(c) /\ UNCHANGED <<steps, died>>
    BY <1>8 DEF Reviewed
  <2>2. line # <<>> /\ Head(line) = c
    BY <2>1 DEF IInv, WorkIsOnRecord, AtWork
  <2>3. \A d \in Caller : request[d].state # "working"
    BY <2>1, <2>2, OthersRest DEF IInv, AtWork
  <2>4. \A i \in Step : steps[i].status = "running" => died
    BY <2>3 DEF Ordered, RunningExplained
  <2>5. \A i \in Step : steps[i].status \in {"done", "running"}
    BY <2>1 DEF Ordered, ReviewedLast
  <2>6. (run \in Live => InOrder(steps))' /\ CompletesWhatIsLeft'
    BY <2>1, <2>4, <2>5 DEF Live, CompletesWhatIsLeft, LeftRunning
  <2>7. QED
    BY <2>1, <2>2, <2>4, <2>6, ReleaseRests, RestOrdered
<1>9. QED
  BY <1>2, <1>3, <1>4, <1>6, <1>7, <1>8 DEF Work

LEMMA RestartOrdered ==
    ASSUME IInv, Ordered, Restart
    PROVE  Ordered'
<1>1. /\ request' = [c \in Caller |-> Over] /\ died' = TRUE
  BY DEF Restart
<1>2. \A d \in Caller : ~(AtWork(d)')
  BY <1>1 DEF Over, AtWork
<1>3. CASE UNCHANGED <<run, steps>>
  BY <1>1, <1>2, <1>3, RestOrdered DEF Ordered, InOrder, CompletesWhatIsLeft, LeftRunning
<1>4. CASE run \notin RUN_TERMINAL_STATUSES \cup {"absent"} /\ run' = "running" /\ UNCHANGED steps
  <2>1. run \in Live
    BY <1>4 DEF IInv, TypeOK, RunStatus, Live
  <2>2. InOrder(steps)' /\ CompletesWhatIsLeft'
    BY <1>4, <2>1 DEF Ordered, InOrder, CompletesWhatIsLeft
  <2>3. QED
    BY <1>1, <1>2, <2>2, RestOrdered
<1>5. ASSUME NEW c \in Caller, NEW status \in {"done", "pending"},
             request[c].state = "working",
             steps' = [steps EXCEPT ![request[c].step].status = status], UNCHANGED run
      PROVE  Ordered'
  <2>1. InOrder(steps') /\ run = "running"
    BY <1>5, AnsweredInOrder, AgentAtWork
  <2>2. InOrder(steps)' /\ CompletesWhatIsLeft'
    BY <1>5, <2>1 DEF InOrder, CompletesWhatIsLeft
  <2>3. QED
    BY <1>1, <1>2, <2>2, RestOrdered
<1>6. QED
  BY <1>3, <1>4, <1>5 DEF Restart

LEMMA NextOrdered == IInv /\ Ordered /\ [Next]_vars => Ordered'
<1> SUFFICES ASSUME IInv, Ordered, [Next]_vars PROVE Ordered'
  OBVIOUS
<1>1. CASE UNCHANGED vars
  BY <1>1 DEF vars, Ordered, InOrder, RunningExplained, RestIsAhead, ReviewedLast,
     CompletesWhatIsLeft, LeftRunning
<1>2. ASSUME NEW c \in Caller, NEW mode \in {"auto", "always", "never"},
             NEW auto \in BOOLEAN, CreateRun(c, mode, auto)
      PROVE  Ordered'
  <2>1. \A d \in Caller : ~AtWork(d)
    BY <1>2 DEF IInv, CreateRun, WorkIsOnRecord, AtWork
  <2>2. \A d \in Caller : ~(AtWork(d)')
    <3>1. CASE Enqueue(c, "execute")
      BY <2>1, <3>1, EnqueueOK
    <3>2. CASE UNCHANGED <<request, line>>
      BY <2>1, <3>2 DEF AtWork
    <3>3. QED
      BY <1>2, <3>1, <3>2 DEF CreateRun
  <2>3. run' = "planned" /\ \A i \in Step : steps'[i].status = "pending"
    BY <1>2 DEF CreateRun, NewStep
  <2>4. (run \in Live => InOrder(steps))' /\ CompletesWhatIsLeft'
    BY <2>3 DEF InOrder, CompletesWhatIsLeft
  <2>5. QED
    BY <2>2, <2>3, <2>4, RestOrdered
<1>3. ASSUME NEW c \in Caller, NEW op \in {"execute", "approve", "reject"}, Ask(c, op)
      PROVE  Ordered'
  <2>1. Enqueue(c, op) /\ UNCHANGED <<run, steps, died>>
    BY <1>3 DEF Ask
  <2>2. \A d \in Caller : AtWork(d)' => AtWork(d) /\ request'[d] = request[d]
    BY <2>1, EnqueueOK
  <2>3. \A d \in Caller : AtWork(d) => request'[d] = request[d]
    BY <2>1 DEF Enqueue, AtWork, IInv, TypeOK
  <2>4. QED
    BY <2>1, <2>2, <2>3 DEF Ordered, InOrder, RunningExplained, RestIsAhead, ReviewedLast,
       CompletesWhatIsLeft, LeftRunning, AtWork
<1>4. ASSUME NEW c \in Caller, Work(c)
      PROVE  Ordered'
  BY <1>4, WorkOrdered
<1>5. CASE DeleteRun
  <2>1. /\ run # "running" /\ run' = "absent" /\ UNCHANGED request
        /\ \A i \in Step : steps'[i].status = "pending"
    BY <1>5 DEF DeleteRun, NewStep
  <2>2. \A d \in Caller : ~(AtWork(d)')
    BY <2>1 DEF IInv, WorkIsOnRecord, AtWork
  <2>3. (run \in Live => InOrder(steps))' /\ CompletesWhatIsLeft'
    BY <2>1 DEF Live, CompletesWhatIsLeft
  <2>4. QED
    BY <2>1, <2>2, <2>3, RestOrdered
<1>6. CASE Restart
  BY <1>6, RestartOrdered
<1>7. QED
  BY <1>1, <1>2, <1>3, <1>4, <1>5, <1>6 DEF Next

LEMMA OrderInvariance == Spec => [](IInv /\ Ordered)
  BY InitOK, InitOrdered, NextOK, NextOrdered, PTL DEF Spec

\* A run completes with every step done, but for those that a process which died
\* left "running".
THEOREM Complete == Spec => []CompletesWhatIsLeft
<1>1. Ordered => CompletesWhatIsLeft
  BY DEF Ordered
<1>2. QED
  BY <1>1, OrderInvariance, PTL

\* The attempts that a pass of the loop adds are of the first step pending, and the
\* steps before it are done or left behind.
LEMMA LoopTakesInOrder ==
    ASSUME NEW c \in Caller, NEW s \in [Step -> StepRow], InOrder(s), Loop(c, s),
           NEW i \in Step, s[i].attempts < steps'[i].attempts,
           NEW j \in Step, j < i
    PROVE  steps'[j] = s[j] /\ s[j].status \in {"done", "running"}
<1>1. ASSUME NEW k \in Step, k # i \/ steps' = s,
             \/ steps' = s
             \/ steps' = [s EXCEPT ![k].status = "awaiting_approval"]
             \/ steps' = [s EXCEPT ![k].status = "running", ![k].attempts = @ + 1]
      PROVE  FALSE
  BY <1>1 DEF StepRow
<1>2. PICK k \in Step : /\ IsFirst(k, Is(s, "pending")) /\ ~Paused(s)
                        /\ \/ steps' = [s EXCEPT ![k].status = "awaiting_approval"]
                           \/ steps' = [s EXCEPT ![k].status = "running", ![k].attempts = @ + 1]
  BY <1>1 DEF Loop
<1>3. k = i
  BY <1>1, <1>2
<1>4. steps'[j] = s[j]
  BY <1>2, <1>3, LastAssumption DEF Step
<1>5. s[j].status \notin {"pending", "awaiting_approval"}
  BY <1>2, <1>3, LastAssumption DEF IsFirst, Is, Paused, Step
<1>6. QED
  BY <1>4, <1>5 DEF InOrder

\* Steps are started in order, over all requests, retries and restarts.
THEOREM InTurn == Spec => StepsInOrder
<1>1. ASSUME IInv, Ordered, [Next]_vars
      PROVE  [\A i \in Step :
                (steps[i].attempts < steps'[i].attempts) =>
                    \A j \in 1..(i - 1) : steps'[j].status = "done" \/ LeftRunning(steps, j)]_vars
  <2> SUFFICES ASSUME Next, NEW i \in Step, steps[i].attempts < steps'[i].attempts,
                      NEW j \in 1..(i - 1)
               PROVE  steps'[j].status = "done" \/ LeftRunning(steps, j)
    BY <1>1
  <2>0. /\ steps \in [Step -> StepRow] /\ j \in Step /\ j < i
    BY <1>1, LastAssumption DEF IInv, TypeOK, Step
  <2>1. ASSUME NEW c \in Caller, AdvanceBegins(c)
        PROVE  steps'[j].status = "done" \/ LeftRunning(steps, j)
    <3>1. HasLock(c, "execute") /\ Loop(c, steps) /\ run \in Live
      BY <1>1, <2>0, <2>1 DEF AdvanceBegins, Refuse, StepRow, IInv, TypeOK, RunStatus, Live
    <3>2. InOrder(steps)
      BY <1>1, <3>1 DEF Ordered
    <3>3. \A d \in Caller : ~AtWork(d)
      BY <1>1, <3>1, LockHeld, OthersRest DEF IInv, HasLock, AtWork
    <3>4. steps[j].status = "running" => died
      BY <1>1, <2>0, <3>3 DEF Ordered, RunningExplained, AtWork
    <3>5. steps'[j] = steps[j] /\ steps[j].status \in {"done", "running"}
      BY <2>0, <3>1, <3>2, LoopTakesInOrder
    <3>6. QED
      BY <3>4, <3>5 DEF LeftRunning
  <2>2. ASSUME NEW c \in Caller, request[c].state = "working",
               NEW status \in {"done", "pending"},
               status = "pending" => steps[request[c].step].attempts < MaxAttempts[request[c].step],
               Loop(c, [steps EXCEPT ![request[c].step].status = status])
        PROVE  steps'[j].status = "done" \/ LeftRunning(steps, j)
    <3> DEFINE s == [steps EXCEPT ![request[c].step].status = status]
    <3>1. InOrder(s) /\ \A k \in Step : s[k].status = "running" => died
      BY <1>1, <2>2, AnsweredInOrder
    <3>2. s \in [Step -> StepRow] /\ request[c].step \in Step
      BY <1>1, <2>2, AgentAtWork, AnsweredOK
    <3>3. /\ \A k \in Step : s[k].attempts = steps[k].attempts
          /\ \A k \in Step : s[k].status = "running" => s[k] = steps[k]
      BY <2>0, <3>2 DEF StepRow
    <3>4. Loop(c, s)
      BY <2>2
    <3> HIDE DEF s
    <3>5. steps'[j] = s[j] /\ s[j].status \in {"done", "running"}
      BY <2>0, <3>1, <3>2, <3>3, <3>4, LoopTakesInOrder
    <3>6. QED
      BY <2>0, <3>1, <3>3, <3>5 DEF LeftRunning
  <2>3. ASSUME NEW c \in Caller, StepDone(c)
        PROVE  steps'[j].status = "done" \/ LeftRunning(steps, j)
    BY <2>2, <2>3 DEF StepDone
  <2>4. ASSUME NEW c \in Caller, StepFails(c)
        PROVE  steps'[j].status = "done" \/ LeftRunning(steps, j)
    <3>1. CASE steps[request[c].step].attempts < MaxAttempts[request[c].step]
      BY <2>2, <2>4, <3>1 DEF StepFails
    <3>2. CASE ~(steps[request[c].step].attempts < MaxAttempts[request[c].step])
      <4>1. steps' = [steps EXCEPT ![request[c].step].status = "failed"]
        BY <2>4, <3>2 DEF StepFails
      <4>2. steps'[i].attempts = steps[i].attempts
        BY <2>0, <4>1 DEF StepRow
      <4>3. QED
        BY <2>0, <4>2 DEF StepRow
    <3>3. QED
      BY <3>1, <3>2
  <2>5. ASSUME steps'[i].attempts = steps[i].attempts \/ steps'[i].attempts = 0
        PROVE  FALSE
    BY <2>0, <2>5 DEF StepRow
  <2>6. ASSUME NEW c \in Caller, Approve(c) \/ Reject(c)
                \/ \E verdict \in {"success", "failure", "uncertain"} : Reviewed(c, verdict)
        PROVE  FALSE
    <3>1. CASE UNCHANGED steps
      BY <2>5, <3>1
    <3>2. ASSUME NEW k \in Step,
                 steps' = [steps EXCEPT ![k].status = "pending", ![k].approved = TRUE]
          PROVE  FALSE
      <4>1. steps'[i].attempts = steps[i].attempts
        BY <2>0, <3>2 DEF StepRow
      <4>2. QED
        BY <2>5, <4>1
    <3>3. ASSUME NEW k \in Step,
                 steps' = [l \in Step |->
                        IF l = k THEN [steps[l] EXCEPT !.status = "rejected"]
                        ELSE IF steps[l].status = "pending"
                             THEN [steps[l] EXCEPT !.status = "skipped"]
                             ELSE steps[l]]
          PROVE  FALSE
      <4>1. steps'[i].attempts = steps[i].attempts
        BY <2>0, <3>3 DEF StepRow
      <4>2. QED
        BY <2>5, <4>1
    <3>4. CASE Approve(c)
      BY <3>1, <3>2, <3>4 DEF Approve, Refuse
    <3>5. CASE Reject(c)
      BY <3>1, <3>3, <3>5 DEF Reject, Refuse
    <3>6. QED
      BY <2>6, <3>1, <3>4, <3>5 DEF Reviewed
  <2>7. ASSUME NEW c \in Caller, NEW mode, NEW auto, CreateRun(c, mode, auto)
        PROVE  FALSE
    BY <2>5, <2>7 DEF CreateRun, NewStep
  <2>8. CASE DeleteRun
    BY <2>5, <2>8 DEF DeleteRun, NewStep
  <2>9. CASE Restart
    <3>1. CASE UNCHANGED steps
      BY <2>5, <3>1
    <3>2. ASSUME NEW k, NEW status, steps' = [steps EXCEPT ![k].status = status]
          PROVE  FALSE
      <4>1. steps'[i].attempts = steps[i].attempts
        BY <2>0, <3>2 DEF StepRow
      <4>2. QED
        BY <2>5, <4>1
    <3>3. QED
      BY <2>9, <3>1, <3>2 DEF Restart
  <2>10. QED
    BY <2>1, <2>3, <2>4, <2>5, <2>6, <2>7, <2>8, <2>9 DEF Next, Work, Ask
<1>2. QED
  BY <1>1, OrderInvariance, PTL DEF Spec, StepsInOrder
=============================================================================
