----------------------------- MODULE Orchestrator -----------------------------
(***************************************************************************)
(* One run of the multi-agent orchestrator (smart_router/                  *)
(* orchestrator_v60.py): a plan of ordered steps, each carried out by an   *)
(* agent, paused before a step that needs a human decision, and judged by  *)
(* a reviewer.                                                             *)
(*                                                                         *)
(* The router is one asyncio process: a request runs without interruption  *)
(* from one await to the next, and the awaits are the acquisition of the   *)
(* run's lock, the agent's answer and the reviewer's answer.  Each action  *)
(* here is the code between two awaits.  Run and steps are rows of the     *)
(* control database and survive a restart of the process; requests and     *)
(* lock do not.  Runs share nothing, so one is enough.                     *)
(***************************************************************************)
EXTENDS Integers, Sequences

CONSTANTS
    Last,         \* the plan has the steps 1..Last
    MaxAttempts,  \* step -> max_attempts, after _bounded_attempts
    Flagged,      \* steps the planner marked approval_required
    Dangerous,    \* steps whose text matches DANGEROUS_PATTERNS
    RiskOf,       \* step -> the risks of its tools in the plugin registry
    Caller        \* HTTP requests the router serves at the same time

Step == 1..Last

Risk == {"low", "medium", "high", "unregistered"}

MAX_ATTEMPTS_LIMIT == 3

ASSUME LastAssumption == Last \in Nat \ {0}
ASSUME PlanAssumption ==
    /\ MaxAttempts \in [Step -> 1..MAX_ATTEMPTS_LIMIT]
    /\ Flagged \subseteq Step
    /\ Dangerous \subseteq Step
    /\ RiskOf \in [Step -> SUBSET Risk]

VARIABLES
    run,      \* AgentRun.status; "absent" before the run is created or after
              \* it was deleted
    deleted,  \* the run existed and was deleted; its id is never used again
    steps,    \* the AgentRunStep rows
    request,  \* caller -> the request it makes
    line,     \* the run's asyncio.Lock: its holder, then those that wait for
              \* it in the order they came
    died      \* history: the process died at least once

vars == <<run, deleted, steps, request, line, died>>

RUN_TERMINAL_STATUSES == {"completed", "failed", "rejected"}

RunStatus == {"absent", "planned", "running", "awaiting_approval"}
                \cup RUN_TERMINAL_STATUSES

StepRow == [status : {"pending", "running", "awaiting_approval", "done",
                      "failed", "rejected", "skipped"},
            approval_required : BOOLEAN, approved : BOOLEAN,
            attempts : Nat]

(***************************************************************************)
(* A request is in line for the lock with what it is to do, waits for an   *)
(* agent ("working" on a step) or for the reviewer ("reviewing"), or is    *)
(* over.  One that finds the lock free is "entering": acquire does not     *)
(* suspend it, and nothing else runs before its next await.  The step of   *)
(* one in line is the step that waited for a decision when it came, 0 if   *)
(* none: only a property looks at it.                                      *)
(***************************************************************************)
Request == [state : {"over", "entering", "queued", "working", "reviewing"},
            op : {"execute", "approve", "reject"}, step : 0..Last]

Over == [state |-> "over", op |-> "execute", step |-> 0]

InLine(op, i, others) ==
    [state |-> IF others = <<>> THEN "entering" ELSE "queued", op |-> op, step |-> i]

TypeOK ==
    /\ run \in RunStatus
    /\ deleted \in BOOLEAN
    /\ steps \in [Step -> StepRow]
    /\ request \in [Caller -> Request]
    /\ line \in Seq(Caller)
    /\ died \in BOOLEAN

NewStep == [status |-> "pending", approval_required |-> FALSE,
            approved |-> FALSE, attempts |-> 0]

Init ==
    /\ run = "absent"
    /\ deleted = FALSE
    /\ steps = [i \in Step |-> NewStep]
    /\ request = [c \in Caller |-> Over]
    /\ line = <<>>
    /\ died = FALSE

-----------------------------------------------------------------------------
(* Creation *)

approval_decision(i, mode) ==
    \/ mode = "always"
    \/ /\ mode = "auto"
       /\ \/ i \in Flagged \cup Dangerous
          \/ RiskOf[i] \cap {"high", "unregistered"} # {}

Is(s, status) == {i \in Step : s[i].status = status}

\* The first of several steps of the run, in any order.
AnyOf(i, indices) == i \in indices

IsFirst(i, indices) == i \in indices /\ \A j \in indices : i <= j

Entering == \E c \in Caller : request[c].state = "entering"

\* A request comes in and takes its place in line.
Enqueue(c, op) ==
    /\ request[c].state = "over" /\ ~Entering
    /\ \E i \in 0..Last :
        /\ IF Is(steps, "awaiting_approval") = {} THEN i = 0
           ELSE IsFirst(i, Is(steps, "awaiting_approval"))
        /\ request' = [request EXCEPT ![c] = InLine(op, i, line)]
    /\ line' = Append(line, c)

\* create_run, after the planner has answered; auto_execute goes on to advance.
CreateRun(c, mode, auto_execute) ==
    /\ run = "absent" /\ ~deleted
    /\ run' = "planned"
    /\ steps' = [i \in Step |->
            [NewStep EXCEPT !.approval_required = approval_decision(i, mode)]]
    /\ IF auto_execute THEN Enqueue(c, "execute") ELSE UNCHANGED <<request, line>>
    /\ UNCHANGED <<deleted, died>>

\* A client asks to continue the run, or decides on the step it waits on.
Ask(c, op) ==
    /\ run # "absent"
    /\ Enqueue(c, op)
    /\ UNCHANGED <<run, deleted, steps, died>>

-----------------------------------------------------------------------------
(* advance *)

Release(c) ==
    /\ request' = [request EXCEPT ![c] = Over]
    /\ line' = Tail(line)

Await(c, state, i) ==
    /\ request' = [request EXCEPT ![c].state = state, ![c].step = i]
    /\ UNCHANGED line

Pause(c) ==
    /\ run' = "awaiting_approval"
    /\ Release(c)

\* No gate at all.
AlwaysRuns(s, i) == s[i].status = "pending"

MayRun(s, i) == s[i].approval_required => s[i].approved

Paused(s) == Is(s, "awaiting_approval") # {}

\* The loop of advance, from its top to its next await, with s the rows of the
\* steps and the run's status "running".
Loop(c, s) ==
    \/ /\ Paused(s)
       /\ steps' = s
       /\ Pause(c)
    \/ /\ ~Paused(s)
       /\ \E i \in Step :
            /\ IsFirst(i, Is(s, "pending"))
            /\ \/ /\ ~MayRun(s, i)
                  /\ steps' = [s EXCEPT ![i].status = "awaiting_approval"]
                  /\ Pause(c)
               \/ /\ MayRun(s, i)
                  /\ steps' = [s EXCEPT ![i].status = "running",
                                        ![i].attempts = @ + 1]
                  /\ run' = "running"
                  /\ Await(c, "working", i)
    \/ /\ ~Paused(s)
       /\ Is(s, "pending") = {}
       /\ steps' = s
       /\ run' = "running"
       /\ Await(c, "reviewing", 0)

\* A lock that excludes nobody.
Unlocked(c, op) ==
    /\ request[c].state \in {"entering", "queued"}
    /\ request[c].op = op

HasLock(c, op) ==
    /\ request[c].state \in {"entering", "queued"}
    /\ request[c].op = op
    /\ Head(line) = c

\* The run is not there, or not in a state the request is for: 404, 409 or the
\* run as it is.
Refuse(c) == Release(c) /\ UNCHANGED <<run, deleted, steps, died>>

\* advance that only looks whether the run is there.
AdvanceAnyRun(c) ==
    /\ HasLock(c, "execute")
    /\ IF run = "absent" THEN Refuse(c) ELSE Loop(c, steps) /\ UNCHANGED <<deleted, died>>

AdvanceBegins(c) ==
    /\ HasLock(c, "execute")
    /\ IF run \in RUN_TERMINAL_STATUSES \cup {"absent"}
       THEN Refuse(c)
       ELSE Loop(c, steps) /\ UNCHANGED <<deleted, died>>

StepDone(c) ==
    LET i == request[c].step IN
    /\ request[c].state = "working"
    /\ Loop(c, [steps EXCEPT ![i].status = "done"])
    /\ UNCHANGED <<deleted, died>>

\* A last attempt that fails the step and not the run.
StepFailsAlone(c) ==
    LET i == request[c].step IN
    /\ request[c].state = "working"
    /\ IF steps[i].attempts < MaxAttempts[i]
       THEN Loop(c, [steps EXCEPT ![i].status = "pending"])
       ELSE /\ steps' = [steps EXCEPT ![i].status = "failed"]
            /\ run' = run
            /\ Release(c)
    /\ UNCHANGED <<deleted, died>>

\* A last attempt after which the loop goes on.
StepFailsAndGoesOn(c) ==
    LET i == request[c].step IN
    /\ request[c].state = "working"
    /\ IF steps[i].attempts < MaxAttempts[i]
       THEN Loop(c, [steps EXCEPT ![i].status = "pending"])
       ELSE Loop(c, [steps EXCEPT ![i].status = "failed"])
    /\ UNCHANGED <<deleted, died>>

StepFails(c) ==
    LET i == request[c].step IN
    /\ request[c].state = "working"
    /\ IF steps[i].attempts < MaxAttempts[i]
       THEN Loop(c, [steps EXCEPT ![i].status = "pending"])
       ELSE /\ steps' = [steps EXCEPT ![i].status = "failed"]
            /\ run' = "failed"
            /\ Release(c)
    /\ UNCHANGED <<deleted, died>>

\* The reviewer's verdict; one it could not give counts as "uncertain".
Reviewed(c, verdict) ==
    /\ request[c].state = "reviewing"
    /\ run' = IF verdict = "failure" THEN "failed" ELSE "completed"
    /\ Release(c)
    /\ UNCHANGED <<deleted, steps, died>>

-----------------------------------------------------------------------------
(* decide and delete_run *)

\* An approval is followed by advance, which queues for the lock again.
Approve(c) ==
    /\ HasLock(c, "approve")
    /\ IF run = "absent" \/ Is(steps, "awaiting_approval") = {}
       THEN Refuse(c)
       ELSE /\ \E i \in Step :
                /\ IsFirst(i, Is(steps, "awaiting_approval"))
                /\ steps' = [steps EXCEPT ![i].status = "pending",
                                          ![i].approved = TRUE]
            /\ run' = "running"
            /\ request' = [request EXCEPT ![c] = InLine("execute", 0, Tail(line))]
            /\ line' = Append(Tail(line), c)
            /\ UNCHANGED <<deleted, died>>

Reject(c) ==
    /\ HasLock(c, "reject")
    /\ IF run = "absent" \/ Is(steps, "awaiting_approval") = {}
       THEN Refuse(c)
       ELSE /\ \E i \in Step :
                /\ IsFirst(i, Is(steps, "awaiting_approval"))
                /\ steps' = [j \in Step |->
                        IF j = i THEN [steps[j] EXCEPT !.status = "rejected"]
                        ELSE IF steps[j].status = "pending"
                             THEN [steps[j] EXCEPT !.status = "skipped"]
                             ELSE steps[j]]
            /\ run' = "rejected"
            /\ Release(c)
            /\ UNCHANGED <<deleted, died>>

\* delete_run takes no lock; it refuses a run that is running.
DeleteRun ==
    /\ ~Entering
    /\ run \notin {"absent", "running"}
    /\ run' = "absent"
    /\ deleted' = TRUE
    /\ steps' = [i \in Step |-> NewStep]
    /\ UNCHANGED <<request, line, died>>

\* The process dies and starts again: between two awaits, or between the two
\* commits of the code that begins or goes on with an advance.
Restart ==
    /\ \/ UNCHANGED <<run, steps>>
       \/ /\ \E c \in Caller : HasLock(c, "execute")
          /\ run \notin RUN_TERMINAL_STATUSES \cup {"absent"}
          /\ run' = "running"
          /\ UNCHANGED steps
       \/ \E c \in Caller, status \in {"done", "pending"} :
          /\ request[c].state = "working"
          /\ status = "pending" =>
                steps[request[c].step].attempts < MaxAttempts[request[c].step]
          /\ steps' = [steps EXCEPT ![request[c].step].status = status]
          /\ UNCHANGED run
    /\ request' = [c \in Caller |-> Over]
    /\ line' = <<>>
    /\ died' = TRUE
    /\ UNCHANGED deleted

Work(c) ==
    \/ AdvanceBegins(c) \/ Approve(c) \/ Reject(c)
    \/ StepDone(c) \/ StepFails(c)
    \/ \E verdict \in {"success", "failure", "uncertain"} : Reviewed(c, verdict)

Next ==
    \/ \E c \in Caller :
        \/ \E mode \in {"auto", "always", "never"}, auto \in BOOLEAN :
            CreateRun(c, mode, auto)
        \/ \E op \in {"execute", "approve", "reject"} : Ask(c, op)
        \/ Work(c)
    \/ DeleteRun
    \/ Restart

Spec == Init /\ [][Next]_vars

-----------------------------------------------------------------------------
(* Safety *)

\* Whoever asks, in whatever order and after any restart: an agent is set to work
\* on a step only if no decision is required or it was given.
NothingRunsUnapproved ==
    \A i \in Step :
        steps[i].attempts > 0 /\ steps[i].approval_required => steps[i].approved

\* An agent or the reviewer is at work only for a run that is running, on the step
\* that says so: nothing happens behind a pause, a rejection or a deletion.
WorkIsOnRecord ==
    \A c \in Caller :
        /\ request[c].state \in {"working", "reviewing"} =>
                run = "running" /\ line # <<>> /\ Head(line) = c
        /\ request[c].state = "working" => steps[request[c].step].status = "running"

\* A step is tried at most max_attempts times, over all requests and restarts.
AttemptsBounded == \A i \in Step : steps[i].attempts <= MaxAttempts[i]

\* A pause waits on exactly one step, and neither a run that pauses for nothing nor
\* an ended run with a step that still waits is left.
PausedOnOneStep ==
    /\ \A i, j \in Is(steps, "awaiting_approval") : i = j
    /\ run = "awaiting_approval" => Is(steps, "awaiting_approval") # {}
    /\ run \in RUN_TERMINAL_STATUSES => Is(steps, "awaiting_approval") = {}

\* The row of a run, the rows of its steps and whoever works on them agree.
RunInv == TypeOK /\ WorkIsOnRecord /\ AttemptsBounded /\ PausedOnOneStep

\* Once a run has ended, no request changes its outcome or its steps.
TheEndIsFinal ==
    [][(run \in RUN_TERMINAL_STATUSES) =>
            \/ run' = "absent"
            \/ run' = run /\ steps' = steps]_vars

\* The process died while an agent was at work on the step.
LeftRunning(s, i) == died /\ s[i].status = "running"

\* A run completes with every step done, except those a dead process left running.
CompletesWhatIsLeft ==
    run = "completed" =>
        \A i \in Step : steps[i].status = "done" \/ LeftRunning(steps, i)

\* docs/ORCHESTRATION.md: a completed run is one of which "every step finished".  It
\* does not hold: advance takes the next step that waits, and nothing takes up a step
\* whose process died while it was at work.
CompletedMeansDone ==
    run = "completed" => \A i \in Step : steps[i].status = "done"

\* A step starts after every earlier one is done, so that its agent is given their
\* results, with the same exception.
StepsInOrder ==
    [][\A i \in Step :
        (steps[i].attempts < steps'[i].attempts) =>
            \A j \in 1..(i - 1) : steps'[j].status = "done" \/ LeftRunning(steps, j)]_vars

\* docs/ORCHESTRATION.md: a pause "stops the run before a sensitive step until an
\* operator approves or rejects".  A step is approved by a request that was made
\* while that step waited.
DecidedWhileItWaits ==
    [][\A i \in Step :
        (~steps[i].approved /\ steps'[i].approved) =>
            \E c \in Caller : /\ request'[c] # request[c]
                              /\ request[c].op = "approve"
                              /\ request[c].step = i]_vars

-----------------------------------------------------------------------------
(* Liveness *)

\* Agents and reviewer answer or time out, and the lock is handed to the next in
\* line.
WorkFairness == \A c \in Caller : WF_vars(Work(c))

FairSpec == Spec /\ WorkFairness

\* While the process lives, a run does not stay in "running": it pauses, or ends.
RunSettles == (run = "running") ~> (run # "running" \/ died)
=============================================================================
