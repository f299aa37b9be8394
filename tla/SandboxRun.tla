------------------------------ MODULE SandboxRun ------------------------------
(***************************************************************************)
(* An approved command in a container: what the broker asks of the Docker  *)
(* Engine, one call after another, and what it does when a call fails      *)
(* (execution-broker/src/broker: run_sandbox and _run_container).          *)
(*                                                                         *)
(* The engine is external.  It may refuse any call, with an HTTP status of *)
(* 400 or more (an EngineError), and the connection may break or time out  *)
(* (an OSError), in which case the engine did what it was asked or did     *)
(* not.  The command ends when it likes, or never.                         *)
(***************************************************************************)

(* "sandbox" is a local command; the others are the docker action run, to  *)
(* its end (the container kept or removed) or detached.                    *)
RunKind == {"sandbox", "attached", "auto_remove", "detached"}

VARIABLES
    kind,        \* what is run
    step,        \* what the broker does next
    container,   \* the container, at the engine
    result,      \* what the broker will answer
    ended,       \* history: the command came to its own end
    audited,     \* the operation is in the audit table
    failed       \* history: <<call, how>> of the engine calls that failed

sandboxVars == <<kind, step, container, result, ended, audited, failed>>

SandboxInit ==
    /\ kind \in RunKind
    /\ step = "create" /\ container = "none" /\ result = "none"
    /\ ended = FALSE /\ audited = FALSE /\ failed = {}

-----------------------------------------------------------------------------
(* The engine *)

\* A container created with AutoRemove goes when its command does.
Stopped == IF kind = "auto_remove" THEN "gone" ELSE "exited"

CommandEnds ==
    /\ container = "running"
    /\ container' = Stopped /\ ended' = TRUE
    /\ UNCHANGED <<kind, step, result, audited, failed>>

\* The states in which the engine can do what a call asks, and what it leaves.
Needs ==
    [create |-> {"none"}, start |-> {"created"}, wait |-> {"running", "exited"},
     kill |-> {"running"}, logs |-> {"created", "running", "exited"},
     remove |-> {"created", "running", "exited"}]

Leaves(aCall) ==
    CASE aCall = "create" -> "created"
      [] aCall = "start" -> "running"
      [] aCall = "kill" -> Stopped
      [] aCall = "remove" -> "gone"
      [] OTHER -> container

Succeeds(aCall) ==
    /\ step = aCall /\ container \in Needs[aCall]
    /\ container' = Leaves(aCall)
    /\ UNCHANGED <<kind, ended, audited, failed>>

Fails(aCall, how) ==
    /\ step = aCall
    /\ \/ UNCHANGED container
       \/ how = "broken" /\ container \in Needs[aCall] /\ container' = Leaves(aCall)
    /\ failed' = failed \cup {<<aCall, how>>}
    /\ UNCHANGED <<kind, ended, audited>>

-----------------------------------------------------------------------------
(* The broker *)

Go(next, answer) == step' = next /\ result' = answer

\* Mutant: the container is removed where nothing was raised.
AnsweredAtOnce == "answered"
\* Where an exception leads: run_sandbox removes its container in any case.
AfterException == IF kind = "sandbox" THEN "remove" ELSE "answered"

AfterOutput == IF kind \in {"sandbox", "auto_remove"} THEN "remove" ELSE "record"

CreateContainer ==
    \/ Succeeds("create") /\ Go("start", result)
    \/ \E how \in {"refused", "broken"} : Fails("create", how) /\ Go("answered", "error")

StartContainer ==
    \/ /\ Succeeds("start")
       /\ IF kind = "detached" THEN Go("record", "executed") ELSE Go("wait", result)
    \/ \E how \in {"refused", "broken"} : Fails("start", how) /\ Go(AfterException, "error")

WaitForEnd == Succeeds("wait") /\ Go("waiting", result)

\* Whatever fails in wait is taken for a timeout.
StopIt == Go("kill", "timed out")

WaitReturns ==
    \/ /\ step = "waiting" /\ container \in {"exited", "gone"}
       /\ Go("logs", "executed")
       /\ UNCHANGED <<kind, container, ended, audited, failed>>
    \/ Fails("wait", "refused") /\ StopIt
    \/ /\ step = "waiting" /\ StopIt
       /\ failed' = failed \cup {<<"wait", "broken">>}
       /\ UNCHANGED <<kind, container, ended, audited>>

\* kill() passes over an EngineError.
KillContainer ==
    \/ Succeeds("kill") /\ Go("logs", result)
    \/ Fails("kill", "refused") /\ Go("logs", result)
    \/ Fails("kill", "broken") /\ Go(AfterException, "error")

\* _run_container passes over an EngineError, run_sandbox does not.
ReadOutput ==
    \/ Succeeds("logs") /\ Go(AfterOutput, result)
    \/ Fails("logs", "refused") /\ kind # "sandbox" /\ Go(AfterOutput, result)
    \/ Fails("logs", "refused") /\ kind = "sandbox" /\ Go(AfterException, "error")
    \/ Fails("logs", "broken") /\ Go(AfterException, "error")

AfterRemoval == IF result = "error" THEN "answered" ELSE "record"

RemoveContainer ==
    \/ Succeeds("remove") /\ Go(AfterRemoval, result)
    \/ Fails("remove", "refused") /\ Go(AfterRemoval, result)
    \/ Fails("remove", "broken") /\ Go("answered", "error")

\* _execute: the audit row, then the answer; a database that fails is a 500.
RecordRun ==
    /\ step = "record"
    /\ \/ Go("answered", result) /\ audited' = TRUE
       \/ Go("answered", "error") /\ UNCHANGED audited
    /\ UNCHANGED <<kind, container, ended, failed>>

SandboxNext ==
    \/ CommandEnds
    \/ CreateContainer
    \/ StartContainer
    \/ WaitForEnd
    \/ WaitReturns
    \/ KillContainer
    \/ ReadOutput
    \/ RemoveContainer
    \/ RecordRun

SandboxSpec == SandboxInit /\ [][SandboxNext]_sandboxVars

-----------------------------------------------------------------------------
RunAnswered == step = "answered"
EngineRefusedNot(aCall) == failed \cap {<<aCall, "refused">>, <<aCall, "broken">>} = {}

(* A local command leaves no container behind, whichever calls fail, if    *)
(* the engine's answer to the creation arrives and the removal works.  Of  *)
(* an auto_remove run the same holds when it has a result to answer.       *)
NothingLeftBehind ==
    RunAnswered /\ EngineRefusedNot("remove") /\ <<"create", "broken">> \notin failed
             /\ (kind = "sandbox" \/ (kind = "auto_remove" /\ result # "error"))
        => container \in {"none", "gone"}

(* "executed" is answered of a command that came to its own end (or was    *)
(* detached), and a timeout of one that no longer runs, unless the engine  *)
(* would not kill it; both are in the audit table by then.                 *)
AnsweredAsItWent ==
    /\ RunAnswered /\ result = "executed" => ended \/ kind = "detached"
    /\ RunAnswered /\ result = "timed out" /\ EngineRefusedNot("kill") => container # "running"
    /\ RunAnswered /\ result \in {"executed", "timed out"} => audited

(* What a run leaves at the engine, and what is said of it.                *)
SandboxInv == NothingLeftBehind /\ AnsweredAsItWent
=============================================================================
