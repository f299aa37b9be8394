------------------------------ MODULE PluginGate ------------------------------
(***************************************************************************)
(* The two Hermes plugins that gate a tool behind a one-time approval:     *)
(* stack-execution-policy, whose tool calls a broker, and                  *)
(* stack-package-policy, whose tool runs an installer.  Both keep the      *)
(* operations they prepared in a dictionary of the process and are called  *)
(* by Hermes (external) at three points of a tool call: the hook before    *)
(* it, the hook after the user's answer, and the tool itself.  The tools   *)
(* run in threads and no lock is taken; each hook is one step, because the *)
(* plugins rely on Hermes to call their hooks one after the other.         *)
(***************************************************************************)
EXTENDS Naturals

CONSTANTS
    Operation,  \* pending ids: each is drawn at random and used once
    PluginOf,   \* operation -> "execution" or "package"
    Session,    \* session and user of a conversation
    ToolCall,       \* tool calls under way
    Absent        \* a call not under way, an operation not prepared or removed

ASSUME AbsentAssumption == Absent \notin Session

Choice == {"once", "session", "always", "deny"}
OperationState == {"prepared", "approval_pending", "approved_once", "cancelled", "consumed"}
CallStep == {"asking", "answered", "checked", "running"}

VARIABLES
    pending,   \* operation -> [session, state], or Absent
    call,      \* call -> [step, operation, session], or Absent
    home,      \* history: operation -> the session that prepared it, or Absent
    prompts,   \* history: operation -> how often the user was asked
    answer,    \* history: operation -> the user's answer, or Absent
    starts     \* history: operation -> how often its tool was started

gateVars == <<pending, call, home, prompts, answer, starts>>

GateTypeOK ==
    /\ pending \in [Operation -> [session : Session, state : OperationState] \cup {Absent}]
    /\ call \in [ToolCall -> [step : CallStep, operation : Operation, session : Session] \cup {Absent}]
    /\ home \in [Operation -> Session \cup {Absent}]
    /\ prompts \in [Operation -> Nat]
    /\ answer \in [Operation -> Choice \cup {Absent}]
    /\ starts \in [Operation -> Nat]

GateInit ==
    /\ pending = [o \in Operation |-> Absent]
    /\ call = [c \in ToolCall |-> Absent]
    /\ home = [o \in Operation |-> Absent]
    /\ prompts = [o \in Operation |-> 0]
    /\ answer = [o \in Operation |-> Absent]
    /\ starts = [o \in Operation |-> 0]

InState(o, states) == pending[o] # Absent /\ pending[o].state \in states
Become(o, state) == pending' = [pending EXCEPT ![o].state = state]
At(c, step) == call[c] # Absent /\ call[c].step = step
Proceed(c, step) == call' = [call EXCEPT ![c].step = step]
End(c) == call' = [call EXCEPT ![c] = Absent]

Own(o, s) == pending[o].session = s

-----------------------------------------------------------------------------
\* The prepare tools, once the context and the specification are accepted and,
\* of an execution, the broker has answered with a capability.
Prepare(o, s) ==
    /\ home[o] = Absent
    /\ pending' = [pending EXCEPT ![o] = [session |-> s, state |-> "prepared"]]
    /\ home' = [home EXCEPT ![o] = s]
    /\ UNCHANGED <<call, prompts, answer, starts>>

\* Mutant: an operation that waits for its answer may be asked for again.
AskableAgain(o) == InState(o, {"prepared", "approval_pending"})
Askable(o) == InState(o, {"prepared"})

\* pre_tool_call: the call is blocked or its prompt is shown.
ToolCalled(c, o, s) ==
    /\ call[c] = Absent
    /\ Askable(o) /\ Own(o, s)
    /\ Become(o, "approval_pending")
    /\ call' = [call EXCEPT ![c] = [step |-> "asking", operation |-> o, session |-> s]]
    /\ prompts' = [prompts EXCEPT ![o] = @ + 1]
    /\ UNCHANGED <<home, answer, starts>>

\* The states in which an answer counts.
Answerable(o) ==
    IF PluginOf[o] = "execution" THEN {"approval_pending"}
                                 ELSE {"approval_pending", "approved_once"}

StateAfter(choice) == IF choice = "once" THEN "approved_once" ELSE "cancelled"

\* post_approval_response.  Hermes drops the call of a user who refuses; of the
\* other choices the plugin takes only "once" for an approval.
Answered(c, choice) ==
    /\ At(c, "asking")
    /\ LET o == call[c].operation
       IN  /\ IF InState(o, Answerable(o))
              THEN Become(o, StateAfter(choice))
              ELSE UNCHANGED pending
           /\ answer' = [answer EXCEPT ![o] = choice]
    /\ IF choice = "deny" THEN End(c) ELSE Proceed(c, "answered")
    /\ UNCHANGED <<home, prompts, starts>>

\* Nobody answers, or the conversation ends.
NeverAnswered(c) ==
    /\ At(c, "asking")
    /\ End(c)
    /\ UNCHANGED <<pending, home, prompts, answer, starts>>

\* The tool: the operation must be approved and be of this session.
Enter(c) ==
    /\ At(c, "answered")
    /\ LET o == call[c].operation
       IN  IF ~InState(o, {"approved_once"})
           THEN End(c) /\ UNCHANGED pending
           ELSE IF Own(o, call[c].session)
                THEN Proceed(c, "checked") /\ UNCHANGED pending
                ELSE Become(o, "cancelled") /\ End(c)
    /\ UNCHANGED <<home, prompts, answer, starts>>

\* Features, users and the approval mode are read (from files) meanwhile and
\* may have changed.
ContextChanged(c) ==
    /\ At(c, "checked")
    /\ Become(call[c].operation, "cancelled")
    /\ End(c)
    /\ UNCHANGED <<home, prompts, answer, starts>>

\* Consumed before the broker is called, or removed before the installer runs.
Consume(c) ==
    /\ At(c, "checked")
    /\ LET o == call[c].operation
       IN  /\ pending' = [pending EXCEPT ![o] =
                 IF PluginOf[o] = "execution" THEN [@ EXCEPT !.state = "consumed"]
                 ELSE Absent]
           /\ starts' = [starts EXCEPT ![o] = @ + 1]
    /\ Proceed(c, "running")
    /\ UNCHANGED <<home, prompts, answer>>

\* The broker or the installer is done, or cannot be reached, or says it is
\* busy: in each case the operation is gone.
Finish(c) ==
    /\ At(c, "running")
    /\ pending' = [pending EXCEPT ![call[c].operation] = Absent]
    /\ End(c)
    /\ UNCHANGED <<home, prompts, answer, starts>>

\* Hermes restarts: calls and operations are gone.
GateRestart ==
    /\ pending' = [o \in Operation |-> Absent]
    /\ call' = [c \in ToolCall |-> Absent]
    /\ UNCHANGED <<home, prompts, answer, starts>>

GateNext ==
    \/ \E o \in Operation, s \in Session : Prepare(o, s)
    \/ \E c \in ToolCall, o \in Operation, s \in Session : ToolCalled(c, o, s)
    \/ \E c \in ToolCall, choice \in Choice : Answered(c, choice)
    \/ \E c \in ToolCall :
          \/ NeverAnswered(c)
          \/ Enter(c)
          \/ ContextChanged(c)
          \/ Consume(c)
          \/ Finish(c)
    \/ GateRestart

GateSpec == GateInit /\ [][GateNext]_gateVars

-----------------------------------------------------------------------------
(* An operation is put to the user at most once, its tool is started at    *)
(* most once, and only when the answer was to allow it once, although any  *)
(* number of calls may name it and the tools lock nothing: the hook before *)
(* the call lets a single call through.                                    *)
StartedOnceAsAnswered ==
    \A o \in Operation :
        /\ prompts[o] <= 1
        /\ starts[o] <= 1
        /\ starts[o] = 1 => answer[o] = "once"

(* A tool runs an operation only in the session that prepared it.          *)
RunsWhereItWasPrepared ==
    \A c \in ToolCall : At(c, "running") => home[call[c].operation] = call[c].session

(* One approval, one start, in one session.                                *)
GateInv == GateTypeOK /\ StartedOnceAsAnswered /\ RunsWhereItWasPrepared
=============================================================================
