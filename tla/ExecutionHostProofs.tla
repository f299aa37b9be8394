------------------------- MODULE ExecutionHostProofs -------------------------
(***************************************************************************)
(* What the parts around the approval protocol keep: the gate of the       *)
(* Hermes plugins (GateInv, for any number of operations, calls and        *)
(* sessions) and the back ends of the broker, whatever fails or is         *)
(* replaced under their hands (SandboxInv for any order of engine          *)
(* failures, SshInv for any number of operations and of versions of a      *)
(* profile).                                                               *)
(***************************************************************************)
EXTENDS PluginGate, SandboxRun, SshLogin, TLAPS

-----------------------------------------------------------------------------
(* The plugins' gate.  What makes GateInv inductive is that the hook       *)
(* before a call takes an operation out of the state in which it can be    *)
(* asked for, so that an operation has one call at most in its life.       *)

\* An operation that was not prepared has no history; one that was is its
\* session's, and nobody is asked about it before its only call.
OperationOK(o) ==
    /\ home[o] = Absent => pending[o] = Absent /\ prompts[o] = 0
    /\ pending[o] # Absent => pending[o].session = home[o]
    /\ InState(o, {"prepared"}) => prompts[o] = 0
    /\ InState(o, {"approved_once"}) => answer[o] = "once"
    /\ prompts[o] \in {0, 1} /\ starts[o] \in {0, 1}
    /\ prompts[o] = 0 => starts[o] = 0
    /\ starts[o] = 1 => answer[o] = "once"

\* A call is about an operation of its session that the user was asked about,
\* waits for the answer or has it, and only a running one is about an operation
\* that was started.
CallOK(c) ==
    call[c] # Absent =>
        LET o == call[c].operation
        IN  /\ prompts[o] = 1
            /\ call[c].session = home[o]
            /\ starts[o] = 1 => call[c].step = "running"
            /\ call[c].step = "asking" =>
                  pending[o] = Absent \/ InState(o, {"approval_pending"})
            /\ call[c].step = "checked" => InState(o, {"approved_once"})

\* No two calls are about one operation.
Alone ==
    \A c, d \in ToolCall :
        call[c] # Absent /\ call[d] # Absent /\ call[c].operation = call[d].operation
            => c = d

GateIInv ==
    /\ GateTypeOK
    /\ \A o \in Operation : OperationOK(o)
    /\ \A c \in ToolCall : CallOK(c)
    /\ Alone

-----------------------------------------------------------------------------
LEMMA GateInitOK == GateInit => GateIInv
  BY AbsentAssumption DEF GateInit, GateIInv, GateTypeOK, OperationOK, CallOK, Alone, InState

\* What every step of a call leaves: its own entry is Absent, or is about the same
\* operation; the others are as they were.
LEMMA CallsKept ==
    ASSUME GateIInv, NEW c \in ToolCall, call[c] # Absent,
           call' = [call EXCEPT ![c] = Absent]
               \/ \E next \in CallStep : call' = [call EXCEPT ![c].step = next]
    PROVE  /\ call' \in [ToolCall -> [step : CallStep, operation : Operation, session : Session]
                                        \cup {Absent}]
           /\ \A d \in ToolCall :
                 call'[d] # Absent =>
                     /\ call[d] # Absent
                     /\ call'[d].operation = call[d].operation
                     /\ call'[d].session = call[d].session
                     /\ d # c => call'[d] = call[d]
           /\ Alone'
<1>1. call \in [ToolCall -> [step : CallStep, operation : Operation, session : Session]
                               \cup {Absent}]
  BY DEF GateIInv, GateTypeOK
<1>2. CASE call' = [call EXCEPT ![c] = Absent]
  BY <1>1, <1>2 DEF GateIInv, Alone
<1>3. CASE \E next \in CallStep : call' = [call EXCEPT ![c].step = next]
  <2>1. PICK next \in CallStep : call' = [call EXCEPT ![c].step = next]
    BY <1>3
  <2>2. call[c] \in [step : CallStep, operation : Operation, session : Session]
    BY <1>1
  <2>3. /\ call'[c] = [call[c] EXCEPT !.step = next]
        /\ \A d \in ToolCall : d # c => call'[d] = call[d]
    BY <1>1, <2>1
  <2>4. /\ call'[c] \in [step : CallStep, operation : Operation, session : Session]
        /\ call'[c].operation = call[c].operation /\ call'[c].session = call[c].session
    BY <2>2, <2>3
  <2>5. call' \in [ToolCall -> [step : CallStep, operation : Operation, session : Session]
                                  \cup {Absent}]
    BY <1>1, <2>1, <2>2
  <2>6. Alone'
    BY <2>3, <2>4 DEF GateIInv, Alone
  <2>7. QED
    BY <2>3, <2>4, <2>5, <2>6
<1>4. QED
  BY <1>2, <1>3

-----------------------------------------------------------------------------
\* An operation of the type of pending and one state later.
LEMMA StateSet ==
    ASSUME GateTypeOK, NEW o \in Operation, NEW states, InState(o, states),
           NEW state \in OperationState, Become(o, state)
    PROVE  /\ pending' \in [Operation -> [session : Session, state : OperationState] \cup {Absent}]
           /\ pending'[o] = [pending[o] EXCEPT !.state = state]
           /\ pending'[o].session = pending[o].session
           /\ pending'[o].state = state
           /\ \A p \in Operation : p # o => pending'[p] = pending[p]
<1>1. pending[o] \in [session : Session, state : OperationState]
  BY DEF GateTypeOK, InState
<1>2. QED
  BY <1>1 DEF GateTypeOK, Become

\* An operation that is not prepared can be prepared under a number never used.
LEMMA PrepareOK ==
    ASSUME GateIInv, NEW o \in Operation, NEW s \in Session, Prepare(o, s)
    PROVE  GateIInv'
<1>1. /\ [session |-> s, state |-> "prepared"] \in [session : Session, state : OperationState]
      /\ s # Absent
  BY AbsentAssumption DEF OperationState
<1>2. GateTypeOK'
  BY <1>1 DEF GateIInv, GateTypeOK, Prepare
<1>3. /\ pending'[o] = [session |-> s, state |-> "prepared"] /\ home'[o] = s
      /\ prompts[o] = 0
      /\ \A p \in Operation : p # o => pending'[p] = pending[p] /\ home'[p] = home[p]
  BY DEF GateIInv, GateTypeOK, OperationOK, Prepare
<1>4. ASSUME NEW p \in Operation
      PROVE  OperationOK(p)'
  <2>1. OperationOK(p)
    BY DEF GateIInv
  <2>2. UNCHANGED <<prompts, answer, starts>>
    BY DEF Prepare
  <2>3. CASE p = o
    BY <1>1, <1>3, <2>1, <2>2, <2>3 DEF OperationOK, InState
  <2>4. CASE p # o
    BY <1>3, <2>1, <2>2, <2>4 DEF OperationOK, InState
  <2>5. QED
    BY <2>3, <2>4
<1>5. ASSUME NEW c \in ToolCall
      PROVE  CallOK(c)'
  <2>1. CallOK(c)
    BY DEF GateIInv
  <2>2. UNCHANGED <<call, prompts, starts>>
    BY DEF Prepare
  <2>3. call[c] # Absent => call[c].operation \in Operation
    BY DEF GateIInv, GateTypeOK
  <2>4. call[c] # Absent => call[c].operation # o
    BY <1>3, <2>1 DEF CallOK
  <2>5. QED
    BY <1>3, <2>1, <2>2, <2>3, <2>4 DEF CallOK, InState
<1>6. Alone'
  BY DEF GateIInv, Alone, Prepare
<1>7. QED
  BY <1>2, <1>4, <1>5, <1>6 DEF GateIInv

\* The hook lets a call through that is the first about its operation.
LEMMA ToolCalledOK ==
    ASSUME GateIInv, NEW c \in ToolCall, NEW o \in Operation, NEW s \in Session,
           ToolCalled(c, o, s)
    PROVE  GateIInv'
<1>1. /\ InState(o, {"prepared"}) /\ pending[o].session = s /\ prompts[o] = 0
      /\ home[o] = s /\ starts[o] = 0 /\ Become(o, "approval_pending")
      /\ UNCHANGED <<home, answer, starts>>
  BY DEF GateIInv, OperationOK, ToolCalled, Askable, Own, InState
<1>2. /\ pending' \in [Operation -> [session : Session, state : OperationState] \cup {Absent}]
      /\ pending'[o].session = s /\ pending'[o].state = "approval_pending"
      /\ \A p \in Operation : p # o => pending'[p] = pending[p]
  BY <1>1, StateSet DEF GateIInv, OperationState
<1>3. /\ prompts' = [prompts EXCEPT ![o] = 1]
      /\ prompts'[o] = 1 /\ \A p \in Operation : p # o => prompts'[p] = prompts[p]
  BY <1>1 DEF GateIInv, GateTypeOK, ToolCalled
<1>4. /\ call[c] = Absent
      /\ call'[c] = [step |-> "asking", operation |-> o, session |-> s]
      /\ \A d \in ToolCall : d # c => call'[d] = call[d]
      /\ call' \in [ToolCall -> [step : CallStep, operation : Operation, session : Session]
                                    \cup {Absent}]
  BY DEF GateIInv, GateTypeOK, ToolCalled, CallStep
<1>5. GateTypeOK'
  BY <1>1, <1>2, <1>3, <1>4 DEF GateIInv, GateTypeOK
<1>6. ASSUME NEW p \in Operation
      PROVE  OperationOK(p)'
  <2>1. OperationOK(p) /\ home[o] # Absent
    BY <1>1, AbsentAssumption DEF GateIInv
  <2>2. CASE p = o
    BY <1>1, <1>2, <1>3, <2>1, <2>2 DEF OperationOK, InState
  <2>3. CASE p # o
    BY <1>1, <1>2, <1>3, <2>1, <2>3 DEF OperationOK, InState
  <2>4. QED
    BY <2>2, <2>3
<1>7. \A d \in ToolCall : call[d] # Absent => call[d].operation \in Operation \ {o}
  BY <1>1 DEF GateIInv, GateTypeOK, CallOK
<1>8. ASSUME NEW d \in ToolCall
      PROVE  CallOK(d)'
  <2>1. CallOK(d)
    BY DEF GateIInv
  <2>2. CASE d = c
    BY <1>1, <1>2, <1>3, <1>4, <2>2 DEF CallOK, InState
  <2>3. CASE d # c
    BY <1>1, <1>2, <1>3, <1>4, <1>7, <2>1, <2>3 DEF CallOK, InState
  <2>4. QED
    BY <2>2, <2>3
<1>9. Alone'
  BY <1>4, <1>7 DEF GateIInv, Alone
<1>10. QED
  BY <1>5, <1>6, <1>8, <1>9 DEF GateIInv

-----------------------------------------------------------------------------
\* A step of a call touches nothing but itself and its operation, about which
\* there is no other call.
LEMMA OwnStep ==
    ASSUME GateIInv, NEW c \in ToolCall, call[c] # Absent,
           call' = [call EXCEPT ![c] = Absent]
               \/ \E next \in CallStep : call' = [call EXCEPT ![c].step = next],
           NEW o, o = call[c].operation,
           pending' \in [Operation -> [session : Session, state : OperationState] \cup {Absent}],
           answer' \in [Operation -> Choice \cup {Absent}],
           starts' \in [Operation -> Nat],
           \A p \in Operation : p # o => /\ pending'[p] = pending[p]
                                         /\ answer'[p] = answer[p]
                                         /\ starts'[p] = starts[p],
           UNCHANGED <<home, prompts>>,
           OperationOK(o)', CallOK(c)'
    PROVE  GateIInv'
<1>1. GateTypeOK' /\ Alone'
  BY CallsKept DEF GateIInv, GateTypeOK
<1>2. ASSUME NEW p \in Operation
      PROVE  OperationOK(p)'
  <2>1. OperationOK(p)
    BY DEF GateIInv
  <2>2. CASE p = o
    BY <2>2
  <2>3. CASE p # o
    BY <2>1, <2>3 DEF OperationOK, InState
  <2>4. QED
    BY <2>2, <2>3
<1>3. ASSUME NEW d \in ToolCall
      PROVE  CallOK(d)'
  <2>1. CallOK(d)
    BY DEF GateIInv
  <2>2. CASE d = c
    BY <2>2
  <2>3. CASE d # c /\ call'[d] # Absent
    <3>1. call'[d] = call[d] /\ call[d] # Absent
      BY <2>3, CallsKept
    <3>2. call[d].operation \in Operation \ {o}
      BY <3>1, <2>3 DEF GateIInv, GateTypeOK, Alone
    <3>3. QED
      BY <2>1, <3>1, <3>2 DEF CallOK, InState
  <2>4. CASE call'[d] = Absent
    BY <2>4 DEF CallOK
  <2>5. QED
    BY <2>2, <2>3, <2>4
<1>4. QED
  BY <1>1, <1>2, <1>3 DEF GateIInv

\* What the invariant says of a call that is under way and of its operation.
LEMMA UnderWay ==
    ASSUME GateIInv, NEW c \in ToolCall, call[c] # Absent
    PROVE  /\ call[c].operation \in Operation /\ call[c].session \in Session
           /\ call[c].step \in CallStep
           /\ CallOK(c) /\ OperationOK(call[c].operation)
  BY DEF GateIInv, GateTypeOK

\* The entry of a call after a step of it.
LEMMA CallEnded ==
    ASSUME GateIInv, NEW c \in ToolCall, End(c)
    PROVE  CallOK(c)'
  BY DEF GateIInv, GateTypeOK, End, CallOK

LEMMA CallProceeded ==
    ASSUME GateIInv, NEW c \in ToolCall, call[c] # Absent, NEW next \in CallStep,
           Proceed(c, next)
    PROVE  /\ call'[c].step = next
           /\ call'[c].operation = call[c].operation
           /\ call'[c].session = call[c].session
<1>1. call[c] \in [step : CallStep, operation : Operation, session : Session]
  BY DEF GateIInv, GateTypeOK
<1>2. call'[c] = [call[c] EXCEPT !.step = next]
  BY DEF GateIInv, GateTypeOK, Proceed
<1>3. QED
  BY <1>1, <1>2

\* An answer that counts is the user's to the only question about the operation.
LEMMA AnsweredOK ==
    ASSUME GateIInv, NEW c \in ToolCall, NEW choice \in Choice, Answered(c, choice)
    PROVE  GateIInv'
<1>0. PICK o : o = call[c].operation
  OBVIOUS
<1>1. /\ call[c] # Absent /\ call[c].step = "asking" /\ o \in Operation
      /\ OperationOK(o) /\ CallOK(c) /\ starts[o] = 0
      /\ pending[o] = Absent \/ InState(o, {"approval_pending"})
  BY <1>0, UnderWay DEF Answered, At, CallOK, OperationOK
<1>2. /\ UNCHANGED <<home, prompts, starts>>
      /\ answer' = [answer EXCEPT ![o] = choice]
      /\ IF InState(o, Answerable(o)) THEN Become(o, StateAfter(choice)) ELSE UNCHANGED pending
      /\ IF choice = "deny" THEN End(c) ELSE Proceed(c, "answered")
  BY <1>0 DEF Answered
<1>3. /\ answer' \in [Operation -> Choice \cup {Absent}] /\ answer'[o] = choice
      /\ \A p \in Operation : p # o => answer'[p] = answer[p]
      /\ starts' \in [Operation -> Nat]
  BY <1>1, <1>2 DEF GateIInv, GateTypeOK
<1>4. call' = [call EXCEPT ![c] = Absent]
        \/ \E next \in CallStep : call' = [call EXCEPT ![c].step = next]
  BY <1>2 DEF End, Proceed, CallStep
<1>5. CallOK(c)'
  <2>1. CASE choice = "deny"
    BY <1>2, <2>1, CallEnded
  <2>2. CASE choice # "deny"
    <3>1. /\ call'[c].step = "answered" /\ call'[c].operation = o
          /\ call'[c].session = call[c].session
      BY <1>0, <1>1, <1>2, <2>2, CallProceeded DEF CallStep
    <3>2. QED
      BY <1>0, <1>1, <1>2, <3>1 DEF CallOK
  <2>3. QED
    BY <2>1, <2>2
<1>6. CASE InState(o, Answerable(o))
  <2>1. StateAfter(choice) \in OperationState
    BY DEF StateAfter, OperationState
  <2>2. Become(o, StateAfter(choice)) /\ GateTypeOK
    BY <1>2, <1>6 DEF GateIInv
  <2>3. /\ pending' \in [Operation -> [session : Session, state : OperationState] \cup {Absent}]
        /\ pending'[o].session = pending[o].session
        /\ pending'[o].state = StateAfter(choice)
        /\ \A p \in Operation : p # o => pending'[p] = pending[p]
    BY <1>1, <1>6, <2>1, <2>2, StateSet
  <2>4. pending[o] # Absent /\ home[o] # Absent /\ pending[o].session = home[o]
    BY <1>1, <1>6 DEF OperationOK, InState
  <2>5. StateAfter(choice) # "prepared" /\ (StateAfter(choice) = "approved_once" => choice = "once")
    BY DEF StateAfter
  <2>6. OperationOK(o)'
    BY <1>1, <1>2, <1>3, <2>3, <2>4, <2>5 DEF OperationOK, InState
  <2>7. QED
    BY <1>0, <1>1, <1>2, <1>3, <1>4, <1>5, <2>3, <2>6, OwnStep
<1>7. CASE ~InState(o, Answerable(o))
  <2>1. pending[o] = Absent /\ UNCHANGED pending
    BY <1>1, <1>2, <1>7 DEF InState, Answerable
  <2>2. OperationOK(o)'
    BY <1>1, <1>2, <1>3, <2>1 DEF OperationOK, InState
  <2>3. pending' \in [Operation -> [session : Session, state : OperationState] \cup {Absent}]
    BY <2>1 DEF GateIInv, GateTypeOK
  <2>4. QED
    BY <1>0, <1>1, <1>2, <1>3, <1>4, <1>5, <2>1, <2>2, <2>3, OwnStep
<1>8. QED
  BY <1>6, <1>7

\* Every other step of a call leaves the answers alone; this is what remains to be
\* shown of it.
LEMMA QuietStep ==
    ASSUME GateIInv, NEW c \in ToolCall, call[c] # Absent,
           End(c) \/ \E next \in CallStep \ {"asking", "checked"} : Proceed(c, next)
                            /\ (starts'[call[c].operation] = 1 => next = "running"),
           NEW o, o = call[c].operation,
           pending' \in [Operation -> [session : Session, state : OperationState] \cup {Absent}],
           starts' \in [Operation -> Nat],
           \A p \in Operation : p # o => pending'[p] = pending[p] /\ starts'[p] = starts[p],
           UNCHANGED <<home, prompts, answer>>,
           OperationOK(o)'
    PROVE  GateIInv'
<1>1. call' = [call EXCEPT ![c] = Absent]
        \/ \E next \in CallStep : call' = [call EXCEPT ![c].step = next]
  BY DEF End, Proceed
<1>2. CallOK(c)'
  <2>1. CASE End(c)
    BY <2>1, CallEnded
  <2>2. ASSUME NEW next \in CallStep \ {"asking", "checked"}, Proceed(c, next),
               starts'[call[c].operation] = 1 => next = "running"
        PROVE  CallOK(c)'
    <3>1. /\ call'[c].step = next /\ call'[c].operation = o
          /\ call'[c].session = call[c].session
      BY <2>2, CallProceeded
    <3>2. CallOK(c)
      BY UnderWay
    <3>3. QED
      BY <2>2, <3>1, <3>2 DEF CallOK
  <2>3. QED
    BY <2>1, <2>2
<1>3. answer' \in [Operation -> Choice \cup {Absent}]
  BY DEF GateIInv, GateTypeOK
<1>4. QED
  BY <1>1, <1>2, <1>3, OwnStep

\* An operation that is cancelled, used up or gone.
LEMMA Over ==
    ASSUME NEW o, OperationOK(o), home[o] # Absent,
           pending'[o] = Absent \/ (/\ pending'[o].session = home[o]
                                    /\ pending'[o].state \in {"cancelled", "consumed"}),
           UNCHANGED <<home, prompts, answer>>,
           starts'[o] = starts[o]
             \/ (starts'[o] = 1 /\ prompts[o] = 1 /\ answer[o] = "once")
    PROVE  OperationOK(o)'
  BY DEF OperationOK, InState

\* A prompt nobody answers.
LEMMA NeverAnsweredOK ==
    ASSUME GateIInv, NEW c \in ToolCall, NeverAnswered(c)
    PROVE  GateIInv'
<1>1. PICK o : o = call[c].operation
  OBVIOUS
<1>2. /\ call[c] # Absent /\ End(c) /\ UNCHANGED <<pending, home, prompts, answer, starts>>
  BY DEF NeverAnswered, At
<1>3. OperationOK(o)'
  BY <1>1, <1>2, UnderWay DEF OperationOK, InState
<1>4. /\ pending' \in [Operation -> [session : Session, state : OperationState] \cup {Absent}]
      /\ starts' \in [Operation -> Nat]
  BY <1>2 DEF GateIInv, GateTypeOK
<1>5. QED
  BY <1>1, <1>2, <1>3, <1>4, QuietStep

\* The tool refuses, goes on, or cancels what another session prepared.
LEMMA EnterOK ==
    ASSUME GateIInv, NEW c \in ToolCall, Enter(c)
    PROVE  GateIInv'
<1>1. PICK o : o = call[c].operation
  OBVIOUS
<1>2. /\ call[c] # Absent /\ call[c].step = "answered"
      /\ UNCHANGED <<home, prompts, answer, starts>>
      /\ o \in Operation /\ CallOK(c) /\ OperationOK(o)
  BY <1>1, UnderWay DEF Enter, At
<1>3. /\ starts' \in [Operation -> Nat] /\ answer' \in [Operation -> Choice \cup {Absent}]
      /\ pending \in [Operation -> [session : Session, state : OperationState] \cup {Absent}]
  BY <1>2 DEF GateIInv, GateTypeOK
<1>4. CASE ~InState(o, {"approved_once"})
  <2>1. End(c) /\ UNCHANGED pending
    BY <1>1, <1>4 DEF Enter
  <2>2. OperationOK(o)'
    BY <1>2, <2>1 DEF OperationOK, InState
  <2>3. QED
    BY <1>1, <1>2, <1>3, <2>1, <2>2, QuietStep
<1>5. CASE InState(o, {"approved_once"}) /\ Own(o, call[c].session)
  <2>1. Proceed(c, "checked") /\ UNCHANGED pending
    BY <1>1, <1>5 DEF Enter
  <2>2. OperationOK(o)'
    BY <1>2, <2>1 DEF OperationOK, InState
  <2>3. /\ call'[c].step = "checked" /\ call'[c].operation = o
        /\ call'[c].session = call[c].session
    BY <1>1, <1>2, <2>1, CallProceeded DEF CallStep
  <2>4. CallOK(c)'
    BY <1>1, <1>2, <1>5, <2>1, <2>3 DEF CallOK, InState
  <2>5. \E next \in CallStep : call' = [call EXCEPT ![c].step = next]
    BY <2>1 DEF Proceed, CallStep
  <2>6. QED
    BY <1>1, <1>2, <1>3, <2>1, <2>2, <2>4, <2>5, OwnStep
<1>6. CASE InState(o, {"approved_once"}) /\ ~Own(o, call[c].session)
  <2>1. Become(o, "cancelled") /\ End(c)
    BY <1>1, <1>6 DEF Enter
  <2>2. /\ pending' \in [Operation -> [session : Session, state : OperationState] \cup {Absent}]
        /\ pending'[o].session = pending[o].session /\ pending'[o].state = "cancelled"
        /\ \A p \in Operation : p # o => pending'[p] = pending[p]
    BY <1>2, <1>6, <2>1, StateSet DEF GateIInv, OperationState
  <2>3. home[o] # Absent /\ pending[o].session = home[o]
    BY <1>2, <1>6 DEF OperationOK, InState
  <2>4. OperationOK(o)'
    BY <1>2, <2>2, <2>3, Over
  <2>5. QED
    BY <1>1, <1>2, <1>3, <2>1, <2>2, <2>4, QuietStep
<1>7. QED
  BY <1>4, <1>5, <1>6

\* An approved operation of a context that changed.
LEMMA ContextChangedOK ==
    ASSUME GateIInv, NEW c \in ToolCall, ContextChanged(c)
    PROVE  GateIInv'
<1>1. PICK o : o = call[c].operation
  OBVIOUS
<1>2. /\ call[c] # Absent /\ Become(o, "cancelled") /\ End(c)
      /\ UNCHANGED <<home, prompts, answer, starts>>
      /\ o \in Operation /\ OperationOK(o) /\ InState(o, {"approved_once"})
  BY <1>1, UnderWay DEF ContextChanged, At, CallOK
<1>3. /\ pending' \in [Operation -> [session : Session, state : OperationState] \cup {Absent}]
      /\ pending'[o].session = pending[o].session /\ pending'[o].state = "cancelled"
      /\ \A p \in Operation : p # o => pending'[p] = pending[p]
  BY <1>2, StateSet DEF GateIInv, OperationState
<1>4. home[o] # Absent /\ pending[o].session = home[o]
  BY <1>2 DEF OperationOK, InState
<1>5. OperationOK(o)'
  BY <1>2, <1>3, <1>4, Over
<1>6. starts' \in [Operation -> Nat]
  BY <1>2 DEF GateIInv, GateTypeOK
<1>7. QED
  BY <1>1, <1>2, <1>3, <1>5, <1>6, QuietStep

\* The start: the operation was approved and not started before.
LEMMA ConsumeOK ==
    ASSUME GateIInv, NEW c \in ToolCall, Consume(c)
    PROVE  GateIInv'
<1>1. PICK o : o = call[c].operation
  OBVIOUS
<1>2. /\ call[c] # Absent /\ call[c].step = "checked" /\ Proceed(c, "running")
      /\ UNCHANGED <<home, prompts, answer>>
      /\ o \in Operation /\ CallOK(c) /\ OperationOK(o) /\ InState(o, {"approved_once"})
  BY <1>1, UnderWay DEF Consume, At, CallOK
<1>3. starts[o] = 0 /\ prompts[o] = 1 /\ answer[o] = "once"
  BY <1>1, <1>2 DEF CallOK, OperationOK
<1>4. /\ starts' \in [Operation -> Nat] /\ starts'[o] = 1
      /\ \A p \in Operation : p # o => starts'[p] = starts[p]
  BY <1>1, <1>2, <1>3 DEF Consume, GateIInv, GateTypeOK
<1>5. pending' = [pending EXCEPT ![o] =
                     IF PluginOf[o] = "execution" THEN [@ EXCEPT !.state = "consumed"] ELSE Absent]
  BY <1>1 DEF Consume
<1>6. /\ pending' \in [Operation -> [session : Session, state : OperationState] \cup {Absent}]
      /\ \A p \in Operation : p # o => pending'[p] = pending[p]
      /\ pending'[o] = Absent \/ (/\ pending'[o].session = pending[o].session
                                  /\ pending'[o].state = "consumed")
  <2>1. CASE PluginOf[o] = "execution"
    <3>1. Become(o, "consumed")
      BY <1>5, <2>1 DEF Become
    <3>2. QED
      BY <1>2, <3>1, StateSet DEF GateIInv, OperationState
  <2>2. CASE PluginOf[o] # "execution"
    BY <1>2, <1>5, <2>2 DEF GateIInv, GateTypeOK
  <2>3. QED
    BY <2>1, <2>2
<1>7. home[o] # Absent /\ pending[o].session = home[o]
  BY <1>2 DEF OperationOK, InState
<1>8. OperationOK(o)'
  BY <1>2, <1>3, <1>4, <1>6, <1>7, Over
<1>9. QED
  BY <1>1, <1>2, <1>4, <1>6, <1>8, QuietStep DEF CallStep

\* The operation is gone, whatever came of it.
LEMMA FinishOK ==
    ASSUME GateIInv, NEW c \in ToolCall, Finish(c)
    PROVE  GateIInv'
<1>1. PICK o : o = call[c].operation
  OBVIOUS
<1>2. /\ call[c] # Absent /\ End(c) /\ UNCHANGED <<home, prompts, answer, starts>>
      /\ pending' = [pending EXCEPT ![o] = Absent]
      /\ o \in Operation /\ OperationOK(o)
  BY <1>1, UnderWay DEF Finish, At
<1>3. /\ pending' \in [Operation -> [session : Session, state : OperationState] \cup {Absent}]
      /\ pending'[o] = Absent
      /\ \A p \in Operation : p # o => pending'[p] = pending[p]
      /\ starts' \in [Operation -> Nat]
  BY <1>2 DEF GateIInv, GateTypeOK
<1>4. OperationOK(o)'
  BY <1>2, <1>3 DEF OperationOK, InState
<1>5. QED
  BY <1>1, <1>2, <1>3, <1>4, QuietStep

\* A restart loses what was under way; the numbers are not drawn again.
LEMMA GateRestartOK ==
    ASSUME GateIInv, GateRestart
    PROVE  GateIInv'
<1>1. GateTypeOK'
  BY DEF GateIInv, GateTypeOK, GateRestart
<1>2. \A o \in Operation : OperationOK(o)'
  BY DEF GateIInv, OperationOK, GateRestart, InState
<1>3. (\A c \in ToolCall : CallOK(c)') /\ Alone'
  BY DEF GateRestart, CallOK, Alone
<1>4. QED
  BY <1>1, <1>2, <1>3 DEF GateIInv

LEMMA GateNextOK == GateIInv /\ [GateNext]_gateVars => GateIInv'
<1> SUFFICES ASSUME GateIInv, [GateNext]_gateVars PROVE GateIInv'
  OBVIOUS
<1>1. CASE \E o \in Operation, s \in Session : Prepare(o, s)
  BY <1>1, PrepareOK
<1>2. CASE \E c \in ToolCall, o \in Operation, s \in Session : ToolCalled(c, o, s)
  BY <1>2, ToolCalledOK
<1>3. CASE \E c \in ToolCall, choice \in Choice : Answered(c, choice)
  BY <1>3, AnsweredOK
<1>4. CASE \E c \in ToolCall : NeverAnswered(c)
  BY <1>4, NeverAnsweredOK
<1>5. CASE \E c \in ToolCall : Enter(c)
  BY <1>5, EnterOK
<1>6. CASE \E c \in ToolCall : ContextChanged(c)
  BY <1>6, ContextChangedOK
<1>7. CASE \E c \in ToolCall : Consume(c)
  BY <1>7, ConsumeOK
<1>8. CASE \E c \in ToolCall : Finish(c)
  BY <1>8, FinishOK
<1>9. CASE GateRestart
  BY <1>9, GateRestartOK
<1>10. CASE UNCHANGED gateVars
  BY <1>10 DEF gateVars, GateIInv, GateTypeOK, OperationOK, CallOK, Alone, InState
<1>11. QED
  BY <1>1, <1>2, <1>3, <1>4, <1>5, <1>6, <1>7, <1>8, <1>9, <1>10 DEF GateNext

\* An operation is put to the user once, started once, as answered, and in the
\* session that prepared it, for any number of operations, calls and sessions.
THEOREM OneStartPerApproval == GateSpec => []GateInv
<1>1. GateIInv => GateInv
  BY DEF GateIInv, GateInv, OperationOK, CallOK, StartedOnceAsAnswered,
         RunsWhereItWasPrepared, At, GateTypeOK
<1>2. QED
  BY <1>1, GateInitOK, GateNextOK, PTL DEF GateSpec

-----------------------------------------------------------------------------
(* A container *)

SandboxStep == {"create", "start", "wait", "waiting", "kill", "logs", "remove", "record",
                "answered"}
Container == {"none", "created", "running", "exited", "gone"}

\* Where the container is while the broker follows the command.
ContainerFollows ==
    /\ step = "create" => container = "none"
    /\ step \in {"create", "start", "wait", "waiting"} => result = "none"
    /\ step \in {"create", "start", "wait", "waiting"} => (container \in {"exited", "gone"} => ended)
    /\ step = "kill" => result = "timed out"

\* What is left when the removal has been tried.
Removed == container = "gone" \/ ~EngineRefusedNot("remove")

RemovalTried ==
    /\ step = "record" /\ kind \in {"sandbox", "auto_remove"} => Removed
    /\ step = "answered" /\ (kind = "sandbox" \/ (kind = "auto_remove" /\ result # "error"))
          => Removed \/ container = "none" \/ <<"create", "broken">> \in failed

\* What a result stands for.
ResultTrue ==
    /\ result = "executed" => ended \/ kind = "detached"
    /\ result = "timed out" /\ step # "kill" /\ EngineRefusedNot("kill") => container # "running"
    /\ step = "answered" /\ result \in {"executed", "timed out"} => audited

SandboxIInv ==
    /\ kind \in RunKind /\ step \in SandboxStep /\ container \in Container
    /\ result \in {"none", "executed", "timed out", "error"}
    /\ ended \in BOOLEAN /\ audited \in BOOLEAN
    /\ ContainerFollows /\ RemovalTried /\ ResultTrue

\* Failures are remembered.
LEMMA FailuresStay ==
    ASSUME NEW aCall, failed \subseteq failed', EngineRefusedNot(aCall)'
    PROVE  EngineRefusedNot(aCall)
  BY DEF EngineRefusedNot

LEMMA FailureKnown ==
    ASSUME NEW aCall, NEW how \in {"refused", "broken"}, failed' = failed \cup {<<aCall, how>>}
    PROVE  ~EngineRefusedNot(aCall)'
  BY DEF EngineRefusedNot

LEMMA SandboxInitOK == SandboxInit => SandboxIInv
  BY DEF SandboxInit, SandboxIInv, SandboxStep, Container, ContainerFollows, RemovalTried,
         ResultTrue, Removed

LEMMA SandboxNextOK == SandboxIInv /\ [SandboxNext]_sandboxVars => SandboxIInv'
<1> SUFFICES ASSUME SandboxIInv, [SandboxNext]_sandboxVars PROVE SandboxIInv'
  OBVIOUS
<1> USE DEF SandboxIInv, RunKind, SandboxStep, Container, ContainerFollows, RemovalTried,
            ResultTrue, Removed
<1>0. failed \subseteq failed'
  BY DEF SandboxNext, sandboxVars, CommandEnds, CreateContainer, StartContainer, WaitForEnd,
         WaitReturns, KillContainer, ReadOutput, RemoveContainer, RecordRun, Succeeds, Fails
<1>1. CASE CommandEnds
  BY <1>1, <1>0, FailuresStay DEF CommandEnds, Stopped
<1>2. CASE CreateContainer
  <2>1. CASE Succeeds("create") /\ Go("start", result)
    BY <2>1, <1>0, FailuresStay DEF Succeeds, Needs, Leaves, Go
  <2>2. ASSUME NEW how \in {"refused", "broken"}, Fails("create", how), Go("answered", "error")
        PROVE  SandboxIInv'
    <3>1. how = "broken" => <<"create", "broken">> \in failed'
      BY <2>2 DEF Fails
    <3>2. container' = "none" \/ (how = "broken" /\ container' = "created")
      BY <2>2 DEF Fails, Leaves
    <3>3. QED
      BY <2>2, <3>1, <3>2, <1>0, FailuresStay DEF Fails, Go
  <2>3. QED
    BY <1>2, <2>1, <2>2 DEF CreateContainer
<1>3. CASE StartContainer
  BY <1>3, <1>0, FailuresStay, FailureKnown
     DEF StartContainer, Succeeds, Fails, Needs, Leaves, Go, Stopped, AfterException
<1>4. CASE WaitForEnd
  BY <1>4, <1>0, FailuresStay DEF WaitForEnd, Succeeds, Needs, Leaves, Go
<1>5. CASE WaitReturns
  BY <1>5, <1>0, FailuresStay DEF WaitReturns, StopIt, Fails, Needs, Leaves, Go
<1>6. CASE KillContainer
  BY <1>6, <1>0, FailuresStay, FailureKnown
     DEF KillContainer, Succeeds, Fails, Needs, Leaves, Go, Stopped, AfterException
<1>7. CASE ReadOutput
  BY <1>7, <1>0, FailuresStay, FailureKnown
     DEF ReadOutput, Succeeds, Fails, Needs, Leaves, Go, AfterOutput, AfterException
<1>8. CASE RemoveContainer
  BY <1>8, <1>0, FailuresStay, FailureKnown
     DEF RemoveContainer, Succeeds, Fails, Needs, Leaves, Go, AfterRemoval
<1>9. CASE RecordRun
  BY <1>9, <1>0, FailuresStay DEF RecordRun, Go
<1>10. CASE UNCHANGED sandboxVars
  <2>1. /\ UNCHANGED kind /\ UNCHANGED step /\ UNCHANGED container /\ UNCHANGED result
        /\ UNCHANGED ended /\ UNCHANGED audited /\ UNCHANGED failed
    BY <1>10 DEF sandboxVars
  <2>2. ContainerFollows' /\ RemovalTried'
    BY <2>1, <1>0, FailuresStay
  <2>3. ResultTrue'
    BY <2>1, <1>0, FailuresStay
  <2>4. ended' \in BOOLEAN /\ audited' \in BOOLEAN
    BY <2>1, Zenon DEF SandboxIInv
  <2>5. QED
    BY <2>1, <2>2, <2>3, <2>4
<1>11. QED
  BY <1>1, <1>2, <1>3, <1>4, <1>5, <1>6, <1>7, <1>8, <1>9, <1>10 DEF SandboxNext

\* A container and its result, whichever calls to the engine fail.
THEOREM ContainersAndResults == SandboxSpec => []SandboxInv
<1>1. SandboxIInv => SandboxInv
  BY DEF SandboxIInv, SandboxInv, NothingLeftBehind, AnsweredAsItWent, RunAnswered,
         RemovalTried, ResultTrue, Removed
<1>2. QED
  BY <1>1, SandboxInitOK, SandboxNextOK, PTL DEF SandboxSpec

-----------------------------------------------------------------------------
(* A profile *)

TaskStep == {"idle", "meta", "hosts", "secret", "sealed", "failed", "running", "ended"}

SshTypeOK ==
    /\ written \in Nat /\ written > 0
    /\ profile \in [File -> Nat] \cup {NoProfile} /\ backup \in [File -> Nat] \cup {NoProfile}
    /\ change \in {"none", "aside", "placed"}
    /\ task \in [SshOperation -> [step : TaskStep, read : [File -> Nat]]]
    /\ seal \in [SshOperation -> [File -> Nat] \cup {NoProfile}]
    /\ DOMAIN login = SshOperation /\ login = [o \in SshOperation |-> login[o]]
    /\ left \subseteq SshOperation

\* What is left of the files of a directory is of one version.
OneVersion(directory) ==
    directory # NoProfile =>
        /\ directory["meta"] <= written /\ directory["secret"] <= written
        /\ directory["meta"] # 0 /\ directory["secret"] # 0
              => directory["meta"] = directory["secret"]

DirectoriesOK ==
    /\ OneVersion(profile) /\ OneVersion(backup)
    /\ change = "none" => backup = NoProfile
    /\ change = "aside" => profile = NoProfile /\ backup # NoProfile
    /\ change = "placed" => backup # NoProfile

Holds(directory, v) ==
    directory # NoProfile /\ (directory["meta"] = v \/ directory["secret"] = v)

\* A version that is in no directory will never be read again.
Dead(v) == v <= written /\ ~Holds(profile, v) /\ ~Holds(backup, v)

\* An account m and a password s that were read in this order cannot be read in
\* this order a second time, unless they are of one version.
ReadOnce(m, s) == m = s \/ Dead(m) \/ Dead(s) \/ (Holds(profile, s) /\ Holds(backup, m))

Version == {v \in Nat : v > 0 /\ v <= written}

\* What an operation has read, sealed and used.
ReadOK(o) ==
    /\ task[o].step \in {"meta", "hosts", "secret"} => task[o].read["meta"] \in Version
    /\ task[o].step = "secret" => task[o].read["secret"] \in Version
    /\ task[o].step = "secret" => ReadOnce(task[o].read["meta"], task[o].read["secret"])

SealOK(o) ==
    seal[o] # NoProfile =>
        /\ seal[o]["meta"] \in Version /\ seal[o]["secret"] \in Version
        /\ ReadOnce(seal[o]["meta"], seal[o]["secret"])
        /\ task[o].step \in {"meta", "hosts"} /\ task[o].read["meta"] = seal[o]["meta"]
              => seal[o]["meta"] = seal[o]["secret"] \/ Dead(seal[o]["secret"])
        /\ task[o].step = "secret" /\ task[o].read["meta"] = seal[o]["meta"]
              /\ task[o].read["secret"] = seal[o]["secret"]
              => seal[o]["meta"] = seal[o]["secret"]

LoginOK(o) ==
    /\ login[o] # NoProfile =>
          /\ seal[o] # NoProfile
          /\ login[o] = Credentials(seal[o]) /\ login[o].meta = login[o].secret
    /\ o \in left => task[o].step = "running"

SshIInv ==
    /\ SshTypeOK /\ DirectoriesOK
    /\ \A o \in SshOperation : ReadOK(o) /\ SealOK(o) /\ LoginOK(o)

DirectoryStep ==
    \/ AddProfile \/ SetPasswordAside \/ SetPassword \/ PasswordVerified
    \/ (\E f \in File : RemoveFile(f)) \/ RemoveDirectory \/ RestoreBackup

-----------------------------------------------------------------------------
LEMMA SshInitOK == SshInit => SshIInv
  BY NoProfileAssumption
     DEF SshInit, SshIInv, SshTypeOK, DirectoriesOK, OneVersion, ReadOK, SealOK, LoginOK,
         NothingRead, Nought, File, TaskStep

\* The operator's commands keep the directories' types and what they hold of one
\* version each.
LEMMA DirectoriesKept ==
    ASSUME SshTypeOK, DirectoriesOK, DirectoryStep
    PROVE  /\ written' \in Nat /\ written' >= written
           /\ profile' \in [File -> Nat] \cup {NoProfile}
           /\ backup' \in [File -> Nat] \cup {NoProfile}
           /\ change' \in {"none", "aside", "placed"}
           /\ DirectoriesOK'
           /\ UNCHANGED brokerVars
<1> USE NoProfileAssumption DEF SshTypeOK, DirectoriesOK, OneVersion
<1>1. CASE AddProfile
  BY <1>1 DEF AddProfile, File
<1>2. CASE SetPasswordAside
  BY <1>2 DEF SetPasswordAside
<1>3. CASE SetPassword
  <2>1. /\ backup \in [File -> Nat] /\ backup # NoProfile
        /\ backup["meta"] \in Nat /\ backup["secret"] \in Nat
    BY <1>3 DEF SetPassword, File
  <2>2. profile' = [backup EXCEPT !["meta"] = written + 1, !["secret"] = written + 1]
    BY <1>3 DEF SetPassword
  <2>3. /\ profile' \in [File -> Nat]
        /\ profile'["meta"] = written + 1 /\ profile'["secret"] = written + 1
    BY <2>1, <2>2 DEF File
  <2>4. QED
    BY <1>3, <2>1, <2>3 DEF SetPassword
<1>4. CASE PasswordVerified
  BY <1>4 DEF PasswordVerified
<1>5. ASSUME NEW f \in File, RemoveFile(f)
      PROVE  /\ written' \in Nat /\ written' >= written
             /\ profile' \in [File -> Nat] \cup {NoProfile}
             /\ backup' \in [File -> Nat] \cup {NoProfile}
             /\ change' \in {"none", "aside", "placed"}
             /\ DirectoriesOK'
             /\ UNCHANGED brokerVars
  <2>1. /\ profile \in [File -> Nat] /\ profile # NoProfile
        /\ profile' = [profile EXCEPT ![f] = 0]
    BY <1>5 DEF RemoveFile
  <2>2. /\ profile' \in [File -> Nat]
        /\ \A g \in File : profile'[g] \in {0, profile[g]}
        /\ "meta" \in File /\ "secret" \in File
    BY <2>1 DEF File
  <2>3. QED
    BY <1>5, <2>1, <2>2 DEF RemoveFile
<1>6. CASE RemoveDirectory
  BY <1>6 DEF RemoveDirectory, Nought
<1>7. CASE RestoreBackup
  BY <1>7 DEF RestoreBackup
<1>8. QED
  BY <1>1, <1>2, <1>3, <1>4, <1>5, <1>6, <1>7 DEF DirectoryStep

\* A version that is in no directory stays so: a new one has a new number.
LEMMA DeadStays ==
    ASSUME SshTypeOK, DirectoriesOK, DirectoryStep, NEW v \in Nat, v > 0, Dead(v)
    PROVE  Dead(v)'
<1> USE DEF SshTypeOK, Dead, Holds
<1>1. CASE AddProfile
  BY <1>1 DEF AddProfile, File
<1>2. CASE SetPasswordAside
  BY <1>2 DEF SetPasswordAside
<1>3. CASE SetPassword
  <2>1. backup \in [File -> Nat]
    BY <1>3 DEF SetPassword, DirectoriesOK
  <2>2. profile' = [backup EXCEPT !["meta"] = written + 1, !["secret"] = written + 1]
    BY <1>3 DEF SetPassword
  <2>3. profile'["meta"] = written + 1 /\ profile'["secret"] = written + 1
    BY <2>1, <2>2 DEF File
  <2>4. QED
    BY <1>3, <2>3 DEF SetPassword
<1>4. CASE PasswordVerified
  BY <1>4 DEF PasswordVerified
<1>5. ASSUME NEW f \in File, RemoveFile(f) PROVE Dead(v)'
  <2>1. profile # NoProfile /\ \A g \in {"meta", "secret"} : profile'[g] \in {0, profile[g]}
    BY <1>5 DEF RemoveFile, File
  <2>2. QED
    BY <1>5, <2>1 DEF RemoveFile
<1>6. CASE RemoveDirectory
  BY <1>6 DEF RemoveDirectory
<1>7. CASE RestoreBackup
  BY <1>7 DEF RestoreBackup
<1>8. QED
  BY <1>1, <1>2, <1>3, <1>4, <1>5, <1>6, <1>7 DEF DirectoryStep

\* Two versions that lie one on the other, the later one on top, do not change
\* places: the change succeeds and the account is gone, or fails and the password is.
LEMMA ReadOnceStays ==
    ASSUME SshTypeOK, DirectoriesOK, DirectoryStep,
           NEW m \in Version, NEW s \in Version, ReadOnce(m, s)
    PROVE  ReadOnce(m, s)'
<1> USE DEF SshTypeOK, Version
<1>1. CASE m = s \/ Dead(m) \/ Dead(s)
  BY <1>1, DeadStays DEF ReadOnce
<1>2. CASE m # s /\ Holds(profile, s) /\ Holds(backup, m)
  <2>0. /\ profile # NoProfile /\ backup # NoProfile /\ change = "placed"
        /\ m <= written /\ s <= written
    BY <1>2 DEF Holds, DirectoriesOK
  <2>1. CASE PasswordVerified
    <3>1. ~Holds(profile, m)
      BY <1>2 DEF Holds, DirectoriesOK, OneVersion
    <3>2. QED
      BY <2>0, <2>1, <3>1 DEF PasswordVerified, ReadOnce, Dead, Holds
  <2>2. ASSUME NEW f \in File, RemoveFile(f) PROVE ReadOnce(m, s)'
    <3>1. CASE Holds(profile, s)'
      BY <1>2, <2>2, <3>1 DEF RemoveFile, ReadOnce, Holds
    <3>2. CASE ~Holds(profile, s)'
      <4>1. ~Holds(backup, s)
        BY <1>2 DEF Holds, DirectoriesOK, OneVersion
      <4>2. QED
        BY <2>0, <2>2, <3>2, <4>1 DEF RemoveFile, ReadOnce, Dead, Holds
    <3>3. QED
      BY <3>1, <3>2
  <2>3. CASE RemoveDirectory
    BY <1>2, <2>3 DEF RemoveDirectory, Nought, Holds, File
  <2>4. QED
    BY <2>0, <2>1, <2>2, <2>3
       DEF DirectoryStep, AddProfile, SetPasswordAside, SetPassword, RestoreBackup
<1>3. QED
  BY <1>1, <1>2 DEF ReadOnce

\* The operator's commands, for what the broker has read.
LEMMA DirectoryStepOK ==
    ASSUME SshIInv, DirectoryStep
    PROVE  SshIInv'
<1>1. SshTypeOK /\ DirectoriesOK
  BY DEF SshIInv
<1>2. SshTypeOK'
  BY <1>1, DirectoriesKept DEF SshTypeOK, brokerVars
<1>3. UNCHANGED <<task, seal, login, left>> /\ written' >= written /\ written \in Nat
      /\ written' \in Nat
  BY <1>1, DirectoriesKept DEF brokerVars, SshTypeOK
<1>4. \A v \in Version : v \in Version' /\ (Dead(v) => Dead(v)')
  BY <1>1, <1>3, DeadStays DEF Version
<1>5. \A m, s \in Version : ReadOnce(m, s) => ReadOnce(m, s)'
  BY <1>1, ReadOnceStays
<1>6. ASSUME NEW o \in SshOperation
      PROVE  ReadOK(o)' /\ SealOK(o)' /\ LoginOK(o)'
  <2>1. ReadOK(o) /\ SealOK(o) /\ LoginOK(o)
    BY DEF SshIInv
  <2>2. ReadOK(o)'
    BY <1>3, <1>4, <1>5, <2>1 DEF ReadOK
  <2>3. SealOK(o)'
    BY <1>3, <1>4, <1>5, <2>1 DEF SealOK
  <2>4. LoginOK(o)'
    BY <1>3, <2>1 DEF LoginOK, Credentials
  <2>5. QED
    BY <2>2, <2>3, <2>4
<1>7. DirectoriesOK'
  BY <1>1, DirectoriesKept
<1>8. QED
  BY <1>2, <1>6, <1>7 DEF SshIInv

-----------------------------------------------------------------------------
\* A step of an operation touches what was read, sealed and used for itself.
LEMMA OwnOperation ==
    ASSUME SshIInv, NEW o \in SshOperation, UNCHANGED directoryVars, SshTypeOK',
           \A p \in SshOperation : p # o => /\ task'[p] = task[p] /\ seal'[p] = seal[p]
                                            /\ login'[p] = login[p]
                                            /\ p \in left' => p \in left,
           ReadOK(o)', SealOK(o)', LoginOK(o)'
    PROVE  SshIInv'
<1>1. UNCHANGED <<profile, backup, change, written>>
  BY DEF directoryVars
<1>2. DirectoriesOK'
  BY <1>1 DEF SshIInv, DirectoriesOK, OneVersion
<1>3. ASSUME NEW p \in SshOperation
      PROVE  ReadOK(p)' /\ SealOK(p)' /\ LoginOK(p)'
  <2>1. CASE p = o
    BY <2>1
  <2>2. CASE p # o
    <3>1. ReadOK(p) /\ SealOK(p) /\ LoginOK(p)
      BY DEF SshIInv
    <3>2. ReadOK(p)'
      BY <1>1, <2>2, <3>1 DEF ReadOK, ReadOnce, Dead, Holds, Version
    <3>3. SealOK(p)'
      BY <1>1, <2>2, <3>1 DEF SealOK, ReadOnce, Dead, Holds, Version
    <3>4. LoginOK(p)'
      BY <2>2, <3>1 DEF LoginOK, Credentials
    <3>5. QED
      BY <3>2, <3>3, <3>4
  <2>3. QED
    BY <2>1, <2>2
<1>4. QED
  BY <1>2, <1>3 DEF SshIInv

\* What a present file gives.
LEMMA FileRead ==
    ASSUME SshIInv, NEW f \in {"meta", "secret"}, HasFile(f)
    PROVE  profile[f] \in Version /\ Holds(profile, profile[f])
  BY DEF SshIInv, SshTypeOK, DirectoriesOK, OneVersion, HasFile, Version, Holds, File

\* The password read after an account: either of one version with it, or one of the
\* two is in no directory, or it lies on top.
LEMMA ReadAfter ==
    ASSUME SshIInv, NEW m \in Version, HasFile("secret")
    PROVE  ReadOnce(m, profile["secret"])
  BY FileRead DEF ReadOnce, Dead, Holds, SshIInv, DirectoriesOK, OneVersion, Version, HasFile

\* An account that is read again after it was sealed with a password of another
\* version: the password is gone.
LEMMA ReadAgain ==
    ASSUME SshIInv, HasFile("meta"), NEW s \in Version, ReadOnce(profile["meta"], s)
    PROVE  profile["meta"] = s \/ Dead(s)
  BY FileRead DEF ReadOnce, Dead, Holds, SshIInv, DirectoriesOK, OneVersion, Version, HasFile

LEMMA LoadOK ==
    ASSUME SshIInv, NEW o \in SshOperation, NEW f \in File, Load(o, f)
    PROVE  SshIInv'
<1>1. /\ task[o].step \in {"idle", "sealed", "meta", "hosts"} /\ f = NextFile[task[o].step]
      /\ HasFile(f)
      /\ task' = [task EXCEPT ![o] = [step |-> f, read |-> [@.read EXCEPT ![f] = profile[f]]]]
      /\ UNCHANGED <<directoryVars, seal, login, left>>
  BY DEF Load, NextFile
<1>2. /\ task[o].read \in [File -> Nat] /\ profile[f] \in Nat
      /\ task \in [SshOperation -> [step : TaskStep, read : [File -> Nat]]]
  BY <1>1 DEF SshIInv, SshTypeOK, HasFile
<1>3. PICK read \in [File -> Nat] : read = [task[o].read EXCEPT ![f] = profile[f]]
  BY <1>2
<1>4. /\ task' = [task EXCEPT ![o] = [step |-> f, read |-> read]]
      /\ f \in TaskStep
  BY <1>1, <1>3 DEF TaskStep, File
<1>5. /\ task' \in [SshOperation -> [step : TaskStep, read : [File -> Nat]]]
      /\ task'[o].step = f /\ task'[o].read = read
      /\ \A p \in SshOperation : p # o => task'[p] = task[p]
  BY <1>2, <1>4
<1>6. SshTypeOK'
  BY <1>1, <1>5 DEF SshIInv, SshTypeOK, directoryVars
<1>7. /\ read[f] = profile[f] /\ \A g \in File : g # f => read[g] = task[o].read[g]
      /\ "meta" \in File /\ "secret" \in File
  BY <1>2, <1>3 DEF File
<1>8. ReadOK(o) /\ SealOK(o) /\ LoginOK(o)
  BY DEF SshIInv
<1>9. LoginOK(o)'
  BY <1>1, <1>8 DEF LoginOK, Credentials
<1>10. /\ \A v : Dead(v) => Dead(v)'
       /\ \A v \in Version : v \in Version'
       /\ \A m, s : ReadOnce(m, s) => ReadOnce(m, s)'
  BY <1>1 DEF directoryVars, Dead, Holds, ReadOnce, Version
<1>11. ReadOK(o)'
  <2>1. CASE f = "meta"
    BY <1>1, <1>5, <1>7, <1>10, <2>1, FileRead DEF ReadOK
  <2>2. CASE f = "hosts"
    BY <1>1, <1>5, <1>7, <1>8, <1>10, <2>2 DEF ReadOK, NextFile
  <2>3. CASE f = "secret"
    <3>1. task[o].step = "hosts" /\ read["meta"] = task[o].read["meta"]
      BY <1>1, <1>7, <2>3 DEF NextFile
    <3>2. read["meta"] \in Version
      BY <1>8, <3>1 DEF ReadOK
    <3>3. ReadOnce(read["meta"], profile["secret"]) /\ profile["secret"] \in Version
      BY <1>1, <2>3, <3>2, ReadAfter, FileRead
    <3>4. QED
      BY <1>5, <1>7, <1>10, <2>3, <3>2, <3>3 DEF ReadOK
  <2>4. QED
    BY <2>1, <2>2, <2>3 DEF File
<1>12. SealOK(o)'
  <2> SUFFICES ASSUME seal[o] # NoProfile PROVE SealOK(o)'
    BY <1>1 DEF SealOK
  <2>1. CASE f = "meta"
    <3>1. read["meta"] = profile["meta"] /\ HasFile("meta")
      BY <1>1, <1>7, <2>1
    <3>2. read["meta"] = seal[o]["meta"] => seal[o]["meta"] = seal[o]["secret"] \/ Dead(seal[o]["secret"])
      BY <1>8, <3>1, ReadAgain DEF SealOK
    <3>3. QED
      BY <1>1, <1>5, <1>8, <1>10, <2>1, <3>2 DEF SealOK
  <2>2. CASE f = "hosts"
    <3>1. task[o].step = "meta" /\ read["meta"] = task[o].read["meta"]
      BY <1>1, <1>7, <2>2 DEF NextFile
    <3>2. QED
      BY <1>1, <1>5, <1>8, <1>10, <2>2, <3>1 DEF SealOK
  <2>3. CASE f = "secret"
    <3>1. task[o].step = "hosts" /\ read["meta"] = task[o].read["meta"]
      BY <1>1, <1>7, <2>3 DEF NextFile
    <3>2. ~Dead(read["secret"])
      BY <1>1, <1>7, <2>3, FileRead DEF Dead
    <3>3. QED
      BY <1>1, <1>5, <1>8, <1>10, <2>3, <3>1, <3>2 DEF SealOK
  <2>4. QED
    BY <2>1, <2>2, <2>3 DEF File
<1>13. UNCHANGED directoryVars /\ UNCHANGED <<seal, login, left>>
  BY <1>1
<1>14. QED
  BY <1>5, <1>6, <1>9, <1>11, <1>12, <1>13, OwnOperation

\* A call that goes on with nothing read, or with what it read.
LEMMA Rested ==
    ASSUME SshIInv, NEW o \in SshOperation,
           NEW next \in TaskStep \ {"meta", "hosts", "secret"},
           NEW read \in [File -> Nat],
           task' = [task EXCEPT ![o] = [step |-> next, read |-> read]]
    PROVE  /\ task' \in [SshOperation -> [step : TaskStep, read : [File -> Nat]]]
           /\ task'[o].step = next
           /\ \A p \in SshOperation : p # o => task'[p] = task[p]
           /\ ReadOK(o)'
  BY DEF SshIInv, SshTypeOK, ReadOK

LEMMA NoughtRead == Nought \in [File -> Nat]
  BY DEF Nought

LEMMA LoadFailsOK ==
    ASSUME SshIInv, NEW o \in SshOperation, LoadFails(o)
    PROVE  SshIInv'
<1>1. /\ task[o].step \in {"idle", "sealed", "meta", "hosts"}
      /\ task' = [task EXCEPT ![o] = [step |-> "failed", read |-> Nought]]
      /\ UNCHANGED directoryVars /\ UNCHANGED <<seal, login, left>>
  BY DEF LoadFails, NextFile
<1>2. /\ task' \in [SshOperation -> [step : TaskStep, read : [File -> Nat]]]
      /\ task'[o].step = "failed" /\ ReadOK(o)'
      /\ \A p \in SshOperation : p # o => task'[p] = task[p]
  BY <1>1, Rested, NoughtRead DEF TaskStep
<1>3. SshTypeOK'
  BY <1>1, <1>2 DEF SshIInv, SshTypeOK, directoryVars
<1>4. SealOK(o) /\ LoginOK(o)
  BY DEF SshIInv
<1>5. SealOK(o)'
  BY <1>1, <1>2, <1>4 DEF SealOK, ReadOnce, Dead, Holds, Version, directoryVars
<1>6. LoginOK(o)'
  BY <1>1, <1>4 DEF LoginOK, Credentials
<1>7. QED
  BY <1>1, <1>2, <1>3, <1>5, <1>6, OwnOperation

LEMMA SealStepOK ==
    ASSUME SshIInv, NEW o \in SshOperation, Seal(o)
    PROVE  SshIInv'
<1>1. /\ task[o].step = "secret" /\ seal[o] = NoProfile
      /\ seal' = [seal EXCEPT ![o] = task[o].read]
      /\ task' = [task EXCEPT ![o] = [step |-> "sealed", read |-> Nought]]
      /\ UNCHANGED directoryVars /\ UNCHANGED <<login, left>>
  BY DEF Seal
<1>2. /\ task' \in [SshOperation -> [step : TaskStep, read : [File -> Nat]]]
      /\ task'[o].step = "sealed" /\ ReadOK(o)'
      /\ \A p \in SshOperation : p # o => task'[p] = task[p]
  BY <1>1, Rested, NoughtRead DEF TaskStep
<1>3. /\ task[o].read \in [File -> Nat]
      /\ seal \in [SshOperation -> [File -> Nat] \cup {NoProfile}]
  BY DEF SshIInv, SshTypeOK
<1>4. /\ seal' \in [SshOperation -> [File -> Nat] \cup {NoProfile}]
      /\ seal'[o] = task[o].read
      /\ \A p \in SshOperation : p # o => seal'[p] = seal[p]
  BY <1>1, <1>3
<1>5. SshTypeOK'
  BY <1>1, <1>2, <1>4 DEF SshIInv, SshTypeOK, directoryVars
<1>6. ReadOK(o) /\ LoginOK(o)
  BY DEF SshIInv
<1>7. SealOK(o)'
  BY <1>1, <1>2, <1>4, <1>6
     DEF ReadOK, SealOK, ReadOnce, Dead, Holds, Version, directoryVars
<1>8. LoginOK(o)'
  BY <1>1, <1>6 DEF LoginOK
<1>9. QED
  BY <1>1, <1>2, <1>4, <1>5, <1>7, <1>8, OwnOperation

LEMMA RunSshOK ==
    ASSUME SshIInv, NEW o \in SshOperation, RunSsh(o)
    PROVE  SshIInv'
<1>1. /\ task[o].step = "secret" /\ seal[o] # NoProfile
      /\ UNCHANGED directoryVars /\ UNCHANGED seal
  BY DEF RunSsh
<1>2. ReadOK(o) /\ SealOK(o) /\ LoginOK(o)
  BY DEF SshIInv
<1>3. /\ task \in [SshOperation -> [step : TaskStep, read : [File -> Nat]]]
      /\ DOMAIN login = SshOperation /\ login = [p \in SshOperation |-> login[p]]
      /\ left \subseteq SshOperation
  BY DEF SshIInv, SshTypeOK
<1>4. CASE profile_matches(task[o].read, seal[o])
  <2>1. /\ login' = [login EXCEPT ![o] = Credentials(task[o].read)]
        /\ left' = left \cup {o}
        /\ task' = [task EXCEPT ![o].step = "running"]
    BY <1>4 DEF RunSsh
  <2>2. task[o].read = seal[o]
    BY <1>4 DEF profile_matches
  <2>3. seal[o]["meta"] = seal[o]["secret"]
    BY <1>1, <1>2, <2>2 DEF SealOK
  <2>4. PICK read \in [File -> Nat], now \in TaskStep : task[o] = [step |-> now, read |-> read]
    BY <1>3
  <2>5. task' = [task EXCEPT ![o] = [step |-> "running", read |-> read]]
    <3>1. [task[o] EXCEPT !.step = "running"] = [step |-> "running", read |-> read]
      BY <2>4
    <3>2. task' = [task EXCEPT ![o] = [task[o] EXCEPT !.step = "running"]]
      BY <2>1
    <3>3. QED
      BY <3>1, <3>2
  <2>6. /\ task' \in [SshOperation -> [step : TaskStep, read : [File -> Nat]]]
        /\ task'[o].step = "running" /\ ReadOK(o)'
        /\ \A p \in SshOperation : p # o => task'[p] = task[p]
    BY <2>5, Rested DEF TaskStep
  <2>7. /\ DOMAIN login' = SshOperation /\ login' = [p \in SshOperation |-> login'[p]]
        /\ login'[o] = Credentials(seal[o])
        /\ \A p \in SshOperation : p # o => login'[p] = login[p]
    BY <1>3, <2>1, <2>2
  <2>8. SshTypeOK'
    BY <1>1, <1>3, <2>1, <2>6, <2>7 DEF SshIInv, SshTypeOK, directoryVars
  <2>9. SealOK(o)'
    BY <1>1, <1>2, <2>6 DEF SealOK, ReadOnce, Dead, Holds, Version, directoryVars
  <2>10. LoginOK(o)'
    BY <1>1, <2>3, <2>6, <2>7 DEF LoginOK, Credentials
  <2>11. QED
    BY <1>1, <2>1, <2>6, <2>7, <2>8, <2>9, <2>10, OwnOperation
<1>5. CASE ~profile_matches(task[o].read, seal[o])
  <2>1. /\ task' = [task EXCEPT ![o] = [step |-> "failed", read |-> Nought]]
        /\ UNCHANGED <<login, left>>
    BY <1>5 DEF RunSsh
  <2>2. /\ task' \in [SshOperation -> [step : TaskStep, read : [File -> Nat]]]
        /\ task'[o].step = "failed" /\ ReadOK(o)'
        /\ \A p \in SshOperation : p # o => task'[p] = task[p]
    BY <2>1, Rested, NoughtRead DEF TaskStep
  <2>3. SshTypeOK'
    BY <1>1, <2>1, <2>2 DEF SshIInv, SshTypeOK, directoryVars
  <2>4. SealOK(o)'
    BY <1>1, <1>2, <2>2 DEF SealOK, ReadOnce, Dead, Holds, Version, directoryVars
  <2>5. LoginOK(o)'
    BY <1>1, <1>2, <2>1 DEF LoginOK, Credentials
  <2>6. QED
    BY <1>1, <2>1, <2>2, <2>3, <2>4, <2>5, OwnOperation
<1>6. QED
  BY <1>4, <1>5

LEMMA SshEndsOK ==
    ASSUME SshIInv, NEW o \in SshOperation, NEW how, SshEnds(o, how)
    PROVE  SshIInv'
<1>1. /\ task' = [task EXCEPT ![o] = [step |-> "ended", read |-> Nought]]
      /\ UNCHANGED directoryVars /\ UNCHANGED <<seal, login>>
      /\ left' = left \ {o}
  BY DEF SshEnds, Cleared
<1>2. /\ task' \in [SshOperation -> [step : TaskStep, read : [File -> Nat]]]
      /\ task'[o].step = "ended" /\ ReadOK(o)'
      /\ \A p \in SshOperation : p # o => task'[p] = task[p]
  BY <1>1, Rested, NoughtRead DEF TaskStep
<1>3. SshTypeOK'
  BY <1>1, <1>2 DEF SshIInv, SshTypeOK, directoryVars
<1>4. SealOK(o) /\ LoginOK(o)
  BY DEF SshIInv
<1>5. SealOK(o)'
  BY <1>1, <1>2, <1>4 DEF SealOK, ReadOnce, Dead, Holds, Version, directoryVars
<1>6. LoginOK(o)'
  BY <1>1, <1>4 DEF LoginOK, Credentials
<1>7. QED
  BY <1>1, <1>2, <1>3, <1>5, <1>6, OwnOperation

LEMMA SshNextOK == SshIInv /\ [SshNext]_sshVars => SshIInv'
<1> SUFFICES ASSUME SshIInv, [SshNext]_sshVars PROVE SshIInv'
  OBVIOUS
<1>1. CASE DirectoryStep
  BY <1>1, DirectoryStepOK
<1>2. ASSUME NEW o \in SshOperation, NEW f \in File, Load(o, f) PROVE SshIInv'
  BY <1>2, LoadOK
<1>3. ASSUME NEW o \in SshOperation, LoadFails(o) PROVE SshIInv'
  BY <1>3, LoadFailsOK
<1>4. ASSUME NEW o \in SshOperation, Seal(o) PROVE SshIInv'
  BY <1>4, SealStepOK
<1>5. ASSUME NEW o \in SshOperation, RunSsh(o) PROVE SshIInv'
  BY <1>5, RunSshOK
<1>6. ASSUME NEW o \in SshOperation, NEW how, SshEnds(o, how) PROVE SshIInv'
  BY <1>6, SshEndsOK
<1>7. CASE UNCHANGED sshVars
  <2>1. UNCHANGED <<profile, backup, change, written, task, seal, login, left>>
    BY <1>7 DEF sshVars, directoryVars, brokerVars
  <2>2. SshTypeOK'
    BY <2>1 DEF SshIInv, SshTypeOK
  <2>3. DirectoriesOK'
    BY <2>1 DEF SshIInv, DirectoriesOK, OneVersion
  <2>4. ASSUME NEW o \in SshOperation PROVE ReadOK(o)' /\ SealOK(o)' /\ LoginOK(o)'
    <3>1. ReadOK(o) /\ SealOK(o) /\ LoginOK(o)
      BY DEF SshIInv
    <3>2. ReadOK(o)'
      BY <2>1, <3>1 DEF ReadOK, ReadOnce, Dead, Holds, Version
    <3>3. SealOK(o)'
      BY <2>1, <3>1 DEF SealOK, ReadOnce, Dead, Holds, Version
    <3>4. LoginOK(o)'
      BY <2>1, <3>1 DEF LoginOK, Credentials
    <3>5. QED
      BY <3>2, <3>3, <3>4
  <2>5. QED
    BY <2>2, <2>3, <2>4 DEF SshIInv
<1>8. QED
  BY <1>1, <1>2, <1>3, <1>4, <1>5, <1>6, <1>7 DEF SshNext, DirectoryStep

\* A login is made with one version of the profile, the sealed one, however the
\* operator's commands and the reads of any number of operations interleave, and the
\* password is on disk only while its ssh runs.
THEOREM LoginsAndPasswords == SshSpec => []SshInv
<1>1. SshIInv => SshInv
  BY DEF SshIInv, SshTypeOK, LoginOK, SshInv, LoginIsOfOneProfile, PasswordsAreNotLeft
<1>2. QED
  BY <1>1, SshInitOK, SshNextOK, PTL DEF SshSpec
=============================================================================
