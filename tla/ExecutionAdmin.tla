---------------------------- MODULE ExecutionAdmin ----------------------------
(***************************************************************************)
(* The live execution policy and the admin service that rewrites it        *)
(* (execution-broker/src/broker/admin.py).  The policy is three bind-      *)
(* mounted files that brokers, approver and plugin reread on every call:   *)
(* the enabled features, the authorised users and the policy generation.   *)
(*                                                                         *)
(* _atomic_write opens the file with O_TRUNC and then writes it: two       *)
(* system calls, with every reader able to run in between.  A truncated    *)
(* features or users file reads as the empty set, and a truncated          *)
(* generation file reads as generation 0, so a file is modelled by the     *)
(* value its readers parse.                                                *)
(*                                                                         *)
(* The admin endpoint is a ThreadingHTTPServer: every request is a thread  *)
(* and nothing orders their reads and writes of the same file.             *)
(***************************************************************************)
EXTENDS Integers

CONSTANTS
    Feature,            \* "local", "docker", "ssh"
    User,               \* numeric Telegram ids in TELEGRAM_ALLOWED_USERS
    Admin,              \* request threads of the admin service
    InitialGeneration,  \* what install.sh or an earlier history left in the file
    MaxMutations        \* bound: policy mutations started

ASSUME GenerationAssumption == InitialGeneration \in Nat

VARIABLES
    features,    \* EXECUTION_FEATURES_FILE, as its readers parse it
    users,       \* the execution approvers file, as its readers parse it
    generation,  \* EXECUTION_POLICY_GENERATION_FILE, as its readers parse it
    mutation,    \* thread -> the progress of the request it serves
    mutations    \* how many requests were started, for the bound

adminVars == <<features, users, generation, mutation, mutations>>

\* replace_bot_token and rotate_control_secret write a secret whose content
\* nothing here depends on; their target is "secret".
Targets == {"features", "users", "secret"}

\* The payload is valid: features are members of ALLOWED_FEATURES and users
\* members of the allowed users.
Payload(target) ==
    CASE target = "features" -> SUBSET Feature
      [] target = "users"    -> SUBSET User
      [] target = "secret"   -> {{}}

Values == (SUBSET Feature) \cup (SUBSET User)

Idle == [step |-> "idle", target |-> "secret", value |-> {}, next |-> 0]

Mutation == [step : {"idle", "truncated", "written", "read", "bumping"},
             target : Targets, value : Values, next : Nat]

AdminTypeOK ==
    /\ features \subseteq Feature
    /\ users \subseteq User
    /\ generation \in Nat
    /\ mutation \in [Admin -> Mutation]
    /\ \A a \in Admin : mutation[a].value \in Payload(mutation[a].target)
    /\ mutations \in Nat

AdminInit ==
    /\ features = Feature
    /\ users = User
    /\ generation = InitialGeneration
    /\ mutation = [a \in Admin |-> Idle]
    /\ mutations = 0

-----------------------------------------------------------------------------

\* What opening the target with O_TRUNC and writing v to it leave there.  A
\* file that is not empty when it is written was written by another thread
\* since this one truncated it: the shorter text overlays the longer one.
Truncate(target) ==
    /\ features' = IF target = "features" THEN {} ELSE features
    /\ users' = IF target = "users" THEN {} ELSE users

Overlay(old, v) == IF old = {} THEN {v} ELSE SUBSET (old \cup v)

WriteContent(target, v) ==
    /\ IF target = "features" THEN features' \in Overlay(features, v)
                              ELSE features' = features
    /\ IF target = "users" THEN users' \in Overlay(users, v)
                           ELSE users' = users

StartMutation(a, target, v) ==
    /\ mutation[a].step = "idle"
    /\ mutations < MaxMutations
    /\ v \in Payload(target)
    /\ mutations' = mutations + 1
    /\ Truncate(target)
    /\ mutation' = [mutation EXCEPT ![a] =
            [step |-> "truncated", target |-> target, value |-> v, next |-> 0]]
    /\ UNCHANGED generation

WriteTarget(a) ==
    /\ mutation[a].step = "truncated"
    /\ WriteContent(mutation[a].target, mutation[a].value)
    /\ mutation' = [mutation EXCEPT ![a].step = "written"]
    /\ UNCHANGED <<generation, mutations>>

\* _bump_generation is a read, a truncation and a write.
ReadGeneration(a) ==
    /\ mutation[a].step = "written"
    /\ mutation' = [mutation EXCEPT ![a].step = "read",
                                    ![a].next = generation + 1]
    /\ UNCHANGED <<features, users, generation, mutations>>

TruncateGeneration(a) ==
    /\ mutation[a].step = "read"
    /\ generation' = 0
    /\ mutation' = [mutation EXCEPT ![a].step = "bumping"]
    /\ UNCHANGED <<features, users, mutations>>

\* A bump that writes back the value it read.
WriteSameGeneration(a) ==
    /\ mutation[a].step = "bumping"
    /\ generation' = mutation[a].next - 1
    /\ mutation' = [mutation EXCEPT ![a] = Idle]
    /\ UNCHANGED <<features, users, mutations>>

WriteGeneration(a) ==
    /\ mutation[a].step = "bumping"
    /\ generation' = mutation[a].next
    /\ mutation' = [mutation EXCEPT ![a] = Idle]
    /\ UNCHANGED <<features, users, mutations>>

\* A write raises OSError (the disk is full, the file is not writable), which ends
\* only the request of its own thread: the next step of it does not come.
MutationFails(a) ==
    /\ mutation[a].step # "idle"
    /\ mutation' = [mutation EXCEPT ![a] = Idle]
    /\ UNCHANGED <<features, users, generation, mutations>>

\* The service dies, wherever its requests are.
AdminRestart ==
    /\ mutation' = [a \in Admin |-> Idle]
    /\ UNCHANGED <<features, users, generation, mutations>>

AdminStep(a) ==
    \/ \E target \in Targets, v \in Values : StartMutation(a, target, v)
    \/ WriteTarget(a)
    \/ ReadGeneration(a)
    \/ TruncateGeneration(a)
=============================================================================
