---------------------------- MODULE RuntimeSettings ----------------------------
(***************************************************************************)
(* The settings an operator changes while the router runs: each replica    *)
(* keeps its own values in memory, and the rows of v55_runtime_settings    *)
(* override the environment when a replica starts                          *)
(* (smart_router/control_plane.py, system_api).  The handler reads the     *)
(* body first and then runs without an await, but every row is a           *)
(* transaction of its own: replicas interleave between them, and a replica *)
(* may die there.                                                          *)
(***************************************************************************)
EXTENDS Sequences

CONSTANTS
    Replica,
    Body,       \* the bodies of a PUT: key -> value, "wrong" for one not allowed
    HasRedis,   \* replica -> whether SMART_ROUTER_REDIS_URL is set for it
    NoSetting   \* no row; a key the body leaves out

Key == {"router_mode", "router_policy", "ha_mode"}
Environment == [router_mode |-> "observe", router_policy |-> "heuristic", ha_mode |-> "off"]

VARIABLES
    row,       \* key -> the value recorded, or NoSetting
    memory,    \* replica -> key -> the value it runs with
    request,   \* replica -> [body, left]: the keys still to do, in order
    current    \* history: <<replica, key>> changed by this replica last, or read since

settingVars == <<row, memory, request, current>>

NoRequest == [body |-> [k \in Key |-> NoSetting], left |-> <<>>]

SettingsInit ==
    /\ row = [k \in Key |-> NoSetting]
    /\ memory = [r \in Replica |-> Environment]
    /\ request = [r \in Replica |-> NoRequest]
    /\ current = Replica \X Key

Effective(k) == IF row[k] = NoSetting THEN Environment[k] ELSE row[k]
Serving(r) == request[r].left # <<>>

Allowable(r, k, v) == v # "wrong" /\ (k = "ha_mode" /\ v = "on" => HasRedis[r])

-----------------------------------------------------------------------------
PutSettings(r, body) ==
    /\ ~Serving(r)
    /\ request' = [request EXCEPT ![r] =
          [body |-> body, left |-> <<"router_mode", "router_policy", "ha_mode">>]]
    /\ UNCHANGED <<row, memory, current>>

\* The values of a key: passed over, refused with a 422 that leaves what was
\* done before it, or set in memory and recorded.
NextSetting(r) ==
    /\ Serving(r)
    /\ LET k == Head(request[r].left)
           v == request[r].body[k]
       IN  /\ request' = [request EXCEPT ![r] =
                 IF v # NoSetting /\ ~Allowable(r, k, v) THEN NoRequest
                 ELSE [request[r] EXCEPT !.left = Tail(@)]]
           /\ IF v # NoSetting /\ Allowable(r, k, v)
              THEN /\ memory' = [memory EXCEPT ![r][k] = v]
                   /\ row' = [row EXCEPT ![k] = v]
                   /\ current' = (current \ (Replica \X {k})) \cup {<<r, k>>}
              ELSE UNCHANGED <<row, memory, current>>

\* Mutant: of what DELETE resets, one row stays.
AllButHA == {"router_mode", "router_policy"}
Resettable == Key

ResetSettings(r) ==
    /\ ~Serving(r)
    /\ row' = [k \in Key |-> IF k \in Resettable THEN NoSetting ELSE row[k]]
    /\ memory' = [memory EXCEPT ![r] = Environment]
    /\ current' = {r} \X Key
    /\ UNCHANGED request

StartReplica(r) ==
    /\ memory' = [memory EXCEPT ![r] = [k \in Key |-> Effective(k)]]
    /\ request' = [request EXCEPT ![r] = NoRequest]
    /\ current' = current \cup ({r} \X Key)
    /\ UNCHANGED row

SettingsNext ==
    \E r \in Replica :
       \/ \E body \in Body : PutSettings(r, body)
       \/ NextSetting(r)
       \/ ResetSettings(r)
       \/ StartReplica(r)

SettingsSpec == SettingsInit /\ [][SettingsNext]_settingVars

-----------------------------------------------------------------------------
(* What an operator sees take effect survives a restart: a replica that    *)
(* changed a setting last, or started since, runs with the recorded value, *)
(* or with the environment's if none is recorded, also where a later key   *)
(* of the same request was refused.                                        *)
SettingsAreRecorded ==
    \A r \in Replica, k \in Key : <<r, k>> \in current => memory[r][k] = Effective(k)
=============================================================================
