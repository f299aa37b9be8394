-------------------------- MODULE ControlPlaneProofs --------------------------
(***************************************************************************)
(* The rows of the control plane under concurrent requests: what an        *)
(* operator set survives a restart, for any number of replicas; links and  *)
(* columns of agents, for any number of agents and requests; sign-outs and *)
(* external identities, for any number of users, tokens and seconds; the   *)
(* active version of a prompt, access rules, and the chunks and vectors of *)
(* knowledge bases, for any number of each.                                *)
(***************************************************************************)
EXTENDS RuntimeSettings, AgentRegistry, SignIn, PromptVersions, AccessRules,
        KnowledgeIndex, FiniteSetTheorems, TLAPS

(* Settings *)

Bodied == Body \cup {NoRequest.body}
Request == [body : Bodied, left : Seq(Key)]

SettingsTypeOK ==
    /\ row = [k \in Key |-> row[k]]
    /\ memory = [r \in Replica |-> [k \in Key |-> memory[r][k]]]
    /\ request \in [Replica -> Request]
    /\ current \subseteq Replica \X Key

SettingsIInv == SettingsTypeOK /\ SettingsAreRecorded

LEMMA NoRequestOK == NoRequest \in Request
  BY DEF NoRequest, Request, Bodied, Key

LEMMA OneLess ==
    ASSUME NEW q \in Request, q.left # <<>>
    PROVE  [q EXCEPT !.left = Tail(q.left)] \in Request
<1>1. PICK body \in Bodied, left \in Seq(Key) : q = [body |-> body, left |-> left]
  BY DEF Request
<1>2. left # <<>> /\ Tail(left) \in Seq(Key)
  BY <1>1
<1>3. QED
  BY <1>1, <1>2 DEF Request

LEMMA SettingsInitOK == SettingsInit => SettingsIInv
<1> SUFFICES ASSUME SettingsInit PROVE SettingsIInv
  OBVIOUS
<1>1. Environment = [k \in Key |-> Environment[k]]
  BY DEF Environment, Key
<1>2. SettingsTypeOK
  BY <1>1, NoRequestOK DEF SettingsInit, SettingsTypeOK
<1>3. SettingsAreRecorded
  BY DEF SettingsInit, SettingsAreRecorded, Effective
<1>4. QED
  BY <1>2, <1>3 DEF SettingsIInv

\* A key of a request: what is set is recorded in the same turn.
LEMMA NextSettingOK ==
    ASSUME SettingsIInv, NEW r \in Replica, NextSetting(r)
    PROVE  SettingsIInv'
<1> USE DEF SettingsIInv, SettingsTypeOK
<1>1. PICK k \in Key : k = Head(request[r].left)
  BY DEF NextSetting, Serving, Request
<1>2. PICK v : v = request[r].body[k]
  OBVIOUS
<1>3. request' \in [Replica -> Request]
  <2>1. request[r] \in Request /\ request[r].left # <<>>
    BY DEF NextSetting, Serving
  <2>2. [request[r] EXCEPT !.left = Tail(request[r].left)] \in Request
    BY <2>1, OneLess
  <2>3. request' = [request EXCEPT ![r] =
            IF v # NoSetting /\ ~Allowable(r, k, v) THEN NoRequest
            ELSE [request[r] EXCEPT !.left = Tail(request[r].left)]]
    BY <1>1, <1>2 DEF NextSetting
  <2>4. QED
    BY <2>2, <2>3, NoRequestOK
<1>4. CASE v # NoSetting /\ Allowable(r, k, v)
  <2>1. /\ memory' = [memory EXCEPT ![r][k] = v]
        /\ row' = [row EXCEPT ![k] = v]
        /\ current' = (current \ (Replica \X {k})) \cup {<<r, k>>}
    BY <1>1, <1>2, <1>4 DEF NextSetting
  <2>2. /\ memory' = [s \in Replica |-> [j \in Key |-> memory'[s][j]]]
        /\ memory'[r][k] = v
        /\ \A s \in Replica, j \in Key : <<s, j>> # <<r, k>> => memory'[s][j] = memory[s][j]
    BY <2>1
  <2>3. /\ row' = [j \in Key |-> row'[j]]
        /\ row'[k] = v /\ \A j \in Key : j # k => row'[j] = row[j]
    BY <2>1
  <2>4. current' \subseteq Replica \X Key
    BY <2>1
  <2>5. SettingsAreRecorded'
    BY <1>4, <2>1, <2>2, <2>3 DEF SettingsAreRecorded, Effective
  <2>6. QED
    BY <1>3, <2>2, <2>3, <2>4, <2>5
<1>5. CASE ~(v # NoSetting /\ Allowable(r, k, v))
  <2>1. UNCHANGED <<row, memory, current>>
    BY <1>1, <1>2, <1>5 DEF NextSetting
  <2>2. QED
    BY <1>3, <2>1 DEF SettingsAreRecorded, Effective
<1>6. QED
  BY <1>4, <1>5

LEMMA SettingsNextOK == SettingsIInv /\ [SettingsNext]_settingVars => SettingsIInv'
<1> SUFFICES ASSUME SettingsIInv, [SettingsNext]_settingVars PROVE SettingsIInv'
  OBVIOUS
<1> USE DEF SettingsIInv, SettingsTypeOK
<1>1. ASSUME NEW r \in Replica, NEW body \in Body, PutSettings(r, body) PROVE SettingsIInv'
  <2>1. [body |-> body, left |-> <<"router_mode", "router_policy", "ha_mode">>] \in Request
    BY DEF Request, Bodied, Key
  <2>2. QED
    BY <1>1, <2>1 DEF PutSettings, SettingsAreRecorded, Effective
<1>2. ASSUME NEW r \in Replica, NextSetting(r) PROVE SettingsIInv'
  BY <1>2, NextSettingOK
<1>3. ASSUME NEW r \in Replica, ResetSettings(r) PROVE SettingsIInv'
  <2>1. /\ row' = [k \in Key |-> NoSetting] /\ current' = {r} \X Key
        /\ memory' = [memory EXCEPT ![r] = Environment] /\ request' = request
    BY <1>3 DEF ResetSettings, Resettable
  <2>2. Environment = [k \in Key |-> Environment[k]]
    BY DEF Environment, Key
  <2>3. SettingsAreRecorded'
    BY <2>1 DEF SettingsAreRecorded, Effective
  <2>4. QED
    BY <2>1, <2>2, <2>3
<1>4. ASSUME NEW r \in Replica, StartReplica(r) PROVE SettingsIInv'
  <2>1. /\ memory' = [memory EXCEPT ![r] = [k \in Key |-> Effective(k)]]
        /\ request' = [request EXCEPT ![r] = NoRequest]
        /\ current' = current \cup ({r} \X Key) /\ row' = row
    BY <1>4 DEF StartReplica
  <2>2. \A k \in Key : Effective(k)' = Effective(k)
    BY <2>1 DEF Effective
  <2>3. SettingsAreRecorded'
    BY <2>1, <2>2 DEF SettingsAreRecorded
  <2>4. QED
    BY <2>1, <2>3, NoRequestOK
<1>5. CASE UNCHANGED settingVars
  BY <1>5 DEF settingVars, SettingsAreRecorded, Effective
<1>6. QED
  BY <1>1, <1>2, <1>3, <1>4, <1>5 DEF SettingsNext

\* What takes effect is recorded, whatever bodies the replicas are sent, wherever
\* a body is refused, and whenever a replica starts or dies.
THEOREM SettingsSurvive == SettingsSpec => []SettingsAreRecorded
<1>1. SettingsIInv => SettingsAreRecorded
  BY DEF SettingsIInv
<1>2. QED
  BY <1>1, SettingsInitOK, SettingsNextOK, PTL DEF SettingsSpec

-----------------------------------------------------------------------------
(* The registry *)

RequestsLoaded ==
    \A e \in Editors : edit[e] # NoAgent /\ edit[e].of = "agent" => edit[e].id \in Row

\* The tables' rows, what a request has loaded, and the links.
RegistryOK ==
    /\ resource = [kind \in Kind |-> resource[kind]]
    /\ agent = [id \in Row |-> agent[id]]
    /\ \A id \in Row : agent[id] # NoAgent => DOMAIN agent[id] = Column
    /\ edit = [e \in Editors |-> edit[e]]
    /\ RequestsLoaded
    /\ SkillLinksResolve

LEMMA RegistryInitOK == RegistryInit => RegistryOK
  BY DEF RegistryInit, RegistryOK, RequestsLoaded, SkillLinksResolve

\* A request that ends leaves what the others have loaded.
LEMMA EditEnds ==
    ASSUME RegistryOK, NEW e \in Editors, edit' = [edit EXCEPT ![e] = NoAgent]
    PROVE  /\ edit' = [d \in Editors |-> edit'[d]]
           /\ RequestsLoaded'
  BY DEF RegistryOK, RequestsLoaded

LEMMA LoadKeeps ==
    ASSUME RegistryOK, NEW e \in Editors,
           NEW of \in {"agent", "team"}, NEW id, of = "agent" => id \in Row, NEW loaded,
           edit' = [edit EXCEPT ![e] = [of |-> of, id |-> id, row |-> loaded]]
    PROVE  /\ edit' = [d \in Editors |-> edit'[d]]
           /\ RequestsLoaded'
  BY DEF RegistryOK, RequestsLoaded

LEMMA UpdateAgentOK ==
    ASSUME RegistryOK, NEW e \in Editors, NEW body, UpdateAgent(e, body)
    PROVE  RegistryOK'
<1> USE DEF RegistryOK, RequestsLoaded
<1>1. PICK id \in Row : id = edit[e].id
  BY DEF UpdateAgent
<1>2. PICK merged : merged = Merged(edit[e].row, body)
  OBVIOUS
<1>3. PICK changed : changed = Changed(edit[e].row, merged)
  OBVIOUS
<1>4. /\ resource' = resource /\ edit' = [edit EXCEPT ![e] = NoAgent]
  BY DEF UpdateAgent
<1>5. edit' = [d \in Editors |-> edit'[d]] /\ RequestsLoaded'
  BY <1>4, EditEnds
<1>6. CASE Exist(merged) /\ (changed = {} \/ agent[id] # NoAgent)
  <2>1. /\ agent' = IF changed = {} THEN agent
                    ELSE [agent EXCEPT ![id] =
                             [c \in DOMAIN agent[id] |->
                                IF c \in changed THEN merged[c] ELSE agent[id][c]]]
        /\ link' = (link \ LinksOf(id)) \cup ({id} \X merged["skill"])
    BY <1>1, <1>2, <1>3, <1>6 DEF UpdateAgent
  <2>2. merged["skill"] \subseteq resource["skill"]
    BY <1>6 DEF Exist, Kind
  <2>3. SkillLinksResolve'
    BY <1>4, <2>1, <2>2 DEF SkillLinksResolve
  <2>4. /\ agent' = [i \in Row |-> agent'[i]]
        /\ \A i \in Row : agent'[i] # NoAgent => DOMAIN agent'[i] = Column
    BY <1>6, <2>1
  <2>5. QED
    BY <1>4, <1>5, <2>3, <2>4 DEF RequestsLoaded
<1>7. CASE ~(Exist(merged) /\ (changed = {} \/ agent[id] # NoAgent))
  <2>1. UNCHANGED <<agent, link>>
    BY <1>1, <1>2, <1>3, <1>7 DEF UpdateAgent
  <2>2. QED
    BY <1>4, <1>5, <2>1 DEF RequestsLoaded, SkillLinksResolve
<1>8. QED
  BY <1>6, <1>7

\* A column that the body does not name has the value the request loaded, which is
\* then not written.
LEMMA UnnamedKept ==
    ASSUME RegistryOK, NEW e \in Editors, NEW body, UpdateAgent(e, body),
           NEW id \in Row, NEW c \in Column \ DOMAIN body.given, agent[id] # NoAgent
    PROVE  agent'[id][c] = agent[id][c]
<1>1. PICK at \in Row : at = edit[e].id
  BY DEF UpdateAgent, RegistryOK, RequestsLoaded
<1>2. PICK merged : merged = Merged(edit[e].row, body)
  OBVIOUS
<1>3. PICK changed : changed = Changed(edit[e].row, merged)
  OBVIOUS
<1>4. merged[c] = edit[e].row[c] /\ c # "skill"
  BY <1>2 DEF Merged, Column
<1>5. c \notin changed
  BY <1>3, <1>4 DEF Changed
<1>6. \/ agent' = agent
      \/ agent' = [agent EXCEPT ![at] =
                     [d \in DOMAIN agent[at] |-> IF d \in changed THEN merged[d] ELSE agent[at][d]]]
  BY <1>1, <1>2, <1>3 DEF UpdateAgent
<1>7. DOMAIN agent[id] = Column /\ agent = [i \in Row |-> agent[i]]
  BY DEF RegistryOK
<1>8. QED
  BY <1>5, <1>6, <1>7

LEMMA RegistryNextOK ==
    RegistryOK /\ [RegistryNext]_agentVars => RegistryOK'
<1> SUFFICES ASSUME RegistryOK, [RegistryNext]_agentVars PROVE RegistryOK'
  OBVIOUS
<1> USE DEF RegistryOK, RequestsLoaded, SkillLinksResolve
<1>1. ASSUME NEW kind \in Kind, CreateResource(kind) PROVE RegistryOK'
  <2>1. PICK id : resource' = [resource EXCEPT ![kind] = resource[kind] \cup {id}]
    BY <1>1 DEF CreateResource
  <2>2. resource' = [k \in Kind |-> resource'[k]] /\ resource["skill"] \subseteq resource'["skill"]
    BY <2>1 DEF Kind
  <2>3. QED
    BY <1>1, <2>2 DEF CreateResource
<1>2. ASSUME NEW kind \in Kind, NEW id \in resource[kind], DeleteResource(kind, id)
      PROVE  RegistryOK'
  <2>1. /\ resource' = [resource EXCEPT ![kind] = resource[kind] \ {id}]
        /\ link' = LinksWithout(kind, id) /\ UNCHANGED <<agent, edit>>
    BY <1>2 DEF DeleteResource
  <2>2. /\ resource' = [k \in Kind |-> resource'[k]]
        /\ resource'["skill"] =
              IF kind = "skill" THEN resource["skill"] \ {id} ELSE resource["skill"]
    BY <2>1 DEF Kind
  <2>3. link' \subseteq Row \X resource'["skill"]
    BY <2>1, <2>2 DEF LinksWithout
  <2>4. QED
    BY <2>1, <2>2, <2>3
<1>3. ASSUME NEW id \in resource["skill"], SwitchSkill(id) PROVE RegistryOK'
  BY <1>3 DEF SwitchSkill
<1>4. ASSUME NEW given, CreateAgent(given) PROVE RegistryOK'
  <2>1. PICK id \in Row :
          /\ agent' = [agent EXCEPT ![id] = [active |-> TRUE, knowledge |-> given["knowledge"],
                                             plugin |-> given["plugin"]]]
          /\ link' \in {link, link \cup ({id} \X given["skill"])}
    BY <1>4 DEF CreateAgent, NumberAfter, Row
  <2>2. given["skill"] \subseteq resource["skill"]
    BY <1>4 DEF CreateAgent, Exist, Kind
  <2>3. UNCHANGED <<resource, edit>>
    BY <1>4 DEF CreateAgent
  <2>4. link' \subseteq Row \X resource["skill"]
    BY <2>1, <2>2
  <2>5. /\ agent' = [i \in Row |-> agent'[i]]
        /\ \A i \in Row : agent'[i] # NoAgent => DOMAIN agent'[i] = Column
    BY <2>1 DEF Column
  <2>6. QED
    BY <2>3, <2>4, <2>5
<1>5. ASSUME NEW id \in Row, DisableAgent(id) PROVE RegistryOK'
  BY <1>5 DEF DisableAgent
<1>6. ASSUME NEW id \in Row, PurgeAgent(id) PROVE RegistryOK'
  BY <1>6 DEF PurgeAgent
<1>7. ASSUME NEW e \in Editors, NEW id \in Row, LoadAgent(e, id) PROVE RegistryOK'
  <2>1. edit' = [edit EXCEPT ![e] = [of |-> "agent", id |-> id, row |-> agent[id]]]
    BY <1>7 DEF LoadAgent
  <2>2. edit' = [d \in Editors |-> edit'[d]] /\ RequestsLoaded'
    BY <2>1, LoadKeeps
  <2>3. QED
    BY <1>7, <2>2 DEF LoadAgent, RequestsLoaded
<1>8. ASSUME NEW e \in Editors, NEW body, UpdateAgent(e, body) PROVE RegistryOK'
  BY <1>8, UpdateAgentOK
<1>9. ASSUME NEW members, CreateTeam(members) PROVE RegistryOK'
  BY <1>9 DEF CreateTeam
<1>10. ASSUME NEW id, DeleteTeam(id) PROVE RegistryOK'
  BY <1>10 DEF DeleteTeam
<1>11. ASSUME NEW e \in Editors, NEW id, LoadTeam(e, id) PROVE RegistryOK'
  <2>1. edit' = [edit EXCEPT ![e] = [of |-> "team", id |-> id, row |-> team[id]]]
    BY <1>11 DEF LoadTeam
  <2>2. edit' = [d \in Editors |-> edit'[d]] /\ RequestsLoaded'
    BY <2>1, LoadKeeps
  <2>3. QED
    BY <1>11, <2>2 DEF LoadTeam, RequestsLoaded
<1>12. ASSUME NEW e \in Editors, NEW body \in TeamBody, UpdateTeam(e, body) PROVE RegistryOK'
  <2>1. edit' = [edit EXCEPT ![e] = NoAgent] /\ UNCHANGED <<resource, agent, link>>
    BY <1>12 DEF UpdateTeam
  <2>2. edit' = [d \in Editors |-> edit'[d]] /\ RequestsLoaded'
    BY <2>1, EditEnds
  <2>3. QED
    BY <2>1, <2>2 DEF RequestsLoaded
<1>13. CASE UNCHANGED agentVars
  BY <1>13 DEF agentVars
<1>14. QED
  BY <1>1, <1>2, <1>3, <1>4, <1>5, <1>6, <1>7, <1>8, <1>9, <1>10, <1>11, <1>12, <1>13
     DEF RegistryNext

\* Links lead to skills that are there, and a PUT keeps the columns its body does
\* not name, whatever requests overlap.
THEOREM RegistryConsistent == RegistrySpec => RegistryHolds
<1>1. RegistryOK /\ [RegistryNext]_agentVars /\ RegistryOK'
          => [SkillLinksResolve' /\ UnnamedColumnsStay]_agentVars
  <2>1. RegistryOK => UnnamedColumnsStay
    BY UnnamedKept DEF UnnamedColumnsStay
  <2>2. RegistryOK' => SkillLinksResolve'
    BY DEF RegistryOK
  <2>3. QED
    BY <2>1, <2>2
<1>2. QED
  BY <1>1, RegistryInitOK, RegistryNextOK, PTL DEF RegistrySpec, RegistryHolds

-----------------------------------------------------------------------------
(* Sign-in *)

UserRecord == [name : Username, role : Role, active : BOOLEAN, origin : Subject \cup {Local}]

SignInTypeOK ==
    /\ now \in Nat
    /\ user \in [UserRow -> UserRecord \cup {NoUser}]
    /\ identity \in [Subject -> UserRow \cup {NoUser}]
    /\ \A t \in issued : t.exp \in Nat
    /\ signedOut \subseteq issued

\* Rows are given out in their order and never taken back.
RowsFilled == \E n \in 0 .. MaxUser : Users = 1 .. n

NamesUnique == \A u, v \in Users : user[u].name = user[v].name => u = v

IdentitiesOwn ==
    \A s \in Subject : identity[s] # NoUser =>
        identity[s] \in Users /\ user[identity[s]].origin = s

\* A token that was signed out is on the list, or past its time for good.
Barred == \A t \in signedOut : t \in denied \/ t.exp < now

SignInIInv == SignInTypeOK /\ RowsFilled /\ NamesUnique /\ IdentitiesOwn /\ Barred

LEMMA SignInInitOK == SignInInit => SignInIInv
<1> SUFFICES ASSUME SignInInit PROVE SignInIInv
  OBVIOUS
<1>1. Users = {} /\ 0 \in 0 .. MaxUser /\ 1 .. 0 = {}
  BY UserAssumption DEF SignInInit, Users
<1>2. RowsFilled
  BY <1>1 DEF RowsFilled
<1>3. QED
  BY <1>1, <1>2 DEF SignInInit, SignInIInv, SignInTypeOK, NamesUnique, IdentitiesOwn, Barred

\* A new user takes the first row that is free.
LEMMA NewRow ==
    ASSUME RowsFilled, NEW u \in NewUser
    PROVE  u \in UserRow /\ u \notin Users /\ Users \cup {u} = 1 .. u
<1>1. PICK n \in 0 .. MaxUser : Users = 1 .. n
  BY DEF RowsFilled
<1>2. n \in Nat /\ Cardinality(1 .. n) = n
  BY <1>1, FS_Interval, UserAssumption
<1>3. u = n + 1 /\ u \in UserRow
  BY <1>1, <1>2 DEF NewUser
<1>4. QED
  BY <1>1, <1>2, <1>3

\* A user who is added under a free name.
LEMMA UserAdded ==
    ASSUME SignInIInv, NEW u \in NewUser, NEW record \in UserRecord, WithName(record.name) = {},
           user' = [user EXCEPT ![u] = record]
    PROVE  /\ user' \in [UserRow -> UserRecord \cup {NoUser}]
           /\ RowsFilled' /\ NamesUnique'
           /\ Users' = Users \cup {u} /\ u \notin Users
           /\ \A v \in Users : user'[v] = user[v]
           /\ user'[u] = record
<1>1. u \in UserRow /\ u \notin Users /\ Users \cup {u} = 1 .. u
  BY NewRow DEF SignInIInv
<1>2. /\ user' \in [UserRow -> UserRecord \cup {NoUser}]
      /\ user'[u] = record /\ record # NoUser
      /\ \A v \in UserRow : v # u => user'[v] = user[v]
  BY <1>1, UserAssumption DEF SignInIInv, SignInTypeOK, UserRecord
<1>3. Users' = Users \cup {u}
  BY <1>1, <1>2 DEF Users
<1>4. \A v \in Users : user'[v] = user[v] /\ user[v].name # record.name
  BY <1>1, <1>2 DEF Users, WithName
<1>5. NamesUnique'
  BY <1>2, <1>3, <1>4 DEF NamesUnique, SignInIInv
<1>6. RowsFilled'
  BY <1>1, <1>3, UserAssumption DEF RowsFilled, UserRow
<1>7. QED
  BY <1>1, <1>2, <1>3, <1>4, <1>5, <1>6

LEMMA RecordChanged ==
    ASSUME NEW r \in UserRecord, NEW role \in Role, NEW active \in BOOLEAN
    PROVE  /\ [r EXCEPT !.role = role, !.active = active] \in UserRecord
           /\ [r EXCEPT !.role = role, !.active = active].name = r.name
           /\ [r EXCEPT !.role = role, !.active = active].origin = r.origin
           /\ [r EXCEPT !.role = role] \in UserRecord
           /\ [r EXCEPT !.role = role].name = r.name
           /\ [r EXCEPT !.role = role].origin = r.origin
  BY DEF UserRecord

\* A user whose role, or whether he is active, is changed.
LEMMA UserChanged ==
    ASSUME SignInIInv, NEW u \in Users, NEW role \in Role, NEW active \in BOOLEAN,
           user' = [user EXCEPT ![u] = [user[u] EXCEPT !.role = role, !.active = active]]
               \/ user' = [user EXCEPT ![u].role = role],
           identity' = identity
    PROVE  /\ user' \in [UserRow -> UserRecord \cup {NoUser}]
           /\ RowsFilled' /\ NamesUnique' /\ IdentitiesOwn'
<1>1. u \in UserRow /\ user = [v \in UserRow |-> user[v]] /\ user[u] \in UserRecord
  BY DEF Users, SignInIInv, SignInTypeOK
<1>2. PICK record \in UserRecord :
        /\ user' = [user EXCEPT ![u] = record]
        /\ record.name = user[u].name /\ record.origin = user[u].origin
  <2>1. CASE user' = [user EXCEPT ![u] = [user[u] EXCEPT !.role = role, !.active = active]]
    <3>1. PICK record : record = [user[u] EXCEPT !.role = role, !.active = active]
      OBVIOUS
    <3>2. record \in UserRecord /\ record.name = user[u].name /\ record.origin = user[u].origin
      BY <1>1, <3>1, RecordChanged
    <3>3. QED
      BY <2>1, <3>1, <3>2, Zenon
  <2>2. CASE user' = [user EXCEPT ![u].role = role]
    <3>1. PICK record : record = [user[u] EXCEPT !.role = role]
      OBVIOUS
    <3>2. record \in UserRecord /\ record.name = user[u].name /\ record.origin = user[u].origin
      BY <1>1, <3>1, RecordChanged
    <3>3. QED
      BY <2>2, <3>1, <3>2, Zenon
  <2>3. QED
    BY <2>1, <2>2
<1>3. /\ user' \in [UserRow -> UserRecord \cup {NoUser}]
      /\ user'[u] = record /\ record # NoUser
      /\ \A v \in UserRow : v # u => user'[v] = user[v]
  BY <1>2, UserAssumption DEF SignInIInv, SignInTypeOK, UserRecord, Users
<1>4. Users' = Users
  BY <1>3 DEF Users
<1>5. \A v \in Users : user'[v].name = user[v].name /\ user'[v].origin = user[v].origin
  BY <1>1, <1>2, <1>3 DEF Users
<1>6. QED
  BY <1>3, <1>4, <1>5 DEF SignInIInv, RowsFilled, NamesUnique, IdentitiesOwn

\* The users stay.
LEMMA UsersStay ==
    ASSUME SignInIInv, user' = user, identity' = identity
    PROVE  /\ user' \in [UserRow -> UserRecord \cup {NoUser}]
           /\ identity' \in [Subject -> UserRow \cup {NoUser}]
           /\ RowsFilled' /\ NamesUnique' /\ IdentitiesOwn'
  BY DEF SignInIInv, SignInTypeOK, RowsFilled, NamesUnique, IdentitiesOwn, Users

LEMMA TokenIssued ==
    ASSUME SignInIInv, NEW u, NEW role, IssueFor(u, role), UNCHANGED <<now, denied, signedOut>>
    PROVE  /\ now' \in Nat /\ \A t \in issued' : t.exp \in Nat
           /\ signedOut' \subseteq issued' /\ Barred'
  BY UserAssumption DEF SignInIInv, SignInTypeOK, IssueFor, Barred

LEMMA TokensStay ==
    ASSUME SignInIInv, UNCHANGED tokenVars, UNCHANGED now
    PROVE  /\ now' \in Nat /\ \A t \in issued' : t.exp \in Nat
           /\ signedOut' \subseteq issued' /\ Barred'
  BY DEF SignInIInv, SignInTypeOK, Barred, tokenVars

LEMMA SignInFirstOK ==
    ASSUME SignInIInv, NEW s \in Subject, NEW wanted \in Wanted, NEW role \in Role,
           SignInFirst(s, wanted, role)
    PROVE  SignInIInv'
<1>1. PICK name \in FreeName(wanted) :
        \E u \in IF WithName(name) = {} THEN NewUser ELSE WithName(name) :
             /\ user' = IF u \in Users THEN user
                        ELSE [user EXCEPT ![u] =
                                 [name |-> name, role |-> role, active |-> TRUE, origin |-> s]]
             /\ identity' = [identity EXCEPT ![s] = u]
             /\ IssueFor(u, role)
  BY Zenon DEF SignInFirst
<1>2. name \in Username /\ WithName(name) = {}
  <2>1. PICK n \in UserRow : name = <<wanted, n>> /\ WithName(<<wanted, n>>) = {}
    BY Zenon DEF FreeName
  <2>2. name \in Username
    BY <2>1 DEF Username
  <2>3. QED
    BY <2>1, <2>2
<1>3. PICK u \in NewUser :
             /\ user' = IF u \in Users THEN user
                        ELSE [user EXCEPT ![u] =
                                 [name |-> name, role |-> role, active |-> TRUE, origin |-> s]]
             /\ identity' = [identity EXCEPT ![s] = u]
             /\ IssueFor(u, role)
  BY <1>1, <1>2
<1>4. PICK record \in UserRecord :
         record = [name |-> name, role |-> role, active |-> TRUE, origin |-> s]
  BY <1>2 DEF UserRecord
<1>5. u \in UserRow /\ u \notin Users
  BY NewRow DEF SignInIInv
<1>6. /\ user' = [user EXCEPT ![u] = record]
      /\ record.name = name /\ record.origin = s
  BY <1>3, <1>4, <1>5
<1>7. /\ user' \in [UserRow -> UserRecord \cup {NoUser}]
      /\ RowsFilled' /\ NamesUnique'
      /\ Users' = Users \cup {u}
      /\ \A v \in Users : user'[v] = user[v]
      /\ user'[u] = record
  BY <1>2, <1>6, UserAdded
<1>8. identity' \in [Subject -> UserRow \cup {NoUser}]
  BY <1>3, <1>5 DEF SignInIInv, SignInTypeOK
<1>9. IdentitiesOwn'
  BY <1>3, <1>6, <1>7 DEF SignInIInv, SignInTypeOK, IdentitiesOwn
<1>10. UNCHANGED <<now, denied, signedOut>>
  BY DEF SignInFirst
<1>11. /\ now' \in Nat /\ \A t \in issued' : t.exp \in Nat
       /\ signedOut' \subseteq issued' /\ Barred'
  BY <1>3, <1>10, TokenIssued
<1>12. QED
  BY <1>7, <1>8, <1>9, <1>11 DEF SignInIInv, SignInTypeOK

LEMMA SignInNextOK == SignInIInv /\ [SignInNext]_signInVars => SignInIInv'
<1> SUFFICES ASSUME SignInIInv, [SignInNext]_signInVars PROVE SignInIInv'
  OBVIOUS
<1>1. CASE Tick
  <2>1. /\ now' \in Nat /\ now' > now /\ UNCHANGED <<user, identity, issued, denied, signedOut>>
    BY <1>1 DEF Tick, tokenVars, SignInIInv, SignInTypeOK
  <2>2. Barred' /\ signedOut' \subseteq issued' /\ \A t \in issued' : t.exp \in Nat
    BY <2>1 DEF SignInIInv, SignInTypeOK, Barred
  <2>3. QED
    BY <2>1, <2>2, UsersStay DEF SignInIInv, SignInTypeOK
<1>2. ASSUME NEW name \in Username, NEW role \in Role, CreateUser(name, role) PROVE SignInIInv'
  <2>1. PICK record \in UserRecord :
           record = [name |-> name, role |-> role, active |-> TRUE, origin |-> Local]
    BY DEF UserRecord
  <2>2. PICK u \in NewUser : user' = [user EXCEPT ![u] = record]
    BY <1>2, <2>1 DEF CreateUser
  <2>3. /\ WithName(record.name) = {} /\ identity' = identity
        /\ UNCHANGED tokenVars /\ UNCHANGED now
    BY <1>2, <2>1 DEF CreateUser
  <2>4. /\ user' \in [UserRow -> UserRecord \cup {NoUser}]
        /\ RowsFilled' /\ NamesUnique'
        /\ Users' = Users \cup {u} /\ \A v \in Users : user'[v] = user[v]
    BY <2>2, <2>3, UserAdded
  <2>5. IdentitiesOwn'
    BY <2>3, <2>4 DEF SignInIInv, IdentitiesOwn
  <2>6. QED
    BY <2>3, <2>4, <2>5, TokensStay DEF SignInIInv, SignInTypeOK
<1>3. ASSUME NEW u \in UserRow, NEW role \in Role, NEW active \in BOOLEAN,
             UpdateUser(u, role, active)
      PROVE  SignInIInv'
  <2>1. /\ u \in Users
        /\ user' = [user EXCEPT ![u] = [user[u] EXCEPT !.role = role, !.active = active]]
        /\ identity' = identity /\ UNCHANGED tokenVars /\ UNCHANGED now
    BY <1>3 DEF UpdateUser
  <2>2. QED
    BY <2>1, UserChanged, TokensStay DEF SignInIInv, SignInTypeOK
<1>4. ASSUME NEW u \in UserRow, SignIn(u) PROVE SignInIInv'
  <2>1. IssueFor(u, user[u].role) /\ UNCHANGED <<now, user, identity, denied, signedOut>>
    BY <1>4 DEF SignIn
  <2>2. QED
    BY <2>1, UsersStay, TokenIssued DEF SignInIInv, SignInTypeOK
<1>5. ASSUME NEW s \in Subject, NEW role \in Role, SignInAgain(s, role) PROVE SignInIInv'
  <2>1. PICK u \in Users : u = identity[s]
    BY <1>5 DEF SignInAgain, SignInIInv, IdentitiesOwn
  <2>2. /\ user' = [user EXCEPT ![u].role = role] /\ IssueFor(u, role)
        /\ identity' = identity /\ UNCHANGED <<now, denied, signedOut>>
    BY <1>5, <2>1 DEF SignInAgain
  <2>3. /\ user' \in [UserRow -> UserRecord \cup {NoUser}]
        /\ RowsFilled' /\ NamesUnique' /\ IdentitiesOwn'
    BY <2>2, UserChanged
  <2>4. QED
    BY <2>2, <2>3, TokenIssued DEF SignInIInv, SignInTypeOK
<1>6. ASSUME NEW s \in Subject, NEW wanted \in Wanted, NEW role \in Role,
             SignInFirst(s, wanted, role)
      PROVE  SignInIInv'
  BY <1>6, SignInFirstOK
<1>7. ASSUME NEW t \in issued, SignOut(t) PROVE SignInIInv'
  <2>1. /\ denied' = (denied \cup {t}) \ {x \in denied \cup {t} : x.exp < now}
        /\ signedOut' = signedOut \cup {t}
        /\ UNCHANGED <<now, user, identity, issued>>
    BY <1>7 DEF SignOut, Expired
  <2>2. Barred' /\ signedOut' \subseteq issued'
    BY <2>1 DEF SignInIInv, SignInTypeOK, Barred
  <2>3. QED
    BY <2>1, <2>2, UsersStay DEF SignInIInv, SignInTypeOK
<1>8. CASE UNCHANGED signInVars
  <2>1. /\ user' = user /\ identity' = identity /\ UNCHANGED tokenVars /\ UNCHANGED now
    BY <1>8 DEF signInVars, tokenVars
  <2>2. QED
    BY <2>1, UsersStay, TokensStay DEF SignInIInv, SignInTypeOK
<1>9. QED
  BY <1>1, <1>2, <1>3, <1>4, <1>5, <1>6, <1>7, <1>8 DEF SignInNext

\* A signed-out token stays out although the deny list forgets it, and an external
\* identity has a user of its own, for any number of users, names and seconds.
THEOREM SignInCorrect == SignInSpec => []SignInInv
<1>1. SignInIInv => SignInInv
  BY DEF SignInIInv, SignInTypeOK, Barred, NamesUnique, IdentitiesOwn, SignInInv,
         SignedOutStaysOut, Accepted, SubjectsHaveTheirOwnUser
<1>2. QED
  BY <1>1, SignInInitOK, SignInNextOK, PTL DEF SignInSpec

-----------------------------------------------------------------------------
(* Greatest and least numbers of a set *)

\* Max of a set of bounded numbers is its greatest one.
LEMMA LargestNumber ==
    ASSUME NEW n \in Nat, NEW T, T \subseteq 0 .. n, T # {}
    PROVE  Max(T) \in T /\ \A y \in T : y <= Max(T)
<1> DEFINE Gap == {n - y : y \in T}
<1>1. Gap \subseteq Nat /\ Gap # {}
  <2>1. \A y \in T : n - y \in Nat
    <3> SUFFICES ASSUME NEW y \in T PROVE n - y \in Nat
      OBVIOUS
    <3>1. y \in 0 .. n
      OBVIOUS
    <3> QED BY <3>1
  <2> QED BY <2>1
<1>2. PICK d \in Gap : \A e \in Gap : ~ (<<e, d>> \in OpToRel(<, Nat))
  <2> HIDE DEF Gap
  <2> QED BY <1>1, NatLessThanWellFounded, WFMin
<1>3. PICK x \in T : d = n - x
  OBVIOUS
<1>4. ASSUME NEW y \in T PROVE x >= y
  <2>1. n - y \in Gap /\ x \in 0 .. n /\ y \in 0 .. n
    OBVIOUS
  <2>2. n - y \in Nat /\ d \in Nat
    BY <2>1, <1>1
  <2>3. ~(n - y < d)
    BY <1>2, <2>1, <2>2 DEF OpToRel
  <2> QED BY <1>3, <2>1, <2>3
<1>5. Max(T) \in T /\ \A y \in T : Max(T) >= y
  <2>1. \E m \in T : \A y \in T : m >= y
    BY <1>4
  <2> QED BY <2>1 DEF Max
<1>6. ASSUME NEW y \in T PROVE y <= Max(T)
  <2>1. y \in 0 .. n /\ Max(T) \in 0 .. n /\ Max(T) >= y
    BY <1>5
  <2> QED BY <2>1
<1> QED BY <1>5, <1>6

\* Min of a nonempty set of numbers is one of them.
LEMMA SmallestNumber ==
    ASSUME NEW T, T \subseteq Nat, T # {}
    PROVE  Min(T) \in T
<1>1. PICK x \in T : \A y \in T : ~ (<<y, x>> \in OpToRel(<, Nat))
  BY NatLessThanWellFounded, WFMin
<1>2. ASSUME NEW y \in T, ~(x <= y) PROVE FALSE
  <2>1. <<y, x>> \in Nat \X Nat /\ y < x
    BY <1>2
  <2>2. <<y, x>> \in OpToRel(<, Nat)
    BY <2>1 DEF OpToRel
  <2> QED BY <1>1, <2>2
<1> QED BY <1>2 DEF Min

-----------------------------------------------------------------------------
(* Versions of a prompt *)

\* A row, and the well-typed states.
Version == [version : 0 .. MaxVersion, active : BOOLEAN]

PromptTypeOK ==
    /\ prompt = [id \in Id |-> prompt[id]] /\ put = [p \in Activation |-> put[p]]
    /\ \A id \in Kept : prompt[id] \in Version
    /\ \A p \in Activation : put[p] # None => put[p].id \in Id

\* No two rows have the same number.
NumbersOwn == \A i, j \in Kept : prompt[i].version = prompt[j].version => i = j

\* Cardinality(Active) <= 1, without counting.
ActiveAlone == \A i, j \in Active : i = j

PromptIInv == PromptTypeOK /\ NumbersOwn /\ ActiveAlone

\* Newest is above the number of every row.
LEMMA NewestIs ==
    ASSUME PromptIInv
    PROVE  Newest \in Nat /\ \A id \in Kept : prompt[id].version <= Newest
<1>1. CASE Kept = {}
  BY <1>1 DEF Newest
<1>2. CASE Kept # {}
  <2> DEFINE T == {prompt[id].version : id \in Kept}
  <2>1. T \subseteq 0 .. MaxVersion /\ T # {}
    BY <1>2 DEF PromptIInv, PromptTypeOK, Version
  <2>2. Newest = Max(T)
    BY <1>2 DEF Newest
  <2>3. \A id \in Kept : prompt[id].version \in T
    OBVIOUS
  <2> HIDE DEF T
  <2>4. Max(T) \in T /\ \A y \in T : y <= Max(T)
    BY <2>1, PromptAssumption, LargestNumber
  <2>5. Max(T) \in Nat
    <3>1. Max(T) \in 0 .. MaxVersion
      BY <2>1, <2>4
    <3> QED BY <3>1
  <2> QED BY <2>2, <2>3, <2>4, <2>5
<1> QED BY <1>1, <1>2

\* Retiring a row keeps its number.
LEMMA RetiredIs ==
    ASSUME PromptIInv, NEW id \in Id, Retired(id) # None
    PROVE  /\ id \in Kept /\ Retired(id) \in Version
           /\ Retired(id).version = prompt[id].version /\ ~Retired(id).active
BY DEF Retired, Kept, PromptIInv, PromptTypeOK, Version

\* Every step keeps it: a POST takes a number above all, and it and a PUT retire every
\* row but their own, whatever the PUT loaded.
LEMMA PromptStep == PromptIInv /\ [PromptNext]_promptVars => PromptIInv'
<1> SUFFICES ASSUME PromptIInv, [PromptNext]_promptVars PROVE PromptIInv'
  OBVIOUS
<1>1. CASE AddVersion
  <2>1. PICK id \in Id \ Kept :
           prompt' = [i \in Id |-> IF i = id THEN [version |-> NextVersion, active |-> TRUE]
                                   ELSE Retired(i)]
    BY <1>1 DEF AddVersion
  <2>2. NextVersion \in 0 .. MaxVersion /\ \A i \in Kept : prompt[i].version < NextVersion
    <3>1. Newest \in Nat /\ \A i \in Kept : prompt[i].version <= Newest
      BY NewestIs
    <3>2. \A i \in Kept : prompt[i].version \in 0 .. MaxVersion
      BY DEF PromptIInv, PromptTypeOK, Version
    <3>3. Newest + 1 <= MaxVersion
      BY <1>1 DEF AddVersion, NextVersion
    <3> QED BY <3>1, <3>2, <3>3, PromptAssumption DEF NextVersion
  <2>3. put' = put /\ prompt'[id] = [version |-> NextVersion, active |-> TRUE]
    BY <1>1, <2>1 DEF AddVersion
  <2>4. ASSUME NEW i \in Kept', i # id
        PROVE  /\ i \in Kept /\ prompt'[i] \in Version
               /\ prompt'[i].version = prompt[i].version /\ ~prompt'[i].active
    <3>1. i \in Id /\ prompt'[i] = Retired(i) /\ Retired(i) # None
      BY <2>1, <2>4 DEF Kept
    <3> QED BY <3>1, RetiredIs
  <2>5. PromptTypeOK'
    BY <2>1, <2>2, <2>3, <2>4 DEF PromptIInv, PromptTypeOK, Version, Kept
  <2>6. NumbersOwn'
    BY <2>2, <2>3, <2>4 DEF PromptIInv, NumbersOwn, PromptTypeOK, Version
  <2>7. ActiveAlone'
    BY <2>4 DEF ActiveAlone, Active
  <2> QED BY <2>5, <2>6, <2>7 DEF PromptIInv
<1>2. ASSUME NEW id \in Id, DeleteVersion(id) PROVE PromptIInv'
  BY <1>2 DEF DeleteVersion, PromptIInv, PromptTypeOK, NumbersOwn, ActiveAlone, Active, Kept
<1>3. ASSUME NEW p \in Activation, NEW id \in Id, LoadVersion(p, id) PROVE PromptIInv'
  BY <1>3 DEF LoadVersion, PromptIInv, PromptTypeOK, NumbersOwn, ActiveAlone, Active, Kept
<1>4. ASSUME NEW p \in Activation, Activate(p) PROVE PromptIInv'
  <2> DEFINE id == put[p].id
  <2>1. id \in Id /\ prompt' = Activated(id, put[p].active) /\ put' = [put EXCEPT ![p] = None]
    BY <1>4 DEF Activate, PromptIInv, PromptTypeOK
  <2> HIDE DEF id
  <2>2. ASSUME NEW i \in Kept', i # id
        PROVE  /\ i \in Kept /\ prompt'[i] \in Version
               /\ prompt'[i].version = prompt[i].version /\ ~prompt'[i].active
    <3>1. i \in Id /\ prompt'[i] = Retired(i) /\ Retired(i) # None
      BY <2>1, <2>2 DEF Kept, Activated
    <3> QED BY <3>1, RetiredIs
  <2>3. ASSUME id \in Kept'
        PROVE  /\ id \in Kept /\ prompt'[id] \in Version
               /\ prompt'[id].version = prompt[id].version
    <3>1. prompt'[id] = prompt[id] \/ prompt'[id] = [prompt[id] EXCEPT !.active = TRUE]
      BY <2>1 DEF Activated
    <3>2. prompt[id] # None /\ id \in Kept
      <4>1. prompt[id] = None => prompt'[id] = None
        BY <2>1 DEF Activated
      <4> QED BY <2>1, <2>3, <4>1 DEF Kept
    <3> QED BY <3>1, <3>2 DEF PromptIInv, PromptTypeOK, Version
  <2>4. PromptTypeOK'
    BY <2>1, <2>2, <2>3 DEF PromptIInv, PromptTypeOK, Activated
  <2>5. NumbersOwn'
    BY <2>2, <2>3 DEF PromptIInv, NumbersOwn
  <2>6. ActiveAlone'
    BY <2>2 DEF ActiveAlone, Active
  <2> QED BY <2>4, <2>5, <2>6 DEF PromptIInv
<1>5. CASE UNCHANGED promptVars
  BY <1>5 DEF promptVars, PromptIInv, PromptTypeOK, NumbersOwn, ActiveAlone, Active, Kept
<1> QED BY <1>1, <1>2, <1>3, <1>4, <1>5 DEF PromptNext

\* At most one version of a prompt is active and the numbers are unique, for any
\* number of overlapping PUT requests (prompts_api, prompt_api).
THEOREM OneVersionActive == PromptSpec => []OneActiveVersion
<1>1. PromptInit => PromptIInv
  BY DEF PromptInit, PromptIInv, PromptTypeOK, NumbersOwn, ActiveAlone, Active, Kept
<1>2. PromptIInv => OneActiveVersion
  <2> SUFFICES ASSUME PromptIInv PROVE Cardinality(Active) <= 1
    BY DEF PromptIInv, OneActiveVersion, NumbersOwn
  <2>1. CASE Active = {}
    BY <2>1, FS_EmptySet
  <2>2. ASSUME NEW i \in Active PROVE Cardinality(Active) <= 1
    <3>1. Active = {i}
      BY <2>2 DEF PromptIInv, ActiveAlone
    <3> QED BY <3>1, FS_Singleton
  <2> QED BY <2>1, <2>2
<1> QED BY <1>1, <1>2, PromptStep, PTL DEF PromptSpec

-----------------------------------------------------------------------------
(* Access rules *)

\* group and rule are functions on the rows.
RowsKnown ==
    /\ group = [g \in GroupRow |-> group[g]]
    /\ rule = [r \in RuleRow |-> rule[r]]

\* A denial that stands decides, whatever else is added.
LEMMA DenyWins == DenialsStand
<1> SUFFICES ASSUME NEW actor \in Actor, NEW r \in RuleRow,
                    rule[r] # NoRule, rule[r].effect = "deny", rule'[r] = rule[r],
                    <<rule[r].type, rule[r].value>> \in Subjects(actor)'
             PROVE  ~Allowed(actor)'
  BY DEF DenialsStand
<1>1. "deny" \in Effects(actor)'
  BY DEF Effects
<1> QED BY <1>1 DEF Allowed

\* Every step keeps the domains.
LEMMA AccessKnown == RowsKnown /\ [AccessNext]_ruleVars => RowsKnown'
BY DEF RowsKnown, AccessNext, ruleVars, CreateGroup, UpdateGroup, SaveGroup, PurgeGroup, RulesWithout,
       CreateRule, DeleteRule

\* Only a purge removes a group, and it takes the rules of its name along.
LEMMA PurgedFree == RowsKnown /\ AccessNext => PurgedNamesAreFree
<1> SUFFICES ASSUME RowsKnown, AccessNext, NEW g \in Groups, NEW name \in GroupName,
                    group[g].name = name, group'[g] = NoRule
             PROVE  RulesFor(name)' = {}
  BY DEF PurgedNamesAreFree
<1>1. g \in GroupRow /\ group[g] # NoRule
  BY DEF Groups
<1>2. ASSUME NEW h \in GroupRow,
             NEW body \in [name : GroupName, members : SUBSET Actor, active : BOOLEAN],
             SaveGroup(h, body)
      PROVE  FALSE
  BY <1>1, <1>2, NoRuleAssumption DEF SaveGroup, RowsKnown
<1>3. ASSUME NEW h \in GroupRow, NEW cascade \in BOOLEAN, PurgeGroup(h, cascade)
      PROVE  RulesFor(name)' = {}
  <2>1. h = g
    BY <1>1, <1>3 DEF PurgeGroup, RowsKnown
  <2>2. rule' = RulesWithout(name)
    BY <1>3, <2>1 DEF PurgeGroup
  <2> QED BY <2>2 DEF RulesWithout, RulesFor
<1>4. ASSUME UNCHANGED group PROVE FALSE
  BY <1>1, <1>4
<1>5. ASSUME NEW h \in GroupRow, NEW n \in GroupName, NEW members \in SUBSET Actor, NEW active \in BOOLEAN,
             CreateGroup(h, n, members) \/ UpdateGroup(h, n, members, active)
      PROVE  FALSE
  <2> DEFINE body(a) == [name |-> n, members |-> members, active |-> a]
  <2>1. body(TRUE) \in [name : GroupName, members : SUBSET Actor, active : BOOLEAN]
        /\ body(active) \in [name : GroupName, members : SUBSET Actor, active : BOOLEAN]
    OBVIOUS
  <2>2. SaveGroup(h, body(TRUE)) \/ SaveGroup(h, body(active))
    BY <1>5 DEF CreateGroup, UpdateGroup
  <2> QED BY <1>2, <2>1, <2>2
<1> QED BY <1>3, <1>4, <1>5 DEF AccessNext, CreateRule, DeleteRule

\* Denials stand and a purged name is free, for any number of users, groups and
\* rules (acl_v52.py, ACLManager.allowed, and group_api).
THEOREM RulesKeepTheirWord == AccessSpec => RulesHold
<1>1. AccessInit => RowsKnown
  BY DEF AccessInit, RowsKnown
<1>2. RowsKnown /\ [AccessNext]_ruleVars => [DenialsStand /\ PurgedNamesAreFree]_ruleVars
  BY DenyWins, PurgedFree
<1> QED BY <1>1, <1>2, AccessKnown, PTL DEF AccessSpec, RulesHold

-----------------------------------------------------------------------------
(* Knowledge *)

\* A row of a chunk.
ChunkRow == [base : Base, source : Source, text : Text, of : Document]

\* The rows of a source are one whole document.
Whole(rows) ==
    \A c \in rows :
        /\ \A d \in rows : chunk[d].of = chunk[c].of
        /\ Cardinality(rows) = Len(chunk[c].of)

\* KnowledgeInv, with the types of the rows.
KnowledgeIInv ==
    /\ chunk = [c \in Chunk |-> chunk[c]] /\ vector = [c \in Chunk |-> vector[c]]
    /\ base \subseteq Base
    /\ \A c \in Stored : chunk[c] \in ChunkRow /\ chunk[c].base \in base
                            /\ chunk[c].text \in Range(chunk[c].of)
    /\ unindexed \cup indexed \subseteq Stored
    /\ unindexed \cap indexed = {}
    /\ \A b \in Base, s \in Source : Whole(OfSource(b, s))
    /\ VectorsAreOwn

\* A document is a sequence of texts.
LEMMA DocumentIs ==
    ASSUME NEW doc \in Document
    PROVE  Len(doc) \in Nat /\ \A i \in 1 .. Len(doc) : doc[i] \in Range(doc) /\ doc[i] \in Text
<1>1. doc \in Seq(Text)
  BY KnowledgeAssumption
<1>2. Len(doc) \in Nat /\ DOMAIN doc = 1 .. Len(doc)
  BY <1>1
<1> QED BY <1>1, <1>2 DEF Range

\* A document that is added replaces the rows of its source by rows whose numbers
\* are above all that are kept, so it overwrites no other source's.
LEMMA AddDocumentOK ==
    ASSUME KnowledgeIInv, NEW b \in Base, NEW s \in Source, NEW doc \in Document, AddDocument(b, s, doc)
    PROVE  KnowledgeIInv'
<1> DEFINE old == OfSource(b, s)
           kept == Without(old)
           taken == {0} \cup {c \in Chunk : kept[c] # Nothing}
           last == Max(taken)
           new == last + 1 .. last + Len(doc)
<1>1. /\ unindexed = {} /\ b \in base /\ new \subseteq Chunk
      /\ chunk' = [c \in Chunk |->
             IF c \in new THEN [base |-> b, source |-> s, text |-> doc[c - last], of |-> doc]
             ELSE kept[c]]
      /\ unindexed' = new
      /\ indexed' = indexed \ (old \cup new)
      /\ base' = base /\ vector' = vector
  BY DEF AddDocument, Quiet
<1>2. last \in Nat /\ \A c \in Stored \ old : c <= last
  <2>1. taken \subseteq 0 .. MaxChunk /\ taken # {}
    BY KnowledgeAssumption DEF Chunk
  <2>2. \A c \in Stored \ old : c \in taken
    BY DEF Without, Stored, KnowledgeIInv
  <2> HIDE DEF taken
  <2>3. Max(taken) \in taken /\ \A y \in taken : y <= Max(taken)
    BY <2>1, KnowledgeAssumption, LargestNumber
  <2>4. Max(taken) \in 0 .. MaxChunk
    BY <2>1, <2>3
  <2> QED BY <2>2, <2>3, <2>4
<1>3. Len(doc) \in Nat /\ \A i \in 1 .. Len(doc) : doc[i] \in Range(doc) /\ doc[i] \in Text
  BY DocumentIs
<1> HIDE DEF last
<1>4. \A c \in new : c \notin Stored \ old /\ c - last \in 1 .. Len(doc)
  <2> SUFFICES ASSUME NEW c \in new
               PROVE  c \notin Stored \ old /\ c - last \in 1 .. Len(doc)
    OBVIOUS
  <2>1. c \in Int /\ last + 1 <= c /\ c <= last + Len(doc)
    BY <1>2, <1>3
  <2> QED BY <1>2, <1>3, <2>1
<1>5. ASSUME NEW c \in new
      PROVE  /\ chunk'[c] = [base |-> b, source |-> s, text |-> doc[c - last], of |-> doc]
             /\ chunk'[c] \in ChunkRow /\ c \in Stored'
             /\ chunk'[c].base = b /\ chunk'[c].source = s
             /\ chunk'[c].of = doc /\ chunk'[c].text \in Range(doc)
  <2>1. chunk'[c] = [base |-> b, source |-> s, text |-> doc[c - last], of |-> doc] /\ c \in Chunk
    BY <1>1
  <2>2. doc[c - last] \in Text /\ doc[c - last] \in Range(doc)
    BY <1>3, <1>4
  <2>3. chunk'[c] \in ChunkRow
    BY <2>1, <2>2 DEF ChunkRow
  <2> QED BY <2>1, <2>2, <2>3, KnowledgeAssumption DEF Stored, ChunkRow
<1>6. ASSUME NEW c \in Chunk \ new
      PROVE  chunk'[c] = IF c \in old THEN Nothing ELSE chunk[c]
  BY <1>1 DEF Without
<1>7. Stored' = new \cup (Stored \ old)
  <2>1. old \subseteq Stored
    BY DEF OfSource, OfBase
  <2> HIDE DEF old, new
  <2>2. ASSUME NEW c \in Chunk PROVE c \in Stored' <=> c \in new \/ c \in Stored \ old
    <3>1. CASE c \in new
      BY <3>1, <1>5
    <3>2. CASE c \notin new
      BY <3>2, <1>6 DEF Stored
    <3> QED BY <3>1, <3>2
  <2> QED BY <1>1, <2>2 DEF Stored
<1>8. OfSource(b, s)' = new
  <2>1. \A c \in new : c \in OfSource(b, s)'
    BY <1>5 DEF OfSource, OfBase
  <2>2. ASSUME NEW c \in OfSource(b, s)' PROVE c \in new
    <3>1. c \in Stored' /\ chunk'[c].base = b /\ chunk'[c].source = s
      BY DEF OfSource, OfBase
    <3>2. SUFFICES ASSUME c \notin new PROVE FALSE
      OBVIOUS
    <3>3. c \in Stored \ old /\ c \in Chunk
      BY <1>7, <3>1, <3>2 DEF Stored
    <3>4. chunk'[c] = chunk[c]
      BY <1>6, <3>2, <3>3
    <3> QED BY <3>1, <3>3, <3>4 DEF OfSource, OfBase
  <2> QED BY <2>1, <2>2
<1>9. ASSUME NEW a \in Base, NEW t \in Source, <<a, t>> # <<b, s>>
      PROVE  Whole(OfSource(a, t))'
  <2>1. \A c \in OfSource(a, t) : c \in Stored \ old /\ c \in Chunk
    BY <1>9 DEF OfSource, OfBase, Stored
  <2>2. \A c \in Stored \ old : c \in Chunk \ new /\ chunk'[c] = chunk[c]
    BY <1>4, <1>6 DEF Stored
  <2>3. \A c \in new : c \notin OfSource(a, t)'
    BY <1>5, <1>9 DEF OfSource, OfBase
  <2>4. OfSource(a, t)' = OfSource(a, t)
    <3> HIDE DEF new, old
    <3> QED BY <1>7, <2>1, <2>2, <2>3 DEF OfSource, OfBase
  <2>5. Whole(OfSource(a, t))
    BY DEF KnowledgeIInv
  <2> QED BY <2>1, <2>2, <2>4, <2>5 DEF Whole
<1>10. Whole(OfSource(b, s))'
  <2>1. Cardinality(new) = Len(doc)
    <3>1. last + 1 \in Int /\ last + Len(doc) \in Int
      BY <1>2, <1>3
    <3>2. Cardinality(new) = IF last + 1 > last + Len(doc) THEN 0 ELSE (last + Len(doc)) - (last + 1) + 1
      BY <3>1, FS_Interval
    <3> QED BY <3>2, <1>2, <1>3
  <2>2. \A c \in new : chunk'[c].of = doc
    BY <1>5
  <2> QED BY <1>8, <2>1, <2>2 DEF Whole
<1>11. VectorsAreOwn'
  <2>1. \A c \in indexed' : c \in indexed /\ c \in Chunk \ new /\ c \notin old
    BY <1>1 DEF KnowledgeIInv, Stored
  <2>2. \A c \in indexed' : chunk'[c] = chunk[c]
    BY <2>1, <1>6
  <2> QED BY <1>1, <2>1, <2>2 DEF KnowledgeIInv, VectorsAreOwn
<1>12. \A c \in Stored' : chunk'[c] \in ChunkRow /\ chunk'[c].base \in base'
                            /\ chunk'[c].text \in Range(chunk'[c].of)
  <2> SUFFICES ASSUME NEW c \in Stored'
               PROVE  chunk'[c] \in ChunkRow /\ chunk'[c].base \in base'
                            /\ chunk'[c].text \in Range(chunk'[c].of)
    OBVIOUS
  <2>1. CASE c \in new
    <3>1. /\ chunk'[c] \in ChunkRow /\ chunk'[c].base = b
          /\ chunk'[c].of = doc /\ chunk'[c].text \in Range(doc)
      BY <2>1, <1>5
    <3> QED BY <1>1, <3>1
  <2>2. CASE c \notin new
    <3>1. c \in Stored /\ chunk'[c] = chunk[c]
      BY <1>6, <1>7, <2>2 DEF Stored
    <3> QED BY <3>1, <1>1 DEF KnowledgeIInv
  <2> QED BY <2>1, <2>2
<1>13. unindexed' \cup indexed' \subseteq Stored' /\ unindexed' \cap indexed' = {}
  <2> HIDE DEF new, old
  <2> QED BY <1>1, <1>7 DEF KnowledgeIInv
<1>14. chunk' = [c \in Chunk |-> chunk'[c]] /\ vector' = [c \in Chunk |-> vector'[c]] /\ base' \subseteq Base
  BY <1>1 DEF KnowledgeIInv
<1>15. \A a \in Base, t \in Source : Whole(OfSource(a, t))'
  BY <1>9, <1>10
<1> QED BY <1>11, <1>12, <1>13, <1>14, <1>15 DEF KnowledgeIInv

\* What any other step does: rows only go, whole sources at a time.
LEMMA SourcesGo ==
    ASSUME KnowledgeIInv, NEW b \in Base,
           chunk' = chunk \/ chunk' = ChunksWithout(b)
    PROVE  /\ Stored' = IF chunk' = chunk THEN Stored ELSE Stored \ OfBase(b)
           /\ \A c \in Stored' : chunk'[c] = chunk[c]
           /\ \A a \in Base, s \in Source : Whole(OfSource(a, s))'
<1>1. CASE chunk' = chunk
  <2>1. Stored' = Stored
    BY <1>1 DEF Stored
  <2>2. \A a \in Base, s \in Source : OfSource(a, s)' = OfSource(a, s)
    BY <1>1, <2>1 DEF OfSource, OfBase
  <2>3. ASSUME NEW a \in Base, NEW s \in Source PROVE Whole(OfSource(a, s))'
    <3>1. Whole(OfSource(a, s))
      BY DEF KnowledgeIInv
    <3> QED BY <1>1, <2>2, <3>1 DEF Whole
  <2> QED BY <1>1, <2>1, <2>3
<1>2. CASE chunk' = ChunksWithout(b) /\ chunk' # chunk
  <2>1. \A c \in Chunk : chunk'[c] = IF c \in OfBase(b) THEN Nothing ELSE chunk[c]
    BY <1>2 DEF ChunksWithout, Without
  <2>2. Stored' = Stored \ OfBase(b) /\ \A c \in Stored' : chunk'[c] = chunk[c]
    BY <2>1 DEF Stored
  <2>3. ASSUME NEW a \in Base, NEW s \in Source PROVE Whole(OfSource(a, s))'
    <3>1. a = b => OfSource(a, s)' = {}
      BY <2>2 DEF OfSource, OfBase
    <3>2. a # b => OfSource(a, s)' = OfSource(a, s)
      BY <2>2 DEF OfSource, OfBase
    <3>3. Whole(OfSource(a, s)) /\ \A c \in OfSource(a, s)' : chunk'[c] = chunk[c]
      BY <2>2 DEF KnowledgeIInv, OfSource, OfBase
    <3> QED BY <3>1, <3>2, <3>3 DEF Whole
  <2> QED BY <1>2, <2>2, <2>3
<1> QED BY <1>1, <1>2

\* Every step keeps the invariant.
LEMMA KnowledgeStep == KnowledgeIInv /\ [KnowledgeNext]_knowledgeVars => KnowledgeIInv'
<1> SUFFICES ASSUME KnowledgeIInv, [KnowledgeNext]_knowledgeVars PROVE KnowledgeIInv'
  OBVIOUS
<1>1. ASSUME UNCHANGED chunk, base \subseteq base', base' \subseteq Base
      PROVE  /\ chunk' = [c \in Chunk |-> chunk'[c]] /\ base' \subseteq Base
             /\ Stored' = Stored
             /\ \A c \in Stored' : chunk'[c] \in ChunkRow /\ chunk'[c].base \in base'
                                     /\ chunk'[c].text \in Range(chunk'[c].of)
             /\ \A b \in Base, s \in Source : Whole(OfSource(b, s))'
  BY <1>1 DEF KnowledgeIInv, Stored, Whole, OfSource, OfBase
<1>2. ASSUME NEW b \in Base, CreateBase(b) PROVE KnowledgeIInv'
  BY <1>1, <1>2 DEF CreateBase, KnowledgeIInv, VectorsAreOwn
<1>3. ASSUME NEW b \in Base, DeleteBase(b) PROVE KnowledgeIInv'
  <2>1. /\ unindexed = {} /\ unindexed' = {}
        /\ vector' \in {vector, DeleteVectors(b)}
        /\ \/ chunk' = ChunksWithout(b) /\ base' = base \ {b} /\ indexed' = indexed \ OfBase(b)
           \/ UNCHANGED <<chunk, base, indexed>>
    BY <1>3 DEF DeleteBase, Quiet
  <2>2. /\ Stored' = IF chunk' = chunk THEN Stored ELSE Stored \ OfBase(b)
        /\ \A c \in Stored' : chunk'[c] = chunk[c]
        /\ \A a \in Base, s \in Source : Whole(OfSource(a, s))'
    <3>1. chunk' = chunk \/ chunk' = ChunksWithout(b)
      BY <2>1
    <3> QED BY <3>1, SourcesGo
  <2>3. \A c \in Chunk : vector'[c] \in {Nothing, vector[c]}
    BY <2>1 DEF DeleteVectors
  <2>4. indexed' \subseteq indexed /\ indexed' \subseteq Stored' /\ Stored' \subseteq Stored
    <3>1. chunk' = chunk /\ base' = base \ {b} /\ indexed' = indexed \ OfBase(b) => indexed' \subseteq Stored'
      BY <2>2 DEF KnowledgeIInv
    <3> QED BY <2>1, <2>2, <3>1 DEF KnowledgeIInv
  <2>5. VectorsAreOwn'
    <3>1. \A c \in indexed' : c \in indexed /\ c \in Chunk /\ chunk'[c] = chunk[c]
      BY <2>2, <2>4 DEF Stored
    <3> QED BY <2>3, <3>1 DEF KnowledgeIInv, VectorsAreOwn
  <2>6. base' \subseteq Base /\ chunk' = [c \in Chunk |-> chunk'[c]] /\ vector' = [c \in Chunk |-> vector'[c]]
    BY <2>1 DEF KnowledgeIInv, DeleteVectors, ChunksWithout, Without
  <2>7. \A c \in Stored' : chunk'[c].base \in base'
    <3> SUFFICES ASSUME NEW c \in Stored' PROVE chunk'[c].base \in base'
      OBVIOUS
    <3>1. c \in Stored /\ chunk'[c] = chunk[c] /\ chunk[c].base \in base
      BY <2>2, <2>4 DEF KnowledgeIInv
    <3>2. CASE UNCHANGED base
      BY <3>1, <3>2
    <3>3. CASE chunk' = ChunksWithout(b) /\ base' = base \ {b}
      <4>1. c \notin OfBase(b)
        BY <3>3 DEF Stored, ChunksWithout, Without
      <4> QED BY <3>1, <3>3, <4>1 DEF OfBase
    <3> QED BY <2>1, <3>2, <3>3
  <2> QED BY <2>1, <2>2, <2>4, <2>5, <2>6, <2>7 DEF KnowledgeIInv
<1>4. ASSUME NEW b \in Base, NEW s \in Source, NEW doc \in Document, AddDocument(b, s, doc)
      PROVE  KnowledgeIInv'
  BY <1>4, AddDocumentOK
<1>5. ASSUME NEW c \in Chunk, IndexChunk(c) PROVE KnowledgeIInv'
  <2>1. c \in unindexed /\ c \in Stored
    <3>1. unindexed \subseteq Nat /\ unindexed # {}
      <4>1. Chunk \subseteq Nat
        BY KnowledgeAssumption DEF Chunk
      <4> QED BY <1>5, <4>1 DEF IndexChunk, Quiet, KnowledgeIInv, Stored
    <3>2. c = Min(unindexed)
      BY <1>5 DEF IndexChunk
    <3> QED BY <3>1, <3>2, SmallestNumber DEF KnowledgeIInv
  <2>2. UNCHANGED <<base, chunk>> /\ unindexed' = unindexed \ {c}
    BY <1>5 DEF IndexChunk
  <2>3. CASE UNCHANGED <<vector, indexed>>
    BY <1>1, <2>1, <2>2, <2>3 DEF KnowledgeIInv, VectorsAreOwn
  <2>4. CASE vector' = [vector EXCEPT ![c] = Indexed(c)] /\ indexed' = indexed \cup {c}
    <3>1. VectorsAreOwn'
      BY <2>2, <2>4 DEF KnowledgeIInv, VectorsAreOwn, Indexed, Stored
    <3>2. vector' = [d \in Chunk |-> vector'[d]]
      BY <2>4 DEF KnowledgeIInv
    <3> QED BY <1>1, <2>1, <2>2, <2>4, <3>1, <3>2 DEF KnowledgeIInv
  <2> QED BY <1>5, <2>3, <2>4 DEF IndexChunk
<1>6. CASE IndexingDies
  BY <1>1, <1>6 DEF IndexingDies, KnowledgeIInv, VectorsAreOwn
<1>7. CASE UNCHANGED knowledgeVars
  BY <1>1, <1>7 DEF knowledgeVars, KnowledgeIInv, VectorsAreOwn
<1> QED BY <1>2, <1>3, <1>4, <1>5, <1>6, <1>7 DEF KnowledgeNext

\* Sources are whole and an indexed chunk has no other text's vector, for any number
\* of bases, sources and documents, and wherever the process dies (add_document,
\* index_chunk, delete_base).
THEOREM KnowledgeConsistent == KnowledgeSpec => []KnowledgeInv
<1>1. KnowledgeInit => KnowledgeIInv
  BY DEF KnowledgeInit, KnowledgeIInv, Stored, Whole, OfSource, OfBase, VectorsAreOwn
<1>2. KnowledgeIInv => KnowledgeInv
  BY DEF KnowledgeIInv, KnowledgeInv, KnowledgeTypeOK, SourcesAreWhole, Whole
<1> QED BY <1>1, <1>2, KnowledgeStep, PTL DEF KnowledgeSpec
=============================================================================
