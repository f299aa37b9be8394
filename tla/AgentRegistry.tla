----------------------------- MODULE AgentRegistry -----------------------------
(***************************************************************************)
(* Agents, teams and the resources they are given (control_plane.py).      *)
(* Rows are numbered by SQLite: a new row takes the number after the       *)
(* largest one present, so the number of a deleted last row is used again. *)
(* Names are left out: a duplicate one only makes a request answer 409     *)
(* with nothing stored.                                                    *)
(*                                                                         *)
(* A PUT loads its row, then waits for the request body, and other         *)
(* handlers run meanwhile.  The session writes only the columns it         *)
(* changed from the values it loaded, and its UPDATE fails when the row    *)
(* is gone.                                                                *)
(***************************************************************************)
EXTENDS Integers, FiniteSets, Functions

CONSTANTS
    MaxRow,   \* bound on the rows of each table: kind, "agent" or "team" -> Nat
    Given,    \* what the bodies of requests give: some kinds -> rows, `active'
    TeamBody, \* what the bodies of team PUTs give: `active', `members'
    Editors,  \* PUT requests that may be under way at a time
    NoAgent     \* no row, no request, no graph

Kind == {"knowledge", "plugin", "skill"}
Column == {"active", "knowledge", "plugin"}
Row == 1 .. MaxRow["agent"]

VARIABLES
    resource,  \* kind -> the rows present
    enabled,   \* the skills enabled
    agent,     \* row -> [active, knowledge, plugin], or NoAgent
    link,      \* AgentSkillLink: pairs <<agent, skill>>
    graph,     \* AgentGraph: row -> kind -> the resources drawn, or NoAgent
    team,      \* row -> [active, members], or NoAgent
    edit       \* editor -> the row it loaded: [of, id, row], or NoAgent

agentVars == <<resource, enabled, agent, link, graph, team, edit>>

Present(table) == {id \in DOMAIN table : table[id] # NoAgent}
NumberAfter(present, max) == {id \in 1 .. max : id = 1 + Cardinality(UNION {1 .. n : n \in present})}
SkillsOf(id) == {l[2] : l \in {k \in link : k[1] = id}}
LinksOf(id) == {l \in link : l[1] = id}

\* _validated_agent_payload and _validated_team_payload: every row named exists.
Exist(given) == \A kind \in Kind : given[kind] \subseteq resource[kind]
MembersExist(members) == members \subseteq Present(agent)

RegistryInit ==
    /\ resource = [kind \in Kind |-> {}]
    /\ enabled = {}
    /\ agent = [id \in Row |-> NoAgent]
    /\ link = {}
    /\ graph = [id \in Row |-> NoAgent]
    /\ team = [id \in 1 .. MaxRow["team"] |-> NoAgent]
    /\ edit = [e \in Editors |-> NoAgent]

-----------------------------------------------------------------------------
\* Plugins, skills and knowledge bases.

\* POST, or an installation from the catalogue
CreateResource(kind) ==
    /\ \E id \in NumberAfter(resource[kind], MaxRow[kind]) :
          /\ resource' = [resource EXCEPT ![kind] = @ \cup {id}]
          /\ enabled' = IF kind = "skill" THEN enabled \cup {id} ELSE enabled
    /\ UNCHANGED <<agent, link, graph, team, edit>>

\* Mutant: the links of a skill outlive it.
LinksKept(kind, id) == link
LinksWithout(kind, id) ==
    IF kind = "skill" THEN {l \in link : l[2] # id} ELSE link

\* Only the links of a skill go with it; the lists of agents keep the rest.
DeleteResource(kind, id) ==
    /\ id \in resource[kind]
    /\ resource' = [resource EXCEPT ![kind] = @ \ {id}]
    /\ enabled' = IF kind = "skill" THEN enabled \ {id} ELSE enabled
    /\ link' = LinksWithout(kind, id)
    /\ UNCHANGED <<agent, graph, team, edit>>

SwitchSkill(id) ==
    /\ id \in resource["skill"]
    /\ enabled' = IF id \in enabled THEN enabled \ {id} ELSE enabled \cup {id}
    /\ UNCHANGED <<resource, agent, link, graph, team, edit>>

-----------------------------------------------------------------------------
\* Agents.

\* Two commits: the row, then its links.  The second may be lost, by a crash or
\* because a link of that number is already there.
CreateAgent(given) ==
    /\ Exist(given)
    /\ \E id \in NumberAfter(Present(agent), MaxRow["agent"]) :
          /\ agent' = [agent EXCEPT ![id] = [active |-> TRUE, knowledge |-> given["knowledge"],
                                             plugin |-> given["plugin"]]]
          /\ \/ link' = link
             \/ /\ LinksOf(id) \cap ({id} \X given["skill"]) = {}
                /\ link' = link \cup ({id} \X given["skill"])
    /\ UNCHANGED <<resource, enabled, graph, team, edit>>

DisableAgent(id) ==
    /\ agent[id] # NoAgent
    /\ agent' = [agent EXCEPT ![id].active = FALSE]
    /\ UNCHANGED <<resource, enabled, link, graph, team, edit>>

PurgeAgent(id) ==
    /\ agent[id] # NoAgent
    /\ agent' = [agent EXCEPT ![id] = NoAgent]
    /\ link' = link \ LinksOf(id)
    /\ graph' = [graph EXCEPT ![id] = NoAgent]
    /\ UNCHANGED <<resource, enabled, team, edit>>

\* PUT, up to the body: the row is loaded.
LoadAgent(e, id) ==
    /\ edit[e] = NoAgent /\ agent[id] # NoAgent
    /\ edit' = [edit EXCEPT ![e] = [of |-> "agent", id |-> id, row |-> agent[id]]]
    /\ UNCHANGED <<resource, enabled, agent, link, graph, team>>

\* The body: the columns and resources it gives, and whether as a graph.
\* What it does not give is taken from the row; the row has no skills.
Merged(row, body) ==
    [key \in Kind \cup Column |->
        IF key \in DOMAIN body.given THEN body.given[key]
        ELSE IF key = "skill" THEN {} ELSE row[key]]

Changed(row, merged) == {c \in Column : row[c] # merged[c]}

\* PUT, from the body on.
UpdateAgent(e, body) ==
    /\ edit[e] # NoAgent /\ edit[e].of = "agent"
    /\ LET id == edit[e].id
           merged == Merged(edit[e].row, body)
           changed == Changed(edit[e].row, merged)
       IN  IF Exist(merged) /\ (changed = {} \/ agent[id] # NoAgent)
           THEN /\ agent' = IF changed = {} THEN agent
                            ELSE [agent EXCEPT ![id] =
                                     [c \in DOMAIN @ |-> IF c \in changed THEN merged[c] ELSE @[c]]]
                /\ link' = (link \ LinksOf(id)) \cup ({id} \X merged["skill"])
                /\ graph' = IF body.drawn THEN [graph EXCEPT ![id] = Restrict(merged, Kind)]
                            ELSE IF DOMAIN body.given \cap Kind # {} THEN [graph EXCEPT ![id] = NoAgent]
                            ELSE graph
           ELSE UNCHANGED <<agent, link, graph>>
    /\ edit' = [edit EXCEPT ![e] = NoAgent]
    /\ UNCHANGED <<resource, enabled, team>>

-----------------------------------------------------------------------------
\* Teams.

CreateTeam(members) ==
    /\ MembersExist(members)
    /\ \E id \in NumberAfter(Present(team), MaxRow["team"]) :
          team' = [team EXCEPT ![id] = [active |-> TRUE, members |-> members]]
    /\ UNCHANGED <<resource, enabled, agent, link, graph, edit>>

DeleteTeam(id) ==
    /\ team[id] # NoAgent
    /\ team' \in {[team EXCEPT ![id] = NoAgent], [team EXCEPT ![id].active = FALSE]}
    /\ UNCHANGED <<resource, enabled, agent, link, graph, edit>>

LoadTeam(e, id) ==
    /\ edit[e] = NoAgent /\ team[id] # NoAgent
    /\ edit' = [edit EXCEPT ![e] = [of |-> "team", id |-> id, row |-> team[id]]]
    /\ UNCHANGED <<resource, enabled, agent, link, graph, team>>

\* `members' is what the body names, or NoAgent; `active' likewise.
UpdateTeam(e, body) ==
    /\ edit[e] # NoAgent /\ edit[e].of = "team"
    /\ LET id == edit[e].id
           row == edit[e].row
           new == [c \in DOMAIN row |-> IF c \in DOMAIN body THEN body[c] ELSE row[c]]
           changed == {c \in DOMAIN row : row[c] # new[c]}
       IN  IF MembersExist(new.members) /\ changed # {} /\ team[id] # NoAgent
           THEN team' = [team EXCEPT ![id] =
                            [c \in DOMAIN row |-> IF c \in changed THEN new[c] ELSE @[c]]]
           ELSE UNCHANGED team
    /\ edit' = [edit EXCEPT ![e] = NoAgent]
    /\ UNCHANGED <<resource, enabled, agent, link, graph>>

-----------------------------------------------------------------------------
Bodies == [given : Given, drawn : {FALSE}]
              \cup [given : {g \in Given : DOMAIN g = Kind}, drawn : {TRUE}]

RegistryNext ==
    \/ \E kind \in Kind : CreateResource(kind)
    \/ \E kind \in Kind : \E id \in resource[kind] : DeleteResource(kind, id)
    \/ \E id \in resource["skill"] : SwitchSkill(id)
    \/ \E given \in {g \in Given : DOMAIN g = Kind} : CreateAgent(given)
    \/ \E id \in Row : DisableAgent(id) \/ PurgeAgent(id)
    \/ \E e \in Editors, id \in Row : LoadAgent(e, id)
    \/ \E e \in Editors, body \in Bodies : UpdateAgent(e, body)
    \/ \E members \in SUBSET Present(agent) : CreateTeam(members)
    \/ \E id \in DOMAIN team : DeleteTeam(id) \/ \E e \in Editors : LoadTeam(e, id)
    \/ \E e \in Editors, body \in TeamBody : UpdateTeam(e, body)

RegistrySpec == RegistryInit /\ [][RegistryNext]_agentVars

-----------------------------------------------------------------------------
(* A link of an agent always leads to a skill that is there: deleting a    *)
(* skill and a PUT that was under way leave none behind, so a skill that   *)
(* takes the number over belongs to no agent (skill_api, agent_api).       *)
SkillLinksResolve == link \subseteq Row \X resource["skill"]

(* A PUT changes no column its body does not name, whatever was stored     *)
(* between its loading the row and its commit: overlapping PUTs of one     *)
(* agent to different columns are both kept (agent_api).                   *)
UnnamedColumnsStay ==
    \A e \in Editors, body \in Bodies : UpdateAgent(e, body) =>
        \A id \in Row : \A c \in Column \ DOMAIN body.given :
            agent[id] # NoAgent => agent'[id][c] = agent[id][c]

(* "disable is reversible" (docs/SMART-ROUTER-USER-GUIDE.md:692): the PUT  *)
(* that only enables or disables an agent, as the panel's button sends it  *)
(* (toggleActive in panel_v58.py), leaves the agent its skills (agent_api).*)
DisableIsReversible ==
    [][\A e \in Editors, body \in Bodies, id \in Row :
          edit[e] # NoAgent /\ edit[e].id = id /\ DOMAIN body.given = {"active"}
              /\ UpdateAgent(e, body) => SkillsOf(id) \subseteq SkillsOf(id)']_agentVars

(* What requests under way at the same time may not undo in the registry.  *)
RegistryHolds == [][SkillLinksResolve' /\ UnnamedColumnsStay]_agentVars
=============================================================================
