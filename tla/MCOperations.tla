----------------------------- MODULE MCOperations -----------------------------
(***************************************************************************)
(* The parts of the stack that keep rows and take requests: the studio,    *)
(* the registry of agents, prompts, sign-in, access rules, knowledge, the  *)
(* plugins' gate, the execution policy, containers, SSH profiles and the   *)
(* router's settings.  No two of them have a variable in common, so a      *)
(* behaviour takes the steps of one part, and the others stay in their     *)
(* first state.                                                            *)
(***************************************************************************)
EXTENDS StudioGraph, AgentRegistry, PromptVersions, SignIn, AccessRules,
        KnowledgeIndex, PluginGate, ExecutionPolicy, SandboxRun, SshLogin,
        RuntimeSettings

CONSTANTS
    MaxSteps,  \* bound on the steps of the registry
    o1, o2, r1, r2

VARIABLES
    shown,  \* the part whose steps are taken
    steps   \* how many the registry took

Part == {"studio", "registry", "prompts", "sign-in", "rules", "knowledge", "gate", "policy",
         "sandbox", "ssh", "settings"}

operationsVars == <<shown, steps, graphVars, agentVars, promptVars, signInVars,
                    ruleVars, knowledgeVars, gateVars, policyVars, sandboxVars, sshVars,
                    settingVars>>

FirstDraft == CHOOSE d \in Drafts : TRUE

OperationsInit ==
    /\ shown \in Part /\ steps = 0
    /\ GraphInit
    /\ shown # "studio" => draft = Drawing(FirstDraft, <<>>)
    /\ RegistryInit /\ PromptInit /\ SignInInit /\ AccessInit
    /\ KnowledgeInit /\ GateInit /\ PolicyInit
    /\ SandboxInit /\ SshInit /\ SettingsInit
    /\ shown # "sandbox" => kind = "sandbox"

Registry == steps < MaxSteps /\ steps' = steps + 1 /\ RegistryNext

Rest(part, theVars) == IF shown = part THEN TRUE ELSE UNCHANGED theVars

OperationsNext ==
    /\ \/ shown = "studio" /\ GraphNext
       \/ shown = "registry" /\ Registry
       \/ shown = "prompts" /\ PromptNext
       \/ shown = "sign-in" /\ SignInNext
       \/ shown = "rules" /\ AccessNext
       \/ shown = "knowledge" /\ KnowledgeNext
       \/ shown = "gate" /\ GateNext
       \/ shown = "policy" /\ PolicyNext
       \/ shown = "sandbox" /\ SandboxNext
       \/ shown = "ssh" /\ SshNext
       \/ shown = "settings" /\ SettingsNext
    /\ UNCHANGED shown
    /\ Rest("studio", graphVars)
    /\ Rest("registry", <<steps, agentVars>>)
    /\ Rest("prompts", promptVars)
    /\ Rest("sign-in", signInVars)
    /\ Rest("rules", ruleVars)
    /\ Rest("knowledge", knowledgeVars)
    /\ Rest("gate", gateVars)
    /\ Rest("policy", policyVars)
    /\ Rest("sandbox", sandboxVars)
    /\ Rest("ssh", sshVars)
    /\ Rest("settings", settingVars)

OperationsSpec == OperationsInit /\ [][OperationsNext]_operationsVars

-----------------------------------------------------------------------------
\* The drawings: what an editor can put on the canvas, wrong edges included.

DrawnClassifier == <<"classifier", 1>>
DrawnRoute == <<"route", 1>>
DrawnHealth == <<"health_filter", 1>>
DrawnFallback == <<"fallback", 1>>
RouterDraft ==
    [studio |-> "router", agent |-> 0,
     nodes |-> <<Node("classifier", 1), Node("route", 1), Node("health_filter", 1), Node("fallback", 1)>>,
     palette |-> {Edge(DrawnClassifier, "coding", DrawnRoute, ""),
                  Edge(DrawnClassifier, "", DrawnHealth, "default"),
                  Edge(DrawnClassifier, "vision", DrawnHealth, ""),
                  Edge(DrawnRoute, "", DrawnFallback, ""),
                  Edge(DrawnHealth, "healthy", DrawnFallback, ""),
                  Edge(DrawnHealth, "unhealthy", DrawnRoute, ""),
                  Edge(DrawnRoute, "", DrawnHealth, ""),
                  Edge(DrawnFallback, "", DrawnRoute, ""),
                  Edge(DrawnClassifier, "sideways", DrawnRoute, "")}]
DoubleDraft == [RouterDraft EXCEPT !.nodes = Append(@, Node("route", 1))]

DrawnResources == [knowledge |-> {1}, skill |-> {1}, plugin |-> {}]
DrawnAgent == <<"agent", 1>>
AgentDraft ==
    [studio |-> "agent", agent |-> 1, nodes |-> DefaultNodes(1, DrawnResources),
     palette |-> ToSet(DefaultEdges(1, DrawnResources)) \cup
                 {Edge(<<"knowledge", 1>>, "", DrawnAgent, ""),
                  Edge(<<"knowledge", 1>>, "context", DrawnAgent, "default"),
                  Edge(<<"knowledge", 1>>, "", DrawnAgent, "tools"),
                  Edge(<<"skill", 1>>, "", <<"output", 0>>, "")}]
TwiceDraft == [AgentDraft EXCEPT !.nodes = Append(@, [id |-> <<"skill", 9>>, type |-> "skill", ref |-> 1])]

DrawnChunk == <<"chunk", 1>>
DrawnEmbed == <<"embed", 1>>
KnowledgeDraft ==
    [studio |-> "knowledge", agent |-> 0,
     nodes |-> <<Node("data_source", 1), Node("chunk", 1), Node("embed", 1), Node("knowledge_base", 1)>>,
     palette |-> {Edge(<<"data_source", 1>>, "", DrawnChunk, ""),
                  Edge(DrawnChunk, "", DrawnEmbed, ""),
                  Edge(DrawnEmbed, "", <<"knowledge_base", 1>>, ""),
                  Edge(DrawnChunk, "", <<"knowledge_base", 1>>, ""),
                  Edge(DrawnEmbed, "", DrawnChunk, ""),
                  Edge(DrawnEmbed, "", DrawnEmbed, ""),
                  Edge(DrawnEmbed, "", <<"qa", 1>>, "")}]

DrawnBranch == <<"branch", 1>>
DrawnTeam == <<"team", 1>>
WorkflowDraft ==
    [studio |-> "workflow", agent |-> 0,
     nodes |-> <<Node("input", 1), Node("branch", 1), Node("agent", 1), Node("team", 1), Node("output", 1)>>,
     palette |-> {Edge(<<"input", 1>>, "", DrawnBranch, ""),
                  Edge(<<"input", 1>>, "default", DrawnBranch, "default"),
                  Edge(DrawnBranch, "true", DrawnAgent, ""),
                  Edge(DrawnBranch, "false", DrawnTeam, ""),
                  Edge(DrawnAgent, "", <<"output", 1>>, ""),
                  Edge(DrawnAgent, "result", <<"output", 1>>, ""),
                  Edge(DrawnTeam, "", DrawnBranch, ""),
                  Edge(DrawnTeam, "result", <<"output", 1>>, "")}]

MCDrafts == {RouterDraft, DoubleDraft, AgentDraft, TwiceDraft, KnowledgeDraft, WorkflowDraft}

-----------------------------------------------------------------------------
\* The registry: a few bodies of each kind.

MCMaxRow == [knowledge |-> 1, plugin |-> 1, skill |-> 2, agent |-> 2, team |-> 1]
MCGiven ==
    {[knowledge |-> {}, plugin |-> {}, skill |-> {}],
     [knowledge |-> {1}, plugin |-> {}, skill |-> {1}],
     [knowledge |-> {}, plugin |-> {1}, skill |-> {1, 2}]}
        \cup {[knowledge |-> {1}], [knowledge |-> {}], [plugin |-> {1}], [skill |-> {2}],
              [active |-> FALSE]}
MCTeamBody == {[active |-> TRUE], [active |-> FALSE], [members |-> {1}], [members |-> {1, 2}]}

MCDocument == {<<"x">>, <<"x", "y">>, <<"z">>}
MCBody ==
    {[router_mode |-> NoSetting, router_policy |-> "learned", ha_mode |-> ha] : ha \in {"on", NoSetting}}
        \cup {[router_mode |-> "route", router_policy |-> "wrong", ha_mode |-> "off"]}
MCHasRedis == r1 :> TRUE @@ r2 :> FALSE
MCPluginOf == o1 :> "execution" @@ o2 :> "package"
=============================================================================
