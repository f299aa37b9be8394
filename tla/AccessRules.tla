----------------------------- MODULE AccessRules -----------------------------
(***************************************************************************)
(* Groups of users and access rules (acl_v52.py, the handlers of groups    *)
(* and rules), for one resource and one permission.  A rule names its      *)
(* subject, a user or a group, by a name that nothing checks.              *)
(***************************************************************************)
EXTENDS Naturals, FiniteSets

CONSTANTS
    Actor,        \* usernames; `user' rows are never renamed or removed
    GroupRow,     \* rows of groups
    GroupName,
    RuleRow,      \* rows of rules
    DefaultDeny,  \* SMART_ROUTER_ACL_DEFAULT_DENY
    NoRule        \* no row

ASSUME NoRuleAssumption ==
    NoRule \notin [name : GroupName, members : SUBSET Actor, active : BOOLEAN]

VARIABLES
    group,  \* row -> [name, members, active], or NoRule
    rule    \* row -> [type, value, effect], or NoRule

ruleVars == <<group, rule>>

Groups == {g \in GroupRow : group[g] # NoRule}
GroupNames == {group[g].name : g \in Groups}
RulesFor(name) == {r \in RuleRow : rule[r] # NoRule /\ rule[r].type = "group" /\ rule[r].value = name}

AccessInit ==
    /\ group = [g \in GroupRow |-> NoRule]
    /\ rule = [r \in RuleRow |-> NoRule]

-----------------------------------------------------------------------------
\* ACLManager.allowed

Subjects(actor) ==
    {<<"user", actor>>} \cup
    {<<"group", group[g].name>> : g \in {h \in Groups : group[h].active /\ actor \in group[h].members}}

Effects(actor) ==
    {rule[r].effect : r \in {q \in RuleRow : rule[q] # NoRule
                                 /\ <<rule[q].type, rule[q].value>> \in Subjects(actor)}}

Allowed(actor) ==
    /\ "deny" \notin Effects(actor)
    /\ "allow" \in Effects(actor) \/ ~DefaultDeny

-----------------------------------------------------------------------------
SaveGroup(g, row) ==
    /\ row.name \notin {group[h].name : h \in Groups \ {g}}
    /\ group' = [group EXCEPT ![g] = row]
    /\ UNCHANGED rule

CreateGroup(g, name, members) ==
    /\ g \notin Groups
    /\ SaveGroup(g, [name |-> name, members |-> members, active |-> TRUE])

\* PUT, or DELETE without purge: a rename keeps the rules under the old name.
UpdateGroup(g, name, members, active) ==
    /\ g \in Groups
    /\ SaveGroup(g, [name |-> name, members |-> members, active |-> active])

\* Mutant: a purge leaves the rules where they are.
RulesKept(name) == rule
RulesWithout(name) == [r \in RuleRow |-> IF r \in RulesFor(name) THEN NoRule ELSE rule[r]]

\* DELETE with purge: refused while rules name the group, unless it cascades.
PurgeGroup(g, cascade) ==
    /\ g \in Groups
    /\ RulesFor(group[g].name) = {} \/ cascade
    /\ group' = [group EXCEPT ![g] = NoRule]
    /\ rule' = RulesWithout(group[g].name)

CreateRule(r, type, value, effect) ==
    /\ rule[r] = NoRule
    /\ rule' = [rule EXCEPT ![r] = [type |-> type, value |-> value, effect |-> effect]]
    /\ UNCHANGED group

DeleteRule(r) ==
    /\ rule[r] # NoRule
    /\ rule' = [rule EXCEPT ![r] = NoRule]
    /\ UNCHANGED group

AccessNext ==
    \/ \E g \in GroupRow, name \in GroupName, members \in SUBSET Actor :
          \/ CreateGroup(g, name, members)
          \/ \E active \in BOOLEAN : UpdateGroup(g, name, members, active)
    \/ \E g \in GroupRow, cascade \in BOOLEAN : PurgeGroup(g, cascade)
    \/ \E r \in RuleRow, effect \in {"allow", "deny"} :
          \/ \E value \in Actor : CreateRule(r, "user", value, effect)
          \/ \E value \in GroupName : CreateRule(r, "group", value, effect)
    \/ \E r \in RuleRow : DeleteRule(r)

AccessSpec == AccessInit /\ [][AccessNext]_ruleVars

-----------------------------------------------------------------------------
(* "deny wins": no rule that is added and no group somebody is put into    *)
(* opens to them what a rule that still stands, for them or for a group    *)
(* they stay in, denies (ACLManager.allowed).                              *)
DenialsStand ==
    \A actor \in Actor, r \in RuleRow :
        /\ rule[r] # NoRule /\ rule[r].effect = "deny" /\ rule'[r] = rule[r]
        /\ <<rule[r].type, rule[r].value>> \in Subjects(actor) \cap Subjects(actor)'
        => ~Allowed(actor)'

(* The name of a purged group is free: a group that takes it over starts   *)
(* without rules of the one before (group_api refuses or cascades).        *)
PurgedNamesAreFree ==
    \A g \in Groups, name \in GroupName :
        group[g].name = name /\ group'[g] = NoRule => RulesFor(name)' = {}

(* What an administrator denied or purged stays so, whatever is done to    *)
(* rules and groups.                                                       *)
RulesHold == [][DenialsStand /\ PurgedNamesAreFree]_ruleVars
=============================================================================
