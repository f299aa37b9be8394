---------------------------- MODULE PromptVersions ----------------------------
(***************************************************************************)
(* Versions of one named prompt (prompts_api, prompt_api).  A POST waits   *)
(* for its body before it reads anything.  A PUT loads its row first; what *)
(* it then reads and writes is one step, but the row it loaded is not read *)
(* again, and a column set to the value that was loaded is not written.    *)
(***************************************************************************)
EXTENDS Naturals, FiniteSets, FiniteSetsExt

CONSTANTS
    MaxId,      \* bound on the rows
    MaxVersion, \* bound on the version numbers
    Activation, \* PUT requests that may be under way at a time
    None        \* no row, no request

ASSUME PromptAssumption == MaxId \in Nat /\ MaxVersion \in Nat

Id == 1 .. MaxId

VARIABLES
    prompt,  \* row -> [version, active], or None
    put      \* PUT -> the row it loaded: [id, active], or None

promptVars == <<prompt, put>>

Kept == {id \in Id : prompt[id] # None}
Active == {id \in Kept : prompt[id].active}
Newest == IF Kept = {} THEN 0 ELSE Max({prompt[id].version : id \in Kept})

PromptInit ==
    /\ prompt = [id \in Id |-> None]
    /\ put = [p \in Activation |-> None]

\* Mutant: versions are counted.
CountedVersion == Cardinality(Kept) + 1
NextVersion == Newest + 1

Retired(id) == IF prompt[id] = None THEN None ELSE [prompt[id] EXCEPT !.active = FALSE]

\* POST
AddVersion ==
    /\ NextVersion <= MaxVersion
    /\ \E id \in Id \ Kept :
          /\ id = Max({0} \cup Kept) + 1
          /\ prompt' = [i \in Id |-> IF i = id THEN [version |-> NextVersion, active |-> TRUE]
                                     ELSE Retired(i)]
    /\ UNCHANGED put

DeleteVersion(id) ==
    /\ id \in Kept
    /\ prompt' = [prompt EXCEPT ![id] = None]
    /\ UNCHANGED put

LoadVersion(p, id) ==
    /\ put[p] = None /\ id \in Kept
    /\ put' = [put EXCEPT ![p] = [id |-> id, active |-> prompt[id].active]]
    /\ UNCHANGED prompt

\* The other rows are read now and retired; the named one is written only when
\* it was loaded inactive and is still there.
Activated(id, loaded) ==
    [i \in Id |-> IF i # id THEN Retired(i)
                  ELSE IF loaded \/ prompt[i] = None THEN prompt[i] ELSE [prompt[i] EXCEPT !.active = TRUE]]

\* PUT with `activate'
Activate(p) ==
    /\ put[p] # None
    /\ prompt' = Activated(put[p].id, put[p].active)
    /\ put' = [put EXCEPT ![p] = None]

PromptNext ==
    \/ AddVersion
    \/ \E id \in Id : DeleteVersion(id)
    \/ \E p \in Activation, id \in Id : LoadVersion(p, id)
    \/ \E p \in Activation : Activate(p)

PromptSpec == PromptInit /\ [][PromptNext]_promptVars

-----------------------------------------------------------------------------
(* At most one version of a prompt is active and no two have the same      *)
(* number, whatever is deleted and however activations overlap.            *)
OneActiveVersion ==
    /\ Cardinality(Active) <= 1
    /\ \A i, j \in Kept : prompt[i].version = prompt[j].version => i = j
=============================================================================
