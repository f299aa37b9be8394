\* Two requests at once over a plan of three steps, and a process that may die.  A
\* run that was deleted leaves nothing to do.
SPECIFICATION FairSpec
CONSTANTS
    Last = 3
    MaxAttempts <- MCMaxAttempts
    Flagged = {2}
    Dangerous = {3}
    RiskOf <- MCRiskOf
    Caller = {c1, c2}
CHECK_DEADLOCK FALSE
INVARIANTS RunInv NothingRunsUnapproved CompletesWhatIsLeft
PROPERTIES TheEndIsFinal StepsInOrder RunSettles
