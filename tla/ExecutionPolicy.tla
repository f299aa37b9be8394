---------------------------- MODULE ExecutionPolicy ----------------------------
(***************************************************************************)
(* The policy generation as a revocation mechanism.  Brokers issue         *)
(* capabilities under the generation the file shows at that moment and     *)
(* honour a capability while the file shows the same generation            *)
(* (server.py, _prepare, _accept, _execute); the admin service increments  *)
(* it with every mutation, to invalidate what was issued before.  Here     *)
(* only these reads and the admin service's writes are left of the system, *)
(* so that overlapping requests, a dying service and failing writes can be *)
(* explored.                                                               *)
(***************************************************************************)
EXTENDS ExecutionAdmin

CONSTANTS
    Capability,  \* capabilities a broker issues
    NotIssued    \* the generation of a capability not issued yet

ASSUME NotIssuedAssumption == NotIssued \notin Nat

VARIABLES
    under,       \* capability -> the generation it was issued under
    superseded,  \* history: capabilities issued before a completed mutation
    overlap,     \* history: two bumps of the generation have overlapped, and one
                 \*     of the requests that overlapped is still at it
    exposed      \* history: capabilities issued before two bumps overlapped, while
                 \*     they did, or before a bump was given up half-way

issueVars == <<under, superseded, overlap, exposed>>
policyVars == <<adminVars, issueVars>>

PolicyTypeOK ==
    /\ AdminTypeOK
    /\ under \in [Capability -> Nat \cup {NotIssued}]
    /\ superseded \subseteq Capability
    /\ overlap \in BOOLEAN
    /\ exposed \subseteq Capability

PolicyInit ==
    /\ AdminInit
    /\ under = [c \in Capability |-> NotIssued]
    /\ superseded = {} /\ exposed = {}
    /\ overlap = FALSE

Issued == {c \in Capability : under[c] # NotIssued}

\* The requests inside _bump_generation, and those that have emptied the file.
InFlight == {a \in Admin : mutation[a].step \in {"read", "bumping"}}
Bumping == {a \in Admin : mutation[a].step = "bumping"}

IssueUnderPolicy(c) ==
    /\ under[c] = NotIssued
    /\ features # {}
    /\ under' = [under EXCEPT ![c] = generation]
    /\ exposed' = IF overlap THEN exposed \cup {c} ELSE exposed
    /\ UNCHANGED <<adminVars, superseded, overlap>>

\* A request is on its way: it writes its target, reads the generation, empties
\* the file.  Nothing keeps another request out of the bump meanwhile.
Mutate(a) ==
    /\ AdminStep(a)
    /\ overlap' = (overlap \/ \E b, d \in InFlight' : b # d)
    /\ exposed' = IF overlap' THEN Issued ELSE exposed
    /\ UNCHANGED <<under, superseded>>

\* The bump of a ends, and with the last of those that overlapped the overlap.
BumpEnds(a) == overlap' = (overlap /\ InFlight \ {a} # {})

\* The request is answered with the new generation.
CompleteMutation(a) ==
    /\ WriteGeneration(a)
    /\ BumpEnds(a)
    /\ superseded' = Issued
    /\ UNCHANGED <<under, exposed>>

\* A request that fails after it has emptied the file leaves it empty, and what
\* generations were given out is forgotten.
FailMutation(a) ==
    /\ MutationFails(a)
    /\ BumpEnds(a)
    /\ exposed' = IF a \in Bumping THEN Issued ELSE exposed
    /\ UNCHANGED <<under, superseded>>

ServiceDies ==
    /\ AdminRestart
    /\ overlap' = FALSE
    /\ exposed' = IF Bumping # {} THEN Issued ELSE exposed
    /\ UNCHANGED <<under, superseded>>

PolicyNext ==
    \/ \E c \in Capability : IssueUnderPolicy(c)
    \/ \E a \in Admin : Mutate(a) \/ CompleteMutation(a) \/ FailMutation(a)
    \/ ServiceDies

PolicySpec == PolicyInit /\ [][PolicyNext]_policyVars

-----------------------------------------------------------------------------

\* A broker that reads the policy now honours c.
Honoured(c) == under[c] # NotIssued /\ under[c] = generation

\* A capability that a completed mutation superseded is honoured, if at all, only
\* while the generation file is truncated and reads as 0 (as it was when it was
\* issued), unless bumps overlapped, or one was given up half-way, since it was
\* issued.
SupersededOnlyWhileTruncated ==
    \A c \in superseded \ exposed :
        Honoured(c) => generation = 0 /\ Bumping # {}

(* The policy files and what they admit, whatever requests of the admin service
   overlap, fail or are killed. *)
PolicyInv == PolicyTypeOK /\ SupersededOnlyWhileTruncated

(* What the admin service answers a rotation with and the guide promises: once no
   request is on its way, what was issued before a completed mutation is invalid.
   It does not hold: nothing serialises two bumps, and one given up half-way
   starts the generations anew. *)
RotationInvalidates ==
    (\A a \in Admin : mutation[a].step = "idle") => \A c \in superseded : ~Honoured(c)
=============================================================================
