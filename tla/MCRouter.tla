------------------------------- MODULE MCRouter -------------------------------
(***************************************************************************)
(* The router with what its replicas share: requests with the health       *)
(* table, sessions, and quotas.  The three have no variable in common, so  *)
(* a behaviour takes the steps of one of them and the others stay in their *)
(* first state.                                                            *)
(***************************************************************************)
EXTENDS MCRequest, StickySession, RateLimit

VARIABLE shown  \* the part whose steps are taken

routerVars == <<shown, requestVars, stickyVars, rateVars>>

RouterInit ==
    /\ shown \in {"requests", "sessions", "quotas"}
    /\ RequestInit /\ StickyInit /\ RateInit
    /\ shown # "requests" => mode = "route"
    /\ shown # "sessions" => backend = "sqlite"
    /\ shown # "quotas" => config = [redis |-> FALSE, failClosed |-> FALSE]

RouterNext ==
    /\ UNCHANGED shown
    /\ \/ shown = "requests" /\ RequestNext /\ UNCHANGED <<stickyVars, rateVars>>
       \/ shown = "sessions" /\ StickyNext /\ UNCHANGED <<requestVars, rateVars>>
       \/ shown = "quotas" /\ RateNext /\ UNCHANGED <<requestVars, stickyVars>>

RouterSpec == RouterInit /\ [][RouterNext]_routerVars

\* Nothing tells two requests, two calls or two callers apart but what they do.
Interchangeable == Permutations(Request) \cup Permutations(Call) \cup Permutations(Caller)
=============================================================================
