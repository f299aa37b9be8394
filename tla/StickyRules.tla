------------------------------ MODULE StickyRules ------------------------------
(***************************************************************************)
(* What one turn does to the tier a session sticks to: the part that the   *)
(* SQLite store and the Redis store of smart_router/database.py share.     *)
(***************************************************************************)
EXTENDS TierRouting

CONSTANT DemotionTurns  \* settings.demotion_turns

ASSUME DemotionAssumption == DemotionTurns \in Nat \ {0}

\* `lower' is simple_turn_count: how many turns in a row asked for less.
Stuck == [tier : Tier, lower : 0 .. DemotionTurns - 1]

\* A turn that counts one too few of them.
TurnedEarly(tier, lower, proposed) ==
    CASE Rank[proposed] > Rank[tier] -> [tier |-> proposed, lower |-> 0]
      [] Rank[proposed] < Rank[tier] ->
             IF lower + 2 >= DemotionTurns
             THEN [tier |-> proposed, lower |-> 0]
             ELSE [tier |-> tier, lower |-> lower + 1]
      [] OTHER -> [tier |-> tier, lower |-> 0]

\* A higher proposal is followed at once, a lower one when it is the last of
\* DemotionTurns in a row.
Turned(tier, lower, proposed) ==
    CASE Rank[proposed] > Rank[tier] -> [tier |-> proposed, lower |-> 0]
      [] Rank[proposed] < Rank[tier] ->
             IF lower + 1 >= DemotionTurns
             THEN [tier |-> proposed, lower |-> 0]
             ELSE [tier |-> tier, lower |-> lower + 1]
      [] OTHER -> [tier |-> tier, lower |-> 0]
=============================================================================
