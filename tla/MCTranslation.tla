---------------------------- MODULE MCTranslation ----------------------------
(***************************************************************************)
(* The translated APIs: a conversation that grows act by act, and one that *)
(* is answered by a stream.                                                *)
(***************************************************************************)
EXTENDS TranslatedStream, ChatRequest

VARIABLE shown  \* the part whose steps are taken

vars == <<shown, historyVars, streamVars>>

Init == shown \in {"request", "answer"} /\ ConversationInit /\ StreamInit

Next ==
    /\ UNCHANGED shown
    /\ \/ shown = "request" /\ Converse /\ UNCHANGED streamVars
       \/ shown = "answer" /\ StreamNext /\ UNCHANGED historyVars

Spec == Init /\ [][Next]_vars
=============================================================================
