------------------------------ MODULE ChatRequest ------------------------------
(***************************************************************************)
(* A conversation on its way to the upstream: the history a client of the  *)
(* Responses API or of the Messages API sends, and the chat messages       *)
(* responses.py and anthropic.py make of it.  Both histories are encodings *)
(* of the same acts: the user writes (with an image or not), the assistant *)
(* says or thinks something or calls a tool, the client gives the result.  *)
(* Texts are numbered by their place.                                      *)
(***************************************************************************)
EXTENDS Integers, Sequences, SequencesExt, FiniteSets

CONSTANTS
    CallId,   \* ids of tool calls
    MaxActs,  \* the bound on a conversation
    NoCall    \* a chat message that answers no call

VARIABLES
    acts,  \* the conversation, as a client of the Responses API keeps it
    turns  \* the same for the Messages API: the acts of one side in a row, together

historyVars == <<acts, turns>>

User(n, image) == [act |-> "user", text |-> n, image |-> image]
Say(n) == [act |-> "say", text |-> n]
Think == [act |-> "think"]
Call(id) == [act |-> "call", id |-> id]
Result(id) == [act |-> "result", id |-> id]

Made(kind) == {acts[i].id : i \in {j \in DOMAIN acts : acts[j].act = kind}}
OpenCalls == Made("call") \ Made("result")

LastAct ==
    LET acting == {i \in DOMAIN acts : acts[i].act # "think"}
    IN  IF acting = {} THEN "none"
        ELSE acts[CHOOSE i \in acting : \A j \in acting : j <= i].act

Side(act) == IF act.act \in {"user", "result"} THEN "user" ELSE "assistant"

\* An act is a block of the last message if that is of its side, or begins one.
Joined(act) ==
    IF turns # <<>> /\ Last(turns).role = Side(act)
    THEN [turns EXCEPT ![Len(turns)].blocks = Append(@, act)]
    ELSE Append(turns, [role |-> Side(act), blocks |-> <<act>>])

ConversationInit == acts = <<>> /\ turns = <<>>

\* What clients send: a result answers an open call, nobody writes before every call
\* is answered, and the results of calls made together follow one another.
Converse ==
    /\ Len(acts) < MaxActs
    /\ LET n == Len(acts) + 1
       IN  \E act \in {Think, Say(n)} \cup {User(n, image) : image \in BOOLEAN}
                        \cup {Call(id) : id \in CallId} \cup {Result(id) : id \in CallId} :
              /\ act.act \in {"user", "say"} => OpenCalls = {}
              /\ act.act = "call" => act.id \notin Made("call")
              /\ act.act \in {"call", "think"} => OpenCalls = {} \/ LastAct = "call"
              /\ act.act = "result" => act.id \in OpenCalls
              /\ acts' = Append(acts, act)
              /\ turns' = Joined(act)

ConversationSpec == ConversationInit /\ [][Converse]_historyVars

-----------------------------------------------------------------------------
(* Chat messages *)

Message(role, content, calls, answers) ==
    [role |-> role, content |-> content, calls |-> calls, answers |-> answers]

(* From the Responses API: one item for an act *)

\* _input_to_messages, one item, when a call never joins the message before it.
ItemAlone(s, act) ==
    CASE act.act = "call" ->
             [s EXCEPT !.messages = Append(@, Message("assistant", <<>>, <<act.id>>, NoCall))]
      [] act.act = "result" ->
             [s EXCEPT !.messages = Append(@, Message("tool", <<>>, <<>>, act.id))]
      [] act.act = "think" -> s
      [] OTHER ->
             [s EXCEPT !.messages = Append(@,
                 Message(IF act.act = "user" THEN "user" ELSE "assistant",
                         <<act.text>>, <<>>, NoCall))]

\* _input_to_messages, one item.  Calls in a row, reasoning between them or not,
\* join one assistant message.
Item(s, act) ==
    CASE act.act = "call" /\ s.pending ->
             [s EXCEPT !.messages[Len(s.messages)].calls = Append(@, act.id)]
      [] act.act = "call" /\ ~s.pending ->
             [messages |-> Append(s.messages, Message("assistant", <<>>, <<act.id>>, NoCall)),
              pending |-> TRUE]
      [] act.act = "result" ->
             [messages |-> Append(s.messages, Message("tool", <<>>, <<>>, act.id)),
              pending |-> FALSE]
      [] act.act = "think" -> s
      [] OTHER ->
             [messages |-> Append(s.messages,
                 Message(IF act.act = "user" THEN "user" ELSE "assistant",
                         <<act.text>>, <<>>, NoCall)),
              pending |-> FALSE]

\* A request without messages gets an empty one.
OrEmpty(messages) ==
    IF messages = <<>> THEN <<Message("user", <<>>, <<>>, NoCall)>> ELSE messages

FromResponses ==
    OrEmpty(FoldLeft(Item, [messages |-> <<>>, pending |-> FALSE], acts).messages)

(* From the Messages API: a message has the acts of one side in a row *)

\* flush() of _content_to_messages: what was gathered since the last one.  An
\* assistant's message has its texts and calls, a user's its texts or, with an
\* image, its parts.
Flushed(s, role) ==
    LET gathered == IF role = "assistant" THEN s.texts # <<>> \/ s.calls # <<>>
                    ELSE s.texts # <<>> \/ s.images > 0
    IN  [out |-> IF gathered THEN Append(s.out, Message(role, s.texts, s.calls, NoCall))
                 ELSE s.out,
         texts |-> <<>>, calls |-> <<>>, images |-> 0]

Block(s, act) ==
    CASE act.act = "say" -> [s EXCEPT !.texts = Append(@, act.text)]
      [] act.act = "user" -> [s EXCEPT !.texts = Append(@, act.text),
                                       !.images = @ + (IF act.image THEN 1 ELSE 0)]
      [] act.act = "call" -> [s EXCEPT !.calls = Append(@, act.id)]
      [] act.act = "result" ->
             LET f == Flushed(s, "user")
             IN  [f EXCEPT !.out = Append(@, Message("tool", <<>>, <<>>, act.id))]
      [] act.act = "think" -> s

ContentToMessages(turn) ==
    LET s == FoldLeft(Block, [out |-> <<>>, texts |-> <<>>, calls |-> <<>>, images |-> 0],
                      turn.blocks)
        f == Flushed(s, turn.role)
    IN  IF f.out = <<>> THEN <<Message(turn.role, <<>>, <<>>, NoCall)>> ELSE f.out

FromMessages ==
    OrEmpty(FoldLeft(LAMBDA messages, turn : messages \o ContentToMessages(turn), <<>>, turns))

-----------------------------------------------------------------------------
(* What should hold *)

\* A chat upstream takes a tool message only right after the assistant message with
\* its call, other tool messages between; and a call only if it is answered there.
Accepts(messages, complete) ==
    LET toolsUpTo(j, i) == \A k \in j + 1 .. i : messages[k].role = "tool"
        answersOf(j) == {messages[i].answers :
                            i \in {k \in j + 1 .. Len(messages) : toolsUpTo(j, k)}}
    IN  /\ \A i \in DOMAIN messages : messages[i].role = "tool" =>
              \E j \in 1 .. i - 1 : /\ messages[i].answers \in ToSet(messages[j].calls)
                                    /\ toolsUpTo(j, i)
        /\ complete => \A j \in DOMAIN messages :
              ToSet(messages[j].calls) \subseteq answersOf(j)

\* "function_call / function_call_output history" and tool use are translated: a
\* conversation that keeps its protocol's rules, calls in parallel and thinking
\* between them included, makes a chat request that keeps the chat rules.
HistoryAccepted ==
    /\ Accepts(FromResponses, OpenCalls = {})
    /\ Accepts(FromMessages, OpenCalls = {})

Texts(messages) == FoldLeft(LAMBDA texts, message : texts \o message.content, <<>>, messages)

\* Every text of the conversation is in the request once, in its place: texts are
\* numbered by their places.
TextsKept ==
    LET written == {acts[i].text : i \in {j \in DOMAIN acts : acts[j].act \in {"user", "say"}}}
        kept(texts) == /\ ToSet(texts) = written
                       /\ \A i, j \in DOMAIN texts : i < j => texts[i] < texts[j]
    IN  kept(Texts(FromResponses)) /\ kept(Texts(FromMessages))

\* The history a chat upstream receives is one it accepts, and complete.
HistoryTranslated == HistoryAccepted /\ TextsKept
=============================================================================
