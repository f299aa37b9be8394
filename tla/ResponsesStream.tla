---------------------------- MODULE ResponsesStream ----------------------------
(* _StreamTranslator of responses.py: chat lines to the numbered events of the
   Responses API.  The message is output item 0 and the calls count from 1, in
   the order they are seen. *)
EXTENDS ChatStream

MessageItem == 0

NewTranslator ==
    [started |-> FALSE, stopped |-> FALSE, message |-> FALSE, text |-> <<>>,
     calls |-> <<>>, next |-> 1, sequence |-> 0, reason |-> "stop", usage |-> FALSE,
     events |-> <<>>]

Numbered(event, n) ==
    [field \in DOMAIN event \cup {"number"} |-> IF field = "number" THEN n ELSE event[field]]

\* _emit numbers the events from 1.
EmitNext(t, event) ==
    Emit([t EXCEPT !.sequence = @ + 1], Numbered(event, t.sequence + 1))

\* response.created and response.in_progress
Start(t) ==
    IF t.started THEN t
    ELSE EmitNext([t EXCEPT !.started = TRUE], [type |-> "start"])

\* output_item.added and content_part.added
OpenMessage(t) ==
    IF t.message THEN t
    ELSE EmitNext([t EXCEPT !.message = TRUE], Opened(MessageItem, "text", NoId))

AddText(t, piece) ==
    LET open == OpenMessage(Start(t))
    IN  EmitNext([open EXCEPT !.text = Append(@, piece)], Piece(MessageItem, piece))

\* _tool_entry and output_item.added
WithCall(t, line) ==
    LET at == Place(t.calls, line.index)
    IN  IF at = 0
        THEN EmitNext([t EXCEPT !.calls = Append(@, [index |-> line.index, block |-> t.next,
                                                     id |-> line.id, args |-> <<>>]),
                                !.next = @ + 1],
                      Opened(t.next, "call", line.id))
        ELSE [t EXCEPT !.calls[at].id = IF line.id = NoId THEN @ ELSE line.id]

AddToolDelta(t, line) ==
    LET open == WithCall(Start(t), line)
        at == Place(open.calls, line.index)
    IN  IF line.piece = NoPiece THEN open
        ELSE EmitNext([open EXCEPT !.calls[at].args = Append(@, line.piece)],
                      Piece(open.calls[at].block, line.piece))

Consume(t, line) ==
    CASE line.kind = "text" -> AddText(t, line.piece)
      [] line.kind = "call" -> AddToolDelta(t, line)
      [] line.kind = "finish" -> [t EXCEPT !.reason = line.reason]
      [] line.kind = "usage" -> [t EXCEPT !.usage = TRUE]
      [] OTHER -> t

Feed(t, lines) == FoldLeft(Consume, [t EXCEPT !.events = <<>>], lines)

\* The done events of an item repeat the whole of it: id and pieces.
Done(block, id, pieces) == [type |-> "close", block |-> block, id |-> id, pieces |-> pieces]

\* _finish_message and _finish_tools
FinishItems(t) ==
    LET text == IF t.message THEN EmitNext(t, Done(MessageItem, NoId, t.text)) ELSE t
    IN  FoldLeft(LAMBDA u, call : EmitNext(u, Done(call.block, call.id, call.args)),
                 text, t.calls)

\* _finish_state
FinishState(reason) ==
    IF reason \in {"length", "content_filter"} THEN "incomplete" ELSE "completed"

\* response.completed, with the status the finish reason gives
Finish(t) ==
    IF t.stopped THEN t
    ELSE [EmitNext(FinishItems(Start(t)),
                   [type |-> "end", outcome |-> "complete",
                    reason |-> FinishState(t.reason), usage |-> t.usage])
          EXCEPT !.stopped = TRUE]

\* response.failed, with the items as far as they came
Fail(t) ==
    IF t.stopped THEN t
    ELSE [EmitNext(FinishItems(t), [type |-> "end", outcome |-> "failed"])
          EXCEPT !.stopped = TRUE]

\* chat_to_responses, read by a client
Buffered(answer) ==
    [text |-> answer.text, calls |-> answer.calls, reason |-> FinishState(answer.finish)]
=============================================================================
