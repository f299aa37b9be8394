---------------------------- MODULE MessagesStream ----------------------------
(* _MessageTranslator of anthropic.py: chat lines to the events of the Messages
   API, message_start .. message_stop. *)
EXTENDS ChatStream

NoBlock == -1

\* text: the block of the text; calls: the tool blocks in the order they opened.
NewTranslator ==
    [started |-> FALSE, stopped |-> FALSE, text |-> NoBlock, calls |-> <<>>,
     next |-> 0, reason |-> "end_turn", usage |-> FALSE, events |-> <<>>]

Start(t) ==
    IF t.started THEN t
    ELSE Emit([t EXCEPT !.started = TRUE], [type |-> "start"])

\* Every piece of text in a block of its own.
OpenTextAlways(t) ==
    Emit([t EXCEPT !.text = t.next, !.next = @ + 1], Opened(t.next, "text", NoId))

OpenText(t) ==
    IF t.text # NoBlock THEN t
    ELSE Emit([t EXCEPT !.text = t.next, !.next = @ + 1], Opened(t.next, "text", NoId))

AddText(t, piece) ==
    LET open == OpenText(Start(t)) IN Emit(open, Piece(open.text, piece))

\* The block opens with the id of the first delta, or a made-up one; a later id is
\* kept but no event carries it.
WithCall(t, line) ==
    LET at == Place(t.calls, line.index)
    IN  IF at = 0
        THEN Emit([t EXCEPT !.calls = Append(@, [index |-> line.index, block |-> t.next,
                                                 id |-> line.id]),
                            !.next = @ + 1],
                  Opened(t.next, "call", line.id))
        ELSE [t EXCEPT !.calls[at].id = IF line.id = NoId THEN @ ELSE line.id]

AddToolDelta(t, line) ==
    LET open == WithCall(Start(t), line)
        block == open.calls[Place(open.calls, line.index)].block
    IN  IF line.piece = NoPiece THEN open ELSE Emit(open, Piece(block, line.piece))

StopReasons ==
    [stop |-> "end_turn", length |-> "max_tokens", tool_calls |-> "tool_use",
     content_filter |-> "end_turn"]

Consume(t, line) ==
    CASE line.kind = "text" -> AddText(t, line.piece)
      [] line.kind = "call" -> AddToolDelta(t, line)
      [] line.kind = "finish" -> [t EXCEPT !.reason = StopReasons[line.reason]]
      [] line.kind = "usage" -> [t EXCEPT !.usage = TRUE]
      [] OTHER -> t

\* The events of the chunk before are dropped, not those before it: they are gone.
Feed(t, lines) == FoldLeft(Consume, [t EXCEPT !.events = <<>>], lines)

FinishBlocks(t) ==
    LET text == IF t.text = NoBlock THEN t ELSE Emit(t, Closed(t.text))
    IN  FoldLeft(LAMBDA u, call : Emit(u, Closed(call.block)), text, t.calls)

\* message_delta and message_stop
Finish(t) ==
    IF t.stopped THEN t
    ELSE [Emit(FinishBlocks(Start(t)),
               [type |-> "end", outcome |-> "complete", reason |-> t.reason,
                usage |-> t.usage])
          EXCEPT !.stopped = TRUE]

\* An end that looks the same whether the stream broke or not.
FailAsFinish(t) == Finish(t)

\* The error event ends the stream; the open blocks stay open.
Fail(t) ==
    IF t.stopped THEN t
    ELSE [Emit(t, [type |-> "end", outcome |-> "failed"]) EXCEPT !.stopped = TRUE]

\* chat_to_anthropic: what a client of the Messages API reads in a buffered answer.
Buffered(answer) ==
    [text |-> answer.text, calls |-> answer.calls,
     reason |-> IF answer.finish = "none" THEN "end_turn" ELSE StopReasons[answer.finish]]
=============================================================================
