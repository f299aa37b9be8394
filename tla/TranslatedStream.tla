---------------------------- MODULE TranslatedStream ----------------------------
(***************************************************************************)
(* One streamed answer on its way to a client of the Messages API and to a *)
(* client of the Responses API (_wrap_stream of anthropic.py and           *)
(* responses.py).  The upstream writes lines; the network cuts what it     *)
(* wrote into chunks, in the middle of a line if it likes; each chunk is   *)
(* translated on its own.  A line cut in two is decoded in neither chunk.  *)
(***************************************************************************)
EXTENDS ChatStream, TLC

CONSTANTS
    MaxLines,  \* the bound on the lines of an answer
    PerChunk,  \* the bound on the lines of a chunk
    Reasons    \* the finish reasons the upstream gives

ASSUME MaxLinesAssumption == MaxLines \in Nat

M == INSTANCE MessagesStream
R == INSTANCE ResponsesStream

VARIABLES
    lines,     \* what the upstream has sent
    cut,       \* history: some line was cut in two
    ended,     \* "no", "complete" or "failed"
    messages,  \* the translator of the Messages API
    responses, \* the translator of the Responses API
    toMessages, toResponses,  \* the events that went to the two clients
    fresh      \* history: the events of the last chunk have not been sent twice

streamVars == <<lines, cut, ended, messages, responses, toMessages, toResponses, fresh>>

StreamInit ==
    /\ lines = <<>>
    /\ cut = FALSE
    /\ ended = "no"
    /\ messages = M!Start(M!NewTranslator)
    /\ responses = R!Start(R!NewTranslator)
    /\ toMessages = messages.events
    /\ toResponses = responses.events
    /\ fresh = TRUE

-----------------------------------------------------------------------------

\* The next line: its number is its piece.  A call may be continued without its id, an
\* upstream may send the id late, and the delta that brings it may have no arguments, as
\* the first of a call usually has none.
NextLines(sent) ==
    LET n == Len(sent) + 1
    IN  {TextLine(n), UsageLine, OtherLine}
        \cup {FinishLine(reason) : reason \in Reasons}
        \cup {CallLine(index, id, n) : index \in CallIndex, id \in {NoId, "id"}}
        \cup {CallLine(index, "id", NoPiece) : index \in CallIndex}

Batches ==
    LET more(batches) ==
            UNION {{Append(b, line) : line \in NextLines(lines \o b)} : b \in batches}
        one == {<<line>> : line \in NextLines(lines)}
    IN  IF PerChunk = 1 THEN one ELSE one \cup more(one)

\* A chunk arrives and is translated; its last line may be cut, and the rest of that
\* line, which comes with the next chunk, is not a data line.
Chunk ==
    /\ ended = "no"
    /\ \E batch \in Batches, whole \in BOOLEAN :
          LET decoded == IF whole THEN batch ELSE Front(batch)
          IN  /\ Len(lines) + Len(batch) <= MaxLines
              /\ lines' = lines \o batch
              /\ cut' = (cut \/ ~whole)
              /\ messages' = M!Feed(messages, decoded)
              /\ responses' = R!Feed(responses, decoded)
    /\ toMessages' = toMessages \o messages'.events
    /\ toResponses' = toResponses \o responses'.events
    /\ UNCHANGED <<ended, fresh>>

\* What is sent at the end is `events', and finish and fail add to what the last
\* feed left there.
EndWith(m, r, outcome) ==
    /\ ended = "no"
    /\ ended' = outcome
    /\ messages' = m
    /\ responses' = r
    /\ toMessages' = toMessages \o m.events
    /\ toResponses' = toResponses \o r.events
    /\ fresh' = (messages.events = <<>> /\ responses.events = <<>>)
    /\ UNCHANGED <<lines, cut>>

StreamEnds == EndWith(M!Finish(messages), R!Finish(responses), "complete")

StreamBreaks == EndWith(M!Fail(messages), R!Fail(responses), "failed")

StreamNext == Chunk \/ StreamEnds \/ StreamBreaks

StreamSpec == StreamInit /\ [][StreamNext]_streamVars

-----------------------------------------------------------------------------
(* A client: what it makes of the events *)

Unread == [ok |-> TRUE, started |-> FALSE, blocks |-> <<>>, numbered |-> 0,
           outcome |-> "none", reason |-> "none"]

BlockAt(c, block) == SelectInSeq(c.blocks, LAMBDA b : b.block = block)

\* The events of the Responses API are numbered from 1 without gaps.
Counted(c, number) == [c EXCEPT !.numbered = number, !.ok = @ /\ number = c.numbered + 1]

\* A block may be opened once, written while it is open, and closed once.
Understood(c, e) ==
    LET at == IF e.type \in {"open", "delta", "close"} THEN BlockAt(c, e.block) ELSE 0
        good(expected) == [c EXCEPT !.ok = @ /\ expected /\ c.outcome = "none"]
    IN  CASE e.type = "start" -> [good(~c.started) EXCEPT !.started = TRUE]
          [] e.type = "open" ->
                 [good(c.started /\ at = 0) EXCEPT
                    !.blocks = Append(@, [block |-> e.block, kind |-> e.kind, id |-> e.id,
                                          pieces |-> <<>>, open |-> TRUE])]
          [] e.type = "delta" /\ at # 0 ->
                 [good(c.blocks[at].open) EXCEPT !.blocks[at].pieces = Append(@, e.piece)]
          [] e.type = "close" /\ at # 0 ->
                 [good(/\ c.blocks[at].open
                       /\ "pieces" \in DOMAIN e => e.pieces = c.blocks[at].pieces)
                  EXCEPT !.blocks[at] =
                      [c.blocks[at] EXCEPT !.open = FALSE,
                                           !.id = IF "id" \in DOMAIN e THEN e.id ELSE @]]
          [] e.type = "end" /\ e.outcome = "complete" ->
                 [good(\A i \in DOMAIN c.blocks : ~c.blocks[i].open) EXCEPT
                    !.outcome = "complete", !.reason = e.reason]
          [] e.type = "end" /\ e.outcome = "failed" ->
                 [good(TRUE) EXCEPT !.outcome = "failed"]
          [] OTHER -> [c EXCEPT !.ok = FALSE]

Read(c, e) == Understood(IF "number" \in DOMAIN e THEN Counted(c, e.number) ELSE c, e)

Client(events) == FoldLeft(Read, Unread, events)

\* The text and the calls of a client, calls as sets: an upstream may interleave
\* them, and a buffered answer lists them by index.
TextOf(c) == FlattenSeq([i \in DOMAIN c.blocks |->
                            IF c.blocks[i].kind = "text" THEN c.blocks[i].pieces ELSE <<>>])
ArgsOf(c) == {c.blocks[i].pieces : i \in {j \in DOMAIN c.blocks : c.blocks[j].kind = "call"}}
IdsOf(c) == {<<c.blocks[i].id, c.blocks[i].pieces>> :
                i \in {j \in DOMAIN c.blocks : c.blocks[j].kind = "call"}}

AnswerArgs(answer) == {answer.calls[i].args : i \in DOMAIN answer.calls}
AnswerIds(answer) == {<<answer.calls[i].id, answer.calls[i].args>> : i \in DOMAIN answer.calls}

-----------------------------------------------------------------------------
(* What should hold *)

StreamTypeOK ==
    /\ Len(lines) <= MaxLines
    /\ ended \in {"no", "complete", "failed"}
    /\ responses.sequence >= Len(responses.events)
    /\ messages.next = Len(messages.calls) + (IF messages.text = M!NoBlock THEN 0 ELSE 1)
    /\ responses.next = Len(responses.calls) + 1

\* The events of both protocols are well formed: one start, every block opened before
\* it is written, written before it is closed and closed once, numbers without gaps,
\* a whole answer that matches its parts, nothing after the end.  (Not when the last
\* chunk's events were sent twice.)
WellFormed == fresh => Client(toMessages).ok /\ Client(toResponses).ok

\* Comment of fail: a truncated answer does not look complete.  A client is told
\* "complete" only if the upstream's stream came to its end, and told "failed" if it
\* did not, wherever it broke: before anything arrived, with blocks open, or right after
\* a chunk whose events are then sent again.
TruncationIsTold ==
    ended # "no" => /\ Client(toMessages).outcome = ended
                    /\ Client(toResponses).outcome = ended

\* Text and calls are what the upstream sent and what the same answer would be
\* collapsed and buffered, in both protocols, if no line was cut and nothing was
\* sent twice.  The id of a call reaches a client of the Messages API only with the
\* first delta of the call.
SameAsBuffered ==
    ended = "complete" /\ ~cut /\ fresh =>
        LET answer == Collapsed(lines)
            m == Client(toMessages)
            r == Client(toResponses)
        IN  /\ TextOf(m) = answer.text /\ TextOf(r) = answer.text
            /\ ArgsOf(m) = AnswerArgs(answer)
            /\ IdsOf(r) = AnswerIds(answer)
            /\ answer.finish # "none" =>
                  /\ m.reason = M!Buffered(answer).reason
                  /\ r.reason = R!Buffered(answer).reason

\* User guide, 4.2: "streaming deltas, and usage are translated in both directions".
\* The text of a stream that came to its end is the text the upstream sent, if none of
\* it was sent twice.
TextArrives ==
    ended = "complete" /\ fresh =>
        LET answer == Collapsed(lines)
        IN  TextOf(Client(toMessages)) = answer.text /\ TextOf(Client(toResponses)) = answer.text

\* The contract test of the Codex stream (test_responses.py): each event of a stream
\* carries the number of its place in it.  It does not hold: the end of a stream sends the
\* events of its last chunk again.
NumberedByPlace == \A i \in DOMAIN toResponses : toResponses[i].number = i

\* The events of both translations, at any point of the stream.
StreamInv == StreamTypeOK /\ WellFormed
=============================================================================
