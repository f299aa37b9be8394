------------------------------ MODULE ChatStream ------------------------------
(***************************************************************************)
(* What a streamed chat completion is to the router: a sequence of data    *)
(* lines, each a piece of the answer.  proxy.py collapses one into a       *)
(* buffered answer; anthropic.py and responses.py turn one into the events *)
(* of their protocols.                                                     *)
(*                                                                         *)
(* A piece of text or of a call's arguments is a number, so that the order *)
(* of pieces can be told.  A line has one delta; a line with several is    *)
(* several lines that arrive together.                                     *)
(***************************************************************************)
EXTENDS Integers, Sequences, SequencesExt

CONSTANTS
    CallIndex,  \* the indexes of tool calls
    NoId        \* a delta of a tool call that carries no id

NoPiece == 0

TextLine(piece) == [kind |-> "text", piece |-> piece]
CallLine(index, id, piece) ==
    [kind |-> "call", index |-> index, id |-> id, piece |-> piece]
FinishLine(reason) == [kind |-> "finish", reason |-> reason]
UsageLine == [kind |-> "usage"]
OtherLine == [kind |-> "other"]  \* [DONE] and comments

\* A piece that is empty adds nothing.
WithPiece(pieces, piece) == IF piece = NoPiece THEN pieces ELSE Append(pieces, piece)

\* The first place a call has among the calls seen so far; 0 when it has none.
Place(calls, index) == SelectInSeq(calls, LAMBDA call : call.index = index)

\* _merge_tool_call without the index: every delta makes a call of its own.
AppendedCall(calls, line) ==
    Append(calls, [index |-> line.index, id |-> line.id,
                   args |-> WithPiece(<<>>, line.piece)])

\* _merge_tool_call
MergedCall(calls, line) ==
    LET at == Place(calls, line.index)
    IN  IF at = 0
        THEN Append(calls, [index |-> line.index, id |-> line.id,
                            args |-> WithPiece(<<>>, line.piece)])
        ELSE [calls EXCEPT ![at].id = IF line.id = NoId THEN @ ELSE line.id,
                           ![at].args = WithPiece(@, line.piece)]

\* collapse_chat_stream: the pieces joined, and the finish of the last chunk that
\* has a choice.  The line with the usage has none and is passed over, with its usage.
Collapsed(lines) ==
    LET step(answer, line) ==
            CASE line.kind = "text" ->
                     [answer EXCEPT !.text = Append(@, line.piece), !.finish = "none"]
              [] line.kind = "call" ->
                     [answer EXCEPT !.calls = MergedCall(@, line), !.finish = "none"]
              [] line.kind = "finish" -> [answer EXCEPT !.finish = line.reason]
              [] OTHER -> answer
    IN  FoldLeft(step, [text |-> <<>>, calls |-> <<>>, finish |-> "none"], lines)

-----------------------------------------------------------------------------
(* Events, in the words both protocols share.  A block is a content block of *)
(* the Messages API or an output item of the Responses API.                  *)

Emit(t, event) == [t EXCEPT !.events = Append(@, event)]

Opened(block, kind, id) == [type |-> "open", block |-> block, kind |-> kind, id |-> id]
Piece(block, piece) == [type |-> "delta", block |-> block, piece |-> piece]
Closed(block) == [type |-> "close", block |-> block]
=============================================================================
