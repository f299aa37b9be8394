-------------------------- MODULE TranslationProofs --------------------------
(***************************************************************************)
(* The events of the two translated protocols are well formed, and their   *)
(* end is the end of the upstream's stream, for answers of any length, any *)
(* cut of the network and any number of calls.                             *)
(*                                                                         *)
(* The argument: what a client has read is the fold of Read over the       *)
(* events, and stays a View (Seen, ClientIs).  A translator's notes say    *)
(* what the client has: which blocks are open and, for the Responses API,  *)
(* what was written in each and the last number (MGood, RGood); every line *)
(* keeps that true, whatever the client had before, so a chunk does, and   *)
(* so the stream does although the translator forgets the events of        *)
(* earlier chunks.  At the end the notes name every open block, so what is *)
(* closed then is all that was open and nothing else.                      *)
(*                                                                         *)
(* As long as no line was cut, the client also has the answer the lines    *)
(* collapse to: one block the text, one block for each call its arguments  *)
(* (MSays, RSays).  A line extends the collapsed answer (Extended, Merged) *)
(* as it extends what the client has, and the end touches neither, so the  *)
(* buffered answer would have said the same (BufferedTheSame).             *)
(*                                                                         *)
(* The histories of conversations that are translated for the upstream     *)
(* keep its rules and every text, however long they are (HistoryHolds).    *)
(***************************************************************************)
EXTENDS TranslatedStream, ChatRequest, FoldTheorems

-----------------------------------------------------------------------------
(* What a client reads *)

Ids == {NoId, "id"}
Ending == {"none", "end_turn", "completed", "incomplete"} \cup {M!StopReasons[r] : r \in Reasons}

ClientBlock == [block : Int, kind : {"text", "call"}, id : Ids, pieces : Seq(Nat), open : BOOLEAN]
View == [ok : BOOLEAN, started : BOOLEAN, blocks : Seq(ClientBlock), numbered : Nat,
         outcome : {"none", "complete", "failed"}, reason : Ending]

PlainEvent ==
    [type : {"start"}]
    \cup [type : {"open"}, block : Int, kind : {"text", "call"}, id : Ids]
    \cup [type : {"delta"}, block : Int, piece : Nat]
    \cup [type : {"close"}, block : Int]
    \cup [type : {"close"}, block : Int, id : Ids, pieces : Seq(Nat)]
    \cup [type : {"end"}, outcome : {"complete"}, reason : Ending, usage : BOOLEAN]
    \cup [type : {"end"}, outcome : {"failed"}]

Judged(c, expected) == [c EXCEPT !.ok = c.ok /\ expected /\ c.outcome = "none"]

\* What the client makes of an event, one kind of event at a time.
LEMMA ReadsStart ==
    ASSUME NEW c, NEW e, e.type = "start"
    PROVE  Understood(c, e) = [Judged(c, ~c.started) EXCEPT !.started = TRUE]
BY Zenon DEF Understood, Judged

\* A block that is opened comes last.
LEMMA ReadsOpen ==
    ASSUME NEW c, NEW e, e.type = "open"
    PROVE  Understood(c, e) =
              [Judged(c, c.started /\ BlockAt(c, e.block) = 0) EXCEPT
                 !.blocks = Append(c.blocks, [block |-> e.block, kind |-> e.kind, id |-> e.id,
                                              pieces |-> <<>>, open |-> TRUE])]
BY Zenon DEF Understood, Judged

\* An event of a block that was never opened is an error.
LEMMA ReadsUnopened ==
    ASSUME NEW c, NEW e, e.type \in {"delta", "close"}, BlockAt(c, e.block) = 0
    PROVE  Understood(c, e) = [c EXCEPT !.ok = FALSE]
BY Zenon DEF Understood

\* At a whole answer's end no block is open.
LEMMA ReadsEnd ==
    ASSUME NEW c, NEW e, e.type = "end", e.outcome = "complete"
    PROVE  Understood(c, e) =
              [Judged(c, \A i \in DOMAIN c.blocks : ~c.blocks[i].open) EXCEPT
                 !.outcome = "complete", !.reason = e.reason]
BY Zenon DEF Understood, Judged

\* A failure may come at any time.
LEMMA ReadsFailed ==
    ASSUME NEW c, NEW e, e.type = "end", e.outcome = "failed"
    PROVE  Understood(c, e) = [Judged(c, TRUE) EXCEPT !.outcome = "failed"]
BY Zenon DEF Understood, Judged

\* A number changes nothing but the count and what it says of the order.
LEMMA CountedIs ==
    ASSUME NEW c \in View, NEW n \in Nat
    PROVE  /\ Counted(c, n) \in View
           /\ Counted(c, n).blocks = c.blocks
           /\ Counted(c, n).started = c.started
           /\ Counted(c, n).outcome = c.outcome
           /\ Counted(c, n).numbered = n
           /\ Counted(c, n).ok <=> (c.ok /\ n = c.numbered + 1)
BY DEF Counted, View

\* An event as the translator of the Messages API (number 0) or that of the Responses
\* API numbers it.
Sent(e, n) == IF n = 0 THEN e ELSE R!Numbered(e, n)
At(c, n) == IF n = 0 THEN c ELSE Counted(c, n)

Event == {Sent(e, n) : e \in PlainEvent, n \in Nat}

\* A number hides nothing of an event.
LEMMA SentIs ==
    ASSUME NEW e \in PlainEvent, NEW n \in Nat
    PROVE  /\ \A x \in DOMAIN e : Sent(e, n)[x] = e[x]
           /\ "id" \in DOMAIN Sent(e, n) <=> "id" \in DOMAIN e
           /\ "pieces" \in DOMAIN Sent(e, n) <=> "pieces" \in DOMAIN e
           /\ \A c : Read(c, Sent(e, n)) = Understood(At(c, n), Sent(e, n))
<1>1. "number" \notin DOMAIN e
  BY DEF PlainEvent
<1>2. CASE n = 0
  BY <1>1, <1>2 DEF Sent, At, Read
<1>3. CASE n # 0
  BY <1>1, <1>3 DEF Sent, At, R!Numbered, Read
<1> QED BY <1>2, <1>3

\* BlockAt finds a block with the number, if there is one.
LEMMA BlockAtIs ==
    ASSUME NEW c \in View, NEW b
    PROVE  /\ BlockAt(c, b) = 0 => \A i \in DOMAIN c.blocks : c.blocks[i].block # b
           /\ BlockAt(c, b) # 0 => /\ BlockAt(c, b) \in DOMAIN c.blocks
                                  /\ c.blocks[BlockAt(c, b)].block = b
<1> DEFINE I == {i \in 1 .. Len(c.blocks) : c.blocks[i].block = b}
<1>1. BlockAt(c, b) = IF I # {} THEN Min(I) ELSE 0
  BY DEF BlockAt, SelectInSeq
<1>2. I \subseteq Nat /\ DOMAIN c.blocks = 1 .. Len(c.blocks)
  BY DEF View
<1>3. I # {} => Min(I) \in I
  <2> HIDE DEF I
  <2> QED BY <1>2, LeastNumber
<1> QED BY <1>1, <1>2, <1>3

Numbers(c) == {c.blocks[i].block : i \in DOMAIN c.blocks}
Unique(c) == \A i, j \in DOMAIN c.blocks : c.blocks[i].block = c.blocks[j].block => i = j
BlockOf(c, b) == c.blocks[BlockAt(c, b)]

\* When the numbers are unique it finds the block.
LEMMA BlockOfIs ==
    ASSUME NEW c \in View, Unique(c), NEW i \in DOMAIN c.blocks
    PROVE  BlockOf(c, c.blocks[i].block) = c.blocks[i]
<1> DEFINE b == c.blocks[i].block
<1>1. BlockAt(c, b) # 0
  BY BlockAtIs
<1>2. BlockAt(c, b) \in DOMAIN c.blocks /\ c.blocks[BlockAt(c, b)].block = b
  BY <1>1, BlockAtIs
<1>3. BlockAt(c, b) = i
  BY <1>2 DEF Unique
<1> QED BY <1>3 DEF BlockOf

\* The numbers of the blocks are those BlockAt finds.
LEMMA NumbersAt ==
    ASSUME NEW c \in View, NEW b
    PROVE  b \in Numbers(c) <=> BlockAt(c, b) # 0
BY BlockAtIs DEF Numbers

\* Blocks but that numbered b are untouched.
KeptBut(c, d, b) == \A x \in Numbers(c) \ {b} : BlockOf(d, x) = BlockOf(c, x)

\* A block more, with a number of its own, leaves the others as they were.
LEMMA BlocksAppended ==
    ASSUME NEW c \in View, NEW d \in View, Unique(c), NEW r,
           r.block \notin Numbers(c), d.blocks = Append(c.blocks, r)
    PROVE  /\ Unique(d) /\ Numbers(d) = Numbers(c) \cup {r.block}
           /\ BlockOf(d, r.block) = r /\ KeptBut(c, d, r.block)
<1> DEFINE n == Len(c.blocks)
<1>1. /\ n \in Nat /\ DOMAIN c.blocks = 1 .. n /\ DOMAIN d.blocks = 1 .. n + 1
      /\ d.blocks[n + 1] = r /\ \A i \in 1 .. n : d.blocks[i] = c.blocks[i]
  BY DEF View
<1> HIDE DEF n
<1>2. \A i \in 1 .. n : c.blocks[i].block \in Numbers(c) /\ c.blocks[i].block # r.block
  BY <1>1 DEF Numbers
<1>3. \A i \in 1 .. n + 1 : i \in 1 .. n \/ i = n + 1
  BY <1>1
<1>4. 1 .. n \subseteq 1 .. n + 1 /\ n + 1 \in 1 .. n + 1
  BY <1>1
<1>5. Unique(d)
  BY <1>1, <1>2, <1>3 DEF Unique
<1>6. Numbers(d) = Numbers(c) \cup {r.block}
  BY <1>1, <1>3, <1>4 DEF Numbers
<1>7. BlockOf(d, r.block) = r
  BY <1>1, <1>4, <1>5, BlockOfIs
<1>8. ASSUME NEW x \in Numbers(c) PROVE BlockOf(d, x) = BlockOf(c, x)
  <2>1. PICK i \in 1 .. n : x = c.blocks[i].block
    BY <1>1 DEF Numbers
  <2>2. BlockOf(c, x) = c.blocks[i]
    BY <2>1, <1>1, BlockOfIs
  <2>3. BlockOf(d, x) = d.blocks[i]
    BY <2>1, <1>1, <1>4, <1>5, BlockOfIs
  <2> QED BY <2>2, <2>3, <1>1
<1> QED BY <1>5, <1>6, <1>7, <1>8 DEF KeptBut

\* So does a block that is replaced by one with the same number.
LEMMA BlockReplaced ==
    ASSUME NEW c \in View, NEW d \in View, Unique(c), NEW at \in DOMAIN c.blocks, NEW r,
           r.block = c.blocks[at].block, DOMAIN d.blocks = DOMAIN c.blocks,
           d.blocks[at] = r, \A i \in DOMAIN c.blocks : i # at => d.blocks[i] = c.blocks[i]
    PROVE  /\ Unique(d) /\ Numbers(d) = Numbers(c)
           /\ BlockOf(d, r.block) = r /\ KeptBut(c, d, r.block)
<1>1. \A i \in DOMAIN c.blocks : d.blocks[i].block = c.blocks[i].block
  OBVIOUS
<1>2. Unique(d)
  BY <1>1 DEF Unique
<1>3. Numbers(d) = Numbers(c)
  BY <1>1 DEF Numbers
<1>4. BlockOf(d, r.block) = r
  BY <1>2, BlockOfIs
<1>5. ASSUME NEW x \in Numbers(c) \ {r.block} PROVE BlockOf(d, x) = BlockOf(c, x)
  <2>1. PICK i \in DOMAIN c.blocks : x = c.blocks[i].block
    BY DEF Numbers
  <2>2. BlockOf(c, x) = c.blocks[i]
    BY <2>1, BlockOfIs
  <2>3. BlockOf(d, x) = d.blocks[i]
    BY <2>1, <1>1, <1>2, BlockOfIs
  <2> QED BY <2>1, <2>2, <2>3, <1>5
<1> QED BY <1>2, <1>3, <1>4, <1>5 DEF KeptBut

\* The view after the number of an event, before its text.
LEMMA AtIs ==
    ASSUME NEW c \in View, NEW n \in Nat
    PROVE  /\ At(c, n) \in View
           /\ At(c, n).blocks = c.blocks /\ Numbers(At(c, n)) = Numbers(c)
           /\ Unique(At(c, n)) <=> Unique(c)
           /\ \A b : BlockOf(At(c, n), b) = BlockOf(c, b)
           /\ \A b : BlockAt(At(c, n), b) = BlockAt(c, b)
           /\ At(c, n).started = c.started
           /\ At(c, n).outcome = c.outcome
           /\ At(c, n).numbered = IF n = 0 THEN c.numbered ELSE n
           /\ At(c, n).ok <=> (c.ok /\ (n = 0 \/ n = c.numbered + 1))
<1>1. At(c, n).blocks = c.blocks
  BY CountedIs DEF At
<1>2. /\ Numbers(At(c, n)) = Numbers(c)
      /\ Unique(At(c, n)) <=> Unique(c)
  BY <1>1, Zenon DEF Numbers, Unique
<1>3. /\ \A b : BlockOf(At(c, n), b) = BlockOf(c, b)
      /\ \A b : BlockAt(At(c, n), b) = BlockAt(c, b)
  BY <1>1, Zenon DEF BlockOf, BlockAt
<1>4. CASE n = 0
  BY <1>2, <1>3, <1>4 DEF At
<1>5. CASE n # 0
  <2>1. At(c, n) = Counted(c, n)
    BY <1>5 DEF At
  <2> QED BY <1>1, <1>2, <1>3, <1>5, <2>1, CountedIs
<1> QED BY <1>4, <1>5

\* c with a block replaced by r.
Replaced(c, d, at, r) ==
    /\ DOMAIN d.blocks = DOMAIN c.blocks /\ d.blocks[at] = r
    /\ \A i \in DOMAIN c.blocks : i # at => d.blocks[i] = c.blocks[i]

\* What reading does to a view, one kind of event at a time.
LEMMA StartRead ==
    ASSUME NEW c \in View, NEW e, e.type = "start", NEW d, d = Understood(c, e)
    PROVE  /\ d \in View /\ d.blocks = c.blocks /\ d.numbered = c.numbered /\ d.started
           /\ d.outcome = c.outcome /\ (d.ok <=> c.ok /\ ~c.started /\ c.outcome = "none")
<1>1. d = [Judged(c, ~c.started) EXCEPT !.started = TRUE]
  BY ReadsStart
<1> QED BY <1>1 DEF Judged, View

\* An opened block is empty.
LEMMA OpenRead ==
    ASSUME NEW c \in View, NEW e, e.type = "open", e.block \in Int, e.kind \in {"text", "call"},
           e.id \in Ids, NEW d, d = Understood(c, e)
    PROVE  /\ d \in View /\ d.numbered = c.numbered /\ (d.started <=> c.started)
           /\ d.blocks = Append(c.blocks, [block |-> e.block, kind |-> e.kind, id |-> e.id,
                                           pieces |-> <<>>, open |-> TRUE])
           /\ d.outcome = c.outcome
           /\ d.ok <=> c.ok /\ c.started /\ BlockAt(c, e.block) = 0 /\ c.outcome = "none"
<1> DEFINE r == [block |-> e.block, kind |-> e.kind, id |-> e.id, pieces |-> <<>>, open |-> TRUE]
<1>1. d = [Judged(c, c.started /\ BlockAt(c, e.block) = 0) EXCEPT !.blocks = Append(c.blocks, r)]
  BY ReadsOpen
<1>2. r \in ClientBlock
  BY DEF ClientBlock
<1>3. Append(c.blocks, r) \in Seq(ClientBlock)
  BY <1>2 DEF View
<1> HIDE DEF r
<1>4. PICK p : p <=> (c.started /\ BlockAt(c, e.block) = 0)
  OBVIOUS
<1> QED BY <1>1, <1>3 DEF Judged, View, r

\* c with a block replaced: the view is still one.
LEMMA ViewReplaced ==
    ASSUME NEW j \in View, NEW at \in DOMAIN j.blocks, NEW r \in ClientBlock,
           NEW d, d = [j EXCEPT !.blocks = [j.blocks EXCEPT ![at] = r]]
    PROVE  /\ d \in View /\ d.numbered = j.numbered /\ (d.started <=> j.started)
           /\ d.outcome = j.outcome /\ (d.ok <=> j.ok) /\ Replaced(j, d, at, r)
<1>1. PICK b \in Seq(ClientBlock) : b = j.blocks
  BY DEF View
<1>2. PICK s : s = [b EXCEPT ![at] = r]
  OBVIOUS
<1>3. s \in Seq(ClientBlock) /\ DOMAIN s = DOMAIN b /\ s[at] = r /\ \A i \in DOMAIN b : i # at => s[i] = b[i]
  <2>1. at \in 1 .. Len(b)
    BY <1>1
  <2> QED BY <1>2, <2>1
<1>4. d = [j EXCEPT !.blocks = s]
  BY <1>1, <1>2
<1>5. /\ d \in View /\ d.numbered = j.numbered /\ (d.started <=> j.started) /\ d.blocks = s
      /\ d.outcome = j.outcome /\ (d.ok <=> j.ok)
  BY <1>3, <1>4 DEF View
<1> QED BY <1>1, <1>3, <1>5 DEF Replaced

\* A judgement changes nothing but what is judged.
LEMMA JudgedIs ==
    ASSUME NEW c \in View, NEW p \in BOOLEAN, NEW j, j = Judged(c, p)
    PROVE  /\ j \in View /\ j.blocks = c.blocks /\ j.numbered = c.numbered
           /\ (j.started <=> c.started) /\ j.outcome = c.outcome
           /\ j.ok <=> c.ok /\ p /\ c.outcome = "none"
BY DEF Judged, View

\* c with a piece more in a block.
WrittenAt(c, d, at, piece) ==
    \E r : /\ Replaced(c, d, at, r)
           /\ r.block = c.blocks[at].block /\ (r.open <=> c.blocks[at].open)
           /\ r.kind = c.blocks[at].kind /\ r.pieces = Append(c.blocks[at].pieces, piece)

\* A delta writes at the end of its block.
LEMMA PieceRead ==
    ASSUME NEW c \in View, NEW e, e.type = "delta", e.piece \in Nat, NEW d, d = Understood(c, e),
           NEW at, at = BlockAt(c, e.block), at # 0
    PROVE  /\ d \in View /\ d.numbered = c.numbered /\ (d.started <=> c.started)
           /\ WrittenAt(c, d, at, e.piece)
           /\ d.outcome = c.outcome
           /\ d.ok <=> c.ok /\ c.blocks[at].open /\ c.outcome = "none"
<1>1. PICK j : j = Judged(c, c.blocks[at].open)
  OBVIOUS
<1>2. d = [j EXCEPT !.blocks[at].pieces = Append(@, e.piece)]
  BY <1>1, Zenon DEF Understood, Judged
<1>3. PICK b \in ClientBlock : b = c.blocks[at] /\ at \in DOMAIN c.blocks
  BY BlockAtIs DEF View
<1>4. j \in View /\ j.blocks = c.blocks /\ j.numbered = c.numbered /\ (j.started <=> c.started)
      /\ j.outcome = c.outcome /\ (j.ok <=> c.ok /\ c.blocks[at].open /\ c.outcome = "none")
  <2>1. c.blocks[at].open \in BOOLEAN
    BY <1>3 DEF ClientBlock
  <2> QED BY <1>1, <2>1, JudgedIs
<1>5. Append(b.pieces, e.piece) \in Seq(Nat)
  BY DEF ClientBlock
<1>6. PICK r : r = [b EXCEPT !.pieces = Append(@, e.piece)]
  OBVIOUS
<1>7. r \in ClientBlock
  <2>1. PICK q \in Seq(Nat) : q = Append(b.pieces, e.piece)
    BY <1>5
  <2>2. r = [b EXCEPT !.pieces = q]
    BY <1>6, <2>1
  <2> QED BY <2>2 DEF ClientBlock
<1>8. d = [j EXCEPT !.blocks = [j.blocks EXCEPT ![at] = r]]
  BY <1>2, <1>3, <1>4, <1>6
<1>9. /\ d \in View /\ d.numbered = j.numbered /\ (d.started <=> j.started)
      /\ d.outcome = j.outcome /\ (d.ok <=> j.ok) /\ Replaced(j, d, at, r)
  BY <1>3, <1>4, <1>7, <1>8, ViewReplaced
<1>10. /\ r.block = b.block /\ (r.open <=> b.open) /\ r.kind = b.kind
       /\ r.pieces = Append(b.pieces, e.piece)
  BY <1>6 DEF ClientBlock
<1>11. Replaced(c, d, at, r)
  BY <1>4, <1>9 DEF Replaced
<1>12. WrittenAt(c, d, at, e.piece)
  BY <1>3, <1>10, <1>11 DEF WrittenAt
<1> QED BY <1>3, <1>4, <1>9, <1>12

\* A close keeps what was written.
LEMMA CloseRead ==
    ASSUME NEW c \in View, NEW e, e.type = "close", "id" \in DOMAIN e => e.id \in Ids,
           NEW d, d = Understood(c, e),
           NEW at, at = BlockAt(c, e.block), at # 0
    PROVE  /\ d \in View /\ d.numbered = c.numbered /\ (d.started <=> c.started)
           /\ \E r : /\ Replaced(c, d, at, r)
                     /\ r.block = c.blocks[at].block /\ ~r.open
                     /\ r.kind = c.blocks[at].kind /\ r.pieces = c.blocks[at].pieces
                     /\ "id" \in DOMAIN e => r.id = e.id
           /\ d.outcome = c.outcome
           /\ d.ok <=> /\ c.ok /\ c.blocks[at].open /\ c.outcome = "none"
                       /\ "pieces" \in DOMAIN e => e.pieces = c.blocks[at].pieces
<1> DEFINE good == c.blocks[at].open /\ ("pieces" \in DOMAIN e => e.pieces = c.blocks[at].pieces)
<1>1. PICK j : j = Judged(c, good)
  OBVIOUS
<1>2. d = [j EXCEPT !.blocks[at] =
                [c.blocks[at] EXCEPT !.open = FALSE, !.id = IF "id" \in DOMAIN e THEN e.id ELSE @]]
  BY <1>1, Zenon DEF Understood, Judged
<1>3. PICK b \in ClientBlock : b = c.blocks[at] /\ at \in DOMAIN c.blocks
  BY BlockAtIs DEF View
<1>4. j \in View /\ j.blocks = c.blocks /\ j.numbered = c.numbered /\ (j.started <=> c.started)
      /\ j.outcome = c.outcome /\ (j.ok <=> c.ok /\ good /\ c.outcome = "none")
  <2>1. good \in BOOLEAN
    BY <1>3 DEF ClientBlock
  <2> HIDE DEF good
  <2> QED BY <1>1, <2>1, JudgedIs
<1>5. PICK id \in Ids : id = IF "id" \in DOMAIN e THEN e.id ELSE b.id
  BY DEF ClientBlock
<1>6. PICK r : r = [b EXCEPT !.open = FALSE, !.id = id]
  OBVIOUS
<1>7. r \in ClientBlock
  BY <1>6 DEF ClientBlock
<1>8. d = [j EXCEPT !.blocks = [j.blocks EXCEPT ![at] = r]]
  <2>1. j.blocks[at] = b
    BY <1>3, <1>4
  <2>2. id = IF "id" \in DOMAIN e THEN e.id ELSE b.id
    BY <1>5
  <2>3. r = [c.blocks[at] EXCEPT !.open = FALSE, !.id = IF "id" \in DOMAIN e THEN e.id ELSE @]
    BY <1>3, <1>6, <2>2, Zenon
  <2> QED BY <1>2, <2>3, Zenon
<1>9. /\ d \in View /\ d.numbered = j.numbered /\ (d.started <=> j.started)
      /\ d.outcome = j.outcome /\ (d.ok <=> j.ok) /\ Replaced(j, d, at, r)
  BY <1>3, <1>4, <1>7, <1>8, ViewReplaced
<1>10. /\ r.block = b.block /\ ~r.open /\ r.kind = b.kind /\ r.pieces = b.pieces
       /\ "id" \in DOMAIN e => r.id = e.id
  BY <1>5, <1>6 DEF ClientBlock
<1>11. Replaced(c, d, at, r)
  BY <1>4, <1>9 DEF Replaced
<1> QED BY <1>3, <1>4, <1>9, <1>10, <1>11

\* The end keeps the blocks.
LEMMA EndRead ==
    ASSUME NEW c \in View, NEW e, e.type = "end", e.outcome \in {"complete", "failed"},
           e.outcome = "complete" => e.reason \in Ending, NEW d, d = Understood(c, e)
    PROVE  /\ d \in View /\ d.numbered = c.numbered /\ (d.started <=> c.started)
           /\ d.blocks = c.blocks /\ d.outcome = e.outcome
           /\ e.outcome = "complete" => d.reason = e.reason
           /\ d.ok <=> /\ c.ok /\ c.outcome = "none"
                       /\ e.outcome = "complete" => \A i \in DOMAIN c.blocks : ~c.blocks[i].open
<1>1. CASE e.outcome = "complete"
  <2>1. PICK p \in BOOLEAN : p <=> \A i \in DOMAIN c.blocks : ~c.blocks[i].open
    OBVIOUS
  <2>2. d = [Judged(c, \A i \in DOMAIN c.blocks : ~c.blocks[i].open) EXCEPT
                 !.outcome = "complete", !.reason = e.reason]
    BY <1>1, ReadsEnd
  <2>3. PICK j : j = Judged(c, p)
    OBVIOUS
  <2>4. d = [j EXCEPT !.outcome = "complete", !.reason = e.reason]
    BY <2>1, <2>2, <2>3
  <2>5. /\ j \in View /\ j.blocks = c.blocks /\ j.numbered = c.numbered
        /\ (j.started <=> c.started) /\ j.outcome = c.outcome
        /\ j.ok <=> c.ok /\ p /\ c.outcome = "none"
    BY <2>3, JudgedIs
  <2>6. /\ d \in View /\ d.numbered = j.numbered /\ (d.started <=> j.started)
        /\ d.blocks = j.blocks /\ d.outcome = "complete" /\ (d.ok <=> j.ok)
        /\ d.reason = e.reason
    BY <1>1, <2>4, <2>5 DEF View
  <2> QED BY <1>1, <2>1, <2>5, <2>6
<1>2. CASE e.outcome = "failed"
  <2>1. d = [Judged(c, TRUE) EXCEPT !.outcome = "failed"]
    BY <1>2, ReadsFailed
  <2> QED BY <1>2, <2>1 DEF Judged, View
<1> QED BY <1>1, <1>2

-----------------------------------------------------------------------------
(* Events and the fold over them *)

\* Reading an event leaves a view.
LEMMA ReadInView ==
    ASSUME NEW c \in View, NEW x \in Event
    PROVE  Read(c, x) \in View
<1>1. PICK e \in PlainEvent, n \in Nat : x = Sent(e, n)
  BY DEF Event
<1>2. PICK v : v = At(c, n) /\ v \in View
  BY AtIs
<1>3. Read(c, x) = Understood(v, x)
  BY <1>1, <1>2, SentIs
<1>4. /\ "type" \in DOMAIN e /\ \A f \in DOMAIN e : x[f] = e[f]
      /\ "id" \in DOMAIN x <=> "id" \in DOMAIN e
  BY <1>1, SentIs DEF PlainEvent
<1>5. PICK d : d = Understood(v, x)
  OBVIOUS
<1>6. CASE e.type = "start"
  <2>1. x.type = "start"
    BY <1>4, <1>6
  <2> QED BY <1>2, <1>3, <1>5, <2>1, StartRead
<1>7. CASE e.type = "open"
  <2>1. /\ {"block", "kind", "id"} \subseteq DOMAIN e
        /\ e.block \in Int /\ e.kind \in {"text", "call"} /\ e.id \in Ids
    BY <1>7 DEF PlainEvent
  <2>2. x.type = "open" /\ x.block \in Int /\ x.kind \in {"text", "call"} /\ x.id \in Ids
    BY <1>4, <1>7, <2>1
  <2> QED BY <1>2, <1>3, <1>5, <2>2, OpenRead
<1>8. CASE e.type = "delta"
  <2>1. "piece" \in DOMAIN e /\ e.piece \in Nat
    BY <1>8 DEF PlainEvent
  <2>2. x.type = "delta" /\ x.piece \in Nat
    BY <1>4, <1>8, <2>1
  <2>3. CASE BlockAt(v, x.block) = 0
    <3>1. d = [v EXCEPT !.ok = FALSE]
      BY <1>5, <2>2, <2>3, ReadsUnopened
    <3> QED BY <1>2, <1>3, <1>5, <3>1 DEF View
  <2>4. CASE BlockAt(v, x.block) # 0
    BY <1>2, <1>3, <1>5, <2>2, <2>4, PieceRead
  <2> QED BY <2>3, <2>4
<1>9. CASE e.type = "close"
  <2>1. "id" \in DOMAIN e => e.id \in Ids
    BY <1>9 DEF PlainEvent
  <2>2. x.type = "close" /\ ("id" \in DOMAIN x => x.id \in Ids)
    BY <1>4, <1>9, <2>1
  <2>3. CASE BlockAt(v, x.block) = 0
    <3>1. d = [v EXCEPT !.ok = FALSE]
      BY <1>5, <2>2, <2>3, ReadsUnopened
    <3> QED BY <1>2, <1>3, <1>5, <3>1 DEF View
  <2>4. CASE BlockAt(v, x.block) # 0
    BY <1>2, <1>3, <1>5, <2>2, <2>4, CloseRead
  <2> QED BY <2>3, <2>4
<1>10. CASE e.type = "end"
  <2>1. /\ "outcome" \in DOMAIN e /\ e.outcome \in {"complete", "failed"}
        /\ e.outcome = "complete" => "reason" \in DOMAIN e /\ e.reason \in Ending
    BY <1>10 DEF PlainEvent
  <2>2. /\ x.type = "end" /\ x.outcome \in {"complete", "failed"}
        /\ x.outcome = "complete" => x.reason \in Ending
    BY <1>4, <1>10, <2>1
  <2> QED BY <1>2, <1>3, <1>5, <2>2, EndRead
<1>11. e.type \in {"start", "open", "delta", "close", "end"}
  BY DEF PlainEvent
<1> QED BY <1>6, <1>7, <1>8, <1>9, <1>10, <1>11

\* A client that has read well formed events and no end.
Sound(c) == c \in View /\ c.ok /\ c.outcome = "none" /\ Unique(c)

\* n numbers the next event of c, or does not number it.
Counts(c, n) == n = 0 \/ n = c.numbered + 1
Reached(c, n) == IF n = 0 THEN c.numbered ELSE n

\* Of a client that has read well formed events: the next event is well formed too, and
\* what the client has then.  First the start,
LEMMA ReadStart ==
    ASSUME NEW c, Sound(c), ~c.started, NEW n \in Nat, Counts(c, n),
           NEW d, d = Read(c, Sent([type |-> "start"], n))
    PROVE  /\ Sound(d) /\ d.started /\ d.numbered = Reached(c, n)
           /\ d.blocks = c.blocks
<1> DEFINE e == [type |-> "start"]
<1>1. PICK v : v = At(c, n)
  OBVIOUS
<1>2. /\ v \in View /\ v.blocks = c.blocks /\ v.ok /\ ~v.started /\ v.outcome = "none"
      /\ v.numbered = Reached(c, n)
  BY <1>1, AtIs DEF Sound, Counts, Reached
<1>3. e \in PlainEvent /\ "type" \in DOMAIN e /\ e.type = "start"
  BY DEF PlainEvent
<1> HIDE DEF e
<1>4. PICK x : x = Sent(e, n)
  OBVIOUS
<1>5. x.type = "start" /\ d = Understood(v, x)
  BY <1>1, <1>3, <1>4, SentIs DEF e
<1>6. /\ d \in View /\ d.blocks = v.blocks /\ d.numbered = v.numbered /\ d.started
      /\ d.outcome = v.outcome /\ (d.ok <=> v.ok /\ ~v.started /\ v.outcome = "none")
  BY <1>2, <1>5, StartRead
<1> QED BY <1>2, <1>6 DEF Sound, Unique

\* a block with a new number,
LEMMA ReadOpen ==
    ASSUME NEW c, Sound(c), c.started, NEW n \in Nat, Counts(c, n), NEW b \in Int, b \notin Numbers(c),
           NEW kind \in {"text", "call"}, NEW id \in Ids,
           NEW d, d = Read(c, Sent(Opened(b, kind, id), n))
    PROVE  /\ Sound(d) /\ d.started /\ d.numbered = Reached(c, n)
           /\ Numbers(d) = Numbers(c) \cup {b} /\ KeptBut(c, d, b)
           /\ BlockOf(d, b).open /\ BlockOf(d, b).pieces = <<>> /\ BlockOf(d, b).kind = kind
<1> DEFINE e == Opened(b, kind, id)
           r == [block |-> b, kind |-> kind, id |-> id, pieces |-> <<>>, open |-> TRUE]
<1>1. PICK v : v = At(c, n)
  OBVIOUS
<1>2. /\ v \in View /\ v.blocks = c.blocks /\ v.ok /\ v.started /\ v.outcome = "none"
      /\ v.numbered = Reached(c, n) /\ BlockAt(v, b) = 0
      /\ Numbers(v) = Numbers(c) /\ Unique(v) /\ \A x : BlockOf(v, x) = BlockOf(c, x)
  BY <1>1, AtIs, NumbersAt DEF Sound, Counts, Reached
<1>3. /\ e \in PlainEvent /\ {"type", "block", "kind", "id"} \subseteq DOMAIN e /\ e.type = "open"
      /\ e.block = b /\ e.kind = kind /\ e.id = id
  BY DEF PlainEvent, Opened
<1> HIDE DEF e
<1>4. PICK x : x = Sent(e, n)
  OBVIOUS
<1>5. x.type = "open" /\ x.block = b /\ x.kind = kind /\ x.id = id /\ d = Understood(v, x)
  BY <1>1, <1>3, <1>4, SentIs DEF e
<1>6. /\ d \in View /\ d.blocks = Append(v.blocks, r) /\ d.numbered = v.numbered /\ d.started
      /\ d.outcome = v.outcome /\ d.ok
  BY <1>2, <1>5, OpenRead
<1>7. r.block = b /\ r.open /\ r.pieces = <<>> /\ r.kind = kind
  OBVIOUS
<1> HIDE DEF r
<1>8. Unique(d) /\ Numbers(d) = Numbers(v) \cup {b} /\ BlockOf(d, b) = r /\ KeptBut(v, d, b)
  BY <1>2, <1>6, <1>7, BlocksAppended
<1> QED BY <1>2, <1>6, <1>7, <1>8 DEF Sound, KeptBut

\* a delta of an open block,
LEMMA ReadPiece ==
    ASSUME NEW c, Sound(c), NEW n \in Nat, Counts(c, n), NEW b \in Int, b \in Numbers(c),
           BlockOf(c, b).open, NEW piece \in Nat,
           NEW d, d = Read(c, Sent(Piece(b, piece), n))
    PROVE  /\ Sound(d) /\ (d.started <=> c.started) /\ d.numbered = Reached(c, n)
           /\ Numbers(d) = Numbers(c) /\ KeptBut(c, d, b)
           /\ BlockOf(d, b).open /\ BlockOf(d, b).kind = BlockOf(c, b).kind
           /\ BlockOf(d, b).pieces = Append(BlockOf(c, b).pieces, piece)
<1> DEFINE e == Piece(b, piece)
<1>1. PICK v : v = At(c, n)
  OBVIOUS
<1>2. /\ v \in View /\ v.blocks = c.blocks /\ v.ok /\ (v.started <=> c.started) /\ v.outcome = "none"
      /\ v.numbered = Reached(c, n) /\ BlockAt(v, b) # 0
      /\ Numbers(v) = Numbers(c) /\ Unique(v) /\ \A x : BlockOf(v, x) = BlockOf(c, x)
  BY <1>1, AtIs, NumbersAt DEF Sound, Counts, Reached
<1>3. /\ e \in PlainEvent /\ {"type", "block", "piece"} \subseteq DOMAIN e /\ e.type = "delta"
      /\ e.block = b /\ e.piece = piece
  BY DEF PlainEvent, Piece
<1> HIDE DEF e
<1>4. PICK x : x = Sent(e, n)
  OBVIOUS
<1>5. x.type = "delta" /\ x.block = b /\ x.piece = piece /\ d = Understood(v, x)
  BY <1>1, <1>3, <1>4, SentIs DEF e
<1>6. PICK at : at = BlockAt(v, b)
  OBVIOUS
<1>7. at \in DOMAIN v.blocks /\ v.blocks[at].block = b /\ v.blocks[at] = BlockOf(v, b)
  BY <1>2, <1>6, BlockAtIs DEF BlockOf
<1>8. /\ d \in View /\ d.numbered = v.numbered /\ (d.started <=> v.started)
      /\ d.outcome = v.outcome /\ d.ok
  BY <1>2, <1>5, <1>6, <1>7, PieceRead
<1>9. PICK r : /\ Replaced(v, d, at, r) /\ r.block = b /\ r.open
               /\ r.kind = v.blocks[at].kind /\ r.pieces = Append(v.blocks[at].pieces, piece)
  <2>1. at # 0 /\ at = BlockAt(v, x.block) /\ x.piece \in Nat
    BY <1>2, <1>5, <1>6
  <2>2. WrittenAt(v, d, at, x.piece)
    BY <1>2, <1>5, <2>1, PieceRead
  <2>3. v.blocks[at].open /\ x.piece = piece
    BY <1>2, <1>5, <1>7
  <2> QED BY <1>7, <2>2, <2>3 DEF WrittenAt
<1>10. r.pieces = Append(BlockOf(c, b).pieces, piece) /\ r.kind = BlockOf(c, b).kind
  BY <1>2, <1>7, <1>9
<1>11. Unique(d) /\ Numbers(d) = Numbers(v) /\ BlockOf(d, b) = r /\ KeptBut(v, d, b)
  BY <1>2, <1>7, <1>8, <1>9, BlockReplaced DEF Replaced
<1> QED BY <1>2, <1>8, <1>9, <1>10, <1>11 DEF Sound, KeptBut

\* Closed with or without its parts.
LEMMA ReadClose ==
    ASSUME NEW c, Sound(c), NEW n \in Nat, Counts(c, n), NEW b \in Int, b \in Numbers(c),
           BlockOf(c, b).open, NEW e \in PlainEvent, e.type = "close", e.block = b,
           "pieces" \in DOMAIN e => e.pieces = BlockOf(c, b).pieces,
           NEW d, d = Read(c, Sent(e, n))
    PROVE  /\ Sound(d) /\ (d.started <=> c.started) /\ d.numbered = Reached(c, n)
           /\ Numbers(d) = Numbers(c) /\ KeptBut(c, d, b) /\ ~BlockOf(d, b).open
           /\ BlockOf(d, b).kind = BlockOf(c, b).kind
           /\ BlockOf(d, b).pieces = BlockOf(c, b).pieces
           /\ "id" \in DOMAIN e => BlockOf(d, b).id = e.id
<1>1. PICK v : v = At(c, n)
  OBVIOUS
<1>2. /\ v \in View /\ v.blocks = c.blocks /\ v.ok /\ (v.started <=> c.started) /\ v.outcome = "none"
      /\ v.numbered = Reached(c, n) /\ BlockAt(v, b) # 0
      /\ Numbers(v) = Numbers(c) /\ Unique(v) /\ \A x : BlockOf(v, x) = BlockOf(c, x)
  BY <1>1, AtIs, NumbersAt DEF Sound, Counts, Reached
<1>3. /\ {"type", "block"} \subseteq DOMAIN e
      /\ "id" \in DOMAIN e => e.id \in Ids
  BY DEF PlainEvent
<1>4. PICK x : x = Sent(e, n)
  OBVIOUS
<1>5. /\ x.type = "close" /\ x.block = b /\ d = Understood(v, x)
      /\ "id" \in DOMAIN x => x.id \in Ids
      /\ "id" \in DOMAIN e => "id" \in DOMAIN x /\ x.id = e.id
      /\ "pieces" \in DOMAIN x => x.pieces = BlockOf(c, b).pieces
  BY <1>1, <1>3, <1>4, SentIs
<1>6. PICK at : at = BlockAt(v, b)
  OBVIOUS
<1>7. at \in DOMAIN v.blocks /\ v.blocks[at].block = b /\ v.blocks[at] = BlockOf(c, b)
  BY <1>2, <1>6, BlockAtIs DEF BlockOf
<1>8. /\ d \in View /\ d.numbered = v.numbered /\ (d.started <=> v.started)
      /\ d.outcome = v.outcome /\ d.ok
  BY <1>2, <1>5, <1>6, <1>7, CloseRead
<1>9. PICK r : /\ Replaced(v, d, at, r) /\ r.block = b /\ ~r.open
               /\ r.kind = BlockOf(c, b).kind /\ r.pieces = BlockOf(c, b).pieces
               /\ "id" \in DOMAIN e => r.id = e.id
  BY <1>2, <1>5, <1>6, <1>7, CloseRead
<1>10. Unique(d) /\ Numbers(d) = Numbers(v) /\ BlockOf(d, b) = r /\ KeptBut(v, d, b)
  BY <1>2, <1>7, <1>8, <1>9, BlockReplaced DEF Replaced
<1> QED BY <1>2, <1>8, <1>9, <1>10 DEF Sound, KeptBut

\* and the end.
LEMMA ReadEnd ==
    ASSUME NEW c, Sound(c), NEW n \in Nat, Counts(c, n),
           NEW e \in PlainEvent, e.type = "end",
           e.outcome = "complete" => \A b \in Numbers(c) : ~BlockOf(c, b).open,
           NEW d, d = Read(c, Sent(e, n))
    PROVE  /\ d \in View /\ d.ok /\ d.outcome = e.outcome /\ d.blocks = c.blocks
           /\ e.outcome = "complete" => d.reason = e.reason
<1>1. PICK v : v = At(c, n)
  OBVIOUS
<1>2. /\ v \in View /\ v.blocks = c.blocks /\ v.ok /\ v.outcome = "none"
      /\ Unique(v) /\ \A x : BlockOf(v, x) = BlockOf(c, x)
  BY <1>1, AtIs DEF Sound, Counts, Reached
<1>3. /\ {"type", "outcome"} \subseteq DOMAIN e /\ e.outcome \in {"complete", "failed"}
      /\ e.outcome = "complete" => "reason" \in DOMAIN e /\ e.reason \in Ending
  BY DEF PlainEvent
<1>4. PICK x : x = Sent(e, n)
  OBVIOUS
<1>5. /\ x.type = "end" /\ d = Understood(v, x) /\ x.outcome = e.outcome
      /\ x.outcome = "complete" => x.reason \in Ending /\ x.reason = e.reason
  BY <1>1, <1>3, <1>4, SentIs
<1>6. ASSUME x.outcome = "complete", NEW i \in DOMAIN v.blocks PROVE ~v.blocks[i].open
  <2>1. v.blocks[i].block \in Numbers(c)
    BY <1>2 DEF Numbers
  <2>2. BlockOf(v, v.blocks[i].block) = v.blocks[i]
    BY <1>2, BlockOfIs
  <2> QED BY <1>2, <1>5, <1>6, <2>1, <2>2
<1>7. x.outcome \in {"complete", "failed"}
  BY <1>3, <1>5
<1>8. /\ d \in View /\ d.outcome = x.outcome /\ d.blocks = v.blocks
      /\ x.outcome = "complete" => d.reason = x.reason
      /\ d.ok <=> /\ v.ok /\ v.outcome = "none"
                  /\ x.outcome = "complete" => \A i \in DOMAIN v.blocks : ~v.blocks[i].open
  <2>1. v \in View /\ x.type = "end" /\ d = Understood(v, x)
    BY <1>2, <1>5
  <2>2. x.outcome = "complete" => x.reason \in Ending
    BY <1>5
  <2> QED BY <1>7, <2>1, <2>2, EndRead
<1> QED BY <1>2, <1>5, <1>6, <1>8

\* Whatever came before it, a client believes the end it is told.
LEMMA EndIsRead ==
    ASSUME NEW c \in View, NEW n \in Nat, NEW e \in PlainEvent, e.type = "end"
    PROVE  Read(c, Sent(e, n)).outcome = e.outcome
<1>1. PICK v \in View : v = At(c, n)
  BY AtIs
<1>2. /\ {"type", "outcome"} \subseteq DOMAIN e /\ e.outcome \in {"complete", "failed"}
      /\ e.outcome = "complete" => "reason" \in DOMAIN e /\ e.reason \in Ending
  BY DEF PlainEvent
<1>3. PICK x : x = Sent(e, n)
  OBVIOUS
<1>4. /\ x.type = "end" /\ x.outcome = e.outcome /\ Read(c, x) = Understood(v, x)
      /\ x.outcome = "complete" => x.reason \in Ending
  BY <1>1, <1>2, <1>3, SentIs
<1>5. Understood(v, x).outcome = x.outcome
  BY <1>2, <1>4, EndRead
<1> QED BY <1>3, <1>4, <1>5

ReadTable == [p \in View \X Event |-> Read(p[1], p[2])]

\* What a client has made of events that reach it after it was at c.
Seen(c, events) == Fold(ReadTable, c, events)

\* The table of Read.
LEMMA ReadTableIs ==
    /\ Folds(ReadTable, View, Event)
    /\ \A c \in View, e \in Event : ReadTable[<<c, e>>] = Read(c, e) /\ Read(c, e) \in View
<1>1. \A c \in View, e \in Event : Read(c, e) \in View
  BY ReadInView
<1>2. \A c \in View, e \in Event : ReadTable[<<c, e>>] = Read(c, e)
  BY DEF ReadTable
<1>3. Folds(ReadTable, View, Event)
  BY <1>1 DEF Folds, ReadTable
<1> QED BY <1>1, <1>2, <1>3

\* The fold of the model is that of the table: its values stay in View.
LEMMA ClientIs ==
    ASSUME NEW events \in Seq(Event)
    PROVE  Client(events) = Seen(Unread, events)
<1> DEFINE S == DOMAIN events
           P(h) == h = [s \in SUBSET S |->
                           IF s = {} THEN Unread ELSE Read(h[s \ {Max(s)}], events[Max(s)])]
           Q(h) == h = [s \in SUBSET S |->
                           IF s = {} THEN Unread
                           ELSE ReadTable[<<h[s \ {Max(s)}], events[Max(s)]>>]]
<1>1. IsFiniteSet(S) /\ S = 1 .. Len(events) /\ Len(events) \in Nat
  BY FS_Interval
<1>2. \A s \in SUBSET S : s # {} => Max(s) \in s /\ events[Max(s)] \in Event
  <2>1. \A s \in SUBSET S : s # {} => Max(s) \in s
    BY <1>1, GreatestIndex
  <2> QED BY <2>1
<1>3. Unread \in View
  BY DEF Unread, View, Ending
<1>4. ASSUME NEW h, P(h) \/ Q(h) PROVE \A s \in SUBSET S : h[s] \in View
  <2>1. h[{}] \in View
    <3>1. {} \in SUBSET S
      OBVIOUS
    <3> QED BY <3>1, <1>3, <1>4
  <2>2. ASSUME NEW s \in SUBSET S, s # {}
        PROVE  \E x \in s : h[s \ {x}] \in View => h[s] \in View
    <3>1. Max(s) \in s /\ events[Max(s)] \in Event
      BY <1>2, <2>2
    <3>2. ASSUME h[s \ {Max(s)}] \in View PROVE h[s] \in View
      <4>1. \/ h[s] = Read(h[s \ {Max(s)}], events[Max(s)])
            \/ h[s] = ReadTable[<<h[s \ {Max(s)}], events[Max(s)]>>]
        BY <1>4, <2>2
      <4> QED BY <4>1, <3>1, <3>2, ReadTableIs
    <3> QED BY <3>1, <3>2
  <2> HIDE DEF S, P, Q
  <2> QED BY <1>1, <2>1, <2>2, TableStays
<1>5. ASSUME NEW h, \A s \in SUBSET S : h[s] \in View PROVE P(h) <=> Q(h)
  <2>1. \A s \in SUBSET S : s # {} => Read(h[s \ {Max(s)}], events[Max(s)])
                                        = ReadTable[<<h[s \ {Max(s)}], events[Max(s)]>>]
    <3> TAKE s \in SUBSET S
    <3> HAVE s # {}
    <3>1. s \ {Max(s)} \in SUBSET S /\ events[Max(s)] \in Event
      BY <1>2
    <3>2. h[s \ {Max(s)}] \in View
      BY <3>1, <1>5
    <3> QED BY <3>1, <3>2, ReadTableIs
  <2>2. [s \in SUBSET S |-> IF s = {} THEN Unread ELSE Read(h[s \ {Max(s)}], events[Max(s)])]
        = [s \in SUBSET S |-> IF s = {} THEN Unread
                              ELSE ReadTable[<<h[s \ {Max(s)}], events[Max(s)]>>]]
    BY <2>1
  <2> QED BY <2>2
<1>6. \A h : P(h) <=> Q(h)
  BY <1>4, <1>5
<1>7. (CHOOSE h : P(h)) = (CHOOSE h : Q(h))
  <2> HIDE DEF P, Q
  <2> QED BY <1>6
<1>8. Client(events) = (CHOOSE h : P(h))[S]
  BY DEF Client, FoldLeft, MapThenFoldSet
<1>9. Seen(Unread, events) = (CHOOSE h : Q(h))[S]
  BY DEF Seen, Fold, FoldLeft, MapThenFoldSet
<1> QED BY <1>7, <1>8, <1>9

\* What a client has seen of one event more, of two lists of events, of none.
LEMMA SeenAppend ==
    ASSUME NEW c \in View, NEW events \in Seq(Event), NEW e \in Event
    PROVE  /\ Seen(c, events) \in View
           /\ Append(events, e) \in Seq(Event)
           /\ Seen(c, Append(events, e)) = Read(Seen(c, events), e)
<1>1. /\ Seen(c, events) \in View
      /\ Seen(c, Append(events, e)) = ReadTable[<<Seen(c, events), e>>]
  BY ReadTableIs, FoldAppend DEF Seen
<1> QED BY <1>1, ReadTableIs

\* A client that has seen a list goes on with the next from what it has.
LEMMA SeenConcat ==
    ASSUME NEW c \in View, NEW a \in Seq(Event), NEW b \in Seq(Event)
    PROVE  Seen(c, a \o b) = Seen(Seen(c, a), b)
BY ReadTableIs, FoldConcat DEF Seen

\* No event changes nothing.
LEMMA SeenNone ==
    ASSUME NEW c \in View
    PROVE  Seen(c, <<>>) = c
BY ReadTableIs, FoldNone DEF Seen

\* What a client at d has more than at v: an empty block, a piece in a block.
Opens(v, d, b, kind) ==
    /\ Numbers(d) = Numbers(v) \cup {b} /\ KeptBut(v, d, b)
    /\ BlockOf(d, b).kind = kind /\ BlockOf(d, b).pieces = <<>>

Gains(v, d, b, piece) ==
    /\ Numbers(d) = Numbers(v) /\ KeptBut(v, d, b) /\ BlockOf(d, b).kind = BlockOf(v, b).kind
    /\ BlockOf(d, b).pieces = Append(BlockOf(v, b).pieces, piece)

\* d has the blocks of v with their kinds and pieces, open or not.
SameWords(v, d) ==
    /\ Numbers(d) = Numbers(v)
    /\ \A x \in Numbers(v) : /\ BlockOf(d, x).kind = BlockOf(v, x).kind
                             /\ BlockOf(d, x).pieces = BlockOf(v, x).pieces

-----------------------------------------------------------------------------
(* The translator of the Messages API *)

\* The lines of an answer.
CallLines == [kind : {"call"}, index : CallIndex, id : Ids, piece : Nat]
Line == [kind : {"text"}, piece : Nat]
        \cup CallLines
        \cup [kind : {"finish"}, reason : Reasons]
        \cup [kind : {"usage", "other"}]

MCall == [index : CallIndex, block : Int, id : Ids]
MTranslator ==
    [started : BOOLEAN, stopped : BOOLEAN, text : Int, calls : Seq(MCall), next : Nat,
     reason : Ending, usage : BOOLEAN, events : Seq(Event)]

\* A client at v has open every block the translator t counts, and no other.
MBlocks(v, t) ==
    /\ Sound(v) /\ v.started /\ t.started /\ ~t.stopped
    /\ Numbers(v) = 0 .. t.next - 1
    /\ \A b \in Numbers(v) : BlockOf(v, b).open

\* They are that of the text and one for each call.
MParts(t) ==
    LET n == Len(t.calls)
        own == 0 .. t.next - 1
    IN  /\ t.text \in own \cup {M!NoBlock}
        /\ t.next = n + (IF t.text = M!NoBlock THEN 0 ELSE 1)
        /\ \A k \in 1 .. n : t.calls[k].block \in own \ {t.text}
        /\ \A j, k \in 1 .. n : t.calls[j].block = t.calls[k].block => j = k
        /\ \A b \in own \ {t.text} : \E k \in 1 .. n : t.calls[k].block = b

MTold(v, t) == MBlocks(v, t) /\ MParts(t)

\* The parts of a translator are told by its blocks.
LEMMA SameParts ==
    ASSUME NEW t, MParts(t), NEW u, u.next = t.next, u.text = t.text, u.calls = t.calls
    PROVE  MParts(u)
BY Zenon DEF MParts

\* So it is after the events of t, if it was at c before.
MGood(c, t) == t \in MTranslator /\ MTold(Seen(c, t.events), t)

\* The events of the Messages API carry no number.
LEMMA PlainIs ==
    /\ \A e \in PlainEvent : e \in Event /\ Sent(e, 0) = e
    /\ \A c : Counts(c, 0)
<1>1. \A e \in PlainEvent : Sent(e, 0) = e
  BY DEF Sent
<1>2. \A e \in PlainEvent : e \in Event
  BY <1>1 DEF Event
<1> QED BY <1>1, <1>2 DEF Counts

SameNotes(t, u) ==
    /\ u.started = t.started /\ u.stopped = t.stopped /\ u.text = t.text /\ u.calls = t.calls
    /\ u.next = t.next /\ u.reason = t.reason /\ u.usage = t.usage

\* An event more: the client reads it, the notes stay.
LEMMA MEmits ==
    ASSUME NEW c \in View, NEW t \in MTranslator, NEW e \in PlainEvent, NEW u, u = M!Emit(t, e)
    PROVE  /\ u \in MTranslator /\ SameNotes(t, u)
           /\ Seen(c, t.events) \in View
           /\ Seen(c, u.events) = Read(Seen(c, t.events), Sent(e, 0))
<1>1. e \in Event /\ Sent(e, 0) = e /\ t.events \in Seq(Event)
  BY PlainIs DEF MTranslator
<1>2. /\ Seen(c, t.events) \in View /\ Append(t.events, e) \in Seq(Event)
      /\ Seen(c, Append(t.events, e)) = Read(Seen(c, t.events), e)
  BY <1>1, SeenAppend
<1>3. PICK s \in Seq(Event) : s = Append(t.events, e)
  BY <1>2
<1>4. u = [t EXCEPT !.events = s]
  BY <1>3 DEF M!Emit
<1>5. u \in MTranslator /\ u.events = s
  BY <1>4 DEF MTranslator
<1>6. SameNotes(t, u)
  BY <1>4 DEF MTranslator, SameNotes
<1> QED BY <1>1, <1>2, <1>3, <1>5, <1>6

\* A delta of an open block.
LEMMA MPiece ==
    ASSUME NEW c \in View, NEW t, MGood(c, t), NEW b \in 0 .. t.next - 1, NEW piece \in Nat,
           NEW u, u = M!Emit(t, M!Piece(b, piece))
    PROVE  /\ MGood(c, u) /\ SameNotes(t, u)
           /\ Gains(Seen(c, t.events), Seen(c, u.events), b, piece)
<1>1. PICK e : e = M!Piece(b, piece)
  OBVIOUS
<1>2. e \in PlainEvent /\ e = Piece(b, piece)
  BY <1>1 DEF M!Piece, Piece, PlainEvent
<1>3. u = M!Emit(t, e)
  BY <1>1
<1>4. PICK v \in View : v = Seen(c, t.events)
  BY <1>2, <1>3, MEmits DEF MGood
<1>5. PICK d : d = Seen(c, u.events)
  OBVIOUS
<1>6. u \in MTranslator /\ SameNotes(t, u) /\ d = Read(v, Sent(e, 0))
  BY <1>2, <1>3, <1>4, <1>5, MEmits DEF MGood
<1>7. MTold(v, t) /\ t \in MTranslator
  BY <1>4 DEF MGood
<1>8. b \in Int /\ b \in Numbers(v) /\ BlockOf(v, b).open /\ Sound(v) /\ v.started
  <2>1. /\ Sound(v) /\ v.started /\ Numbers(v) = 0 .. t.next - 1
        /\ \A x \in Numbers(v) : BlockOf(v, x).open
    BY <1>7 DEF MTold, MBlocks
  <2> QED BY <2>1
<1>9. /\ Sound(d) /\ d.started /\ Numbers(d) = Numbers(v) /\ KeptBut(v, d, b)
      /\ BlockOf(d, b).open /\ BlockOf(d, b).kind = BlockOf(v, b).kind
      /\ BlockOf(d, b).pieces = Append(BlockOf(v, b).pieces, piece)
  BY <1>2, <1>6, <1>8, PlainIs, ReadPiece
<1>10. u.started = t.started /\ u.stopped = t.stopped /\ u.next = t.next /\ u.text = t.text /\ u.calls = t.calls
  BY <1>6 DEF SameNotes
<1>11. MBlocks(d, u)
  <2>1. \A x \in Numbers(d) : BlockOf(d, x).open
    BY <1>7, <1>9 DEF MTold, MBlocks, KeptBut
  <2> QED BY <1>7, <1>9, <1>10, <2>1 DEF MTold, MBlocks
<1>12. MParts(u)
  <2>1. MParts(t)
    BY <1>7 DEF MTold
  <2> QED BY <1>10, <2>1, SameParts
<1> QED BY <1>4, <1>5, <1>6, <1>9, <1>11, <1>12 DEF MGood, MTold, Gains

\* What becomes of the parts when t takes the next number,
LEMMA MTextOpens ==
    ASSUME NEW t \in MTranslator, MParts(t), NEW s, t.text = M!NoBlock, s.text = t.next,
           s.calls = t.calls, s.next = t.next + 1
    PROVE  MParts(s)
<1>1. t.next \in Nat
  BY DEF MTranslator
<1>2. /\ 0 .. s.next - 1 = (0 .. t.next - 1) \cup {t.next} /\ t.next \notin 0 .. t.next - 1
      /\ t.next # M!NoBlock /\ M!NoBlock \notin 0 .. t.next - 1
  BY <1>1 DEF M!NoBlock
<1>3. (0 .. s.next - 1) \ {s.text} = (0 .. t.next - 1) \ {t.text} /\ s.text \in 0 .. s.next - 1
  BY <1>2
<1>4. s.next = Len(s.calls) + 1
  <2>1. t.next = Len(t.calls) + 0
    BY DEF MParts
  <2>2. Len(t.calls) \in Nat
    BY DEF MTranslator
  <2> QED BY <2>1, <2>2
<1> QED BY <1>2, <1>3, <1>4, Zenon DEF MParts

\* for the text or for a call.
LEMMA MCallOpens ==
    ASSUME NEW t \in MTranslator, MParts(t), NEW s, s.text = t.text,
           NEW call \in MCall, call.block = t.next, s.calls = Append(t.calls, call),
           s.next = t.next + 1
    PROVE  MParts(s)
<1> DEFINE n == t.next
           m == Len(t.calls)
           own == 0 .. n - 1
<1>1. n \in Nat /\ t.calls \in Seq(MCall) /\ m \in Nat
  BY DEF MTranslator
<1>2. 0 .. s.next - 1 = own \cup {n} /\ n \notin own
  BY <1>1
<1>3. t.text # n
  <2>1. t.text \in own \cup {M!NoBlock}
    BY DEF MParts
  <2>2. n # M!NoBlock
    BY <1>1 DEF M!NoBlock
  <2> QED BY <1>2, <2>1, <2>2
<1>4. /\ Len(s.calls) = m + 1 /\ s.calls[m + 1] = call
      /\ \A k \in 1 .. m : s.calls[k] = t.calls[k]
  BY <1>1
<1>5. 1 .. Len(s.calls) = 1 .. m \cup {m + 1} /\ m + 1 \notin 1 .. m
  BY <1>1, <1>4
<1>6. /\ \A k \in 1 .. m : t.calls[k].block \in own \ {t.text}
      /\ \A j, k \in 1 .. m : t.calls[j].block = t.calls[k].block => j = k
      /\ \A b \in own \ {t.text} : \E k \in 1 .. m : t.calls[k].block = b
      /\ t.text \in own \cup {M!NoBlock}
  BY DEF MParts
<1>7. t.next = m + (IF t.text = M!NoBlock THEN 0 ELSE 1)
  BY DEF MParts
<1> HIDE DEF n, m, own
<1>8. \A k \in 1 .. Len(s.calls) : s.calls[k].block \in (own \cup {n}) \ {s.text}
  BY <1>3, <1>4, <1>5, <1>6 DEF n
<1>9. \A j, k \in 1 .. Len(s.calls) : s.calls[j].block = s.calls[k].block => j = k
  <2>1. ASSUME NEW k \in 1 .. m PROVE s.calls[k].block # n
    <3>1. s.calls[k] = t.calls[k] /\ t.calls[k].block \in own
      BY <1>4, <1>6
    <3> QED BY <1>2, <3>1
  <2>2. s.calls[m + 1].block = n
    BY <1>4 DEF n
  <2> QED BY <1>4, <1>5, <1>6, <2>1, <2>2
<1>10. \A b \in (own \cup {n}) \ {s.text} : \E k \in 1 .. Len(s.calls) : s.calls[k].block = b
  <2> SUFFICES ASSUME NEW b \in (own \cup {n}) \ {s.text}
               PROVE  \E k \in 1 .. Len(s.calls) : s.calls[k].block = b
    OBVIOUS
  <2>1. CASE b = n
    BY <1>4, <1>5, <2>1 DEF n
  <2>2. CASE b # n
    <3>1. PICK k \in 1 .. m : t.calls[k].block = b
      BY <1>6, <2>2
    <3> QED BY <3>1, <1>4, <1>5
  <2> QED BY <2>1, <2>2
<1>11. s.next = Len(s.calls) + (IF s.text = M!NoBlock THEN 0 ELSE 1)
  BY <1>1, <1>4, <1>7
<1>12. s.text \in (own \cup {n}) \cup {M!NoBlock}
  BY <1>6
<1> QED BY <1>2, <1>8, <1>9, <1>10, <1>11, <1>12, Zenon DEF MParts

\* s is t with the block noted; the event is sent.
LEMMA MOpen ==
    ASSUME NEW c \in View, NEW t, MGood(c, t), NEW s \in MTranslator,
           s.events = t.events, s.started = t.started, s.stopped = t.stopped, s.next = t.next + 1,
           MParts(s), NEW kind \in {"text", "call"}, NEW id \in Ids,
           NEW u, u = M!Emit(s, M!Opened(t.next, kind, id))
    PROVE  /\ MGood(c, u) /\ SameNotes(s, u)
           /\ Opens(Seen(c, t.events), Seen(c, u.events), t.next, kind)
<1> DEFINE n == t.next
<1>0. t \in MTranslator /\ n \in Nat
  BY DEF MGood, MTranslator
<1>1. PICK e : e = M!Opened(n, kind, id)
  OBVIOUS
<1>2. e \in PlainEvent /\ e = Opened(n, kind, id)
  BY <1>1, <1>0 DEF M!Opened, Opened, PlainEvent
<1>3. u = M!Emit(s, e)
  BY <1>1
<1>4. PICK v \in View : v = Seen(c, s.events)
  BY <1>2, <1>3, MEmits
<1>5. PICK d : d = Seen(c, u.events)
  OBVIOUS
<1>6. u \in MTranslator /\ SameNotes(s, u) /\ d = Read(v, Sent(e, 0))
  <2>1. Seen(c, u.events) = Read(Seen(c, s.events), Sent(e, 0)) /\ u \in MTranslator
        /\ SameNotes(s, u)
    BY <1>2, <1>3, MEmits
  <2> QED BY <1>4, <1>5, <2>1
<1>7. MBlocks(v, t)
  BY <1>4 DEF MGood, MTold
<1>8. /\ Sound(v) /\ v.started /\ Numbers(v) = 0 .. n - 1
      /\ \A x \in Numbers(v) : BlockOf(v, x).open
  BY <1>7 DEF MBlocks
<1>9. n \in Int /\ n \notin Numbers(v)
  BY <1>0, <1>8
<1>10. /\ Sound(d) /\ d.started /\ Numbers(d) = Numbers(v) \cup {n} /\ KeptBut(v, d, n)
       /\ BlockOf(d, n).open /\ BlockOf(d, n).pieces = <<>> /\ BlockOf(d, n).kind = kind
  <2>1. d = Read(v, Sent(Opened(n, kind, id), 0)) /\ Counts(v, 0) /\ 0 \in Nat
    BY <1>2, <1>6, PlainIs
  <2> HIDE DEF n
  <2> QED BY <1>8, <1>9, <2>1, ReadOpen
<1>11. u.started = s.started /\ u.stopped = s.stopped /\ u.next = s.next /\ u.text = s.text /\ u.calls = s.calls
  BY <1>6 DEF SameNotes
<1>12. MBlocks(d, u)
  <2>1. Numbers(d) = 0 .. u.next - 1
    BY <1>0, <1>8, <1>10, <1>11
  <2>2. \A x \in Numbers(d) : BlockOf(d, x).open
    BY <1>8, <1>9, <1>10 DEF KeptBut
  <2> QED BY <1>7, <1>10, <1>11, <2>1, <2>2 DEF MBlocks
<1>13. MParts(u)
  BY <1>11, SameParts
<1> QED BY <1>4, <1>5, <1>6, <1>10, <1>12, <1>13 DEF MGood, MTold, Opens

\* Place finds a call with the index, if there is one.
LEMMA MPlaceIs ==
    ASSUME NEW C, NEW calls \in Seq(C), NEW index
    PROVE  /\ M!Place(calls, index) # 0 => /\ M!Place(calls, index) \in 1 .. Len(calls)
                                          /\ calls[M!Place(calls, index)].index = index
           /\ M!Place(calls, index) = 0 => \A k \in 1 .. Len(calls) : calls[k].index # index
<1> DEFINE I == {k \in 1 .. Len(calls) : calls[k].index = index}
<1>1. M!Place(calls, index) = IF I # {} THEN Min(I) ELSE 0
  BY DEF M!Place, M!SelectInSeq, M!Min, Min
<1>2. I \subseteq Nat
  OBVIOUS
<1>3. I # {} => Min(I) \in I
  <2> HIDE DEF I
  <2> QED BY <1>2, LeastNumber
<1>4. ASSUME Min(I) \in I PROVE Min(I) # 0
  BY <1>4
<1> QED BY <1>1, <1>3, <1>4

\* A list with one element replaced.
LEMMA ListReplaced ==
    ASSUME NEW C, NEW list \in Seq(C), NEW at \in 1 .. Len(list), NEW r \in C,
           NEW new, new = [list EXCEPT ![at] = r]
    PROVE  /\ new \in Seq(C) /\ Len(new) = Len(list) /\ new[at] = r
           /\ \A k \in 1 .. Len(list) : k # at => new[k] = list[k]
OBVIOUS

\* A translator that has started does not start again.
LEMMA MStarted ==
    ASSUME NEW c, NEW t, MGood(c, t)
    PROVE  M!Start(t) = t /\ t \in MTranslator /\ MParts(t) /\ t.next \in Nat
<1>1. t \in MTranslator /\ t.started /\ MParts(t)
  BY DEF MGood, MTold, MBlocks
<1> QED BY <1>1 DEF M!Start, MTranslator

\* The block of the text, opened if there is none,
LEMMA MTextOpen ==
    ASSUME NEW c \in View, NEW t, MGood(c, t), NEW u, u = M!OpenText(t)
    PROVE  /\ MGood(c, u) /\ u.text \in 0 .. u.next - 1
           /\ u.calls = t.calls /\ u.reason = t.reason
           /\ IF t.text # M!NoBlock THEN u = t
              ELSE /\ u.text = t.next
                   /\ Opens(Seen(c, t.events), Seen(c, u.events), t.next, "text")
<1>1. t \in MTranslator /\ MParts(t) /\ t.next \in Nat
  BY MStarted
<1>2. CASE t.text # M!NoBlock
  <2>1. u = t
    BY <1>2 DEF M!OpenText
  <2> QED BY <1>1, <1>2, <2>1 DEF MParts
<1>3. CASE t.text = M!NoBlock
  <2>1. PICK s : s = [t EXCEPT !.text = t.next, !.next = @ + 1]
    OBVIOUS
  <2>2. /\ s \in MTranslator /\ s.events = t.events /\ s.started = t.started /\ s.reason = t.reason
        /\ s.stopped = t.stopped /\ s.next = t.next + 1 /\ s.text = t.next /\ s.calls = t.calls
    <3>1. s = [t EXCEPT !.text = t.next, !.next = t.next + 1]
      BY <2>1
    <3>2. t.next \in Int /\ t.next + 1 \in Nat
      BY <1>1
    <3> QED BY <1>1, <3>1, <3>2 DEF MTranslator
  <2>3. MParts(s)
    BY <1>1, <1>3, <2>2, MTextOpens
  <2>4. u = M!Emit(s, M!Opened(t.next, "text", NoId))
    BY <1>3, <2>1, Zenon DEF M!OpenText
  <2>5. NoId \in Ids
    BY DEF Ids
  <2>6. /\ MGood(c, u) /\ SameNotes(s, u)
        /\ Opens(Seen(c, t.events), Seen(c, u.events), t.next, "text")
    BY <2>2, <2>3, <2>4, <2>5, MOpen
  <2>7. u.text = t.next /\ u.next = t.next + 1 /\ u.calls = t.calls /\ u.reason = t.reason
    BY <2>2, <2>6 DEF SameNotes
  <2> QED BY <1>1, <1>3, <2>6, <2>7
<1> QED BY <1>2, <1>3

\* and a line of text, which goes there,
LEMMA MTextGood ==
    ASSUME NEW c \in View, NEW t, MGood(c, t), NEW piece \in Nat
    PROVE  MGood(c, M!AddText(t, piece))
<1>1. M!Start(t) = t
  BY MStarted
<1>2. PICK u : u = M!OpenText(t)
  OBVIOUS
<1>3. MGood(c, u) /\ u.text \in 0 .. u.next - 1
  BY <1>2, MTextOpen
<1>4. M!AddText(t, piece) = M!Emit(u, M!Piece(u.text, piece))
  BY <1>1, <1>2 DEF M!AddText
<1> QED BY <1>3, <1>4, MPiece

\* A later id changes no block.
LEMMA MLateId ==
    ASSUME NEW c \in View, NEW t, MGood(c, t), NEW at \in 1 .. Len(t.calls), NEW id \in Ids,
           NEW u, u = [t EXCEPT !.calls[at].id = id]
    PROVE  /\ MGood(c, u) /\ Len(u.calls) = Len(t.calls)
           /\ u.events = t.events /\ u.text = t.text /\ u.reason = t.reason
           /\ \A k \in 1 .. Len(t.calls) : /\ u.calls[k].index = t.calls[k].index
                                          /\ u.calls[k].block = t.calls[k].block
<1>1. t \in MTranslator /\ MTold(Seen(c, t.events), t)
  BY DEF MGood
<1>2. t.calls \in Seq(MCall) /\ t.calls[at] \in MCall
  BY <1>1 DEF MTranslator
<1>3. PICK r \in MCall : r = [t.calls[at] EXCEPT !.id = id]
  BY <1>2 DEF MCall
<1>4. r.block = t.calls[at].block /\ r.index = t.calls[at].index
  BY <1>2, <1>3 DEF MCall
<1>5. PICK calls : calls = [t.calls EXCEPT ![at] = r]
  OBVIOUS
<1>6. /\ calls \in Seq(MCall) /\ Len(calls) = Len(t.calls) /\ calls[at] = r
      /\ \A k \in 1 .. Len(t.calls) : k # at => calls[k] = t.calls[k]
  BY <1>2, <1>5, ListReplaced
<1>7. u = [t EXCEPT !.calls = calls]
  BY <1>3, <1>5, Zenon
<1>8. /\ u \in MTranslator /\ u.calls = calls /\ u.events = t.events /\ u.next = t.next
      /\ u.text = t.text /\ u.started = t.started /\ u.stopped = t.stopped /\ u.reason = t.reason
  BY <1>1, <1>6, <1>7 DEF MTranslator
<1>9. \A k \in 1 .. Len(t.calls) :
         calls[k].block = t.calls[k].block /\ calls[k].index = t.calls[k].index
  BY <1>4, <1>6
<1>10. MParts(u)
  <2>1. MParts(t)
    BY <1>1 DEF MTold
  <2>2. /\ t.text \in (0 .. t.next - 1) \cup {M!NoBlock}
        /\ t.next = Len(t.calls) + (IF t.text = M!NoBlock THEN 0 ELSE 1)
        /\ \A k \in 1 .. Len(t.calls) : t.calls[k].block \in (0 .. t.next - 1) \ {t.text}
        /\ \A j, k \in 1 .. Len(t.calls) : t.calls[j].block = t.calls[k].block => j = k
        /\ \A b \in (0 .. t.next - 1) \ {t.text} : \E k \in 1 .. Len(t.calls) : t.calls[k].block = b
    BY <2>1, Zenon DEF MParts
  <2>3. /\ \A k \in 1 .. Len(t.calls) : calls[k].block \in (0 .. t.next - 1) \ {t.text}
        /\ \A j, k \in 1 .. Len(t.calls) : calls[j].block = calls[k].block => j = k
        /\ \A b \in (0 .. t.next - 1) \ {t.text} : \E k \in 1 .. Len(t.calls) : calls[k].block = b
    BY <1>9, <2>2, Zenon
  <2>4. u.calls = calls /\ u.next = t.next /\ u.text = t.text /\ Len(u.calls) = Len(t.calls)
    BY <1>6, <1>8
  <2>5. /\ u.text \in (0 .. u.next - 1) \cup {M!NoBlock}
        /\ u.next = Len(u.calls) + (IF u.text = M!NoBlock THEN 0 ELSE 1)
    BY <2>2, <2>4
  <2>6. /\ \A k \in 1 .. Len(u.calls) : u.calls[k].block \in (0 .. u.next - 1) \ {u.text}
        /\ \A j, k \in 1 .. Len(u.calls) : u.calls[j].block = u.calls[k].block => j = k
        /\ \A b \in (0 .. u.next - 1) \ {u.text} : \E k \in 1 .. Len(u.calls) : u.calls[k].block = b
    <3>1. PICK n : n = Len(t.calls) /\ n = Len(u.calls)
      BY <2>4
    <3>2. PICK own : own = (0 .. t.next - 1) \ {t.text} /\ own = (0 .. u.next - 1) \ {u.text}
      BY <2>4
    <3>3. \A k \in 1 .. n : u.calls[k].block \in own
      BY <2>3, <2>4, <3>1, <3>2
    <3>4. \A j, k \in 1 .. n : u.calls[j].block = u.calls[k].block => j = k
      BY <2>3, <2>4, <3>1
    <3>5. \A b \in own : \E k \in 1 .. n : u.calls[k].block = b
      BY <2>3, <2>4, <3>1, <3>2
    <3> QED BY <3>1, <3>2, <3>3, <3>4, <3>5
  <2> QED BY <2>5, <2>6, Zenon DEF MParts
<1>11. MBlocks(Seen(c, u.events), u)
  BY <1>1, <1>8 DEF MTold, MBlocks
<1> QED BY <1>6, <1>8, <1>9, <1>10, <1>11 DEF MGood, MTold

\* the call of a line, with a block opened if it has none: u is t with the call, which
\* was at place at or nowhere,
MWithCall(c, t, line, at, u) ==
    /\ u.text = t.text /\ u.reason = t.reason
    /\ IF at = 0
       THEN /\ u.calls = Append(t.calls, [index |-> line.index, block |-> t.next, id |-> line.id])
            /\ Opens(Seen(c, t.events), Seen(c, u.events), t.next, "call")
       ELSE /\ u.events = t.events /\ Len(u.calls) = Len(t.calls) /\ at \in 1 .. Len(t.calls)
            /\ \A k \in 1 .. Len(t.calls) : /\ u.calls[k].index = t.calls[k].index
                                           /\ u.calls[k].block = t.calls[k].block

\* and the account stays good,
LEMMA MCallOpen ==
    ASSUME NEW c \in View, NEW t, MGood(c, t), NEW line \in CallLines, NEW u, u = M!WithCall(t, line)
    PROVE  /\ MGood(c, u) /\ MWithCall(c, t, line, M!Place(t.calls, line.index), u)
           /\ \E k \in 1 .. Len(u.calls) : u.calls[k].index = line.index
<1>0. PICK at : at = M!Place(t.calls, line.index)
  OBVIOUS
<1> SUFFICES /\ MGood(c, u) /\ MWithCall(c, t, line, at, u)
             /\ \E k \in 1 .. Len(u.calls) : u.calls[k].index = line.index
  BY <1>0
<1>1. t \in MTranslator /\ MParts(t) /\ t.next \in Nat
  BY MStarted
<1>2. t.calls \in Seq(MCall) /\ line.index \in CallIndex /\ line.id \in Ids
  BY <1>1 DEF MTranslator, CallLines
<1>3. CASE at = 0
  <2>1. PICK call : call = [index |-> line.index, block |-> t.next, id |-> line.id]
    OBVIOUS
  <2>2. call \in MCall /\ call.block = t.next /\ call.index = line.index
    BY <1>1, <1>2, <2>1 DEF MCall
  <2>3. PICK calls : calls = Append(t.calls, call)
    OBVIOUS
  <2>4. calls \in Seq(MCall) /\ Len(calls) = Len(t.calls) + 1 /\ calls[Len(calls)] = call
        /\ Len(calls) \in 1 .. Len(calls)
    BY <1>2, <2>2, <2>3
  <2>5. PICK s : s = [t EXCEPT !.calls = calls, !.next = @ + 1]
    OBVIOUS
  <2>6. /\ s \in MTranslator /\ s.events = t.events /\ s.started = t.started /\ s.reason = t.reason
        /\ s.stopped = t.stopped /\ s.next = t.next + 1 /\ s.text = t.text /\ s.calls = calls
    <3>1. s = [t EXCEPT !.calls = calls, !.next = t.next + 1]
      BY <2>5
    <3>2. t.next + 1 \in Nat
      BY <1>1
    <3> QED BY <1>1, <2>4, <3>1, <3>2 DEF MTranslator
  <2>7. MParts(s)
    BY <1>1, <2>2, <2>3, <2>6, MCallOpens
  <2>8. u = M!Emit(s, M!Opened(t.next, "call", line.id))
    BY <1>0, <1>3, <2>1, <2>3, <2>5, Zenon DEF M!WithCall
  <2>9. /\ MGood(c, u) /\ SameNotes(s, u)
        /\ Opens(Seen(c, t.events), Seen(c, u.events), t.next, "call")
    BY <1>2, <2>6, <2>7, <2>8, MOpen
  <2>10. u.calls = calls /\ u.text = t.text /\ u.reason = t.reason
    BY <2>6, <2>9 DEF SameNotes
  <2>11. \E k \in 1 .. Len(u.calls) : u.calls[k].index = line.index
    BY <2>2, <2>4, <2>10
  <2> QED BY <1>3, <2>1, <2>3, <2>9, <2>10, <2>11 DEF MWithCall
<1>4. CASE at # 0
  <2>1. at \in 1 .. Len(t.calls) /\ t.calls[at].index = line.index
    BY <1>0, <1>2, <1>4, MPlaceIs
  <2>2. t.calls[at] \in MCall
    BY <1>2, <2>1
  <2>3. PICK id \in Ids : id = IF line.id = NoId THEN t.calls[at].id ELSE line.id
    BY <1>2, <2>2 DEF MCall
  <2>4. u = [t EXCEPT !.calls[at].id = id]
    BY <1>0, <1>4, <2>3, Zenon DEF M!WithCall
  <2>5. /\ MGood(c, u) /\ Len(u.calls) = Len(t.calls)
        /\ u.events = t.events /\ u.text = t.text /\ u.reason = t.reason
        /\ \A k \in 1 .. Len(t.calls) : /\ u.calls[k].index = t.calls[k].index
                                       /\ u.calls[k].block = t.calls[k].block
    BY <2>1, <2>4, MLateId
  <2>6. \E k \in 1 .. Len(u.calls) : u.calls[k].index = line.index
    BY <2>1, <2>5
  <2> QED BY <1>4, <2>1, <2>5, <2>6 DEF MWithCall
<1> QED BY <1>3, <1>4

\* has a block that is open,
LEMMA MCallBlock ==
    ASSUME NEW c \in View, NEW u, MGood(c, u), NEW index,
           \E k \in 1 .. Len(u.calls) : u.calls[k].index = index,
           NEW k, k = M!Place(u.calls, index)
    PROVE  k \in 1 .. Len(u.calls) /\ u.calls[k].block \in 0 .. u.next - 1
<1>1. u \in MTranslator /\ MParts(u)
  BY MStarted
<1>2. u.calls \in Seq(MCall)
  BY <1>1 DEF MTranslator
<1>3. k \in 1 .. Len(u.calls)
  BY <1>2, MPlaceIs
<1> QED BY <1>1, <1>3 DEF MParts

\* a line of a call,
LEMMA MCallGood ==
    ASSUME NEW c \in View, NEW t, MGood(c, t), NEW line \in CallLines
    PROVE  MGood(c, M!AddToolDelta(t, line))
<1>1. M!Start(t) = t /\ line.piece \in Nat
  BY MStarted DEF CallLines
<1>2. PICK u : u = M!WithCall(t, line)
  OBVIOUS
<1>3. MGood(c, u) /\ \E k \in 1 .. Len(u.calls) : u.calls[k].index = line.index
  BY <1>2, MCallOpen
<1>4. PICK block : block = u.calls[M!Place(u.calls, line.index)].block
  OBVIOUS
<1>5. block \in 0 .. u.next - 1
  BY <1>3, <1>4, MCallBlock
<1>6. M!AddToolDelta(t, line) = IF line.piece = M!NoPiece THEN u ELSE M!Emit(u, M!Piece(block, line.piece))
  BY <1>1, <1>2, <1>4, Zenon DEF M!AddToolDelta
<1>7. MGood(c, M!Emit(u, M!Piece(block, line.piece)))
  BY <1>1, <1>3, <1>5, MPiece
<1> QED BY <1>3, <1>6, <1>7

\* any line,
LEMMA MConsumeGood ==
    ASSUME NEW c \in View, NEW t, MGood(c, t), NEW line \in Line
    PROVE  MGood(c, M!Consume(t, line))
<1>1. t \in MTranslator /\ MTold(Seen(c, t.events), t)
  BY DEF MGood
<1>2. line.kind \in {"text", "call", "finish", "usage", "other"}
  BY DEF Line, CallLines
<1>3. CASE line.kind = "text"
  <2>1. line.piece \in Nat
    BY <1>3 DEF Line, CallLines
  <2>2. M!Consume(t, line) = M!AddText(t, line.piece)
    BY <1>3 DEF M!Consume
  <2> QED BY <2>1, <2>2, MTextGood
<1>4. CASE line.kind = "call"
  <2>1. line \in CallLines
    BY <1>4 DEF Line, CallLines
  <2>2. M!Consume(t, line) = M!AddToolDelta(t, line)
    BY <1>4 DEF M!Consume
  <2> QED BY <2>1, <2>2, MCallGood
<1>5. ASSUME NEW reason \in Ending, NEW usage \in BOOLEAN, NEW u,
             u = [t EXCEPT !.reason = reason, !.usage = usage]
      PROVE  MGood(c, u)
  <2>1. /\ u \in MTranslator /\ u.calls = t.calls /\ u.events = t.events /\ u.next = t.next
        /\ u.text = t.text /\ u.started = t.started /\ u.stopped = t.stopped
    BY <1>1, <1>5 DEF MTranslator
  <2>2. MParts(u)
    BY <1>1, <2>1, SameParts DEF MTold
  <2>3. MBlocks(Seen(c, u.events), u)
    BY <1>1, <2>1 DEF MTold, MBlocks
  <2> QED BY <2>1, <2>2, <2>3 DEF MGood, MTold
<1>6. t.reason \in Ending /\ t.usage \in BOOLEAN
  BY <1>1 DEF MTranslator
<1>7. CASE line.kind = "finish"
  <2>1. M!StopReasons[line.reason] \in Ending
    BY <1>7 DEF Line, CallLines, Ending
  <2>2. M!Consume(t, line) = [t EXCEPT !.reason = M!StopReasons[line.reason]]
    BY <1>7 DEF M!Consume
  <2>3. M!Consume(t, line) = [t EXCEPT !.reason = M!StopReasons[line.reason], !.usage = t.usage]
    BY <1>1, <2>2 DEF MTranslator
  <2> QED BY <1>5, <1>6, <2>1, <2>3
<1>8. CASE line.kind = "usage"
  <2>1. M!Consume(t, line) = [t EXCEPT !.usage = TRUE]
    BY <1>8 DEF M!Consume
  <2>2. M!Consume(t, line) = [t EXCEPT !.reason = t.reason, !.usage = TRUE]
    BY <1>1, <2>1 DEF MTranslator
  <2> QED BY <1>5, <1>6, <2>2
<1>9. CASE line.kind = "other"
  BY <1>9 DEF M!Consume
<1> QED BY <1>2, <1>3, <1>4, <1>7, <1>8, <1>9

\* and any list of lines keep the translator's account of the client: f is the
\* translator after each line.
MAlong(c, f, t, list) ==
    /\ f[0] = t /\ \A i \in 1 .. Len(list) : f[i] = M!Consume(f[i - 1], list[i])
    /\ \A i \in 0 .. Len(list) : f[i] \in MTranslator /\ MGood(c, f[i])

\* The fold over the lines goes through such translators.
LEMMA MFoldThrough ==
    ASSUME NEW c \in View, NEW t, MGood(c, t), NEW list \in Seq(Line)
    PROVE  \E f : MAlong(c, f, t, list) /\ M!FoldLeft(M!Consume, t, list) = f[Len(list)]
<1> DEFINE S == DOMAIN list
           W == {u \in MTranslator : MGood(c, u)}
           F == [p \in W \X Line |-> M!Consume(p[1], p[2])]
           P(h) == h = [s \in SUBSET S |->
                           IF s = {} THEN t ELSE M!Consume(h[s \ {Max(s)}], list[Max(s)])]
           Q(h) == h = [s \in SUBSET S |->
                           IF s = {} THEN t ELSE F[<<h[s \ {Max(s)}], list[Max(s)]>>]]
<1>0. /\ \A u \in W, line \in Line : F[<<u, line>>] = M!Consume(u, line) /\ M!Consume(u, line) \in W
      /\ Folds(F, W, Line) /\ t \in W
  <2>1. \A u \in W, line \in Line : M!Consume(u, line) \in W
    BY MConsumeGood DEF MGood
  <2>2. \A u \in W, line \in Line : F[<<u, line>>] = M!Consume(u, line)
    OBVIOUS
  <2>3. F \in [W \X Line -> W]
    BY <2>1
  <2>4. t \in W
    BY DEF MGood
  <2> HIDE DEF W, F
  <2> QED BY <2>1, <2>2, <2>3, <2>4 DEF Folds
<1> HIDE DEF W, F
<1>1. IsFiniteSet(S) /\ S = 1 .. Len(list) /\ Len(list) \in Nat
  BY FS_Interval
<1>2. \A s \in SUBSET S : s # {} => Max(s) \in s /\ list[Max(s)] \in Line
  <2>1. \A s \in SUBSET S : s # {} => Max(s) \in s
    BY <1>1, GreatestIndex
  <2> QED BY <2>1
<1>4. ASSUME NEW h, P(h) \/ Q(h) PROVE \A s \in SUBSET S : h[s] \in W
  <2>1. h[{}] \in W
    <3>1. {} \in SUBSET S
      OBVIOUS
    <3> QED BY <3>1, <1>0, <1>4
  <2>2. ASSUME NEW s \in SUBSET S, s # {}
        PROVE  \E x \in s : h[s \ {x}] \in W => h[s] \in W
    <3>1. Max(s) \in s /\ list[Max(s)] \in Line
      BY <1>2, <2>2
    <3>2. ASSUME h[s \ {Max(s)}] \in W PROVE h[s] \in W
      <4>1. \/ h[s] = M!Consume(h[s \ {Max(s)}], list[Max(s)])
            \/ h[s] = F[<<h[s \ {Max(s)}], list[Max(s)]>>]
        BY <1>4, <2>2
      <4>2. PICK u \in W, line \in Line : u = h[s \ {Max(s)}] /\ line = list[Max(s)]
        BY <3>1, <3>2
      <4>3. F[<<u, line>>] = M!Consume(u, line) /\ M!Consume(u, line) \in W
        BY <1>0
      <4> QED BY <4>1, <4>2, <4>3
    <3> QED BY <3>1, <3>2
  <2> HIDE DEF S, P, Q
  <2> QED BY <1>1, <2>1, <2>2, TableStays
<1>5. ASSUME NEW h, \A s \in SUBSET S : h[s] \in W PROVE P(h) <=> Q(h)
  <2>1. \A s \in SUBSET S : s # {} => M!Consume(h[s \ {Max(s)}], list[Max(s)])
                                        = F[<<h[s \ {Max(s)}], list[Max(s)]>>]
    <3> TAKE s \in SUBSET S
    <3> HAVE s # {}
    <3>1. s \ {Max(s)} \in SUBSET S /\ list[Max(s)] \in Line
      BY <1>2
    <3>2. h[s \ {Max(s)}] \in W
      BY <3>1, <1>5
    <3> QED BY <3>1, <3>2, <1>0
  <2>2. [s \in SUBSET S |-> IF s = {} THEN t ELSE M!Consume(h[s \ {Max(s)}], list[Max(s)])]
        = [s \in SUBSET S |-> IF s = {} THEN t ELSE F[<<h[s \ {Max(s)}], list[Max(s)]>>]]
    BY <2>1
  <2> QED BY <2>2
<1>6. \A h : P(h) <=> Q(h)
  BY <1>4, <1>5
<1>7. (CHOOSE h : P(h)) = (CHOOSE h : Q(h))
  <2> HIDE DEF P, Q
  <2> QED BY <1>6
<1>8. M!FoldLeft(M!Consume, t, list) = (CHOOSE h : P(h))[S]
  BY DEF M!FoldLeft, M!MapThenFoldSet, M!Max, Max
<1>9. Fold(F, t, list) = (CHOOSE h : Q(h))[S]
  BY DEF Fold, FoldLeft, MapThenFoldSet
<1>10. PICK f \in [0 .. Len(list) -> W] :
          Through(f, F, t, list) /\ Fold(F, t, list) = f[Len(list)]
  BY <1>0, FoldThrough
<1>11. ASSUME NEW i \in 1 .. Len(list) PROVE f[i] = M!Consume(f[i - 1], list[i])
  <2>1. i - 1 \in 0 .. Len(list) /\ list[i] \in Line
    BY <1>1
  <2>2. f[i] = F[<<f[i - 1], list[i]>>] /\ f[i - 1] \in W
    BY <1>10, <2>1 DEF Through
  <2> QED BY <1>0, <2>1, <2>2
<1>12. \A i \in 0 .. Len(list) : f[i] \in MTranslator /\ MGood(c, f[i])
  BY <1>10 DEF W
<1>13. f[0] = t
  BY <1>10 DEF Through
<1>14. MAlong(c, f, t, list)
  BY <1>11, <1>12, <1>13 DEF MAlong
<1> QED BY <1>7, <1>8, <1>9, <1>10, <1>14

\* So the account is good after the last.
LEMMA MFoldGood ==
    ASSUME NEW c \in View, NEW t, MGood(c, t), NEW list \in Seq(Line)
    PROVE  MGood(c, M!FoldLeft(M!Consume, t, list))
<1>1. PICK f : MAlong(c, f, t, list) /\ M!FoldLeft(M!Consume, t, list) = f[Len(list)]
  BY MFoldThrough
<1>2. Len(list) \in 0 .. Len(list)
  OBVIOUS
<1> QED BY <1>1, <1>2 DEF MAlong

-----------------------------------------------------------------------------
(* Its end *)

\* u is t with the block of the text and those of the first k calls closed.
MClosed(c, t, k, u) ==
    /\ u \in MTranslator /\ SameNotes(t, u)
    /\ LET v == Seen(c, u.events)
       IN  /\ Sound(v) /\ Numbers(v) = 0 .. t.next - 1 /\ SameWords(Seen(c, t.events), v)
           /\ t.text # M!NoBlock => ~BlockOf(v, t.text).open
           /\ \A j \in 1 .. k : ~BlockOf(v, t.calls[j].block).open
           /\ \A j \in k + 1 .. Len(t.calls) : BlockOf(v, t.calls[j].block).open

\* Closing the block of one call more.
LEMMA MCloses ==
    ASSUME NEW c \in View, NEW t, MGood(c, t), NEW k \in 1 .. Len(t.calls), NEW u, MClosed(c, t, k - 1, u)
    PROVE  MClosed(c, t, k, M!Emit(u, M!Closed(t.calls[k].block)))
<1>1. PICK b : b = t.calls[k].block
  OBVIOUS
<1>2. t \in MTranslator /\ MParts(t)
  BY MStarted
<1>3. Len(t.calls) \in Nat /\ t.next \in Nat
  BY <1>2 DEF MTranslator
<1>4. /\ b \in (0 .. t.next - 1) \ {t.text}
      /\ \A j \in 1 .. Len(t.calls) : t.calls[j].block \in (0 .. t.next - 1) \ {t.text}
      /\ \A j \in 1 .. Len(t.calls) : j # k => t.calls[j].block # b
      /\ t.text \in (0 .. t.next - 1) \cup {M!NoBlock}
  BY <1>1, <1>2 DEF MParts
<1>5. PICK e : e = M!Closed(b)
  OBVIOUS
<1>6. e \in PlainEvent /\ e.type = "close" /\ e.block = b /\ "pieces" \notin DOMAIN e
  BY <1>4, <1>5 DEF M!Closed, PlainEvent
<1>7. PICK w : w = M!Emit(u, e)
  OBVIOUS
<1>8. PICK v \in View : v = Seen(c, u.events)
  BY <1>6, <1>7, MEmits DEF MClosed
<1>9. PICK d : d = Seen(c, w.events)
  OBVIOUS
<1>10. w \in MTranslator /\ SameNotes(u, w) /\ d = Read(v, Sent(e, 0))
  BY <1>6, <1>7, <1>8, <1>9, MEmits DEF MClosed
<1>11. /\ SameNotes(t, u) /\ Sound(v) /\ Numbers(v) = 0 .. t.next - 1
       /\ SameWords(Seen(c, t.events), v)
       /\ t.text # M!NoBlock => ~BlockOf(v, t.text).open
       /\ \A j \in 1 .. k - 1 : ~BlockOf(v, t.calls[j].block).open
       /\ \A j \in (k - 1) + 1 .. Len(t.calls) : BlockOf(v, t.calls[j].block).open
  BY <1>8 DEF MClosed
<1>12. b \in Int /\ b \in Numbers(v) /\ BlockOf(v, b).open
  <2>1. k \in (k - 1) + 1 .. Len(t.calls)
    BY <1>3
  <2>2. b \in Int /\ b \in Numbers(v)
    BY <1>3, <1>4, <1>11
  <2> QED BY <1>1, <1>11, <2>1, <2>2
<1>13. /\ Sound(d) /\ Numbers(d) = Numbers(v) /\ KeptBut(v, d, b) /\ ~BlockOf(d, b).open
       /\ BlockOf(d, b).kind = BlockOf(v, b).kind /\ BlockOf(d, b).pieces = BlockOf(v, b).pieces
  <2>1. 0 \in Nat /\ Counts(v, 0)
    BY PlainIs
  <2>2. "pieces" \in DOMAIN e => e.pieces = BlockOf(v, b).pieces
    BY <1>6
  <2>3. e \in PlainEvent /\ e.type = "close" /\ e.block = b
    BY <1>6
  <2>4. d = Read(v, Sent(e, 0)) /\ Sound(v)
    BY <1>10, <1>11
  <2> QED BY <1>12, <2>1, <2>2, <2>3, <2>4, ReadClose
<1>14. SameNotes(t, w)
  BY <1>10, <1>11 DEF SameNotes
<1>15. t.text # M!NoBlock => ~BlockOf(d, t.text).open
  BY <1>4, <1>11, <1>13 DEF KeptBut
<1>16. ASSUME NEW j \in 1 .. k PROVE ~BlockOf(d, t.calls[j].block).open
  <2>1. CASE j = k
    BY <2>1, <1>1, <1>13
  <2>2. CASE j # k
    <3>1. j \in 1 .. k - 1 /\ j \in 1 .. Len(t.calls)
      BY <2>2, <1>3
    <3>2. t.calls[j].block \in Numbers(v) \ {b}
      BY <1>4, <1>11, <2>2, <3>1
    <3>3. BlockOf(d, t.calls[j].block) = BlockOf(v, t.calls[j].block)
      BY <1>13, <3>2 DEF KeptBut
    <3> QED BY <1>11, <3>1, <3>3
  <2> QED BY <2>1, <2>2
<1>17. ASSUME NEW j \in k + 1 .. Len(t.calls) PROVE BlockOf(d, t.calls[j].block).open
  <2>1. j \in (k - 1) + 1 .. Len(t.calls) /\ j \in 1 .. Len(t.calls) /\ j # k
    BY <1>3
  <2>2. t.calls[j].block \in Numbers(v) \ {b}
    BY <1>4, <1>11, <2>1
  <2>3. BlockOf(d, t.calls[j].block) = BlockOf(v, t.calls[j].block)
    BY <1>13, <2>2 DEF KeptBut
  <2> QED BY <1>11, <2>1, <2>3
<1>18. SameWords(Seen(c, t.events), d)
  BY <1>11, <1>13 DEF SameWords, KeptBut
<1>19. MClosed(c, t, k, w)
  BY <1>9, <1>10, <1>11, <1>13, <1>14, <1>15, <1>16, <1>17, <1>18 DEF MClosed
<1> QED BY <1>1, <1>5, <1>7, <1>19

\* The block of the text is closed first.
LEMMA MClosesText ==
    ASSUME NEW c \in View, NEW t, MGood(c, t)
    PROVE  MClosed(c, t, 0, IF t.text = M!NoBlock THEN t ELSE M!Emit(t, M!Closed(t.text)))
<1>1. t \in MTranslator /\ MParts(t) /\ MBlocks(Seen(c, t.events), t) /\ SameNotes(t, t)
  BY MStarted DEF MGood, MTold, SameNotes
<1>2. Len(t.calls) \in Nat /\ t.next \in Nat
  BY <1>1 DEF MTranslator
<1>3. PICK v : v = Seen(c, t.events)
  OBVIOUS
<1>4. /\ Sound(v) /\ Numbers(v) = 0 .. t.next - 1
      /\ \A x \in Numbers(v) : BlockOf(v, x).open
  BY <1>1, <1>3 DEF MBlocks
<1>5. /\ \A j \in 1 .. Len(t.calls) : t.calls[j].block \in (0 .. t.next - 1) \ {t.text}
      /\ t.text \in (0 .. t.next - 1) \cup {M!NoBlock}
  BY <1>1 DEF MParts
<1>6. 0 + 1 .. Len(t.calls) = 1 .. Len(t.calls) /\ 1 .. 0 = {}
  BY <1>2
<1>7. CASE t.text = M!NoBlock
  <2>1. MClosed(c, t, 0, t)
    BY <1>1, <1>3, <1>4, <1>5, <1>6, <1>7 DEF MClosed, SameWords
  <2> QED BY <1>7, <2>1
<1>8. CASE t.text # M!NoBlock
  <2>1. PICK b : b = t.text
    OBVIOUS
  <2>2. PICK e : e = M!Closed(b)
    OBVIOUS
  <2>3. e \in PlainEvent /\ e.type = "close" /\ e.block = b /\ "pieces" \notin DOMAIN e
    BY <1>5, <1>8, <2>1, <2>2 DEF M!Closed, PlainEvent
  <2>4. PICK w : w = M!Emit(t, e)
    OBVIOUS
  <2>5. PICK d : d = Seen(c, w.events)
    OBVIOUS
  <2>6. w \in MTranslator /\ SameNotes(t, w) /\ d = Read(v, Sent(e, 0))
    BY <1>1, <1>3, <2>3, <2>4, <2>5, MEmits
  <2>7. b \in Int /\ b \in Numbers(v) /\ BlockOf(v, b).open
    BY <1>4, <1>5, <1>8, <2>1
  <2>8. /\ Sound(d) /\ Numbers(d) = Numbers(v) /\ KeptBut(v, d, b) /\ ~BlockOf(d, b).open
        /\ BlockOf(d, b).kind = BlockOf(v, b).kind /\ BlockOf(d, b).pieces = BlockOf(v, b).pieces
    <3>1. 0 \in Nat /\ Counts(v, 0)
      BY PlainIs
    <3>2. "pieces" \in DOMAIN e => e.pieces = BlockOf(v, b).pieces
      BY <2>3
    <3>3. e \in PlainEvent /\ e.type = "close" /\ e.block = b
      BY <2>3
    <3>4. d = Read(v, Sent(e, 0)) /\ Sound(v)
      BY <1>4, <2>6
    <3> QED BY <2>7, <3>1, <3>2, <3>3, <3>4, ReadClose
  <2>9. \A j \in 1 .. Len(t.calls) : BlockOf(d, t.calls[j].block).open
    BY <1>4, <1>5, <2>1, <2>8 DEF KeptBut
  <2>10. SameWords(v, d)
    BY <2>8 DEF SameWords, KeptBut
  <2>11. MClosed(c, t, 0, w)
    BY <1>3, <1>4, <1>6, <2>1, <2>5, <2>6, <2>8, <2>9, <2>10 DEF MClosed
  <2> QED BY <1>8, <2>1, <2>2, <2>4, <2>11
<1> QED BY <1>7, <1>8

CloseTable == [p \in MTranslator \X MCall |-> M!Emit(p[1], M!Closed(p[2].block))]

\* The table of the closing.
LEMMA CloseTableIs ==
    /\ Folds(CloseTable, MTranslator, MCall)
    /\ \A u \in MTranslator, call \in MCall :
          /\ CloseTable[<<u, call>>] = M!Emit(u, M!Closed(call.block))
          /\ M!Emit(u, M!Closed(call.block)) \in MTranslator
<1>1. ASSUME NEW u \in MTranslator, NEW call \in MCall
      PROVE  M!Emit(u, M!Closed(call.block)) \in MTranslator
  <2>1. PICK e : e = M!Closed(call.block)
    OBVIOUS
  <2>2. e \in PlainEvent
    BY <2>1 DEF M!Closed, PlainEvent, MCall
  <2>3. Unread \in View
    BY DEF Unread, View, Ending
  <2>4. M!Emit(u, e) \in MTranslator
    BY <2>2, <2>3, MEmits
  <2> QED BY <2>1, <2>4
<1>2. \A u \in MTranslator, call \in MCall : CloseTable[<<u, call>>] = M!Emit(u, M!Closed(call.block))
  BY DEF CloseTable
<1>3. Folds(CloseTable, MTranslator, MCall)
  BY <1>1 DEF Folds, CloseTable
<1> QED BY <1>1, <1>2, <1>3

\* The fold over the calls is that of the table.
LEMMA MCloseFold ==
    ASSUME NEW t \in MTranslator, NEW list \in Seq(MCall)
    PROVE  M!FoldLeft(LAMBDA u, call : M!Emit(u, M!Closed(call.block)), t, list)
              = Fold(CloseTable, t, list)
<1> DEFINE S == DOMAIN list
           P(h) == h = [s \in SUBSET S |->
                           IF s = {} THEN t
                           ELSE M!Emit(h[s \ {Max(s)}], M!Closed(list[Max(s)].block))]
           Q(h) == h = [s \in SUBSET S |->
                           IF s = {} THEN t ELSE CloseTable[<<h[s \ {Max(s)}], list[Max(s)]>>]]
<1>1. IsFiniteSet(S) /\ S = 1 .. Len(list) /\ Len(list) \in Nat
  BY FS_Interval
<1>2. \A s \in SUBSET S : s # {} => Max(s) \in s /\ list[Max(s)] \in MCall
  <2>1. \A s \in SUBSET S : s # {} => Max(s) \in s
    BY <1>1, GreatestIndex
  <2> QED BY <2>1
<1>3. ASSUME NEW h, P(h) \/ Q(h) PROVE \A s \in SUBSET S : h[s] \in MTranslator
  <2>1. h[{}] \in MTranslator
    <3>1. {} \in SUBSET S
      OBVIOUS
    <3> QED BY <3>1, <1>3
  <2>2. ASSUME NEW s \in SUBSET S, s # {}
        PROVE  \E x \in s : h[s \ {x}] \in MTranslator => h[s] \in MTranslator
    <3>1. Max(s) \in s /\ list[Max(s)] \in MCall
      BY <1>2, <2>2
    <3>2. ASSUME h[s \ {Max(s)}] \in MTranslator PROVE h[s] \in MTranslator
      <4>1. \/ h[s] = M!Emit(h[s \ {Max(s)}], M!Closed(list[Max(s)].block))
            \/ h[s] = CloseTable[<<h[s \ {Max(s)}], list[Max(s)]>>]
        BY <1>3, <2>2
      <4>2. PICK u \in MTranslator, call \in MCall : u = h[s \ {Max(s)}] /\ call = list[Max(s)]
        BY <3>1, <3>2
      <4>3. /\ CloseTable[<<u, call>>] = M!Emit(u, M!Closed(call.block))
            /\ M!Emit(u, M!Closed(call.block)) \in MTranslator
        BY CloseTableIs
      <4> QED BY <4>1, <4>2, <4>3
    <3> QED BY <3>1, <3>2
  <2> HIDE DEF S, P, Q
  <2> QED BY <1>1, <2>1, <2>2, TableStays
<1>4. ASSUME NEW h, \A s \in SUBSET S : h[s] \in MTranslator PROVE P(h) <=> Q(h)
  <2>1. \A s \in SUBSET S :
           s # {} => M!Emit(h[s \ {Max(s)}], M!Closed(list[Max(s)].block))
                       = CloseTable[<<h[s \ {Max(s)}], list[Max(s)]>>]
    <3> TAKE s \in SUBSET S
    <3> HAVE s # {}
    <3>1. s \ {Max(s)} \in SUBSET S /\ list[Max(s)] \in MCall
      BY <1>2
    <3>2. h[s \ {Max(s)}] \in MTranslator
      BY <3>1, <1>4
    <3> QED BY <3>1, <3>2, CloseTableIs
  <2>2. [s \in SUBSET S |-> IF s = {} THEN t
                            ELSE M!Emit(h[s \ {Max(s)}], M!Closed(list[Max(s)].block))]
        = [s \in SUBSET S |-> IF s = {} THEN t
                              ELSE CloseTable[<<h[s \ {Max(s)}], list[Max(s)]>>]]
    BY <2>1
  <2> QED BY <2>2
<1>5. \A h : P(h) <=> Q(h)
  BY <1>3, <1>4
<1>6. (CHOOSE h : P(h)) = (CHOOSE h : Q(h))
  <2> HIDE DEF P, Q
  <2> QED BY <1>5
<1>7. M!FoldLeft(LAMBDA u, call : M!Emit(u, M!Closed(call.block)), t, list) = (CHOOSE h : P(h))[S]
  BY DEF M!FoldLeft, M!MapThenFoldSet, M!Max, Max
<1>8. Fold(CloseTable, t, list) = (CHOOSE h : Q(h))[S]
  BY DEF Fold, FoldLeft, MapThenFoldSet
<1> QED BY <1>6, <1>7, <1>8

\* All blocks are closed at the end.
LEMMA MAllClosed ==
    ASSUME NEW c \in View, NEW t, MGood(c, t)
    PROVE  MClosed(c, t, Len(t.calls), M!FinishBlocks(t))
<1>1. t \in MTranslator
  BY DEF MGood
<1>2. t.calls \in Seq(MCall) /\ Len(t.calls) \in Nat
  BY <1>1 DEF MTranslator
<1>3. PICK n \in Nat : n = Len(t.calls)
  BY <1>2
<1>4. PICK text : text = IF t.text = M!NoBlock THEN t ELSE M!Emit(t, M!Closed(t.text))
  OBVIOUS
<1>5. MClosed(c, t, 0, text) /\ text \in MTranslator
  <2>1. MClosed(c, t, 0, text)
    BY <1>4, MClosesText
  <2> QED BY <2>1 DEF MClosed
<1>6. M!FinishBlocks(t) = Fold(CloseTable, text, t.calls)
  <2>1. M!FinishBlocks(t) = M!FoldLeft(LAMBDA u, call : M!Emit(u, M!Closed(call.block)), text, t.calls)
    BY <1>4 DEF M!FinishBlocks
  <2> QED BY <1>2, <1>5, <2>1, MCloseFold
<1>7. PICK f \in [0 .. Len(t.calls) -> MTranslator] :
          Through(f, CloseTable, text, t.calls) /\ Fold(CloseTable, text, t.calls) = f[Len(t.calls)]
  BY <1>2, <1>5, CloseTableIs, FoldThrough
<1> DEFINE h == [i \in 0 .. n |-> <<i, f[i]>>]
           W == {p \in (0 .. n) \X MTranslator : MClosed(c, t, p[1], p[2])}
<1>8. h[0] \in W
  BY <1>3, <1>5, <1>7 DEF Through
<1>9. ASSUME NEW i \in 1 .. n, h[i - 1] \in W PROVE h[i] \in W
  <2>1. i \in 0 .. n /\ i - 1 \in 0 .. n
    BY <1>3
  <2>2. f[i - 1] \in MTranslator /\ t.calls[i] \in MCall /\ f[i] \in MTranslator
    BY <1>2, <1>3, <1>7, <2>1
  <2>3. f[i] = M!Emit(f[i - 1], M!Closed(t.calls[i].block))
    <3>1. f[i] = CloseTable[<<f[i - 1], t.calls[i]>>]
      BY <1>3, <1>7 DEF Through
    <3> QED BY <2>2, <3>1, CloseTableIs
  <2>4. MClosed(c, t, i - 1, f[i - 1])
    BY <1>9, <2>1
  <2>5. MClosed(c, t, i, f[i])
    BY <1>3, <2>3, <2>4, MCloses
  <2> QED BY <2>1, <2>2, <2>5
<1>10. \A i \in 0 .. n : h[i] \in W
  <2>1. \A i \in 1 .. n : h[i - 1] \in W => h[i] \in W
    BY <1>9
  <2> HIDE DEF h, W
  <2> QED BY <1>8, <2>1, StaysAlong
<1>11. n \in 0 .. n
  BY <1>3
<1>12. MClosed(c, t, n, f[n])
  BY <1>10, <1>11
<1> QED BY <1>3, <1>6, <1>7, <1>12

\* What a client makes of the end of a stream.
MEnds(c, u, outcome) ==
    /\ u.events \in Seq(Event)
    /\ Seen(c, u.events).ok /\ Seen(c, u.events).outcome = outcome

\* The events that end a stream tell the outcome to any client.
Tells(u, outcome) ==
    u.events \in Seq(Event) /\ \A c \in View : Seen(c, u.events).outcome = outcome

\* What it keeps: the words it had, and the reason it is given.
Keeps(v, d, reason) ==
    d \in View /\ Unique(d) /\ SameWords(v, d) /\ d.reason = reason

\* The end itself touches no block.
LEMMA KeptToTheEnd ==
    ASSUME NEW v, NEW w, Sound(w), SameWords(v, w), NEW d \in View, d.blocks = w.blocks
    PROVE  Keeps(v, d, d.reason)
<1>1. Unique(d) /\ Numbers(d) = Numbers(w) /\ \A x : BlockOf(d, x) = BlockOf(w, x)
  BY DEF Sound, Unique, Numbers, BlockOf, BlockAt
<1> QED BY <1>1 DEF Keeps, SameWords

\* A client that is told the end of the stream has seen a whole, well formed answer.
LEMMA MFinishTold ==
    ASSUME NEW c \in View, NEW t, MGood(c, t)
    PROVE  /\ MEnds(c, M!Finish(t), "complete") /\ MParts(M!Finish(t))
           /\ Tells(M!Finish(t), "complete")
           /\ Keeps(Seen(c, t.events), Seen(c, M!Finish(t).events), t.reason)
<1>1. M!Start(t) = t /\ t \in MTranslator /\ MParts(t) /\ ~t.stopped
  BY MStarted DEF MGood, MTold, MBlocks
<1>2. PICK u : u = M!FinishBlocks(t)
  OBVIOUS
<1>3. MClosed(c, t, Len(t.calls), u)
  BY <1>2, MAllClosed
<1>4. PICK e : e = [type |-> "end", outcome |-> "complete", reason |-> t.reason, usage |-> t.usage]
  OBVIOUS
<1>5. e \in PlainEvent /\ e.type = "end" /\ e.outcome = "complete" /\ e.reason = t.reason
  BY <1>1, <1>4 DEF MTranslator, PlainEvent
<1>6. PICK w : w = M!Emit(u, e)
  OBVIOUS
<1>7. PICK v \in View : v = Seen(c, u.events)
  BY <1>3, <1>5, <1>6, MEmits DEF MClosed
<1>8. w \in MTranslator /\ Seen(c, w.events) = Read(v, Sent(e, 0)) /\ SameNotes(u, w)
  BY <1>3, <1>5, <1>6, <1>7, MEmits DEF MClosed
<1>9. /\ Sound(v) /\ Numbers(v) = 0 .. t.next - 1 /\ SameWords(Seen(c, t.events), v)
      /\ t.text # M!NoBlock => ~BlockOf(v, t.text).open
      /\ \A j \in 1 .. Len(t.calls) : ~BlockOf(v, t.calls[j].block).open
  BY <1>3, <1>7 DEF MClosed
<1>10. \A b \in Numbers(v) : ~BlockOf(v, b).open
  <2> SUFFICES ASSUME NEW b \in Numbers(v) PROVE ~BlockOf(v, b).open
    OBVIOUS
  <2>1. CASE b = t.text
    <3>1. t.next \in Nat
      BY <1>1 DEF MTranslator
    <3>2. t.text # M!NoBlock
      BY <1>9, <2>1, <3>1 DEF M!NoBlock
    <3> QED BY <1>9, <2>1, <3>2
  <2>2. CASE b # t.text
    <3>1. PICK j \in 1 .. Len(t.calls) : t.calls[j].block = b
      BY <1>1, <1>9, <2>2 DEF MParts
    <3> QED BY <1>9, <3>1
  <2> QED BY <2>1, <2>2
<1>11. PICK d : d = Seen(c, w.events)
  OBVIOUS
<1>12. d \in View /\ d.ok /\ d.outcome = "complete" /\ d.blocks = v.blocks /\ d.reason = t.reason
  <2>1. 0 \in Nat /\ Counts(v, 0)
    BY PlainIs
  <2>2. /\ d \in View /\ d.ok /\ d.outcome = e.outcome /\ d.blocks = v.blocks
        /\ e.outcome = "complete" => d.reason = e.reason
    <3>1. Sound(v) /\ d = Read(v, Sent(e, 0))
      BY <1>8, <1>9, <1>11
    <3>2. e \in PlainEvent /\ e.type = "end"
      BY <1>5
    <3> QED BY <1>10, <2>1, <3>1, <3>2, ReadEnd
  <2> QED BY <1>5, <2>2
<1>13. M!Finish(t) = [w EXCEPT !.stopped = TRUE]
  BY <1>1, <1>2, <1>4, <1>6, Zenon DEF M!Finish
<1>14. M!Finish(t).events = w.events /\ w.events \in Seq(Event)
  BY <1>8, <1>13 DEF MTranslator
<1>15. MParts(M!Finish(t))
  <2>1. SameNotes(t, u)
    BY <1>3 DEF MClosed
  <2>2. w.next = t.next /\ w.text = t.text /\ w.calls = t.calls
    BY <1>8, <2>1 DEF SameNotes
  <2>3. PICK x : x = M!Finish(t) /\ x.next = t.next /\ x.text = t.text /\ x.calls = t.calls
    BY <1>8, <1>13, <2>2 DEF MTranslator
  <2> QED BY <1>1, <2>3, SameParts
<1>16. Keeps(Seen(c, t.events), d, t.reason)
  BY <1>9, <1>12, KeptToTheEnd
<1>17. ASSUME NEW x \in View PROVE Seen(x, w.events).outcome = "complete"
  <2>1. Seen(x, u.events) \in View /\ Seen(x, w.events) = Read(Seen(x, u.events), Sent(e, 0))
    BY <1>3, <1>5, <1>6, MEmits DEF MClosed
  <2> QED BY <1>5, <2>1, EndIsRead
<1> QED BY <1>11, <1>12, <1>14, <1>15, <1>16, <1>17 DEF MEnds, Tells

\* A client that is told the failure has seen well formed events.
LEMMA MFailTold ==
    ASSUME NEW c \in View, NEW t, MGood(c, t)
    PROVE  MEnds(c, M!Fail(t), "failed") /\ MParts(M!Fail(t)) /\ Tells(M!Fail(t), "failed")
<1>1. t \in MTranslator /\ ~t.stopped
  BY DEF MGood, MTold, MBlocks
<1>2. PICK e : e = [type |-> "end", outcome |-> "failed"]
  OBVIOUS
<1>3. e \in PlainEvent /\ e.type = "end" /\ e.outcome = "failed"
  BY <1>2 DEF PlainEvent
<1>4. PICK w : w = M!Emit(t, e)
  OBVIOUS
<1>5. PICK v \in View : v = Seen(c, t.events)
  BY <1>1, <1>3, <1>4, MEmits
<1>6. w \in MTranslator /\ Seen(c, w.events) = Read(v, Sent(e, 0)) /\ SameNotes(t, w)
  BY <1>1, <1>3, <1>4, <1>5, MEmits
<1>7. Sound(v)
  BY <1>5 DEF MGood, MTold, MBlocks
<1>8. PICK d : d = Seen(c, w.events)
  OBVIOUS
<1>9. d \in View /\ d.ok /\ d.outcome = "failed"
  <2>1. 0 \in Nat /\ Counts(v, 0) /\ e.outcome # "complete"
    BY <1>3, PlainIs
  <2>2. d \in View /\ d.ok /\ d.outcome = e.outcome
    BY <1>3, <1>6, <1>7, <1>8, <2>1, ReadEnd
  <2> QED BY <1>3, <2>2
<1>10. M!Fail(t) = [w EXCEPT !.stopped = TRUE]
  BY <1>1, <1>2, <1>4, Zenon DEF M!Fail
<1>11. M!Fail(t).events = w.events /\ w.events \in Seq(Event)
  BY <1>6, <1>10 DEF MTranslator
<1>12. MParts(M!Fail(t))
  <2>1. PICK x : x = M!Fail(t) /\ x.next = t.next /\ x.text = t.text /\ x.calls = t.calls
    BY <1>6, <1>10 DEF MTranslator, SameNotes
  <2>2. MParts(t)
    BY MStarted
  <2> QED BY <2>1, <2>2, SameParts
<1>13. ASSUME NEW x \in View PROVE Seen(x, w.events).outcome = "failed"
  <2>1. Seen(x, t.events) \in View /\ Seen(x, w.events) = Read(Seen(x, t.events), Sent(e, 0))
    BY <1>1, <1>3, <1>4, MEmits
  <2> QED BY <1>3, <2>1, EndIsRead
<1> QED BY <1>8, <1>9, <1>11, <1>12, <1>13 DEF MEnds, Tells

-----------------------------------------------------------------------------
(* The translator of the Responses API *)

RCall == [index : CallIndex, block : Int, id : Ids, args : Seq(Nat)]
RNotes ==
    [started : BOOLEAN, stopped : BOOLEAN, message : BOOLEAN, text : Seq(Nat), calls : Seq(RCall),
     next : Nat, sequence : Nat, reason : {"stop"} \cup Reasons, usage : BOOLEAN,
     events : Seq(Event)]

\* Every event took a number.
RTranslator == {t \in RNotes : t.sequence >= Len(t.events)}

\* The output items t counts, and the pieces of each.
Items(t) == (1 .. Len(t.calls)) \cup (IF t.message THEN {0} ELSE {})
Pieces(t, b) == IF b = 0 THEN t.text ELSE t.calls[b].args

RParts(t) ==
    /\ t.next = Len(t.calls) + 1
    /\ \A k \in 1 .. Len(t.calls) : t.calls[k].block = k
    /\ ~t.message => t.text = <<>>

\* The message is item 0.
KindOf(b) == IF b = 0 THEN "text" ELSE "call"

\* A client at v has open every item of t with the pieces t has of it.
RItems(v, t) ==
    /\ Sound(v) /\ v.started /\ v.numbered = t.sequence
    /\ Numbers(v) = Items(t)
    /\ \A b \in Items(t) : /\ BlockOf(v, b).open /\ BlockOf(v, b).pieces = Pieces(t, b)
                          /\ BlockOf(v, b).kind = KindOf(b)

RGood(c, t) ==
    /\ t \in RTranslator /\ t.started /\ ~t.stopped
    /\ RItems(Seen(c, t.events), t) /\ RParts(t)

RSameNotes(t, u) ==
    /\ u.started = t.started /\ u.stopped = t.stopped /\ u.message = t.message /\ u.text = t.text
    /\ u.calls = t.calls /\ u.next = t.next /\ u.reason = t.reason /\ u.usage = t.usage

\* An event more: it takes the next number, the client reads it, the notes stay.
LEMMA REmits ==
    ASSUME NEW c \in View, NEW t \in RTranslator, NEW e \in PlainEvent, NEW u, u = R!EmitNext(t, e)
    PROVE  /\ u \in RTranslator /\ RSameNotes(t, u) /\ u.sequence = t.sequence + 1
           /\ Seen(c, t.events) \in View
           /\ Seen(c, u.events) = Read(Seen(c, t.events), Sent(e, t.sequence + 1))
<1>1. PICK n \in Nat : n = t.sequence + 1 /\ n # 0
  BY DEF RTranslator, RNotes
<1>2. PICK x \in Event : x = Sent(e, n)
  BY DEF Event
<1>3. x = R!Numbered(e, n)
  BY <1>1, <1>2 DEF Sent
<1>4. t.events \in Seq(Event)
  BY DEF RTranslator, RNotes
<1>5. /\ Seen(c, t.events) \in View /\ Append(t.events, x) \in Seq(Event)
      /\ Seen(c, Append(t.events, x)) = Read(Seen(c, t.events), x)
  BY <1>4, SeenAppend
<1>6. PICK s \in Seq(Event) : s = Append(t.events, x)
  BY <1>5
<1>7. PICK w : w = [t EXCEPT !.sequence = n]
  OBVIOUS
<1>8. w \in RNotes /\ RSameNotes(t, w) /\ w.sequence = n /\ w.events = t.events
  BY <1>7 DEF RTranslator, RNotes, RSameNotes
<1>9. u = [w EXCEPT !.events = Append(w.events, x)]
  <2>1. w = [t EXCEPT !.sequence = @ + 1]
    BY <1>1, <1>7
  <2>2. R!Emit(w, x) = [w EXCEPT !.events = Append(w.events, x)]
    BY DEF R!Emit
  <2>3. u = R!Emit(w, x)
    BY <1>1, <1>3, <2>1, Zenon DEF R!EmitNext
  <2> QED BY <2>2, <2>3
<1>10. u = [w EXCEPT !.events = s]
  BY <1>6, <1>8, <1>9
<1>11. u \in RTranslator /\ RSameNotes(w, u) /\ u.sequence = n /\ u.events = s
  <2>1. u \in RNotes /\ RSameNotes(w, u) /\ u.sequence = n /\ u.events = s
    BY <1>8, <1>10 DEF RNotes, RSameNotes
  <2>2. Len(s) = Len(t.events) + 1 /\ Len(t.events) \in Nat
    BY <1>4, <1>6
  <2>3. t.sequence >= Len(t.events) /\ t.sequence \in Nat
    BY DEF RTranslator, RNotes
  <2> QED BY <1>1, <2>1, <2>2, <2>3 DEF RTranslator, RNotes
<1>12. RSameNotes(t, u)
  BY <1>8, <1>11 DEF RSameNotes
<1> QED BY <1>1, <1>2, <1>5, <1>6, <1>11, <1>12

\* What a good account says of the translator itself.
LEMMA RGoodIs ==
    ASSUME NEW c, NEW t, RGood(c, t)
    PROVE  /\ R!Start(t) = t /\ t \in RTranslator /\ RParts(t) /\ ~t.stopped /\ t.started
           /\ t.calls \in Seq(RCall) /\ Len(t.calls) \in Nat /\ t.next = Len(t.calls) + 1
           /\ t.text \in Seq(Nat) /\ t.message \in BOOLEAN
           /\ Items(t) \subseteq Int
           /\ RItems(Seen(c, t.events), t)
<1>1. t \in RTranslator /\ t.started /\ ~t.stopped /\ RParts(t) /\ RItems(Seen(c, t.events), t)
  BY DEF RGood
<1>2. /\ t.calls \in Seq(RCall) /\ Len(t.calls) \in Nat
      /\ t.text \in Seq(Nat) /\ t.message \in BOOLEAN
  BY <1>1 DEF RTranslator, RNotes
<1>3. Items(t) \subseteq Int
  BY <1>2 DEF Items
<1>4. R!Start(t) = t
  BY <1>1 DEF R!Start
<1>5. t.next = Len(t.calls) + 1
  BY <1>1 DEF RParts
<1> QED BY <1>1, <1>2, <1>3, <1>4, <1>5

\* The items, pieces and parts are told by the notes.
LEMMA RSameItems ==
    ASSUME NEW t, NEW u, RSameNotes(t, u)
    PROVE  /\ Items(u) = Items(t) /\ \A b : Pieces(u, b) = Pieces(t, b)
           /\ RParts(u) <=> RParts(t)
BY DEF RSameNotes, Items, Pieces, RParts

\* s is t with an empty item more.
LEMMA ROpens ==
    ASSUME NEW c \in View, NEW t, RGood(c, t), NEW s \in RTranslator,
           s.events = t.events, s.sequence = t.sequence, s.started = t.started, s.stopped = t.stopped,
           NEW b \in Int, b \notin Items(t), Items(s) = Items(t) \cup {b}, Pieces(s, b) = <<>>,
           \A x \in Items(t) : Pieces(s, x) = Pieces(t, x),
           RParts(s), NEW kind \in {"text", "call"}, kind = KindOf(b), NEW id \in Ids,
           NEW u, u = R!EmitNext(s, R!Opened(b, kind, id))
    PROVE  RGood(c, u) /\ RSameNotes(s, u)
<1>1. PICK e : e = R!Opened(b, kind, id)
  OBVIOUS
<1>2. e \in PlainEvent /\ e = Opened(b, kind, id)
  BY <1>1 DEF R!Opened, Opened, PlainEvent
<1>3. u = R!EmitNext(s, e)
  BY <1>1
<1>4. PICK v \in View : v = Seen(c, s.events)
  BY <1>2, <1>3, REmits
<1>5. PICK d : d = Seen(c, u.events)
  OBVIOUS
<1>6. PICK n \in Nat : n = s.sequence + 1 /\ n # 0
  BY DEF RTranslator, RNotes
<1>7. /\ u \in RTranslator /\ RSameNotes(s, u) /\ u.sequence = n
      /\ d = Read(v, Sent(Opened(b, kind, id), n))
  <2>1. /\ u \in RTranslator /\ RSameNotes(s, u) /\ u.sequence = s.sequence + 1
        /\ Seen(c, u.events) = Read(Seen(c, s.events), Sent(e, s.sequence + 1))
    BY <1>2, <1>3, REmits
  <2> QED BY <1>2, <1>4, <1>5, <1>6, <2>1
<1>8. RItems(v, t)
  BY <1>4 DEF RGood
<1>9. /\ Sound(v) /\ v.started /\ Counts(v, n) /\ Numbers(v) = Items(t)
      /\ \A x \in Items(t) : /\ BlockOf(v, x).open /\ BlockOf(v, x).pieces = Pieces(t, x)
                            /\ BlockOf(v, x).kind = KindOf(x)
  BY <1>6, <1>8 DEF RItems, Counts
<1>10. b \notin Numbers(v)
  BY <1>9
<1>11. /\ Sound(d) /\ d.started /\ d.numbered = Reached(v, n)
       /\ Numbers(d) = Numbers(v) \cup {b} /\ KeptBut(v, d, b)
       /\ BlockOf(d, b).open /\ BlockOf(d, b).pieces = <<>> /\ BlockOf(d, b).kind = kind
  BY <1>7, <1>9, <1>10, ReadOpen
<1>12. /\ Items(u) = Items(s) /\ \A x : Pieces(u, x) = Pieces(s, x)
       /\ RParts(u)
  BY <1>7, RSameItems
<1>13. \A x \in Items(u) : /\ BlockOf(d, x).open /\ BlockOf(d, x).pieces = Pieces(u, x)
                            /\ BlockOf(d, x).kind = KindOf(x)
  BY <1>9, <1>10, <1>11, <1>12 DEF KeptBut
<1>14. RItems(d, u)
  BY <1>6, <1>7, <1>9, <1>11, <1>12, <1>13 DEF RItems, Reached
<1>15. u.started /\ ~u.stopped
  BY <1>7 DEF RSameNotes, RGood
<1> QED BY <1>5, <1>7, <1>12, <1>14, <1>15 DEF RGood

\* s is t with a piece more in item b.
LEMMA RWrites ==
    ASSUME NEW c \in View, NEW t, RGood(c, t), NEW s \in RTranslator,
           s.events = t.events, s.sequence = t.sequence, s.started = t.started, s.stopped = t.stopped,
           NEW b \in Items(t), Items(s) = Items(t), NEW piece \in Nat,
           Pieces(s, b) = Append(Pieces(t, b), piece),
           \A x \in Items(t) \ {b} : Pieces(s, x) = Pieces(t, x), RParts(s),
           NEW u, u = R!EmitNext(s, R!Piece(b, piece))
    PROVE  RGood(c, u) /\ RSameNotes(s, u)
<1>0. b \in Int
  BY RGoodIs
<1>1. PICK e : e = R!Piece(b, piece)
  OBVIOUS
<1>2. e \in PlainEvent /\ e = Piece(b, piece)
  BY <1>0, <1>1 DEF R!Piece, Piece, PlainEvent
<1>3. u = R!EmitNext(s, e)
  BY <1>1
<1>4. PICK v \in View : v = Seen(c, s.events)
  BY <1>2, <1>3, REmits
<1>5. PICK d : d = Seen(c, u.events)
  OBVIOUS
<1>6. PICK n \in Nat : n = s.sequence + 1 /\ n # 0
  BY DEF RTranslator, RNotes
<1>7. /\ u \in RTranslator /\ RSameNotes(s, u) /\ u.sequence = n
      /\ d = Read(v, Sent(Piece(b, piece), n))
  <2>1. /\ u \in RTranslator /\ RSameNotes(s, u) /\ u.sequence = s.sequence + 1
        /\ Seen(c, u.events) = Read(Seen(c, s.events), Sent(e, s.sequence + 1))
    BY <1>2, <1>3, REmits
  <2> QED BY <1>2, <1>4, <1>5, <1>6, <2>1
<1>8. RItems(v, t)
  BY <1>4 DEF RGood
<1>9. /\ Sound(v) /\ v.started /\ Counts(v, n) /\ Numbers(v) = Items(t)
      /\ \A x \in Items(t) : /\ BlockOf(v, x).open /\ BlockOf(v, x).pieces = Pieces(t, x)
                            /\ BlockOf(v, x).kind = KindOf(x)
  BY <1>6, <1>8 DEF RItems, Counts
<1>10. b \in Numbers(v) /\ BlockOf(v, b).open
  BY <1>9
<1>11. /\ Sound(d) /\ (d.started <=> v.started) /\ d.numbered = Reached(v, n)
       /\ Numbers(d) = Numbers(v) /\ KeptBut(v, d, b)
       /\ BlockOf(d, b).open /\ BlockOf(d, b).pieces = Append(BlockOf(v, b).pieces, piece)
       /\ BlockOf(d, b).kind = BlockOf(v, b).kind
  BY <1>0, <1>7, <1>9, <1>10, ReadPiece
<1>12. /\ Items(u) = Items(s) /\ \A x : Pieces(u, x) = Pieces(s, x)
       /\ RParts(u)
  BY <1>7, RSameItems
<1>13. \A x \in Items(u) : /\ BlockOf(d, x).open /\ BlockOf(d, x).pieces = Pieces(u, x)
                            /\ BlockOf(d, x).kind = KindOf(x)
  <2>1. /\ BlockOf(d, b).open /\ BlockOf(d, b).pieces = Pieces(u, b)
        /\ BlockOf(d, b).kind = KindOf(b)
    BY <1>9, <1>11, <1>12
  <2>2. ASSUME NEW x \in Items(t) \ {b}
        PROVE  /\ BlockOf(d, x).open /\ BlockOf(d, x).pieces = Pieces(u, x)
               /\ BlockOf(d, x).kind = KindOf(x)
    <3>1. BlockOf(d, x) = BlockOf(v, x) /\ Pieces(u, x) = Pieces(t, x)
      BY <1>9, <1>11, <1>12 DEF KeptBut
    <3> QED BY <1>9, <3>1
  <2> QED BY <1>12, <2>1, <2>2
<1>14. RItems(d, u)
  BY <1>6, <1>7, <1>9, <1>11, <1>12, <1>13 DEF RItems, Reached
<1>15. u.started /\ ~u.stopped
  BY <1>7 DEF RSameNotes, RGood
<1> QED BY <1>5, <1>7, <1>12, <1>14, <1>15 DEF RGood

\* Place is the same in both protocols.
LEMMA RPlaceIs ==
    ASSUME NEW C, NEW calls \in Seq(C), NEW index
    PROVE  /\ R!Place(calls, index) # 0 => /\ R!Place(calls, index) \in 1 .. Len(calls)
                                          /\ calls[R!Place(calls, index)].index = index
           /\ R!Place(calls, index) = 0 => \A k \in 1 .. Len(calls) : calls[k].index # index
<1>1. R!Place(calls, index) = M!Place(calls, index)
  BY DEF M!Place, M!SelectInSeq, M!Min, R!Place, R!SelectInSeq, R!Min
<1> QED BY <1>1, MPlaceIs

\* A line of text,
LEMMA RTextGood ==
    ASSUME NEW c \in View, NEW t, RGood(c, t), NEW piece \in Nat
    PROVE  LET w == R!AddText(t, piece)
           IN  /\ RGood(c, w) /\ w.text = Append(t.text, piece)
               /\ w.calls = t.calls /\ w.reason = t.reason
<1>1. R!Start(t) = t /\ t \in RTranslator
  BY RGoodIs
<1>2. PICK u : u = R!OpenMessage(t)
  OBVIOUS
<1>3. /\ RGood(c, u) /\ u.message
      /\ u.text = t.text /\ u.calls = t.calls /\ u.reason = t.reason
  <2>1. CASE t.message
    BY <1>2, <2>1 DEF R!OpenMessage
  <2>2. CASE ~t.message
    <3>1. PICK s : s = [t EXCEPT !.message = TRUE]
      OBVIOUS
    <3>2. /\ s \in RTranslator /\ s.events = t.events /\ s.sequence = t.sequence /\ s.message
          /\ s.started = t.started /\ s.stopped = t.stopped /\ s.next = t.next
          /\ s.text = t.text /\ s.calls = t.calls /\ s.reason = t.reason
      BY <1>1, <3>1 DEF RTranslator, RNotes
    <3>3. RParts(t) /\ t.text = <<>> /\ Len(t.calls) \in Nat
      BY <2>2, RGoodIs DEF RParts
    <3>4. RParts(s)
      BY <3>2, <3>3 DEF RParts
    <3>5. /\ 0 \notin Items(t) /\ Items(s) = Items(t) \cup {0} /\ Pieces(s, 0) = <<>>
          /\ \A x \in Items(t) : Pieces(s, x) = Pieces(t, x)
      BY <2>2, <3>2, <3>3 DEF Items, Pieces
    <3>6. NoId \in Ids /\ 0 \in Int /\ "text" = KindOf(0)
      BY DEF Ids, KindOf
    <3>7. u = R!EmitNext(s, R!Opened(0, "text", NoId))
      BY <1>2, <2>2, <3>1, Zenon DEF R!OpenMessage, R!MessageItem
    <3>8. RGood(c, u) /\ RSameNotes(s, u)
      BY <3>2, <3>4, <3>5, <3>6, <3>7, ROpens
    <3> QED BY <3>2, <3>8 DEF RSameNotes
  <2> QED BY <1>1, <2>1, <2>2
<1>4. /\ u \in RTranslator /\ u.text \in Seq(Nat) /\ RParts(u) /\ Len(u.calls) \in Nat
  BY <1>3, RGoodIs
<1>5. PICK text \in Seq(Nat) : text = Append(u.text, piece)
  <2>1. Append(u.text, piece) \in Seq(Nat)
    BY <1>4
  <2> QED BY <2>1
<1>6. PICK s : s = [u EXCEPT !.text = text]
  OBVIOUS
<1>7. /\ s \in RTranslator /\ s.events = u.events /\ s.sequence = u.sequence /\ s.message
      /\ s.started = u.started /\ s.stopped = u.stopped /\ s.next = u.next
      /\ s.text = text /\ s.calls = u.calls /\ s.reason = u.reason
  BY <1>3, <1>4, <1>6 DEF RTranslator, RNotes
<1>8. RParts(s)
  BY <1>4, <1>7 DEF RParts
<1>9. /\ 0 \in Items(u) /\ Items(s) = Items(u) /\ Pieces(s, 0) = Append(Pieces(u, 0), piece)
      /\ \A x \in Items(u) \ {0} : Pieces(s, x) = Pieces(u, x)
  BY <1>3, <1>5, <1>7 DEF Items, Pieces
<1>10. PICK w : w = R!EmitNext(s, R!Piece(0, piece))
  OBVIOUS
<1>11. R!AddText(t, piece) = w
  <2>1. s = [u EXCEPT !.text = Append(@, piece)]
    BY <1>5, <1>6
  <2> QED BY <1>1, <1>2, <1>10, <2>1, Zenon DEF R!AddText, R!MessageItem
<1>12. RGood(c, w) /\ RSameNotes(s, w)
  BY <1>3, <1>7, <1>8, <1>9, <1>10, RWrites
<1>13. w.text = Append(t.text, piece) /\ w.calls = t.calls /\ w.reason = t.reason
  BY <1>3, <1>5, <1>7, <1>12 DEF RSameNotes
<1> QED BY <1>11, <1>12, <1>13

\* A change of a call's id or pieces.
LEMMA RCallReplaced ==
    ASSUME NEW t \in RTranslator, NEW at \in 1 .. Len(t.calls), NEW r \in RCall,
           r.block = t.calls[at].block, r.index = t.calls[at].index,
           NEW s, s = [t EXCEPT !.calls = [t.calls EXCEPT ![at] = r]]
    PROVE  /\ s \in RTranslator /\ s.events = t.events /\ s.sequence = t.sequence
           /\ s.message = t.message /\ s.text = t.text /\ s.reason = t.reason
           /\ s.started = t.started /\ s.stopped = t.stopped /\ Items(s) = Items(t)
           /\ Len(s.calls) = Len(t.calls) /\ s.calls[at] = r
           /\ \A k \in 1 .. Len(t.calls) : k # at => s.calls[k] = t.calls[k]
           /\ RParts(t) => RParts(s)
<1>1. t.calls \in Seq(RCall)
  BY DEF RTranslator, RNotes
<1>2. PICK calls : calls = [t.calls EXCEPT ![at] = r]
  OBVIOUS
<1>3. /\ calls \in Seq(RCall) /\ Len(calls) = Len(t.calls) /\ calls[at] = r
      /\ \A k \in 1 .. Len(t.calls) : k # at => calls[k] = t.calls[k]
  BY <1>1, <1>2, ListReplaced
<1>4. s = [t EXCEPT !.calls = calls]
  BY <1>2
<1>5. /\ s \in RTranslator /\ s.events = t.events /\ s.sequence = t.sequence
      /\ s.message = t.message /\ s.text = t.text /\ s.next = t.next /\ s.reason = t.reason
      /\ s.started = t.started /\ s.stopped = t.stopped /\ s.calls = calls
  BY <1>3, <1>4 DEF RTranslator, RNotes
<1>6. Items(s) = Items(t)
  BY <1>3, <1>5 DEF Items
<1>7. \A k \in 1 .. Len(t.calls) : calls[k].block = t.calls[k].block
  BY <1>3
<1>8. RParts(t) => RParts(s)
  BY <1>3, <1>5, <1>7 DEF RParts
<1> QED BY <1>3, <1>5, <1>6, <1>8

\* u is t with the call of the line, which was at place at or nowhere.
RWithCall(t, line, at, u) ==
    /\ u.text = t.text /\ u.reason = t.reason
    /\ IF at = 0
       THEN u.calls = Append(t.calls, [index |-> line.index, block |-> t.next,
                                       id |-> line.id, args |-> <<>>])
       ELSE /\ at \in 1 .. Len(t.calls) /\ Len(u.calls) = Len(t.calls)
            /\ \A k \in 1 .. Len(t.calls) :
                  /\ u.calls[k].index = t.calls[k].index /\ u.calls[k].args = t.calls[k].args
                  /\ u.calls[k].id = IF k = at /\ line.id # NoId THEN line.id ELSE t.calls[k].id

\* The call of a line, with an item opened if it has none,
LEMMA RCallOpen ==
    ASSUME NEW c \in View, NEW t, RGood(c, t), NEW line \in CallLines, NEW u, u = R!WithCall(t, line)
    PROVE  /\ RGood(c, u) /\ RWithCall(t, line, R!Place(t.calls, line.index), u)
           /\ \E k \in 1 .. Len(u.calls) : u.calls[k].index = line.index
<1>0. PICK at : at = R!Place(t.calls, line.index)
  OBVIOUS
<1> SUFFICES /\ RGood(c, u) /\ RWithCall(t, line, at, u)
             /\ \E k \in 1 .. Len(u.calls) : u.calls[k].index = line.index
  BY <1>0
<1>1. /\ t \in RTranslator /\ RParts(t) /\ t.calls \in Seq(RCall)
      /\ Len(t.calls) \in Nat /\ t.next = Len(t.calls) + 1
  BY RGoodIs
<1>2. line.index \in CallIndex /\ line.id \in Ids
  BY DEF CallLines
<1>3. CASE at = 0
  <2>1. PICK call : call = [index |-> line.index, block |-> t.next, id |-> line.id, args |-> <<>>]
    OBVIOUS
  <2>2. call \in RCall /\ call.block = t.next /\ call.index = line.index /\ call.args = <<>>
    BY <1>1, <1>2, <2>1 DEF RCall
  <2>3. PICK calls : calls = Append(t.calls, call)
    OBVIOUS
  <2>4. /\ calls \in Seq(RCall) /\ Len(calls) = Len(t.calls) + 1
        /\ calls[Len(t.calls) + 1] = call
        /\ \A k \in 1 .. Len(t.calls) : calls[k] = t.calls[k]
    BY <1>1, <2>2, <2>3
  <2>5. PICK s : s = [t EXCEPT !.calls = calls, !.next = @ + 1]
    OBVIOUS
  <2>6. /\ s \in RTranslator /\ s.events = t.events /\ s.sequence = t.sequence
        /\ s.message = t.message /\ s.started = t.started /\ s.stopped = t.stopped
        /\ s.next = t.next + 1 /\ s.text = t.text /\ s.calls = calls /\ s.reason = t.reason
    <3>1. s = [t EXCEPT !.calls = calls, !.next = t.next + 1]
      BY <2>5
    <3>2. t.next + 1 \in Nat
      BY <1>1
    <3> QED BY <1>1, <2>4, <3>1, <3>2 DEF RTranslator, RNotes
  <2>7. 1 .. Len(s.calls) = (1 .. Len(t.calls)) \cup {t.next} /\ t.next \notin 1 .. Len(t.calls)
        /\ t.next # 0 /\ t.next \in Int
    BY <1>1, <2>4, <2>6
  <2>8. RParts(s)
    BY <1>1, <2>2, <2>4, <2>6, <2>7 DEF RParts
  <2>9. /\ t.next \notin Items(t) /\ Items(s) = Items(t) \cup {t.next} /\ Pieces(s, t.next) = <<>>
        /\ \A x \in Items(t) : Pieces(s, x) = Pieces(t, x)
    <3>1. t.next \notin Items(t) /\ Items(s) = Items(t) \cup {t.next}
      BY <2>6, <2>7 DEF Items
    <3>2. Pieces(s, t.next) = <<>>
      BY <1>1, <2>2, <2>4, <2>6, <2>7 DEF Pieces
    <3>3. \A x \in Items(t) : Pieces(s, x) = Pieces(t, x)
      BY <2>4, <2>6 DEF Items, Pieces
    <3> QED BY <3>1, <3>2, <3>3
  <2>10. u = R!EmitNext(s, R!Opened(t.next, "call", line.id))
    BY <1>0, <1>3, <2>1, <2>3, <2>5, Zenon DEF R!WithCall
  <2>11. RGood(c, u) /\ RSameNotes(s, u)
    <3>1. "call" = KindOf(t.next)
      BY <2>7 DEF KindOf
    <3> QED BY <1>2, <2>6, <2>7, <2>8, <2>9, <2>10, <3>1, ROpens
  <2>12. u.calls = calls /\ u.text = t.text /\ u.reason = t.reason
    BY <2>6, <2>11 DEF RSameNotes
  <2>13. Len(t.calls) + 1 \in 1 .. Len(u.calls)
    BY <1>1, <2>4, <2>12
  <2>14. \E k \in 1 .. Len(u.calls) : u.calls[k].index = line.index
    BY <2>2, <2>4, <2>12, <2>13
  <2> QED BY <1>3, <2>1, <2>3, <2>11, <2>12, <2>14 DEF RWithCall
<1>4. CASE at # 0
  <2>1. at \in 1 .. Len(t.calls) /\ t.calls[at].index = line.index
    BY <1>0, <1>1, <1>4, RPlaceIs
  <2>2. t.calls[at] \in RCall
    BY <1>1, <2>1
  <2>3. PICK id \in Ids : id = IF line.id = NoId THEN t.calls[at].id ELSE line.id
    BY <1>2, <2>2 DEF RCall
  <2>4. PICK r \in RCall : r = [t.calls[at] EXCEPT !.id = id]
    BY <2>2 DEF RCall
  <2>5. /\ r.block = t.calls[at].block /\ r.index = t.calls[at].index
        /\ r.args = t.calls[at].args /\ r.id = id
    BY <2>2, <2>4 DEF RCall
  <2>6. u = [t EXCEPT !.calls = [t.calls EXCEPT ![at] = r]]
    <3>1. u = [t EXCEPT !.calls[at].id = id]
      BY <1>0, <1>4, <2>3, Zenon DEF R!WithCall
    <3> QED BY <2>4, <3>1, Zenon
  <2>7. /\ u \in RTranslator /\ u.events = t.events /\ u.sequence = t.sequence
        /\ u.message = t.message /\ u.text = t.text /\ u.reason = t.reason
        /\ u.started = t.started /\ u.stopped = t.stopped /\ Items(u) = Items(t)
        /\ Len(u.calls) = Len(t.calls) /\ u.calls[at] = r
        /\ \A k \in 1 .. Len(t.calls) : k # at => u.calls[k] = t.calls[k]
        /\ RParts(u)
    BY <1>1, <2>1, <2>5, <2>6, RCallReplaced
  <2>8. \A k \in 1 .. Len(t.calls) :
           u.calls[k].index = t.calls[k].index /\ u.calls[k].args = t.calls[k].args
    BY <2>5, <2>7
  <2>9. \A k \in 1 .. Len(t.calls) :
           u.calls[k].id = IF k = at /\ line.id # NoId THEN line.id ELSE t.calls[k].id
    BY <2>3, <2>5, <2>7
  <2>10. \A x \in Items(t) : Pieces(u, x) = Pieces(t, x)
    BY <2>7, <2>8 DEF Items, Pieces
  <2>11. RItems(Seen(c, u.events), u)
    <3>1. RItems(Seen(c, t.events), t)
      BY RGoodIs
    <3> QED BY <2>7, <2>10, <3>1 DEF RItems
  <2>12. RGood(c, u)
    BY <2>7, <2>11 DEF RGood
  <2>13. \E k \in 1 .. Len(u.calls) : u.calls[k].index = line.index
    BY <2>1, <2>7, <2>8
  <2> QED BY <1>4, <2>1, <2>7, <2>8, <2>9, <2>12, <2>13 DEF RWithCall
<1> QED BY <1>3, <1>4

\* w is u with a piece more in call k.
RWritten(u, k, piece, w) ==
    /\ w.text = u.text /\ w.reason = u.reason
    /\ k \in 1 .. Len(u.calls) /\ Len(w.calls) = Len(u.calls)
    /\ \A j \in 1 .. Len(u.calls) :
          /\ w.calls[j].index = u.calls[j].index /\ w.calls[j].id = u.calls[j].id
          /\ w.calls[j].args = IF j = k THEN Append(u.calls[j].args, piece) ELSE u.calls[j].args

\* takes the piece of the line,
LEMMA RCallWrite ==
    ASSUME NEW c \in View, NEW u, RGood(c, u), NEW index,
           \E j \in 1 .. Len(u.calls) : u.calls[j].index = index,
           NEW k, k = R!Place(u.calls, index), NEW piece \in Nat,
           NEW w, w = R!EmitNext([u EXCEPT !.calls[k].args = Append(@, piece)],
                                 R!Piece(u.calls[k].block, piece))
    PROVE  RGood(c, w) /\ RWritten(u, k, piece, w)
<1>1. /\ u \in RTranslator /\ RParts(u) /\ u.calls \in Seq(RCall)
      /\ k \in 1 .. Len(u.calls) /\ u.calls[k] \in RCall /\ u.calls[k].block = k
      /\ Len(u.calls) \in Nat
  <2>1. u \in RTranslator /\ RParts(u) /\ u.calls \in Seq(RCall) /\ Len(u.calls) \in Nat
    BY RGoodIs
  <2>2. k \in 1 .. Len(u.calls)
    BY <2>1, RPlaceIs
  <2> QED BY <2>1, <2>2 DEF RParts
<1>2. PICK b \in RCall : b = u.calls[k]
  BY <1>1
<1>3. PICK args \in Seq(Nat) : args = Append(b.args, piece)
  <2>1. Append(b.args, piece) \in Seq(Nat)
    BY DEF RCall
  <2> QED BY <2>1
<1>4. PICK r \in RCall : r = [b EXCEPT !.args = args]
  BY DEF RCall
<1>5. r.block = b.block /\ r.index = b.index /\ r.id = b.id /\ r.args = args
  BY <1>4 DEF RCall
<1>6. PICK s : s = [u EXCEPT !.calls = [u.calls EXCEPT ![k] = r]]
  OBVIOUS
<1>7. /\ s \in RTranslator /\ s.events = u.events /\ s.sequence = u.sequence
      /\ s.message = u.message /\ s.text = u.text /\ s.reason = u.reason
      /\ s.started = u.started /\ s.stopped = u.stopped /\ Items(s) = Items(u)
      /\ Len(s.calls) = Len(u.calls) /\ s.calls[k] = r
      /\ \A j \in 1 .. Len(u.calls) : j # k => s.calls[j] = u.calls[j]
      /\ RParts(s)
  BY <1>1, <1>2, <1>5, <1>6, RCallReplaced
<1>8. k \in Items(u) /\ Pieces(s, k) = Append(Pieces(u, k), piece)
      /\ \A x \in Items(u) \ {k} : Pieces(s, x) = Pieces(u, x)
  <2>1. k # 0 /\ k \in Items(u)
    BY <1>1 DEF Items
  <2>2. Pieces(s, k) = Append(Pieces(u, k), piece)
    BY <1>2, <1>3, <1>5, <1>7, <2>1 DEF Pieces
  <2>3. \A x \in Items(u) \ {k} : Pieces(s, x) = Pieces(u, x)
    BY <1>7 DEF Items, Pieces
  <2> QED BY <2>1, <2>2, <2>3
<1>9. w = R!EmitNext(s, R!Piece(k, piece))
  <2>1. s = [u EXCEPT !.calls[k].args = Append(@, piece)]
    BY <1>2, <1>3, <1>4, <1>6, Zenon
  <2> QED BY <1>1, <2>1, Zenon
<1>10. RGood(c, w) /\ RSameNotes(s, w)
  BY <1>7, <1>8, <1>9, RWrites
<1>11. w.text = u.text /\ w.reason = u.reason /\ w.calls = s.calls
  BY <1>7, <1>10 DEF RSameNotes
<1>12. \A j \in 1 .. Len(u.calls) :
          /\ s.calls[j].index = u.calls[j].index /\ s.calls[j].id = u.calls[j].id
          /\ s.calls[j].args = IF j = k THEN Append(u.calls[j].args, piece) ELSE u.calls[j].args
  BY <1>2, <1>3, <1>5, <1>7
<1>13. \A j \in 1 .. Len(u.calls) :
          /\ w.calls[j].index = u.calls[j].index /\ w.calls[j].id = u.calls[j].id
          /\ w.calls[j].args = IF j = k THEN Append(u.calls[j].args, piece) ELSE u.calls[j].args
  BY <1>11, <1>12, Zenon
<1>14. Len(w.calls) = Len(u.calls) /\ k \in 1 .. Len(u.calls)
  BY <1>1, <1>7, <1>11
<1> QED BY <1>10, <1>11, <1>13, <1>14, Zenon DEF RWritten

\* so does a line of a call,
LEMMA RCallGood ==
    ASSUME NEW c \in View, NEW t, RGood(c, t), NEW line \in CallLines
    PROVE  RGood(c, R!AddToolDelta(t, line))
<1>1. R!Start(t) = t /\ line.piece \in Nat
  BY RGoodIs DEF CallLines
<1>2. PICK u : u = R!WithCall(t, line)
  OBVIOUS
<1>3. RGood(c, u) /\ \E k \in 1 .. Len(u.calls) : u.calls[k].index = line.index
  BY <1>2, RCallOpen
<1>4. PICK k : k = R!Place(u.calls, line.index)
  OBVIOUS
<1>5. PICK piece \in Nat : piece = line.piece
  BY <1>1
<1>6. PICK w : w = R!EmitNext([u EXCEPT !.calls[k].args = Append(@, piece)],
                              R!Piece(u.calls[k].block, piece))
  OBVIOUS
<1>7. RGood(c, w)
  BY <1>3, <1>4, <1>6, RCallWrite
<1>8. R!AddToolDelta(t, line) = IF line.piece = R!NoPiece THEN u ELSE w
  BY <1>1, <1>2, <1>4, <1>5, <1>6, Zenon DEF R!AddToolDelta
<1> QED BY <1>3, <1>7, <1>8

\* any line,
LEMMA RConsumeGood ==
    ASSUME NEW c \in View, NEW t, RGood(c, t), NEW line \in Line
    PROVE  RGood(c, R!Consume(t, line))
<1>1. t \in RTranslator
  BY DEF RGood
<1>2. line.kind \in {"text", "call", "finish", "usage", "other"}
  BY DEF Line, CallLines
<1>3. CASE line.kind = "text"
  <2>1. line.piece \in Nat
    BY <1>3 DEF Line, CallLines
  <2>2. R!Consume(t, line) = R!AddText(t, line.piece)
    BY <1>3 DEF R!Consume
  <2> QED BY <2>1, <2>2, RTextGood
<1>4. CASE line.kind = "call"
  <2>1. line \in CallLines
    BY <1>4 DEF Line, CallLines
  <2>2. R!Consume(t, line) = R!AddToolDelta(t, line)
    BY <1>4 DEF R!Consume
  <2> QED BY <2>1, <2>2, RCallGood
<1>5. ASSUME NEW reason \in {"stop"} \cup Reasons, NEW usage \in BOOLEAN, NEW u,
             u = [t EXCEPT !.reason = reason, !.usage = usage]
      PROVE  RGood(c, u)
  <2>1. /\ u \in RTranslator /\ u.calls = t.calls /\ u.events = t.events /\ u.next = t.next
        /\ u.text = t.text /\ u.started = t.started /\ u.stopped = t.stopped
        /\ u.message = t.message /\ u.sequence = t.sequence
    BY <1>1, <1>5 DEF RTranslator, RNotes
  <2>2. Items(u) = Items(t) /\ \A b : Pieces(u, b) = Pieces(t, b)
    BY <2>1 DEF Items, Pieces
  <2>3. RParts(u)
    BY <2>1 DEF RGood, RParts
  <2>4. RItems(Seen(c, u.events), u)
    BY <2>1, <2>2 DEF RGood, RItems
  <2> QED BY <2>1, <2>3, <2>4 DEF RGood
<1>6. t.reason \in {"stop"} \cup Reasons /\ t.usage \in BOOLEAN
  BY <1>1 DEF RTranslator, RNotes
<1>7. CASE line.kind = "finish"
  <2>1. line.reason \in Reasons
    BY <1>7 DEF Line, CallLines
  <2>2. R!Consume(t, line) = [t EXCEPT !.reason = line.reason]
    BY <1>7 DEF R!Consume
  <2>3. R!Consume(t, line) = [t EXCEPT !.reason = line.reason, !.usage = t.usage]
    BY <1>1, <2>2 DEF RTranslator, RNotes
  <2> QED BY <1>5, <1>6, <2>1, <2>3
<1>8. CASE line.kind = "usage"
  <2>1. R!Consume(t, line) = [t EXCEPT !.usage = TRUE]
    BY <1>8 DEF R!Consume
  <2>2. R!Consume(t, line) = [t EXCEPT !.reason = t.reason, !.usage = TRUE]
    BY <1>1, <2>1 DEF RTranslator, RNotes
  <2> QED BY <1>5, <1>6, <2>2
<1>9. CASE line.kind = "other"
  BY <1>9 DEF R!Consume
<1> QED BY <1>2, <1>3, <1>4, <1>7, <1>8, <1>9

\* and any list of lines keep the translator's account of the client: f is the
\* translator after each line.
RAlong(c, f, t, list) ==
    /\ f[0] = t /\ \A i \in 1 .. Len(list) : f[i] = R!Consume(f[i - 1], list[i])
    /\ \A i \in 0 .. Len(list) : f[i] \in RTranslator /\ RGood(c, f[i])

\* The fold over the lines goes through such translators.
LEMMA RFoldThrough ==
    ASSUME NEW c \in View, NEW t, RGood(c, t), NEW list \in Seq(Line)
    PROVE  \E f : RAlong(c, f, t, list) /\ R!FoldLeft(R!Consume, t, list) = f[Len(list)]
<1> DEFINE S == DOMAIN list
           W == {u \in RTranslator : RGood(c, u)}
           F == [p \in W \X Line |-> R!Consume(p[1], p[2])]
           P(h) == h = [s \in SUBSET S |->
                           IF s = {} THEN t ELSE R!Consume(h[s \ {Max(s)}], list[Max(s)])]
           Q(h) == h = [s \in SUBSET S |->
                           IF s = {} THEN t ELSE F[<<h[s \ {Max(s)}], list[Max(s)]>>]]
<1>0. /\ \A u \in W, line \in Line : F[<<u, line>>] = R!Consume(u, line) /\ R!Consume(u, line) \in W
      /\ Folds(F, W, Line) /\ t \in W
  <2>1. \A u \in W, line \in Line : R!Consume(u, line) \in W
    BY RConsumeGood DEF RGood
  <2>2. \A u \in W, line \in Line : F[<<u, line>>] = R!Consume(u, line)
    OBVIOUS
  <2>3. F \in [W \X Line -> W]
    BY <2>1
  <2>4. t \in W
    BY DEF RGood
  <2> HIDE DEF W, F
  <2> QED BY <2>1, <2>2, <2>3, <2>4 DEF Folds
<1> HIDE DEF W, F
<1>1. IsFiniteSet(S) /\ S = 1 .. Len(list) /\ Len(list) \in Nat
  BY FS_Interval
<1>2. \A s \in SUBSET S : s # {} => Max(s) \in s /\ list[Max(s)] \in Line
  <2>1. \A s \in SUBSET S : s # {} => Max(s) \in s
    BY <1>1, GreatestIndex
  <2> QED BY <2>1
<1>4. ASSUME NEW h, P(h) \/ Q(h) PROVE \A s \in SUBSET S : h[s] \in W
  <2>1. h[{}] \in W
    <3>1. {} \in SUBSET S
      OBVIOUS
    <3> QED BY <3>1, <1>0, <1>4
  <2>2. ASSUME NEW s \in SUBSET S, s # {}
        PROVE  \E x \in s : h[s \ {x}] \in W => h[s] \in W
    <3>1. Max(s) \in s /\ list[Max(s)] \in Line
      BY <1>2, <2>2
    <3>2. ASSUME h[s \ {Max(s)}] \in W PROVE h[s] \in W
      <4>1. \/ h[s] = R!Consume(h[s \ {Max(s)}], list[Max(s)])
            \/ h[s] = F[<<h[s \ {Max(s)}], list[Max(s)]>>]
        BY <1>4, <2>2
      <4>2. PICK u \in W, line \in Line : u = h[s \ {Max(s)}] /\ line = list[Max(s)]
        BY <3>1, <3>2
      <4>3. F[<<u, line>>] = R!Consume(u, line) /\ R!Consume(u, line) \in W
        BY <1>0
      <4> QED BY <4>1, <4>2, <4>3
    <3> QED BY <3>1, <3>2
  <2> HIDE DEF S, P, Q
  <2> QED BY <1>1, <2>1, <2>2, TableStays
<1>5. ASSUME NEW h, \A s \in SUBSET S : h[s] \in W PROVE P(h) <=> Q(h)
  <2>1. \A s \in SUBSET S : s # {} => R!Consume(h[s \ {Max(s)}], list[Max(s)])
                                        = F[<<h[s \ {Max(s)}], list[Max(s)]>>]
    <3> TAKE s \in SUBSET S
    <3> HAVE s # {}
    <3>1. s \ {Max(s)} \in SUBSET S /\ list[Max(s)] \in Line
      BY <1>2
    <3>2. h[s \ {Max(s)}] \in W
      BY <3>1, <1>5
    <3> QED BY <3>1, <3>2, <1>0
  <2>2. [s \in SUBSET S |-> IF s = {} THEN t ELSE R!Consume(h[s \ {Max(s)}], list[Max(s)])]
        = [s \in SUBSET S |-> IF s = {} THEN t ELSE F[<<h[s \ {Max(s)}], list[Max(s)]>>]]
    BY <2>1
  <2> QED BY <2>2
<1>6. \A h : P(h) <=> Q(h)
  BY <1>4, <1>5
<1>7. (CHOOSE h : P(h)) = (CHOOSE h : Q(h))
  <2> HIDE DEF P, Q
  <2> QED BY <1>6
<1>8. R!FoldLeft(R!Consume, t, list) = (CHOOSE h : P(h))[S]
  BY DEF R!FoldLeft, R!MapThenFoldSet, R!Max, Max
<1>9. Fold(F, t, list) = (CHOOSE h : Q(h))[S]
  BY DEF Fold, FoldLeft, MapThenFoldSet
<1>10. PICK f \in [0 .. Len(list) -> W] :
          Through(f, F, t, list) /\ Fold(F, t, list) = f[Len(list)]
  BY <1>0, FoldThrough
<1>11. ASSUME NEW i \in 1 .. Len(list) PROVE f[i] = R!Consume(f[i - 1], list[i])
  <2>1. i - 1 \in 0 .. Len(list) /\ list[i] \in Line
    BY <1>1
  <2>2. f[i] = F[<<f[i - 1], list[i]>>] /\ f[i - 1] \in W
    BY <1>10, <2>1 DEF Through
  <2> QED BY <1>0, <2>1, <2>2
<1>12. \A i \in 0 .. Len(list) : f[i] \in RTranslator /\ RGood(c, f[i])
  BY <1>10 DEF W
<1>13. f[0] = t
  BY <1>10 DEF Through
<1>14. RAlong(c, f, t, list)
  BY <1>11, <1>12, <1>13 DEF RAlong
<1> QED BY <1>7, <1>8, <1>9, <1>10, <1>14

\* So the account is good after the last.
LEMMA RFoldGood ==
    ASSUME NEW c \in View, NEW t, RGood(c, t), NEW list \in Seq(Line)
    PROVE  RGood(c, R!FoldLeft(R!Consume, t, list))
<1>1. PICK f : RAlong(c, f, t, list) /\ R!FoldLeft(R!Consume, t, list) = f[Len(list)]
  BY RFoldThrough
<1>2. Len(list) \in 0 .. Len(list)
  OBVIOUS
<1> QED BY <1>1, <1>2 DEF RAlong

-----------------------------------------------------------------------------
(* Its end *)

\* The closing event of a call, with the whole of it.
DoneOf(call) == R!Done(call.block, call.id, call.args)

\* The closing event of an item repeats the item.
LEMMA DoneIs ==
    ASSUME NEW b \in Int, NEW id \in Ids, NEW pieces \in Seq(Nat), NEW e, e = R!Done(b, id, pieces)
    PROVE  /\ e \in PlainEvent /\ e.type = "close" /\ e.block = b /\ e.pieces = pieces
           /\ "id" \in DOMAIN e /\ e.id = id
BY DEF R!Done, PlainEvent

\* u is t with the text item and those of the first k calls closed.
RClosed(c, t, k, u) ==
    /\ u \in RTranslator /\ RSameNotes(t, u)
    /\ LET v == Seen(c, u.events)
       IN  /\ Sound(v) /\ v.started /\ v.numbered = u.sequence /\ Numbers(v) = Items(t)
           /\ SameWords(Seen(c, t.events), v)
           /\ t.message => ~BlockOf(v, 0).open
           /\ \A j \in 1 .. k : ~BlockOf(v, j).open /\ BlockOf(v, j).id = t.calls[j].id
           /\ \A j \in k + 1 .. Len(t.calls) :
                 BlockOf(v, j).open /\ BlockOf(v, j).pieces = t.calls[j].args

\* Closing one call more: what is repeated is what was written.
LEMMA RCloses ==
    ASSUME NEW c \in View, NEW t, RGood(c, t), NEW k \in 1 .. Len(t.calls), NEW u, RClosed(c, t, k - 1, u)
    PROVE  RClosed(c, t, k, R!EmitNext(u, DoneOf(t.calls[k])))
<1>1. t \in RTranslator /\ RParts(t) /\ t.calls \in Seq(RCall) /\ Len(t.calls) \in Nat
  BY RGoodIs
<1>2. PICK call \in RCall : call = t.calls[k] /\ call.block = k
  BY <1>1 DEF RParts
<1>3. k \in Int /\ k # 0 /\ k \in Items(t)
  BY <1>1 DEF Items
<1>4. PICK e : e = DoneOf(call)
  OBVIOUS
<1>5. /\ e \in PlainEvent /\ e.type = "close" /\ e.block = k /\ e.pieces = call.args
      /\ "id" \in DOMAIN e /\ e.id = call.id
  <2>1. call.id \in Ids /\ call.args \in Seq(Nat)
    BY DEF RCall
  <2> QED BY <1>2, <1>3, <1>4, <2>1, DoneIs DEF DoneOf
<1>6. PICK w : w = R!EmitNext(u, e)
  OBVIOUS
<1>7. PICK v \in View : v = Seen(c, u.events)
  BY <1>5, <1>6, REmits DEF RClosed
<1>8. PICK d : d = Seen(c, w.events)
  OBVIOUS
<1>9. u \in RTranslator
  BY DEF RClosed
<1>10. PICK n \in Nat : n = u.sequence + 1 /\ n # 0
  BY <1>9 DEF RTranslator, RNotes
<1>11. w \in RTranslator /\ RSameNotes(u, w) /\ w.sequence = n /\ d = Read(v, Sent(e, n))
  <2>1. /\ w \in RTranslator /\ RSameNotes(u, w) /\ w.sequence = u.sequence + 1
        /\ Seen(c, w.events) = Read(Seen(c, u.events), Sent(e, u.sequence + 1))
    BY <1>5, <1>6, <1>9, REmits
  <2> QED BY <1>7, <1>8, <1>10, <2>1
<1>12. /\ RSameNotes(t, u) /\ Sound(v) /\ v.started /\ v.numbered = u.sequence /\ Numbers(v) = Items(t)
       /\ t.message => ~BlockOf(v, 0).open
       /\ SameWords(Seen(c, t.events), v)
       /\ \A j \in 1 .. k - 1 : ~BlockOf(v, j).open /\ BlockOf(v, j).id = t.calls[j].id
       /\ \A j \in (k - 1) + 1 .. Len(t.calls) :
             BlockOf(v, j).open /\ BlockOf(v, j).pieces = t.calls[j].args
  BY <1>7 DEF RClosed
<1>13. k \in Numbers(v) /\ BlockOf(v, k).open /\ BlockOf(v, k).pieces = call.args
  <2>1. k \in (k - 1) + 1 .. Len(t.calls)
    BY <1>1
  <2> QED BY <1>2, <1>3, <1>12, <2>1
<1>14. /\ Sound(d) /\ (d.started <=> v.started) /\ d.numbered = Reached(v, n)
       /\ Numbers(d) = Numbers(v) /\ KeptBut(v, d, k) /\ ~BlockOf(d, k).open
       /\ BlockOf(d, k).kind = BlockOf(v, k).kind /\ BlockOf(d, k).pieces = BlockOf(v, k).pieces
       /\ BlockOf(d, k).id = call.id
  <2>1. Counts(v, n) /\ Sound(v) /\ d = Read(v, Sent(e, n))
    BY <1>10, <1>11, <1>12 DEF Counts
  <2>2. "pieces" \in DOMAIN e => e.pieces = BlockOf(v, k).pieces
    BY <1>5, <1>13
  <2>3. e \in PlainEvent /\ e.type = "close" /\ e.block = k
    BY <1>5
  <2>4. "id" \in DOMAIN e /\ e.id = call.id
    BY <1>5
  <2> QED BY <1>3, <1>13, <2>1, <2>2, <2>3, <2>4, ReadClose
<1>15. RSameNotes(t, w)
  BY <1>11, <1>12 DEF RSameNotes
<1>16. t.message => ~BlockOf(d, 0).open
  <2> HAVE t.message
  <2>1. 0 \in Numbers(v) \ {k}
    BY <1>3, <1>12 DEF Items
  <2> QED BY <1>12, <1>14, <2>1 DEF KeptBut
<1>17. ASSUME NEW j \in 1 .. k PROVE ~BlockOf(d, j).open /\ BlockOf(d, j).id = t.calls[j].id
  <2>1. CASE j = k
    BY <2>1, <1>2, <1>14
  <2>2. CASE j # k
    <3>1. j \in 1 .. k - 1 /\ j \in 1 .. Len(t.calls)
      BY <2>2, <1>1
    <3>2. j \in Numbers(v) \ {k}
      BY <1>12, <2>2, <3>1 DEF Items
    <3> QED BY <1>12, <1>14, <3>1, <3>2 DEF KeptBut
  <2> QED BY <2>1, <2>2
<1>18. ASSUME NEW j \in k + 1 .. Len(t.calls)
       PROVE  BlockOf(d, j).open /\ BlockOf(d, j).pieces = t.calls[j].args
  <2>1. j \in (k - 1) + 1 .. Len(t.calls) /\ j \in 1 .. Len(t.calls) /\ j # k
    BY <1>1
  <2>2. j \in Numbers(v) \ {k}
    BY <1>12, <2>1 DEF Items
  <2>3. BlockOf(d, j) = BlockOf(v, j)
    BY <1>14, <2>2 DEF KeptBut
  <2> QED BY <1>12, <2>1, <2>3
<1>19. d.numbered = w.sequence
  BY <1>10, <1>11, <1>14 DEF Reached
<1>20. SameWords(Seen(c, t.events), d)
  BY <1>12, <1>14 DEF SameWords, KeptBut
<1>21. RClosed(c, t, k, w)
  BY <1>8, <1>11, <1>12, <1>14, <1>15, <1>16, <1>17, <1>18, <1>19, <1>20 DEF RClosed
<1> QED BY <1>2, <1>4, <1>6, <1>21

\* The message is closed first.
LEMMA RClosesText ==
    ASSUME NEW c \in View, NEW t, RGood(c, t)
    PROVE  RClosed(c, t, 0, IF t.message THEN R!EmitNext(t, R!Done(0, NoId, t.text)) ELSE t)
<1>1. /\ t \in RTranslator /\ Len(t.calls) \in Nat /\ t.text \in Seq(Nat) /\ RSameNotes(t, t)
      /\ RItems(Seen(c, t.events), t)
  BY RGoodIs DEF RSameNotes
<1>2. PICK v : v = Seen(c, t.events)
  OBVIOUS
<1>3. /\ Sound(v) /\ v.started /\ v.numbered = t.sequence /\ Numbers(v) = Items(t)
      /\ \A b \in Items(t) : BlockOf(v, b).open /\ BlockOf(v, b).pieces = Pieces(t, b)
  BY <1>1, <1>2 DEF RItems
<1>4. 0 + 1 .. Len(t.calls) = 1 .. Len(t.calls) /\ 1 .. 0 = {} /\ 0 \notin 1 .. Len(t.calls)
  BY <1>1
<1>5. \A j \in 1 .. Len(t.calls) : j \in Items(t) /\ Pieces(t, j) = t.calls[j].args
  BY <1>4 DEF Items, Pieces
<1>6. CASE ~t.message
  <2>1. RClosed(c, t, 0, t)
    BY <1>1, <1>2, <1>3, <1>4, <1>5, <1>6 DEF RClosed, SameWords
  <2> QED BY <1>6, <2>1
<1>7. CASE t.message
  <2>1. PICK e : e = R!Done(0, NoId, t.text)
    OBVIOUS
  <2>2. e \in PlainEvent /\ e.type = "close" /\ e.block = 0 /\ e.pieces = t.text
    <3>1. NoId \in Ids /\ 0 \in Int
      BY DEF Ids
    <3> QED BY <1>1, <2>1, <3>1, DoneIs
  <2>3. PICK w : w = R!EmitNext(t, e)
    OBVIOUS
  <2>4. PICK d : d = Seen(c, w.events)
    OBVIOUS
  <2>5. PICK n \in Nat : n = t.sequence + 1 /\ n # 0
    BY <1>1 DEF RTranslator, RNotes
  <2>6. w \in RTranslator /\ RSameNotes(t, w) /\ w.sequence = n /\ d = Read(v, Sent(e, n))
    <3>1. /\ w \in RTranslator /\ RSameNotes(t, w) /\ w.sequence = t.sequence + 1
          /\ Seen(c, w.events) = Read(Seen(c, t.events), Sent(e, t.sequence + 1))
      BY <1>1, <2>2, <2>3, REmits
    <3> QED BY <1>2, <2>4, <2>5, <3>1
  <2>7. 0 \in Items(t) /\ Pieces(t, 0) = t.text /\ 0 \in Int
    BY <1>7 DEF Items, Pieces
  <2>8. /\ Sound(d) /\ (d.started <=> v.started) /\ d.numbered = Reached(v, n)
        /\ Numbers(d) = Numbers(v) /\ KeptBut(v, d, 0) /\ ~BlockOf(d, 0).open
        /\ BlockOf(d, 0).kind = BlockOf(v, 0).kind /\ BlockOf(d, 0).pieces = BlockOf(v, 0).pieces
    <3>1. Counts(v, n) /\ Sound(v) /\ d = Read(v, Sent(e, n))
      BY <1>3, <2>5, <2>6 DEF Counts
    <3>2. "pieces" \in DOMAIN e => e.pieces = BlockOf(v, 0).pieces
      BY <1>3, <2>2, <2>7
    <3>3. e \in PlainEvent /\ e.type = "close" /\ e.block = 0
      BY <2>2
    <3>4. 0 \in Numbers(v) /\ BlockOf(v, 0).open
      BY <1>3, <2>7
    <3> QED BY <2>7, <3>1, <3>2, <3>3, <3>4, ReadClose
  <2>9. \A j \in 1 .. Len(t.calls) : BlockOf(d, j).open /\ BlockOf(d, j).pieces = t.calls[j].args
    BY <1>3, <1>4, <1>5, <2>8 DEF KeptBut
  <2>10. d.numbered = w.sequence
    BY <2>5, <2>6, <2>8 DEF Reached
  <2>11. SameWords(v, d)
    BY <2>8 DEF SameWords, KeptBut
  <2>12. RClosed(c, t, 0, w)
    BY <1>2, <1>3, <1>4, <2>4, <2>6, <2>8, <2>9, <2>10, <2>11 DEF RClosed
  <2> QED BY <1>7, <2>1, <2>3, <2>12
<1> QED BY <1>6, <1>7

DoneTable == [p \in RTranslator \X RCall |-> R!EmitNext(p[1], DoneOf(p[2]))]

\* The table of the closing.
LEMMA DoneTableIs ==
    /\ Folds(DoneTable, RTranslator, RCall)
    /\ \A u \in RTranslator, call \in RCall :
          /\ DoneTable[<<u, call>>] = R!EmitNext(u, DoneOf(call))
          /\ R!EmitNext(u, DoneOf(call)) \in RTranslator
<1>1. ASSUME NEW u \in RTranslator, NEW call \in RCall
      PROVE  R!EmitNext(u, DoneOf(call)) \in RTranslator
  <2>1. PICK e : e = DoneOf(call)
    OBVIOUS
  <2>2. e \in PlainEvent
    <3>1. call.block \in Int /\ call.id \in Ids /\ call.args \in Seq(Nat)
      BY DEF RCall
    <3> QED BY <2>1, <3>1, DoneIs DEF DoneOf
  <2>3. Unread \in View
    BY DEF Unread, View, Ending
  <2>4. R!EmitNext(u, e) \in RTranslator
    BY <2>2, <2>3, REmits
  <2> QED BY <2>1, <2>4
<1>2. \A u \in RTranslator, call \in RCall : DoneTable[<<u, call>>] = R!EmitNext(u, DoneOf(call))
  BY DEF DoneTable
<1>3. Folds(DoneTable, RTranslator, RCall)
  BY <1>1 DEF Folds, DoneTable
<1> QED BY <1>1, <1>2, <1>3

\* The fold over the calls is that of the table.
LEMMA RCloseFold ==
    ASSUME NEW t \in RTranslator, NEW list \in Seq(RCall)
    PROVE  R!FoldLeft(LAMBDA u, call : R!EmitNext(u, R!Done(call.block, call.id, call.args)), t, list)
              = Fold(DoneTable, t, list)
<1> DEFINE S == DOMAIN list
           P(h) == h = [s \in SUBSET S |->
                           IF s = {} THEN t
                           ELSE R!EmitNext(h[s \ {Max(s)}], DoneOf(list[Max(s)]))]
           Q(h) == h = [s \in SUBSET S |->
                           IF s = {} THEN t ELSE DoneTable[<<h[s \ {Max(s)}], list[Max(s)]>>]]
<1>1. IsFiniteSet(S) /\ S = 1 .. Len(list) /\ Len(list) \in Nat
  BY FS_Interval
<1>2. \A s \in SUBSET S : s # {} => Max(s) \in s /\ list[Max(s)] \in RCall
  <2>1. \A s \in SUBSET S : s # {} => Max(s) \in s
    BY <1>1, GreatestIndex
  <2> QED BY <2>1
<1>3. ASSUME NEW h, P(h) \/ Q(h) PROVE \A s \in SUBSET S : h[s] \in RTranslator
  <2>1. h[{}] \in RTranslator
    <3>1. {} \in SUBSET S
      OBVIOUS
    <3> QED BY <3>1, <1>3
  <2>2. ASSUME NEW s \in SUBSET S, s # {}
        PROVE  \E x \in s : h[s \ {x}] \in RTranslator => h[s] \in RTranslator
    <3>1. Max(s) \in s /\ list[Max(s)] \in RCall
      BY <1>2, <2>2
    <3>2. ASSUME h[s \ {Max(s)}] \in RTranslator PROVE h[s] \in RTranslator
      <4>1. \/ h[s] = R!EmitNext(h[s \ {Max(s)}], DoneOf(list[Max(s)]))
            \/ h[s] = DoneTable[<<h[s \ {Max(s)}], list[Max(s)]>>]
        BY <1>3, <2>2
      <4>2. PICK u \in RTranslator, call \in RCall : u = h[s \ {Max(s)}] /\ call = list[Max(s)]
        BY <3>1, <3>2
      <4>3. /\ DoneTable[<<u, call>>] = R!EmitNext(u, DoneOf(call))
            /\ R!EmitNext(u, DoneOf(call)) \in RTranslator
        BY DoneTableIs
      <4> QED BY <4>1, <4>2, <4>3
    <3> QED BY <3>1, <3>2
  <2> HIDE DEF S, P, Q
  <2> QED BY <1>1, <2>1, <2>2, TableStays
<1>4. ASSUME NEW h, \A s \in SUBSET S : h[s] \in RTranslator PROVE P(h) <=> Q(h)
  <2>1. \A s \in SUBSET S :
           s # {} => R!EmitNext(h[s \ {Max(s)}], DoneOf(list[Max(s)]))
                       = DoneTable[<<h[s \ {Max(s)}], list[Max(s)]>>]
    <3> TAKE s \in SUBSET S
    <3> HAVE s # {}
    <3>1. s \ {Max(s)} \in SUBSET S /\ list[Max(s)] \in RCall
      BY <1>2
    <3>2. h[s \ {Max(s)}] \in RTranslator
      BY <3>1, <1>4
    <3> QED BY <3>1, <3>2, DoneTableIs
  <2>2. [s \in SUBSET S |-> IF s = {} THEN t
                            ELSE R!EmitNext(h[s \ {Max(s)}], DoneOf(list[Max(s)]))]
        = [s \in SUBSET S |-> IF s = {} THEN t
                              ELSE DoneTable[<<h[s \ {Max(s)}], list[Max(s)]>>]]
    BY <2>1
  <2> QED BY <2>2
<1>5. \A h : P(h) <=> Q(h)
  BY <1>3, <1>4
<1>6. (CHOOSE h : P(h)) = (CHOOSE h : Q(h))
  <2> HIDE DEF P, Q
  <2> QED BY <1>5
<1>7. R!FoldLeft(LAMBDA u, call : R!EmitNext(u, R!Done(call.block, call.id, call.args)), t, list) = (CHOOSE h : P(h))[S]
  BY DEF DoneOf, R!FoldLeft, R!MapThenFoldSet, R!Max, Max
<1>8. Fold(DoneTable, t, list) = (CHOOSE h : Q(h))[S]
  BY DEF Fold, FoldLeft, MapThenFoldSet
<1> QED BY <1>6, <1>7, <1>8

\* All items are closed at the end.
LEMMA RAllClosed ==
    ASSUME NEW c \in View, NEW t, RGood(c, t)
    PROVE  RClosed(c, t, Len(t.calls), R!FinishItems(t))
<1>1. t \in RTranslator /\ t.calls \in Seq(RCall) /\ Len(t.calls) \in Nat
  BY RGoodIs
<1>2. PICK n \in Nat : n = Len(t.calls)
  BY <1>1
<1>3. PICK text : text = IF t.message THEN R!EmitNext(t, R!Done(0, NoId, t.text)) ELSE t
  OBVIOUS
<1>4. RClosed(c, t, 0, text) /\ text \in RTranslator
  <2>1. RClosed(c, t, 0, text)
    BY <1>3, RClosesText
  <2> QED BY <2>1 DEF RClosed
<1>5. R!FinishItems(t) = Fold(DoneTable, text, t.calls)
  <2>1. R!FinishItems(t) = R!FoldLeft(LAMBDA u, call : R!EmitNext(u, R!Done(call.block, call.id, call.args)), text, t.calls)
    BY <1>3 DEF R!FinishItems, R!MessageItem
  <2> QED BY <1>1, <1>4, <2>1, RCloseFold
<1>6. PICK f \in [0 .. Len(t.calls) -> RTranslator] :
          Through(f, DoneTable, text, t.calls) /\ Fold(DoneTable, text, t.calls) = f[Len(t.calls)]
  BY <1>1, <1>4, DoneTableIs, FoldThrough
<1> DEFINE h == [i \in 0 .. n |-> <<i, f[i]>>]
           W == {p \in (0 .. n) \X RTranslator : RClosed(c, t, p[1], p[2])}
<1>7. h[0] \in W
  BY <1>2, <1>4, <1>6 DEF Through
<1>8. ASSUME NEW i \in 1 .. n, h[i - 1] \in W PROVE h[i] \in W
  <2>1. i \in 0 .. n /\ i - 1 \in 0 .. n
    BY <1>2
  <2>2. f[i - 1] \in RTranslator /\ t.calls[i] \in RCall /\ f[i] \in RTranslator
    BY <1>1, <1>2, <1>6, <2>1
  <2>3. f[i] = R!EmitNext(f[i - 1], DoneOf(t.calls[i]))
    <3>1. f[i] = DoneTable[<<f[i - 1], t.calls[i]>>]
      BY <1>2, <1>6 DEF Through
    <3> QED BY <2>2, <3>1, DoneTableIs
  <2>4. RClosed(c, t, i - 1, f[i - 1])
    BY <1>8, <2>1
  <2>5. RClosed(c, t, i, f[i])
    BY <1>2, <2>3, <2>4, RCloses
  <2> QED BY <2>1, <2>2, <2>5
<1>9. \A i \in 0 .. n : h[i] \in W
  <2>1. \A i \in 1 .. n : h[i - 1] \in W => h[i] \in W
    BY <1>8
  <2> HIDE DEF h, W
  <2> QED BY <1>7, <2>1, StaysAlong
<1>10. n \in 0 .. n
  BY <1>2
<1>11. RClosed(c, t, n, f[n])
  BY <1>9, <1>10
<1> QED BY <1>2, <1>5, <1>6, <1>11

\* A client of the Responses API has the ids too.
RKeeps(v, t, d, reason) ==
    /\ Keeps(v, d, reason)
    /\ \A j \in 1 .. Len(t.calls) : BlockOf(d, j).id = t.calls[j].id

\* Once the items are closed the last event is well formed, whichever it is.
LEMMA RLastEvent ==
    ASSUME NEW c \in View, NEW t, RGood(c, t), NEW e \in PlainEvent, e.type = "end", "outcome" \in DOMAIN e,
           NEW u, u = [R!EmitNext(R!FinishItems(t), e) EXCEPT !.stopped = TRUE]
    PROVE  /\ MEnds(c, u, e.outcome) /\ u \in RTranslator /\ RParts(u) /\ Tells(u, e.outcome)
           /\ e.outcome = "complete" =>
                 RKeeps(Seen(c, t.events), t, Seen(c, u.events), e.reason)
<1>1. t \in RTranslator /\ RParts(t)
  BY RGoodIs
<1>2. PICK s : s = R!FinishItems(t)
  OBVIOUS
<1>3. RClosed(c, t, Len(t.calls), s) /\ s \in RTranslator
  <2>1. RClosed(c, t, Len(t.calls), s)
    BY <1>2, RAllClosed
  <2> QED BY <2>1 DEF RClosed
<1>4. PICK w : w = R!EmitNext(s, e)
  OBVIOUS
<1>5. PICK n \in Nat : n = s.sequence + 1 /\ n # 0
  BY <1>3 DEF RTranslator, RNotes
<1>6. PICK v \in View : v = Seen(c, s.events)
  BY <1>3, <1>4, REmits
<1>7. PICK d : d = Seen(c, w.events)
  OBVIOUS
<1>8. w \in RTranslator /\ d = Read(v, Sent(e, n)) /\ RSameNotes(s, w)
  <2>1. /\ w \in RTranslator /\ RSameNotes(s, w)
        /\ Seen(c, w.events) = Read(Seen(c, s.events), Sent(e, s.sequence + 1))
    BY <1>3, <1>4, REmits
  <2> QED BY <1>5, <1>6, <1>7, <2>1
<1>9. /\ Sound(v) /\ v.numbered = s.sequence /\ Numbers(v) = Items(t)
      /\ SameWords(Seen(c, t.events), v)
      /\ t.message => ~BlockOf(v, 0).open
      /\ \A j \in 1 .. Len(t.calls) : ~BlockOf(v, j).open /\ BlockOf(v, j).id = t.calls[j].id
  BY <1>3, <1>6 DEF RClosed
<1>10. \A b \in Numbers(v) : ~BlockOf(v, b).open
  BY <1>9 DEF Items
<1>11. /\ d \in View /\ d.ok /\ d.outcome = e.outcome /\ d.blocks = v.blocks
       /\ e.outcome = "complete" => d.reason = e.reason
  <2>1. Sound(v) /\ Counts(v, n)
    BY <1>5, <1>9 DEF Counts
  <2> QED BY <1>8, <1>10, <2>1, ReadEnd
<1>12. u = [w EXCEPT !.stopped = TRUE]
  BY <1>2, <1>4
<1>13. u.events = w.events /\ w.events \in Seq(Event)
  BY <1>8, <1>12 DEF RTranslator, RNotes
<1>14. u \in RTranslator /\ u.calls = w.calls /\ u.next = w.next /\ u.message = w.message
       /\ u.text = w.text
  BY <1>8, <1>12 DEF RTranslator, RNotes
<1>15. RParts(u)
  <2>1. RSameNotes(t, s)
    BY <1>3 DEF RClosed
  <2>2. RParts(w)
    BY <1>1, <1>8, <2>1, RSameItems
  <2> QED BY <1>14, <2>2 DEF RParts
<1>16. ASSUME e.outcome = "complete" PROVE RKeeps(Seen(c, t.events), t, d, e.reason)
  <2>1. Keeps(Seen(c, t.events), d, e.reason)
    BY <1>9, <1>11, <1>16, KeptToTheEnd
  <2>2. \A x : BlockOf(d, x) = BlockOf(v, x)
    BY <1>11 DEF BlockOf, BlockAt
  <2> QED BY <1>9, <2>1, <2>2 DEF RKeeps
<1>17. ASSUME NEW x \in View PROVE Seen(x, w.events).outcome = e.outcome
  <2>1. Seen(x, s.events) \in View /\ Seen(x, w.events) = Read(Seen(x, s.events), Sent(e, n))
    BY <1>3, <1>4, <1>5, REmits
  <2> QED BY <2>1, EndIsRead
<1> QED BY <1>7, <1>11, <1>13, <1>14, <1>15, <1>16, <1>17 DEF MEnds, Tells

\* The end of the stream is told as a whole, well formed answer,
LEMMA RFinishTold ==
    ASSUME NEW c \in View, NEW t, RGood(c, t)
    PROVE  /\ MEnds(c, R!Finish(t), "complete") /\ Tells(R!Finish(t), "complete")
           /\ R!Finish(t) \in RTranslator /\ RParts(R!Finish(t))
           /\ RKeeps(Seen(c, t.events), t, Seen(c, R!Finish(t).events), R!FinishState(t.reason))
<1>1. R!Start(t) = t /\ t \in RTranslator /\ ~t.stopped
  BY RGoodIs
<1>2. PICK e : e = [type |-> "end", outcome |-> "complete", reason |-> R!FinishState(t.reason),
                    usage |-> t.usage]
  OBVIOUS
<1>3. /\ e \in PlainEvent /\ e.type = "end" /\ e.outcome = "complete" /\ "outcome" \in DOMAIN e
      /\ e.reason = R!FinishState(t.reason)
  <2>1. R!FinishState(t.reason) \in Ending
    BY DEF R!FinishState, Ending
  <2> QED BY <1>1, <1>2, <2>1 DEF RTranslator, RNotes, PlainEvent
<1>4. R!Finish(t) = [R!EmitNext(R!FinishItems(t), e) EXCEPT !.stopped = TRUE]
  BY <1>1, <1>2, Zenon DEF R!Finish
<1>5. PICK u : u = R!Finish(t)
  OBVIOUS
<1>6. /\ MEnds(c, u, e.outcome) /\ u \in RTranslator /\ RParts(u) /\ Tells(u, e.outcome)
      /\ RKeeps(Seen(c, t.events), t, Seen(c, u.events), e.reason)
  BY <1>3, <1>4, <1>5, RLastEvent
<1> QED BY <1>3, <1>5, <1>6

\* a failure as a failure.
LEMMA RFailTold ==
    ASSUME NEW c \in View, NEW t, RGood(c, t)
    PROVE  /\ MEnds(c, R!Fail(t), "failed") /\ Tells(R!Fail(t), "failed")
           /\ R!Fail(t) \in RTranslator /\ RParts(R!Fail(t))
<1>1. ~t.stopped
  BY RGoodIs
<1>2. PICK e : e = [type |-> "end", outcome |-> "failed"]
  OBVIOUS
<1>3. e \in PlainEvent /\ e.type = "end" /\ e.outcome = "failed" /\ "outcome" \in DOMAIN e
  BY <1>2 DEF PlainEvent
<1>4. R!Fail(t) = [R!EmitNext(R!FinishItems(t), e) EXCEPT !.stopped = TRUE]
  BY <1>1, <1>2, Zenon DEF R!Fail
<1>5. PICK u : u = R!Fail(t)
  OBVIOUS
<1>6. MEnds(c, u, e.outcome) /\ u \in RTranslator /\ RParts(u) /\ Tells(u, e.outcome)
  BY <1>3, <1>4, <1>5, RLastEvent
<1> QED BY <1>3, <1>5, <1>6

-----------------------------------------------------------------------------
(* The stream *)

\* What the upstream writes are lines.
LEMMA NextLinesAre ==
    ASSUME NEW sent \in Seq(Line)
    PROVE  NextLines(sent) \subseteq Line
<1>1. PICK n \in Nat : n = Len(sent) + 1
  OBVIOUS
<1>2. /\ TextLine(n) \in Line /\ UsageLine \in Line /\ OtherLine \in Line
      /\ \A reason \in Reasons : FinishLine(reason) \in Line
      /\ \A index \in CallIndex, id \in {NoId, "id"} : CallLine(index, id, n) \in Line
      /\ \A index \in CallIndex : CallLine(index, "id", NoPiece) \in Line
  BY DEF TextLine, UsageLine, OtherLine, FinishLine, CallLine, Line, CallLines, Ids, NoPiece
<1> QED BY <1>1, <1>2 DEF NextLines

\* So are the lines of a chunk, with its last line or without.
LEMMA BatchesAre ==
    ASSUME lines \in Seq(Line), NEW batch \in Batches
    PROVE  batch \in Seq(Line) /\ Front(batch) \in Seq(Line)
<1> DEFINE one == {<<line>> : line \in NextLines(lines)}
           more(batches) ==
              UNION {{Append(b, line) : line \in NextLines(lines \o b)} : b \in batches}
<1>1. one \subseteq Seq(Line) /\ \A b \in one : Len(b) = 1
  <2>1. NextLines(lines) \subseteq Line
    BY NextLinesAre
  <2>2. \A line \in Line : <<line>> \in Seq(Line) /\ Len(<<line>>) = 1
    OBVIOUS
  <2> QED BY <2>1, <2>2
<1>2. more(one) \subseteq Seq(Line) /\ \A b \in more(one) : Len(b) = 2
  <2> SUFFICES ASSUME NEW x \in more(one) PROVE x \in Seq(Line) /\ Len(x) = 2
    OBVIOUS
  <2>1. PICK b \in one : \E line \in NextLines(lines \o b) : x = Append(b, line)
    OBVIOUS
  <2>2. b \in Seq(Line) /\ Len(b) = 1
    BY <1>1
  <2>3. PICK sent \in Seq(Line) : sent = lines \o b
    <3>1. lines \o b \in Seq(Line)
      BY <2>2
    <3> QED BY <3>1
  <2>4. PICK line \in Line : x = Append(b, line)
    BY <2>1, <2>3, NextLinesAre
  <2> QED BY <2>2, <2>4
<1>3. batch \in one \cup more(one)
  <2>1. Batches = IF PerChunk = 1 THEN one ELSE one \cup more(one)
    BY DEF Batches
  <2> HIDE DEF one, more
  <2> QED BY <2>1
<1>4. batch \in Seq(Line) /\ Len(batch) >= 1
  <2> HIDE DEF one, more
  <2> QED BY <1>1, <1>2, <1>3
<1>5. Front(batch) \in Seq(Line)
  BY <1>4 DEF Front
<1> QED BY <1>4, <1>5


\* A started translator, for a client that has read nothing.
LEMMA MFirst ==
    LET t == M!Start(M!NewTranslator)
    IN  t \in MTranslator /\ MTold(Seen(Unread, t.events), t)
<1>1. PICK t0 : t0 = [M!NewTranslator EXCEPT !.started = TRUE]
  OBVIOUS
<1>2. /\ t0 \in MTranslator /\ t0.started /\ ~t0.stopped /\ t0.text = M!NoBlock /\ t0.calls = <<>>
      /\ t0.next = 0 /\ t0.events = <<>>
  <2>1. <<>> \in Seq(MCall) /\ <<>> \in Seq(Event) /\ "end_turn" \in Ending
    BY DEF Ending
  <2>2. t0 = [started |-> TRUE, stopped |-> FALSE, text |-> M!NoBlock, calls |-> <<>>,
              next |-> 0, reason |-> "end_turn", usage |-> FALSE, events |-> <<>>]
    BY <1>1 DEF M!NewTranslator
  <2>3. M!NoBlock \in Int
    BY DEF M!NoBlock
  <2> QED BY <2>1, <2>2, <2>3 DEF MTranslator
<1>3. PICK e : e = [type |-> "start"]
  OBVIOUS
<1>4. e \in PlainEvent
  BY <1>3 DEF PlainEvent
<1>5. PICK t : t = M!Emit(t0, e)
  OBVIOUS
<1>6. t = M!Start(M!NewTranslator)
  <2>1. ~M!NewTranslator.started
    BY DEF M!NewTranslator
  <2> QED BY <1>1, <1>3, <1>5, <2>1 DEF M!Start
<1>7. Unread \in View /\ Sound(Unread) /\ ~Unread.started /\ Unread.blocks = <<>>
  BY DEF Unread, View, Sound, Unique, Ending
<1>8. Seen(Unread, t0.events) = Unread
  BY <1>2, <1>7, SeenNone
<1>9. PICK d : d = Seen(Unread, t.events)
  OBVIOUS
<1>10. t \in MTranslator /\ SameNotes(t0, t) /\ d = Read(Unread, Sent(e, 0))
  <2>1. t \in MTranslator /\ SameNotes(t0, t)
        /\ Seen(Unread, t.events) = Read(Seen(Unread, t0.events), Sent(e, 0))
    BY <1>2, <1>4, <1>5, <1>7, MEmits
  <2> QED BY <1>8, <1>9, <2>1
<1>11. Sound(d) /\ d.started /\ d.blocks = <<>>
  <2>1. d = Read(Unread, Sent([type |-> "start"], 0)) /\ Counts(Unread, 0) /\ 0 \in Nat
    BY <1>3, <1>10, PlainIs
  <2>2. Sound(d) /\ d.started /\ d.blocks = Unread.blocks
    BY <1>7, <2>1, ReadStart
  <2> QED BY <1>7, <2>2
<1>12. Numbers(d) = {}
  BY <1>11 DEF Numbers
<1>13. /\ t.started /\ ~t.stopped /\ t.text = M!NoBlock /\ t.calls = <<>> /\ t.next = 0
  BY <1>2, <1>10 DEF SameNotes
<1>14. MBlocks(d, t)
  <2>1. 0 .. t.next - 1 = {}
    BY <1>13
  <2> QED BY <1>11, <1>12, <1>13, <2>1 DEF MBlocks
<1>15. MParts(t)
  BY <1>13 DEF MParts, M!NoBlock
<1> QED BY <1>6, <1>9, <1>10, <1>14, <1>15 DEF MTold

\* The same in the Responses API.
LEMMA RFirst ==
    LET t == R!Start(R!NewTranslator)
    IN  t \in RTranslator /\ t.started /\ ~t.stopped /\ RItems(Seen(Unread, t.events), t) /\ RParts(t)
<1>1. PICK t0 : t0 = [R!NewTranslator EXCEPT !.started = TRUE]
  OBVIOUS
<1>2. /\ t0 \in RTranslator /\ t0.started /\ ~t0.stopped /\ ~t0.message /\ t0.calls = <<>>
      /\ t0.text = <<>> /\ t0.next = 1 /\ t0.sequence = 0 /\ t0.events = <<>>
  <2>1. <<>> \in Seq(RCall) /\ <<>> \in Seq(Event) /\ <<>> \in Seq(Nat)
    OBVIOUS
  <2>2. t0 = [started |-> TRUE, stopped |-> FALSE, message |-> FALSE, text |-> <<>>,
              calls |-> <<>>, next |-> 1, sequence |-> 0, reason |-> "stop", usage |-> FALSE,
              events |-> <<>>]
    BY <1>1 DEF R!NewTranslator
  <2>3. Len(t0.events) = 0
    BY <2>2
  <2> QED BY <2>1, <2>2, <2>3 DEF RTranslator, RNotes
<1>3. PICK e : e = [type |-> "start"]
  OBVIOUS
<1>4. e \in PlainEvent
  BY <1>3 DEF PlainEvent
<1>5. PICK t : t = R!EmitNext(t0, e)
  OBVIOUS
<1>6. t = R!Start(R!NewTranslator)
  <2>1. ~R!NewTranslator.started
    BY DEF R!NewTranslator
  <2> QED BY <1>1, <1>3, <1>5, <2>1 DEF R!Start
<1>7. /\ Unread \in View /\ Sound(Unread) /\ ~Unread.started /\ Unread.blocks = <<>>
      /\ Unread.numbered = 0
  BY DEF Unread, View, Sound, Unique, Ending
<1>8. Seen(Unread, t0.events) = Unread
  BY <1>2, <1>7, SeenNone
<1>9. PICK d : d = Seen(Unread, t.events)
  OBVIOUS
<1>10. t \in RTranslator /\ RSameNotes(t0, t) /\ t.sequence = 1 /\ d = Read(Unread, Sent(e, 1))
  <2>1. t \in RTranslator /\ RSameNotes(t0, t) /\ t.sequence = t0.sequence + 1
        /\ Seen(Unread, t.events) = Read(Seen(Unread, t0.events), Sent(e, t0.sequence + 1))
    BY <1>2, <1>4, <1>5, <1>7, REmits
  <2>2. t0.sequence + 1 = 1
    BY <1>2
  <2> QED BY <1>8, <1>9, <2>1, <2>2
<1>11. Sound(d) /\ d.started /\ d.blocks = <<>> /\ d.numbered = 1
  <2>1. d = Read(Unread, Sent([type |-> "start"], 1)) /\ Counts(Unread, 1) /\ 1 \in Nat
    BY <1>3, <1>7, <1>10 DEF Counts
  <2>2. Sound(d) /\ d.started /\ d.blocks = Unread.blocks /\ d.numbered = Reached(Unread, 1)
    BY <1>7, <2>1, ReadStart
  <2> QED BY <1>7, <2>2 DEF Reached
<1>12. Numbers(d) = {}
  BY <1>11 DEF Numbers
<1>13. /\ t.started /\ ~t.stopped /\ ~t.message /\ t.calls = <<>> /\ t.next = 1 /\ t.text = <<>>
  BY <1>2, <1>10 DEF RSameNotes
<1>14. Items(t) = {}
  BY <1>13 DEF Items
<1>15. RItems(d, t) /\ RParts(t)
  BY <1>10, <1>11, <1>12, <1>13, <1>14 DEF RItems, RParts
<1> QED BY <1>6, <1>9, <1>10, <1>13, <1>15

StreamState ==
    /\ lines \in Seq(Line) /\ Len(lines) <= MaxLines
    /\ ended \in {"no", "complete", "failed"}
    /\ toMessages \in Seq(Event) /\ toResponses \in Seq(Event)
    /\ MParts(messages) /\ responses \in RTranslator /\ RParts(responses)

\* While the stream goes on, each client has what its translator notes, and had before
\* the last chunk what the events of that chunk start from.
Translating ==
    /\ messages \in MTranslator /\ MTold(Seen(Unread, toMessages), messages)
    /\ \E c \in View : MGood(c, messages)
    /\ responses.started /\ ~responses.stopped
    /\ RItems(Seen(Unread, toResponses), responses)
    /\ \E c \in View : RGood(c, responses)

\* The client knows how the stream ended.
Told(events) == Seen(Unread, events).outcome = ended

StreamIInv ==
    /\ StreamState
    /\ ended = "no" => Translating
    /\ ended # "no" => Told(toMessages) /\ Told(toResponses)
    /\ ended # "no" /\ fresh => Seen(Unread, toMessages).ok /\ Seen(Unread, toResponses).ok

\* The stream starts in the invariant.
LEMMA StreamStarts == StreamInit => StreamIInv
<1> HAVE StreamInit
<1>1. PICK m : m = M!Start(M!NewTranslator)
  OBVIOUS
<1>2. PICK r : r = R!Start(R!NewTranslator)
  OBVIOUS
<1>3. /\ lines = <<>> /\ ended = "no" /\ messages = m /\ responses = r
      /\ toMessages = m.events /\ toResponses = r.events
  BY <1>1, <1>2 DEF StreamInit
<1>4. m \in MTranslator /\ MTold(Seen(Unread, m.events), m)
  BY <1>1, MFirst
<1>5. /\ r \in RTranslator /\ r.started /\ ~r.stopped /\ RItems(Seen(Unread, r.events), r)
      /\ RParts(r)
  BY <1>2, RFirst
<1>6. m.events \in Seq(Event) /\ r.events \in Seq(Event)
  BY <1>4, <1>5 DEF MTranslator, RTranslator, RNotes
<1>7. StreamState
  <2>1. <<>> \in Seq(Line) /\ Len(<<>>) <= MaxLines
    BY MaxLinesAssumption
  <2> QED BY <1>3, <1>4, <1>5, <1>6, <2>1 DEF StreamState, MTold
<1>8. Translating
  <2>1. Unread \in View
    BY DEF Unread, View, Ending
  <2>2. MGood(Unread, m) /\ RGood(Unread, r)
    BY <1>4, <1>5 DEF MGood, RGood
  <2> QED BY <1>3, <1>4, <1>5, <2>1, <2>2 DEF Translating
<1> QED BY <1>3, <1>7, <1>8 DEF StreamIInv

\* A chunk's events go to the clients.
LEMMA MFeeds ==
    ASSUME NEW sent \in Seq(Event), NEW t \in MTranslator, MTold(Seen(Unread, sent), t),
           NEW list \in Seq(Line), NEW u, u = M!Feed(t, list), NEW all, all = sent \o u.events
    PROVE  /\ u \in MTranslator /\ all \in Seq(Event) /\ MTold(Seen(Unread, all), u)
           /\ \E c \in View : MGood(c, u)
<1>1. PICK t0 : t0 = [t EXCEPT !.events = <<>>]
  OBVIOUS
<1>2. /\ t0 \in MTranslator /\ t0.events = <<>> /\ SameNotes(t, t0)
  <2>1. <<>> \in Seq(Event)
    OBVIOUS
  <2> QED BY <1>1, <2>1 DEF MTranslator, SameNotes
<1>3. Unread \in View
  BY DEF Unread, View, Ending
<1>4. PICK c : c = Seen(Unread, sent)
  OBVIOUS
<1>5. c \in View
  BY <1>4 DEF MTold, MBlocks, Sound
<1>6. MGood(c, t0)
  <2>1. Seen(c, t0.events) = c
    BY <1>2, <1>5, SeenNone
  <2>2. MParts(t0)
    BY <1>2, SameParts DEF MTold, SameNotes
  <2>3. MBlocks(c, t0)
    BY <1>2, <1>4 DEF MTold, MBlocks, SameNotes
  <2> QED BY <1>2, <2>1, <2>2, <2>3 DEF MGood, MTold
<1>7. MGood(c, u)
  BY <1>1, <1>5, <1>6, MFoldGood DEF M!Feed
<1>8. PICK b \in Seq(Event) : b = u.events /\ all = sent \o b
  BY <1>7 DEF MGood, MTranslator
<1>9. Seen(Unread, all) = Seen(c, b)
  <2>1. Seen(Unread, sent \o b) = Seen(Seen(Unread, sent), b)
    BY <1>3, SeenConcat
  <2> QED BY <1>4, <1>8, <2>1
<1>10. all \in Seq(Event)
  <2>1. sent \o b \in Seq(Event)
    OBVIOUS
  <2> QED BY <1>8, <2>1
<1> QED BY <1>5, <1>7, <1>8, <1>9, <1>10 DEF MGood

\* The same in the Responses API.
LEMMA RFeeds ==
    ASSUME NEW sent \in Seq(Event), NEW t \in RTranslator, t.started, ~t.stopped, RParts(t),
           RItems(Seen(Unread, sent), t),
           NEW list \in Seq(Line), NEW u, u = R!Feed(t, list), NEW all, all = sent \o u.events
    PROVE  /\ u \in RTranslator /\ all \in Seq(Event) /\ u.started /\ ~u.stopped /\ RParts(u)
           /\ RItems(Seen(Unread, all), u)
           /\ \E c \in View : RGood(c, u)
<1>1. PICK t0 : t0 = [t EXCEPT !.events = <<>>]
  OBVIOUS
<1>2. /\ t0 \in RTranslator /\ t0.events = <<>> /\ RSameNotes(t, t0) /\ t0.sequence = t.sequence
  <2>1. <<>> \in Seq(Event) /\ Len(<<>>) = 0
    OBVIOUS
  <2>2. t0 \in RNotes /\ t0.events = <<>> /\ RSameNotes(t, t0) /\ t0.sequence = t.sequence
    BY <1>1, <2>1 DEF RTranslator, RNotes, RSameNotes
  <2>3. t.sequence \in Nat
    BY DEF RTranslator, RNotes
  <2>4. t0.sequence >= Len(t0.events)
    BY <2>1, <2>2, <2>3
  <2> QED BY <2>2, <2>4 DEF RTranslator
<1>3. Unread \in View
  BY DEF Unread, View, Ending
<1>4. PICK c : c = Seen(Unread, sent)
  OBVIOUS
<1>5. c \in View
  BY <1>4 DEF RItems, Sound
<1>6. RGood(c, t0)
  <2>1. Seen(c, t0.events) = c
    BY <1>2, <1>5, SeenNone
  <2>2. RParts(t0) /\ Items(t0) = Items(t) /\ \A b : Pieces(t0, b) = Pieces(t, b)
    BY <1>2, RSameItems
  <2>3. RItems(c, t0)
    BY <1>2, <1>4, <2>2 DEF RItems
  <2>4. t0.started /\ ~t0.stopped
    BY <1>2 DEF RSameNotes
  <2> QED BY <1>2, <2>1, <2>2, <2>3, <2>4 DEF RGood
<1>7. RGood(c, u)
  BY <1>1, <1>5, <1>6, RFoldGood DEF R!Feed
<1>8. PICK b \in Seq(Event) : b = u.events /\ all = sent \o b
  BY <1>7 DEF RGood, RTranslator, RNotes
<1>9. Seen(Unread, all) = Seen(c, b)
  <2>1. Seen(Unread, sent \o b) = Seen(Seen(Unread, sent), b)
    BY <1>3, SeenConcat
  <2> QED BY <1>4, <1>8, <2>1
<1>10. all \in Seq(Event)
  <2>1. sent \o b \in Seq(Event)
    OBVIOUS
  <2> QED BY <1>8, <2>1
<1> QED BY <1>5, <1>7, <1>8, <1>9, <1>10 DEF RGood

\* What is sent at the end tells the outcome, and is well formed if it is only that.
LEMMA EndsTold ==
    ASSUME NEW sent \in Seq(Event), NEW u, NEW outcome, Seen(Unread, sent) \in View,
           Tells(u, outcome)
    PROVE  /\ Seen(Unread, sent \o u.events).outcome = outcome
           /\ MEnds(Seen(Unread, sent), u, outcome) => Seen(Unread, sent \o u.events).ok
<1>1. PICK b \in Seq(Event) : b = u.events
  BY DEF Tells
<1>2. Unread \in View
  BY DEF Unread, View, Ending
<1>3. Seen(Unread, sent \o b) = Seen(Seen(Unread, sent), b)
  BY <1>2, SeenConcat
<1> QED BY <1>1, <1>3 DEF MEnds, Tells

\* Every step keeps the invariant: a chunk,
LEMMA ChunkKeeps == StreamIInv /\ Chunk => StreamIInv'
<1> SUFFICES ASSUME StreamIInv, Chunk PROVE StreamIInv'
  OBVIOUS
<1>1. /\ ended = "no" /\ StreamState /\ Translating
  BY DEF StreamIInv, Chunk
<1>2. PICK batch \in Batches, whole \in BOOLEAN :
         LET decoded == IF whole THEN batch ELSE Front(batch)
         IN  /\ Len(lines) + Len(batch) <= MaxLines
             /\ lines' = lines \o batch
             /\ messages' = M!Feed(messages, decoded)
             /\ responses' = R!Feed(responses, decoded)
  BY DEF Chunk
<1>3. batch \in Seq(Line) /\ Front(batch) \in Seq(Line)
  BY <1>1, BatchesAre DEF StreamState
<1>4. PICK list \in Seq(Line) : list = IF whole THEN batch ELSE Front(batch)
  BY <1>3
<1>5. PICK m, r : m = messages' /\ r = responses'
  OBVIOUS
<1>6. /\ m = M!Feed(messages, list) /\ r = R!Feed(responses, list)
      /\ ended' = "no" /\ UNCHANGED fresh
      /\ toMessages' = toMessages \o m.events /\ toResponses' = toResponses \o r.events
  BY <1>1, <1>2, <1>4, <1>5 DEF Chunk
<1>7. lines' \in Seq(Line) /\ Len(lines') <= MaxLines
  <2>1. PICK l : l = lines \o batch
    OBVIOUS
  <2>2. lines \in Seq(Line)
    BY <1>1 DEF StreamState
  <2>3. l \in Seq(Line) /\ Len(l) = Len(lines) + Len(batch)
    BY <1>3, <2>1, <2>2
  <2> QED BY <1>2, <2>1, <2>3
<1>8. /\ messages' \in MTranslator /\ toMessages' \in Seq(Event)
      /\ MTold(Seen(Unread, toMessages'), messages') /\ \E c \in View : MGood(c, messages')
  <2>1. PICK all : all = toMessages \o m.events
    OBVIOUS
  <2>2. /\ m \in MTranslator /\ all \in Seq(Event) /\ MTold(Seen(Unread, all), m)
        /\ \E c \in View : MGood(c, m)
    BY <1>1, <1>6, <2>1, MFeeds DEF StreamState, Translating
  <2> QED BY <1>5, <1>6, <2>1, <2>2
<1>9. /\ responses' \in RTranslator /\ toResponses' \in Seq(Event)
      /\ responses'.started /\ ~responses'.stopped /\ RParts(responses')
      /\ RItems(Seen(Unread, toResponses'), responses') /\ \E c \in View : RGood(c, responses')
  <2>1. PICK all : all = toResponses \o r.events
    OBVIOUS
  <2>2. /\ r \in RTranslator /\ all \in Seq(Event) /\ r.started /\ ~r.stopped /\ RParts(r)
        /\ RItems(Seen(Unread, all), r) /\ \E c \in View : RGood(c, r)
    BY <1>1, <1>6, <2>1, RFeeds DEF StreamState, Translating
  <2> QED BY <1>5, <1>6, <2>1, <2>2
<1>10. StreamState'
  BY <1>6, <1>7, <1>8, <1>9 DEF StreamState, MTold
<1>11. Translating'
  BY <1>8, <1>9 DEF Translating
<1> QED BY <1>6, <1>10, <1>11 DEF StreamIInv

\* an end whose events follow from what the clients have,
LEMMA EndKeeps ==
    ASSUME StreamIInv, NEW m, NEW r, NEW outcome \in {"complete", "failed"},
           EndWith(m, r, outcome), MParts(m), r \in RTranslator, RParts(r),
           Tells(m, outcome), Tells(r, outcome),
           messages.events = <<>> => MEnds(Seen(Unread, toMessages), m, outcome),
           responses.events = <<>> => MEnds(Seen(Unread, toResponses), r, outcome)
    PROVE  StreamIInv'
<1>1. /\ ended = "no" /\ StreamState /\ Translating
  BY DEF StreamIInv, EndWith
<1>2. /\ messages' = m /\ responses' = r /\ ended' = outcome /\ ended' # "no"
      /\ toMessages' = toMessages \o m.events /\ toResponses' = toResponses \o r.events
      /\ fresh' = (messages.events = <<>> /\ responses.events = <<>>) /\ UNCHANGED lines
  BY DEF EndWith
<1>3. StreamState'
  <2>1. toMessages \o m.events \in Seq(Event) /\ toResponses \o r.events \in Seq(Event)
    BY <1>1 DEF StreamState, Tells
  <2> QED BY <1>1, <1>2, <2>1 DEF StreamState
<1>4. Seen(Unread, toMessages) \in View /\ Seen(Unread, toResponses) \in View
  BY <1>1 DEF Translating, MTold, MBlocks, RItems, Sound
<1>5. Told(toMessages)' /\ Told(toResponses)'
  <2>1. /\ Seen(Unread, toMessages \o m.events).outcome = outcome
        /\ Seen(Unread, toResponses \o r.events).outcome = outcome
    BY <1>1, <1>4, EndsTold DEF StreamState
  <2> QED BY <1>2, <2>1 DEF Told
<1>6. ASSUME fresh' PROVE Seen(Unread, toMessages').ok /\ Seen(Unread, toResponses').ok
  <2>1. messages.events = <<>> /\ responses.events = <<>>
    BY <1>2, <1>6
  <2>2. Seen(Unread, toMessages \o m.events).ok
    BY <1>1, <1>4, <2>1, EndsTold DEF StreamState
  <2>3. Seen(Unread, toResponses \o r.events).ok
    BY <1>1, <1>4, <2>1, EndsTold DEF StreamState
  <2> QED BY <1>2, <2>2, <2>3
<1> QED BY <1>2, <1>3, <1>5, <1>6 DEF StreamIInv

\* A stream in which nothing was sent since the last chunk goes on from what the client has.
LEMMA Resumes ==
    ASSUME Translating, StreamState
    PROVE  /\ Seen(Unread, toMessages) \in View /\ Seen(Unread, toResponses) \in View
           /\ messages.events = <<>> => MGood(Seen(Unread, toMessages), messages)
           /\ responses.events = <<>> => RGood(Seen(Unread, toResponses), responses)
<1>1. PICK c, d : c = Seen(Unread, toMessages) /\ d = Seen(Unread, toResponses)
  OBVIOUS
<1>2. c \in View /\ d \in View
  BY <1>1 DEF Translating, MTold, MBlocks, RItems, Sound
<1>3. Seen(c, <<>>) = c /\ Seen(d, <<>>) = d
  BY <1>2, SeenNone
<1>4. ASSUME messages.events = <<>> PROVE MGood(c, messages)
  BY <1>1, <1>3, <1>4 DEF Translating, MGood
<1>5. ASSUME responses.events = <<>> PROVE RGood(d, responses)
  BY <1>1, <1>3, <1>5 DEF Translating, StreamState, RGood
<1> QED BY <1>1, <1>2, <1>4, <1>5

\* the end of the stream,
LEMMA StreamEndsKeeps == StreamIInv /\ StreamEnds => StreamIInv'
<1> SUFFICES ASSUME StreamIInv, StreamEnds PROVE StreamIInv'
  OBVIOUS
<1>1. Translating /\ StreamState
  BY DEF StreamIInv, StreamEnds, EndWith
<1>2. PICK m, r : m = M!Finish(messages) /\ r = R!Finish(responses)
  OBVIOUS
<1>3. EndWith(m, r, "complete")
  BY <1>2 DEF StreamEnds
<1>4. MParts(m) /\ Tells(m, "complete")
  BY <1>1, <1>2, MFinishTold DEF Translating
<1>5. r \in RTranslator /\ RParts(r) /\ Tells(r, "complete")
  BY <1>1, <1>2, RFinishTold DEF Translating
<1>6. messages.events = <<>> => MEnds(Seen(Unread, toMessages), m, "complete")
  BY <1>1, <1>2, Resumes, MFinishTold
<1>7. responses.events = <<>> => MEnds(Seen(Unread, toResponses), r, "complete")
  BY <1>1, <1>2, Resumes, RFinishTold
<1> QED BY <1>3, <1>4, <1>5, <1>6, <1>7, EndKeeps

\* and its break.
LEMMA StreamBreaksKeeps == StreamIInv /\ StreamBreaks => StreamIInv'
<1> SUFFICES ASSUME StreamIInv, StreamBreaks PROVE StreamIInv'
  OBVIOUS
<1>1. Translating /\ StreamState
  BY DEF StreamIInv, StreamBreaks, EndWith
<1>2. PICK m, r : m = M!Fail(messages) /\ r = R!Fail(responses)
  OBVIOUS
<1>3. EndWith(m, r, "failed")
  BY <1>2 DEF StreamBreaks
<1>4. MParts(m) /\ Tells(m, "failed")
  BY <1>1, <1>2, MFailTold DEF Translating
<1>5. r \in RTranslator /\ RParts(r) /\ Tells(r, "failed")
  BY <1>1, <1>2, RFailTold DEF Translating
<1>6. messages.events = <<>> => MEnds(Seen(Unread, toMessages), m, "failed")
  BY <1>1, <1>2, Resumes, MFailTold
<1>7. responses.events = <<>> => MEnds(Seen(Unread, toResponses), r, "failed")
  BY <1>1, <1>2, Resumes, RFailTold
<1> QED BY <1>3, <1>4, <1>5, <1>6, <1>7, EndKeeps

\* The invariant holds throughout.
LEMMA StreamIsInvariant == StreamSpec => []StreamIInv
<1>1. StreamIInv /\ [StreamNext]_streamVars => StreamIInv'
  <2> SUFFICES ASSUME StreamIInv, [StreamNext]_streamVars PROVE StreamIInv'
    OBVIOUS
  <2>1. CASE UNCHANGED streamVars
    BY <2>1 DEF streamVars, StreamIInv, StreamState, Translating, Told
  <2>2. CASE Chunk
    BY <2>2, ChunkKeeps
  <2>3. CASE StreamEnds
    BY <2>3, StreamEndsKeeps
  <2>4. CASE StreamBreaks
    BY <2>4, StreamBreaksKeeps
  <2> QED BY <2>1, <2>2, <2>3, <2>4 DEF StreamNext
<1> QED BY <1>1, StreamStarts, PTL DEF StreamSpec

\* The events of both translations are well formed at any point of any stream: one
\* start, every block opened, written, closed in that order and once, numbers without
\* gaps, a whole answer that repeats what was written, nothing after the end, unless the
\* last chunk's events were sent twice; and the translators count their blocks and numbers
\* right.
THEOREM StreamHolds == StreamSpec => []StreamInv
<1>1. StreamIInv => StreamInv
  <2> HAVE StreamIInv
  <2>1. StreamState /\ toMessages \in Seq(Event) /\ toResponses \in Seq(Event)
    BY DEF StreamIInv, StreamState
  <2>2. StreamTypeOK
    BY <2>1 DEF StreamState, StreamTypeOK, MParts, RParts, RTranslator
  <2>3. /\ Client(toMessages) = Seen(Unread, toMessages)
        /\ Client(toResponses) = Seen(Unread, toResponses)
    BY <2>1, ClientIs
  <2>4. fresh => Client(toMessages).ok /\ Client(toResponses).ok
    <3>1. ended = "no" => Seen(Unread, toMessages).ok /\ Seen(Unread, toResponses).ok
      BY DEF StreamIInv, Translating, MTold, MBlocks, RItems, Sound
    <3>2. ended # "no" /\ fresh => Seen(Unread, toMessages).ok /\ Seen(Unread, toResponses).ok
      BY DEF StreamIInv
    <3> QED BY <2>3, <3>1, <3>2
  <2> QED BY <2>2, <2>4 DEF StreamInv, WellFormed
<1> QED BY <1>1, StreamIsInvariant, PTL

\* A client of either protocol is told "complete" exactly when the upstream's stream
\* came to its end, and "failed" exactly when it broke off, wherever that was: the last
\* event says it, whatever came before and however often.
THEOREM TruncationTold == StreamSpec => []TruncationIsTold
<1>1. StreamIInv => TruncationIsTold
  BY ClientIs DEF StreamIInv, StreamState, Told, TruncationIsTold
<1> QED BY <1>1, StreamIsInvariant, PTL

-----------------------------------------------------------------------------
(* The answer, collapsed *)

ACall == [index : CallIndex, id : Ids, args : Seq(Nat)]
Answer == [text : Seq(Nat), calls : Seq(ACall), finish : {"none"} \cup Reasons]
NoAnswer == [text |-> <<>>, calls |-> <<>>, finish |-> "none"]

\* What a line adds to an answer.
Extended(a, line) ==
    CASE line.kind = "text" -> [a EXCEPT !.text = Append(@, line.piece), !.finish = "none"]
      [] line.kind = "call" -> [a EXCEPT !.calls = MergedCall(@, line), !.finish = "none"]
      [] line.kind = "finish" -> [a EXCEPT !.finish = line.reason]
      [] OTHER -> a

AnswerTable == [p \in Answer \X Line |-> Extended(p[1], p[2])]
AnswerOf(list) == Fold(AnswerTable, NoAnswer, list)

\* Place is the same everywhere: it depends on the indexes only.
LEMMA SamePlace ==
    ASSUME NEW calls, NEW others, Len(calls) = Len(others),
           \A k \in 1 .. Len(calls) : calls[k].index = others[k].index, NEW index
    PROVE  /\ M!Place(calls, index) = Place(others, index)
           /\ R!Place(calls, index) = Place(others, index)
<1> DEFINE I == {k \in 1 .. Len(calls) : calls[k].index = index}
           J == {k \in 1 .. Len(others) : others[k].index = index}
<1>1. I = J
  OBVIOUS
<1>2. Place(others, index) = IF J # {} THEN Min(J) ELSE 0
  BY DEF Place, SelectInSeq
<1>3. M!Place(calls, index) = IF I # {} THEN Min(I) ELSE 0
  BY DEF M!Place, M!SelectInSeq, M!Min, Min
<1>4. R!Place(calls, index) = IF I # {} THEN Min(I) ELSE 0
  BY DEF R!Place, R!SelectInSeq, R!Min, Min
<1> HIDE DEF I, J
<1> QED BY <1>1, <1>2, <1>3, <1>4

\* new is calls with the line merged, whose call was at place at or nowhere.
Merged(calls, line, at, new) ==
    IF at = 0
    THEN /\ Len(new) = Len(calls) + 1
         /\ \A k \in 1 .. Len(calls) : new[k] = calls[k]
         /\ new[Len(calls) + 1] = [index |-> line.index, id |-> line.id,
                                   args |-> WithPiece(<<>>, line.piece)]
    ELSE /\ at \in 1 .. Len(calls) /\ Len(new) = Len(calls)
         /\ calls[at].index = line.index
         /\ \A k \in 1 .. Len(calls) :
               /\ new[k].index = calls[k].index
               /\ new[k].id = IF k = at /\ line.id # NoId THEN line.id ELSE calls[k].id
               /\ new[k].args = IF k = at THEN WithPiece(calls[k].args, line.piece) ELSE calls[k].args

\* That is what the merge is.
LEMMA MergedIs ==
    ASSUME NEW calls \in Seq(ACall), NEW line \in CallLines,
           NEW at, at = Place(calls, line.index), NEW new, new = MergedCall(calls, line)
    PROVE  new \in Seq(ACall) /\ Merged(calls, line, at, new)
<1>1. /\ line.index \in CallIndex /\ line.id \in Ids /\ line.piece \in Nat
  BY DEF CallLines
<1>2. \A s \in Seq(Nat) : WithPiece(s, line.piece) \in Seq(Nat)
  BY <1>1 DEF WithPiece
<1>3. CASE at = 0
  <2>1. PICK args \in Seq(Nat) : args = WithPiece(<<>>, line.piece)
    <3>1. <<>> \in Seq(Nat)
      OBVIOUS
    <3> QED BY <1>2, <3>1
  <2>2. PICK call \in ACall : call = [index |-> line.index, id |-> line.id, args |-> args]
    BY <1>1 DEF ACall
  <2>3. new = Append(calls, call)
    BY <1>3, <2>1, <2>2 DEF MergedCall
  <2>4. /\ new \in Seq(ACall) /\ Len(new) = Len(calls) + 1
        /\ \A k \in 1 .. Len(calls) : new[k] = calls[k]
        /\ new[Len(calls) + 1] = call
    BY <2>3
  <2> QED BY <1>3, <2>1, <2>2, <2>4 DEF Merged
<1>4. CASE at # 0
  <2>1. at \in 1 .. Len(calls) /\ calls[at].index = line.index
    <3>1. M!Place(calls, line.index) = at
      BY SamePlace
    <3> QED BY <1>4, <3>1, MPlaceIs
  <2>2. PICK b \in ACall : b = calls[at]
    BY <2>1
  <2>3. PICK id \in Ids : id = IF line.id = NoId THEN b.id ELSE line.id
    BY <1>1 DEF ACall
  <2>4. PICK args \in Seq(Nat) : args = WithPiece(b.args, line.piece)
    BY <1>2 DEF ACall
  <2>5. PICK b1 \in ACall : b1 = [b EXCEPT !.id = id]
    BY DEF ACall
  <2>6. PICK r \in ACall : r = [b1 EXCEPT !.args = args]
    BY DEF ACall
  <2>7. r.index = b.index /\ r.id = id /\ r.args = args /\ b1.args = b.args
    BY <2>5, <2>6 DEF ACall
  <2>8. PICK calls1 : calls1 = [calls EXCEPT ![at] = b1]
    OBVIOUS
  <2>9. /\ calls1 \in Seq(ACall) /\ Len(calls1) = Len(calls) /\ calls1[at] = b1
        /\ \A k \in 1 .. Len(calls) : k # at => calls1[k] = calls[k]
    BY <2>1, <2>8, ListReplaced
  <2>10. new = [calls1 EXCEPT ![at] = r]
    <3>1. new = [calls EXCEPT ![at].id = IF line.id = NoId THEN @ ELSE line.id,
                              ![at].args = WithPiece(@, line.piece)]
      BY <1>4, Zenon DEF MergedCall
    <3>2. calls1 = [calls EXCEPT ![at].id = IF line.id = NoId THEN @ ELSE line.id]
      BY <2>2, <2>3, <2>5, <2>8, Zenon
    <3>3. new = [calls1 EXCEPT ![at].args = WithPiece(@, line.piece)]
      BY <3>1, <3>2
    <3>4. r = [calls1[at] EXCEPT !.args = WithPiece(@, line.piece)]
      BY <2>4, <2>6, <2>7, <2>9, Zenon
    <3> QED BY <3>3, <3>4, Zenon
  <2>11. /\ new \in Seq(ACall) /\ Len(new) = Len(calls) /\ new[at] = r
         /\ \A k \in 1 .. Len(calls) : k # at => new[k] = calls[k]
    <3>1. /\ new \in Seq(ACall) /\ Len(new) = Len(calls1) /\ new[at] = r
          /\ \A k \in 1 .. Len(calls1) : k # at => new[k] = calls1[k]
      BY <2>1, <2>9, <2>10, ListReplaced
    <3> QED BY <2>9, <3>1
  <2>12. \A k \in 1 .. Len(calls) :
           /\ new[k].index = calls[k].index
           /\ new[k].id = IF k = at /\ line.id # NoId THEN line.id ELSE calls[k].id
           /\ new[k].args = IF k = at THEN WithPiece(calls[k].args, line.piece) ELSE calls[k].args
    BY <2>2, <2>3, <2>4, <2>7, <2>11
  <2> QED BY <1>4, <2>1, <2>11, <2>12 DEF Merged
<1> QED BY <1>3, <1>4

\* What a line adds, one kind of line at a time.
LEMMA ExtendedIs ==
    ASSUME NEW a, NEW line
    PROVE  /\ line.kind = "text" =>
                 Extended(a, line) = [a EXCEPT !.text = Append(@, line.piece), !.finish = "none"]
           /\ line.kind = "call" =>
                 Extended(a, line) = [a EXCEPT !.calls = MergedCall(@, line), !.finish = "none"]
           /\ line.kind = "finish" => Extended(a, line) = [a EXCEPT !.finish = line.reason]
           /\ line.kind \in {"usage", "other"} => Extended(a, line) = a
BY DEF Extended

\* It is an answer.
LEMMA ExtendedIn ==
    ASSUME NEW a \in Answer, NEW line \in Line
    PROVE  Extended(a, line) \in Answer
<1>1. line.kind \in {"text", "call", "finish", "usage", "other"}
  BY DEF Line, CallLines
<1>2. CASE line.kind = "text"
  <2>1. line.piece \in Nat
    BY <1>2 DEF Line, CallLines
  <2>2. PICK text \in Seq(Nat) : text = Append(a.text, line.piece)
    <3>1. Append(a.text, line.piece) \in Seq(Nat)
      BY <2>1 DEF Answer
    <3> QED BY <3>1
  <2>3. Extended(a, line) = [a EXCEPT !.text = text, !.finish = "none"]
    BY <1>2, <2>2, ExtendedIs
  <2> QED BY <2>3 DEF Answer
<1>3. CASE line.kind = "call"
  <2>1. line \in CallLines
    BY <1>3 DEF Line, CallLines
  <2>2. PICK calls \in Seq(ACall) : calls = MergedCall(a.calls, line)
    <3>1. PICK at, new : at = Place(a.calls, line.index) /\ new = MergedCall(a.calls, line)
      OBVIOUS
    <3>2. a.calls \in Seq(ACall)
      BY DEF Answer
    <3> QED BY <2>1, <3>1, <3>2, MergedIs
  <2>3. Extended(a, line) = [a EXCEPT !.calls = calls, !.finish = "none"]
    BY <1>3, <2>2, ExtendedIs
  <2> QED BY <2>3 DEF Answer
<1>4. CASE line.kind = "finish"
  <2>1. line.reason \in Reasons
    BY <1>4 DEF Line, CallLines
  <2>2. Extended(a, line) = [a EXCEPT !.finish = line.reason]
    BY <1>4, ExtendedIs
  <2> QED BY <2>1, <2>2 DEF Answer
<1> QED BY <1>1, <1>2, <1>3, <1>4, ExtendedIs

\* The table of it.
LEMMA AnswerTableIs ==
    /\ NoAnswer \in Answer
    /\ Folds(AnswerTable, Answer, Line)
    /\ \A a \in Answer, line \in Line :
          AnswerTable[<<a, line>>] = Extended(a, line) /\ Extended(a, line) \in Answer
<1>1. \A a \in Answer, line \in Line : Extended(a, line) \in Answer
  BY ExtendedIn
<1>2. \A a \in Answer, line \in Line : AnswerTable[<<a, line>>] = Extended(a, line)
  BY DEF AnswerTable
<1>3. Folds(AnswerTable, Answer, Line)
  BY <1>1 DEF Folds, AnswerTable
<1>4. NoAnswer \in Answer
  <2>1. <<>> \in Seq(Nat) /\ <<>> \in Seq(ACall)
    OBVIOUS
  <2> QED BY <2>1 DEF NoAnswer, Answer
<1> QED BY <1>1, <1>2, <1>3, <1>4

\* The collapsed answer is the fold of that table.
LEMMA CollapsedIs ==
    ASSUME NEW list \in Seq(Line)
    PROVE  Collapsed(list) = AnswerOf(list)
<1> DEFINE S == DOMAIN list
           P(h) == h = [s \in SUBSET S |->
                           IF s = {} THEN NoAnswer ELSE Extended(h[s \ {Max(s)}], list[Max(s)])]
           Q(h) == h = [s \in SUBSET S |->
                           IF s = {} THEN NoAnswer
                           ELSE AnswerTable[<<h[s \ {Max(s)}], list[Max(s)]>>]]
<1>1. IsFiniteSet(S) /\ S = 1 .. Len(list) /\ Len(list) \in Nat
  BY FS_Interval
<1>2. \A s \in SUBSET S : s # {} => Max(s) \in s /\ list[Max(s)] \in Line
  <2>1. \A s \in SUBSET S : s # {} => Max(s) \in s
    BY <1>1, GreatestIndex
  <2> QED BY <2>1
<1>3. NoAnswer \in Answer
  BY AnswerTableIs
<1>4. ASSUME NEW h, P(h) \/ Q(h) PROVE \A s \in SUBSET S : h[s] \in Answer
  <2>1. h[{}] \in Answer
    <3>1. {} \in SUBSET S
      OBVIOUS
    <3> QED BY <3>1, <1>3, <1>4
  <2>2. ASSUME NEW s \in SUBSET S, s # {}
        PROVE  \E x \in s : h[s \ {x}] \in Answer => h[s] \in Answer
    <3>1. Max(s) \in s /\ list[Max(s)] \in Line
      BY <1>2, <2>2
    <3>2. ASSUME h[s \ {Max(s)}] \in Answer PROVE h[s] \in Answer
      <4>1. \/ h[s] = Extended(h[s \ {Max(s)}], list[Max(s)])
            \/ h[s] = AnswerTable[<<h[s \ {Max(s)}], list[Max(s)]>>]
        BY <1>4, <2>2
      <4> QED BY <4>1, <3>1, <3>2, AnswerTableIs
    <3> QED BY <3>1, <3>2
  <2> HIDE DEF S, P, Q
  <2> QED BY <1>1, <2>1, <2>2, TableStays
<1>5. ASSUME NEW h, \A s \in SUBSET S : h[s] \in Answer PROVE P(h) <=> Q(h)
  <2>1. \A s \in SUBSET S : s # {} => Extended(h[s \ {Max(s)}], list[Max(s)])
                                        = AnswerTable[<<h[s \ {Max(s)}], list[Max(s)]>>]
    <3> TAKE s \in SUBSET S
    <3> HAVE s # {}
    <3>1. s \ {Max(s)} \in SUBSET S /\ list[Max(s)] \in Line
      BY <1>2
    <3>2. h[s \ {Max(s)}] \in Answer
      BY <3>1, <1>5
    <3> QED BY <3>1, <3>2, AnswerTableIs
  <2>2. [s \in SUBSET S |-> IF s = {} THEN NoAnswer ELSE Extended(h[s \ {Max(s)}], list[Max(s)])]
        = [s \in SUBSET S |-> IF s = {} THEN NoAnswer
                              ELSE AnswerTable[<<h[s \ {Max(s)}], list[Max(s)]>>]]
    BY <2>1
  <2> QED BY <2>2
<1>6. \A h : P(h) <=> Q(h)
  BY <1>4, <1>5
<1>7. (CHOOSE h : P(h)) = (CHOOSE h : Q(h))
  <2> HIDE DEF P, Q
  <2> QED BY <1>6
<1>8. Collapsed(list) = (CHOOSE h : P(h))[S]
  BY DEF Collapsed, FoldLeft, MapThenFoldSet, NoAnswer, Extended
<1>9. AnswerOf(list) = (CHOOSE h : Q(h))[S]
  BY DEF AnswerOf, Fold, FoldLeft, MapThenFoldSet
<1> QED BY <1>7, <1>8, <1>9

\* Of more lines, and of none.
LEMMA AnswersAre ==
    /\ AnswerOf(<<>>) = NoAnswer
    /\ \A sent \in Seq(Line) : AnswerOf(sent) \in Answer
    /\ \A sent \in Seq(Line), list \in Seq(Line) :
          AnswerOf(sent \o list) = Fold(AnswerTable, AnswerOf(sent), list)
<1>1. AnswerOf(<<>>) = NoAnswer
  BY AnswerTableIs, FoldNone DEF AnswerOf
<1>2. ASSUME NEW sent \in Seq(Line) PROVE AnswerOf(sent) \in Answer
  <2>1. PICK h \in [0 .. Len(sent) -> Answer] : AnswerOf(sent) = h[Len(sent)]
    BY AnswerTableIs, FoldThrough DEF AnswerOf
  <2>2. Len(sent) \in 0 .. Len(sent)
    OBVIOUS
  <2> QED BY <2>1, <2>2
<1>3. ASSUME NEW sent \in Seq(Line), NEW list \in Seq(Line)
      PROVE  AnswerOf(sent \o list) = Fold(AnswerTable, AnswerOf(sent), list)
  BY AnswerTableIs, FoldConcat DEF AnswerOf
<1> QED BY <1>1, <1>2, <1>3

-----------------------------------------------------------------------------
(* A client of the Messages API has the answer so far *)

\* One block has the text, the others the calls.
MSaysText(v, t, text) ==
    /\ \A b \in Numbers(v) : BlockOf(v, b).kind = IF b = t.text THEN "text" ELSE "call"
    /\ text = IF t.text = M!NoBlock THEN <<>> ELSE BlockOf(v, t.text).pieces

MSaysCalls(v, list, calls) ==
    /\ Len(list) = Len(calls)
    /\ \A k \in 1 .. Len(calls) : /\ list[k].index = calls[k].index
                                  /\ BlockOf(v, list[k].block).pieces = calls[k].args

MSaysFinish(t, finish) == finish # "none" => t.reason = M!StopReasons[finish]

\* A client at v has the answer a, translated by t.
MSays(v, t, a) ==
    MSaysText(v, t, a.text) /\ MSaysCalls(v, t.calls, a.calls) /\ MSaysFinish(t, a.finish)

\* What a good account says of the blocks.
LEMMA MBlocksAre ==
    ASSUME NEW c, NEW t, MGood(c, t), NEW v, v = Seen(c, t.events)
    PROVE  /\ t.calls \in Seq(MCall) /\ Len(t.calls) \in Nat
           /\ t.next \notin Numbers(v) /\ M!NoBlock \notin Numbers(v) /\ t.next # M!NoBlock
           /\ t.text \in Numbers(v) \cup {M!NoBlock} /\ Numbers(v) = 0 .. t.next - 1
           /\ \A k \in 1 .. Len(t.calls) : t.calls[k].block \in Numbers(v) \ {t.text}
           /\ \A j, k \in 1 .. Len(t.calls) : t.calls[j].block = t.calls[k].block => j = k
<1>1. t \in MTranslator /\ MParts(t) /\ t.next \in Nat
  BY MStarted
<1>2. Numbers(v) = 0 .. t.next - 1
  BY DEF MGood, MTold, MBlocks
<1>3. t.next \notin Numbers(v) /\ M!NoBlock \notin Numbers(v) /\ t.next # M!NoBlock
  BY <1>1, <1>2 DEF M!NoBlock
<1>4. t.calls \in Seq(MCall) /\ Len(t.calls) \in Nat
  BY <1>1 DEF MTranslator
<1> QED BY <1>1, <1>2, <1>3, <1>4 DEF MParts

\* A line of text extends what the client of the Messages API has as it extends the answer;
LEMMA MTextSays ==
    ASSUME NEW c \in View, NEW t, MGood(c, t), NEW piece \in Nat, NEW a \in Answer,
           MSays(Seen(c, t.events), t, a), NEW w, w = M!AddText(t, piece)
    PROVE  /\ MSaysText(Seen(c, w.events), w, Append(a.text, piece))
           /\ MSaysCalls(Seen(c, w.events), w.calls, a.calls)
<1>1. PICK u : u = M!OpenText(t)
  OBVIOUS
<1>2. PICK v, d, e : v = Seen(c, t.events) /\ d = Seen(c, u.events) /\ e = Seen(c, w.events)
  OBVIOUS
<1>3. /\ MGood(c, u) /\ u.text \in 0 .. u.next - 1
      /\ u.calls = t.calls
      /\ IF t.text # M!NoBlock THEN u = t
         ELSE u.text = t.next /\ Opens(v, d, t.next, "text")
  <2>1. /\ MGood(c, u) /\ u.text \in 0 .. u.next - 1
        /\ u.calls = t.calls /\ u.reason = t.reason
        /\ IF t.text # M!NoBlock THEN u = t
           ELSE /\ u.text = t.next
                /\ Opens(Seen(c, t.events), Seen(c, u.events), t.next, "text")
    BY <1>1, MTextOpen
  <2> QED BY <1>2, <2>1
<1>4. MSaysText(d, u, a.text) /\ MSaysCalls(d, u.calls, a.calls)
  <2>1. CASE t.text # M!NoBlock
    BY <1>2, <1>3, <2>1 DEF MSays
  <2>2. CASE t.text = M!NoBlock
    <3>1. /\ t.next \notin Numbers(v) /\ M!NoBlock \notin Numbers(v) /\ t.next # M!NoBlock
          /\ \A k \in 1 .. Len(t.calls) : t.calls[k].block \in Numbers(v)
      BY <1>2, MBlocksAre
    <3>2. /\ u.text = t.next /\ Numbers(d) = Numbers(v) \cup {t.next}
          /\ \A x \in Numbers(v) : BlockOf(d, x) = BlockOf(v, x)
          /\ BlockOf(d, t.next).kind = "text" /\ BlockOf(d, t.next).pieces = <<>>
      BY <1>3, <2>2, <3>1 DEF Opens, KeptBut
    <3>3. MSaysText(d, u, a.text)
      BY <1>2, <2>2, <3>1, <3>2 DEF MSays, MSaysText
    <3>4. MSaysCalls(d, u.calls, a.calls)
      BY <1>2, <1>3, <3>1, <3>2 DEF MSays, MSaysCalls
    <3> QED BY <3>3, <3>4
  <2> QED BY <2>1, <2>2
<1>5. w = M!Emit(u, M!Piece(u.text, piece))
  <2>1. M!Start(t) = t
    BY MStarted
  <2> QED BY <1>1, <2>1 DEF M!AddText
<1>6. w.text = u.text /\ w.calls = u.calls /\ Gains(d, e, u.text, piece)
  <2>1. PICK b : b = u.text
    OBVIOUS
  <2>2. SameNotes(u, w) /\ Gains(Seen(c, u.events), Seen(c, w.events), b, piece)
    BY <1>3, <1>5, <2>1, MPiece
  <2> QED BY <1>2, <2>1, <2>2 DEF SameNotes
<1>7. /\ u.text \in Numbers(d) /\ u.text # M!NoBlock
      /\ \A k \in 1 .. Len(u.calls) : u.calls[k].block \in Numbers(d) \ {u.text}
  BY <1>2, <1>3, MBlocksAre
<1>8. /\ Numbers(e) = Numbers(d) /\ BlockOf(e, u.text).kind = BlockOf(d, u.text).kind
      /\ \A x \in Numbers(d) \ {u.text} : BlockOf(e, x) = BlockOf(d, x)
      /\ BlockOf(e, u.text).pieces = Append(BlockOf(d, u.text).pieces, piece)
  BY <1>6 DEF Gains, KeptBut
<1>9. MSaysText(e, w, Append(a.text, piece))
  BY <1>4, <1>6, <1>7, <1>8 DEF MSaysText
<1>10. MSaysCalls(e, w.calls, a.calls)
  BY <1>4, <1>6, <1>7, <1>8 DEF MSaysCalls
<1> QED BY <1>2, <1>9, <1>10

\* The place of the call of a line once it has one.
LEMMA MPlaceThen ==
    ASSUME NEW c \in View, NEW t, MGood(c, t), NEW line \in CallLines,
           NEW u, u = M!WithCall(t, line), NEW at, at = M!Place(t.calls, line.index),
           NEW k, k = M!Place(u.calls, line.index)
    PROVE  /\ k \in 1 .. Len(u.calls)
           /\ k = IF at = 0 THEN Len(t.calls) + 1 ELSE at
<1>1. MGood(c, u) /\ MWithCall(c, t, line, at, u)
      /\ \E j \in 1 .. Len(u.calls) : u.calls[j].index = line.index
  BY MCallOpen
<1>2. t.calls \in Seq(MCall) /\ Len(t.calls) \in Nat /\ u.calls \in Seq(MCall) /\ Len(u.calls) \in Nat
  <2>1. PICK v, d : v = Seen(c, t.events) /\ d = Seen(c, u.events)
    OBVIOUS
  <2> QED BY <1>1, <2>1, MBlocksAre
<1>3. k \in 1 .. Len(u.calls) /\ u.calls[k].index = line.index
  BY <1>1, <1>2, MPlaceIs
<1>4. CASE at = 0
  <2>1. \A j \in 1 .. Len(t.calls) : t.calls[j].index # line.index
    BY <1>2, <1>4, MPlaceIs
  <2>2. PICK call : u.calls = Append(t.calls, call)
    BY <1>1, <1>4 DEF MWithCall
  <2>3. Len(u.calls) = Len(t.calls) + 1 /\ \A j \in 1 .. Len(t.calls) : u.calls[j] = t.calls[j]
    BY <1>2, <2>2
  <2>4. k \notin 1 .. Len(t.calls)
    BY <1>3, <2>1, <2>3
  <2> QED BY <1>2, <1>3, <1>4, <2>3, <2>4
<1>5. CASE at # 0
  <2>1. Len(u.calls) = Len(t.calls) /\ \A j \in 1 .. Len(t.calls) : u.calls[j].index = t.calls[j].index
    BY <1>1, <1>5 DEF MWithCall
  <2>2. PICK xs, ys : xs = u.calls /\ ys = t.calls
    OBVIOUS
  <2>3. Len(xs) = Len(ys) /\ \A j \in 1 .. Len(xs) : xs[j].index = ys[j].index
    BY <2>1, <2>2
  <2>4. M!Place(xs, line.index) = Place(ys, line.index)
    BY <2>3, SamePlace, Zenon
  <2>5. M!Place(ys, line.index) = Place(ys, line.index)
    BY SamePlace
  <2> QED BY <1>3, <1>5, <2>2, <2>4, <2>5
<1> QED BY <1>3, <1>4, <1>5

\* a line of a call does,
LEMMA MCallSays ==
    ASSUME NEW c \in View, NEW t, MGood(c, t), NEW line \in CallLines, NEW a \in Answer,
           MSays(Seen(c, t.events), t, a), NEW w, w = M!AddToolDelta(t, line)
    PROVE  /\ MSaysText(Seen(c, w.events), w, a.text)
           /\ MSaysCalls(Seen(c, w.events), w.calls, MergedCall(a.calls, line))
<1>1. PICK u : u = M!WithCall(t, line)
  OBVIOUS
<1>2. PICK v, d, e : v = Seen(c, t.events) /\ d = Seen(c, u.events) /\ e = Seen(c, w.events)
  OBVIOUS
<1>3. PICK at, k : at = M!Place(t.calls, line.index) /\ k = M!Place(u.calls, line.index)
  OBVIOUS
<1>4. MGood(c, u) /\ MWithCall(c, t, line, at, u)
  BY <1>1, <1>3, MCallOpen
<1>5. k \in 1 .. Len(u.calls) /\ k = IF at = 0 THEN Len(t.calls) + 1 ELSE at
  BY <1>1, <1>3, MPlaceThen
<1>6. /\ t.calls \in Seq(MCall) /\ Len(t.calls) \in Nat
      /\ t.next \notin Numbers(v) /\ M!NoBlock \notin Numbers(v) /\ t.next # M!NoBlock
      /\ t.text \in Numbers(v) \cup {M!NoBlock}
      /\ \A j \in 1 .. Len(t.calls) : t.calls[j].block \in Numbers(v)
  BY <1>2, MBlocksAre
<1>7. PICK calls, new : calls = a.calls /\ new = MergedCall(calls, line)
  OBVIOUS
<1>8. MSaysText(v, t, a.text) /\ MSaysCalls(v, t.calls, calls)
  BY <1>2, <1>7 DEF MSays
<1>9. Merged(calls, line, at, new)
  <2>1. calls \in Seq(ACall)
    BY <1>7 DEF Answer
  <2>2. PICK xs, ys : xs = t.calls /\ ys = calls
    OBVIOUS
  <2>3. Len(xs) = Len(ys) /\ \A j \in 1 .. Len(xs) : xs[j].index = ys[j].index
    BY <1>8, <2>2 DEF MSaysCalls
  <2>4. M!Place(xs, line.index) = Place(ys, line.index)
    BY <2>3, SamePlace, Zenon
  <2> QED BY <1>3, <1>7, <2>1, <2>2, <2>4, MergedIs
<1>10. u.text = t.text
  BY <1>4 DEF MWithCall
\* u has the call, its pieces those before the line's.
<1>11. PICK old :
          /\ MSaysText(d, u, a.text) /\ Len(u.calls) = Len(new)
          /\ \A j \in 1 .. Len(new) :
                /\ u.calls[j].index = new[j].index
                /\ BlockOf(d, u.calls[j].block).pieces = IF j = k THEN old ELSE new[j].args
          /\ new[k].args = WithPiece(old, line.piece)
  <2>1. CASE at = 0
    <3>1. PICK call : /\ call = [index |-> line.index, block |-> t.next, id |-> line.id]
                      /\ u.calls = Append(t.calls, call)
                      /\ Opens(v, d, t.next, "call")
      BY <1>2, <1>4, <2>1 DEF MWithCall
    <3>2. /\ Len(u.calls) = Len(t.calls) + 1 /\ u.calls[Len(t.calls) + 1] = call
          /\ \A j \in 1 .. Len(t.calls) : u.calls[j] = t.calls[j]
      BY <1>6, <3>1
    <3>3. /\ Numbers(d) = Numbers(v) \cup {t.next}
          /\ \A x \in Numbers(v) : BlockOf(d, x) = BlockOf(v, x)
          /\ BlockOf(d, t.next).kind = "call" /\ BlockOf(d, t.next).pieces = <<>>
      BY <1>6, <3>1 DEF Opens, KeptBut
    <3>4. MSaysText(d, u, a.text)
      <4>1. t.next # t.text
        BY <1>6
      <4>2. t.text # M!NoBlock => BlockOf(d, t.text) = BlockOf(v, t.text)
        BY <1>6, <3>3
      <4>3. \A b \in Numbers(d) : BlockOf(d, b).kind = IF b = u.text THEN "text" ELSE "call"
        BY <1>8, <1>10, <3>3, <4>1 DEF MSaysText
      <4> QED BY <1>8, <1>10, <4>2, <4>3 DEF MSaysText
    <3>5. /\ Len(new) = Len(calls) + 1 /\ \A j \in 1 .. Len(calls) : new[j] = calls[j]
          /\ new[Len(calls) + 1] = [index |-> line.index, id |-> line.id,
                                   args |-> WithPiece(<<>>, line.piece)]
      BY <1>9, <2>1 DEF Merged
    <3>6. /\ Len(t.calls) = Len(calls) /\ k = Len(calls) + 1
          /\ \A j \in 1 .. Len(calls) : /\ t.calls[j].index = calls[j].index
                                         /\ BlockOf(v, t.calls[j].block).pieces = calls[j].args
      BY <1>5, <1>8, <2>1 DEF MSaysCalls
    <3>7. ASSUME NEW j \in 1 .. Len(new)
          PROVE  /\ u.calls[j].index = new[j].index
                 /\ BlockOf(d, u.calls[j].block).pieces = IF j = k THEN <<>> ELSE new[j].args
      <4>1. CASE j = k
        BY <3>1, <3>2, <3>3, <3>5, <3>6, <4>1
      <4>2. CASE j # k
        <5>1. j \in 1 .. Len(calls)
          BY <1>6, <3>5, <3>6, <4>2
        <5>2. u.calls[j] = t.calls[j] /\ new[j] = calls[j] /\ t.calls[j].block \in Numbers(v)
          BY <1>6, <3>2, <3>5, <3>6, <5>1
        <5> QED BY <3>3, <3>6, <4>2, <5>1, <5>2
      <4> QED BY <4>1, <4>2
    <3>8. new[k].args = WithPiece(<<>>, line.piece) /\ Len(u.calls) = Len(new)
      BY <3>2, <3>5, <3>6
    <3> QED BY <3>4, <3>7, <3>8
  <2>2. CASE at # 0
    <3>1. /\ d = v /\ Len(u.calls) = Len(t.calls) /\ at \in 1 .. Len(t.calls) /\ k = at
          /\ \A j \in 1 .. Len(t.calls) : /\ u.calls[j].index = t.calls[j].index
                                         /\ u.calls[j].block = t.calls[j].block
      BY <1>2, <1>4, <1>5, <2>2 DEF MWithCall
    <3>2. /\ Len(new) = Len(calls)
          /\ \A j \in 1 .. Len(calls) :
                /\ new[j].index = calls[j].index
                /\ new[j].args = IF j = at THEN WithPiece(calls[j].args, line.piece) ELSE calls[j].args
      BY <1>9, <2>2 DEF Merged
    <3>3. /\ Len(t.calls) = Len(calls)
          /\ \A j \in 1 .. Len(calls) : /\ t.calls[j].index = calls[j].index
                                         /\ BlockOf(v, t.calls[j].block).pieces = calls[j].args
      BY <1>8 DEF MSaysCalls
    <3>4. MSaysText(d, u, a.text)
      BY <1>8, <1>10, <3>1 DEF MSaysText
    <3>5. PICK old : old = calls[k].args
      OBVIOUS
    <3>6. \A j \in 1 .. Len(new) :
             /\ u.calls[j].index = new[j].index
             /\ BlockOf(d, u.calls[j].block).pieces = IF j = k THEN old ELSE new[j].args
      BY <3>1, <3>2, <3>3, <3>5
    <3>7. new[k].args = WithPiece(old, line.piece) /\ Len(u.calls) = Len(new)
      BY <3>1, <3>2, <3>3, <3>5
    <3> QED BY <3>4, <3>6, <3>7
  <2> QED BY <2>1, <2>2
<1>12. w = IF line.piece = M!NoPiece THEN u ELSE M!Emit(u, M!Piece(u.calls[k].block, line.piece))
  <2>1. M!Start(t) = t
    BY MStarted
  <2> QED BY <1>1, <1>3, <2>1, Zenon DEF M!AddToolDelta
<1>13. k \in 1 .. Len(new)
  BY <1>5, <1>11
<1>14. CASE line.piece = M!NoPiece
  <2>1. w = u /\ e = d
    BY <1>2, <1>12, <1>14
  <2>2. new[k].args = old
    BY <1>11, <1>14 DEF WithPiece, M!NoPiece, NoPiece
  <2>3. MSaysCalls(e, w.calls, new)
    BY <1>11, <2>1, <2>2 DEF MSaysCalls
  <2> QED BY <1>2, <1>7, <1>11, <2>1, <2>3
<1>15. CASE line.piece # M!NoPiece
  <2>1. PICK b, piece : b = u.calls[k].block /\ piece = line.piece
    OBVIOUS
  <2>2. /\ M!NoBlock \notin Numbers(d)
        /\ u.text \in Numbers(d) \cup {M!NoBlock} /\ Numbers(d) = 0 .. u.next - 1
        /\ \A j \in 1 .. Len(u.calls) : u.calls[j].block \in Numbers(d) \ {u.text}
        /\ \A i, j \in 1 .. Len(u.calls) : u.calls[i].block = u.calls[j].block => i = j
    BY <1>2, <1>4, MBlocksAre
  <2>3. b \in 0 .. u.next - 1 /\ piece \in Nat /\ b # u.text
    BY <1>5, <2>1, <2>2 DEF CallLines
  <2>4. w = M!Emit(u, M!Piece(b, piece))
    BY <1>12, <1>15, <2>1
  <2>5. SameNotes(u, w) /\ Gains(d, e, b, piece)
    BY <1>2, <1>4, <2>3, <2>4, MPiece
  <2>6. w.text = u.text /\ w.calls = u.calls
    BY <2>5 DEF SameNotes
  <2>7. /\ Numbers(e) = Numbers(d) /\ BlockOf(e, b).kind = BlockOf(d, b).kind
        /\ \A x \in Numbers(d) \ {b} : BlockOf(e, x) = BlockOf(d, x)
        /\ BlockOf(e, b).pieces = Append(BlockOf(d, b).pieces, piece)
    BY <2>5 DEF Gains, KeptBut
  <2>8. MSaysText(e, w, a.text)
    <3>1. \A x \in Numbers(e) : BlockOf(e, x).kind = IF x = w.text THEN "text" ELSE "call"
      BY <1>11, <2>6, <2>7 DEF MSaysText
    <3>2. u.text # M!NoBlock => BlockOf(e, u.text) = BlockOf(d, u.text)
      BY <2>2, <2>3, <2>7
    <3> QED BY <1>11, <2>6, <3>1, <3>2 DEF MSaysText
  <2>9. new[k].args = Append(old, piece)
    BY <1>11, <1>15, <2>1 DEF WithPiece, M!NoPiece, NoPiece
  <2>10. ASSUME NEW j \in 1 .. Len(new)
         PROVE  /\ w.calls[j].index = new[j].index
                /\ BlockOf(e, w.calls[j].block).pieces = new[j].args
    <3>1. w.calls[j].index = new[j].index
      BY <1>11, <2>6
    <3>2. CASE j = k
      BY <1>11, <2>1, <2>6, <2>7, <2>9, <3>2
    <3>3. CASE j # k
      <4>1. u.calls[j].block \in Numbers(d) \ {b}
        BY <1>5, <1>11, <2>1, <2>2, <3>3
      <4> QED BY <1>11, <2>6, <2>7, <3>3, <4>1
    <3> QED BY <3>1, <3>2, <3>3
  <2>11. MSaysCalls(e, w.calls, new)
    BY <1>11, <2>6, <2>10 DEF MSaysCalls
  <2> QED BY <1>2, <1>7, <2>8, <2>11
<1> QED BY <1>14, <1>15

\* The parts of an answer with a line more.
LEMMA ExtendedAre ==
    ASSUME NEW a \in Answer, NEW line \in Line, NEW x, x = Extended(a, line)
    PROVE  /\ line.kind = "text" => x.text = Append(a.text, line.piece) /\ x.calls = a.calls
           /\ line.kind = "call" => x.text = a.text /\ x.calls = MergedCall(a.calls, line)
           /\ line.kind \in {"text", "call"} => x.finish = "none"
           /\ line.kind = "finish" => /\ x.text = a.text /\ x.calls = a.calls
                                      /\ x.finish = line.reason
           /\ line.kind \in {"usage", "other"} => x = a
<1>1. /\ line.kind = "text" => x = [a EXCEPT !.text = Append(@, line.piece), !.finish = "none"]
      /\ line.kind = "call" => x = [a EXCEPT !.calls = MergedCall(@, line), !.finish = "none"]
      /\ line.kind = "finish" => x = [a EXCEPT !.finish = line.reason]
      /\ line.kind \in {"usage", "other"} => x = a
  BY ExtendedIs
<1>2. PICK text, calls, reason : /\ text = Append(a.text, line.piece)
                                /\ calls = MergedCall(a.calls, line)
                                /\ reason = line.reason
  OBVIOUS
<1>3. /\ line.kind = "text" => x = [a EXCEPT !.text = text, !.finish = "none"]
      /\ line.kind = "call" => x = [a EXCEPT !.calls = calls, !.finish = "none"]
      /\ line.kind = "finish" => x = [a EXCEPT !.finish = reason]
  BY <1>1, <1>2
<1>4. CASE line.kind = "text"
  BY <1>2, <1>3, <1>4 DEF Answer
<1>5. CASE line.kind = "call"
  BY <1>2, <1>3, <1>5 DEF Answer
<1>6. CASE line.kind = "finish"
  BY <1>2, <1>3, <1>6 DEF Answer
<1> QED BY <1>1, <1>4, <1>5, <1>6

\* so does any line,
LEMMA MConsumeSays ==
    ASSUME NEW c \in View, NEW t, MGood(c, t), NEW line \in Line, NEW a \in Answer,
           MSays(Seen(c, t.events), t, a), NEW w, w = M!Consume(t, line),
           NEW x, x = Extended(a, line)
    PROVE  MSays(Seen(c, w.events), w, x)
<1>1. line.kind \in {"text", "call", "finish", "usage", "other"}
  BY DEF Line, CallLines
<1>2. CASE line.kind = "text"
  <2>1. line.piece \in Nat
    BY <1>2 DEF Line, CallLines
  <2>2. w = M!AddText(t, line.piece)
    BY <1>2 DEF M!Consume
  <2>3. /\ MSaysText(Seen(c, w.events), w, Append(a.text, line.piece))
        /\ MSaysCalls(Seen(c, w.events), w.calls, a.calls)
    BY <2>1, <2>2, MTextSays
  <2>4. x.text = Append(a.text, line.piece) /\ x.calls = a.calls /\ x.finish = "none"
    BY <1>2, ExtendedAre
  <2> QED BY <2>3, <2>4 DEF MSays, MSaysFinish
<1>3. CASE line.kind = "call"
  <2>1. line \in CallLines
    BY <1>3 DEF Line, CallLines
  <2>2. w = M!AddToolDelta(t, line)
    BY <1>3 DEF M!Consume
  <2>3. /\ MSaysText(Seen(c, w.events), w, a.text)
        /\ MSaysCalls(Seen(c, w.events), w.calls, MergedCall(a.calls, line))
    BY <2>1, <2>2, MCallSays
  <2>4. x.text = a.text /\ x.calls = MergedCall(a.calls, line) /\ x.finish = "none"
    BY <1>3, ExtendedAre
  <2> QED BY <2>3, <2>4 DEF MSays, MSaysFinish
<1>4. t \in MTranslator
  BY MStarted
<1>5. CASE line.kind = "finish"
  <2>1. w = [t EXCEPT !.reason = M!StopReasons[line.reason]]
    BY <1>5 DEF M!Consume
  <2>2. /\ w.text = t.text /\ w.calls = t.calls /\ w.events = t.events
        /\ w.reason = M!StopReasons[line.reason]
    BY <1>4, <2>1 DEF MTranslator
  <2>3. x.text = a.text /\ x.calls = a.calls /\ x.finish = line.reason
    BY <1>5, ExtendedAre
  <2> QED BY <2>2, <2>3 DEF MSays, MSaysText, MSaysFinish
<1>6. CASE line.kind \in {"usage", "other"}
  <2>1. w.text = t.text /\ w.calls = t.calls /\ w.events = t.events /\ w.reason = t.reason
    <3>1. w = t \/ w = [t EXCEPT !.usage = TRUE]
      BY <1>6 DEF M!Consume
    <3> QED BY <1>4, <3>1 DEF MTranslator
  <2>2. x = a
    BY <1>6, ExtendedAre
  <2> QED BY <2>1, <2>2 DEF MSays, MSaysText, MSaysFinish
<1> QED BY <1>1, <1>2, <1>3, <1>5, <1>6

\* and any list of lines.
LEMMA MFoldSays ==
    ASSUME NEW c \in View, NEW t, MGood(c, t), NEW a \in Answer, MSays(Seen(c, t.events), t, a),
           NEW list \in Seq(Line), NEW u, u = M!FoldLeft(M!Consume, t, list)
    PROVE  MSays(Seen(c, u.events), u, Fold(AnswerTable, a, list))
<1>1. PICK f : MAlong(c, f, t, list) /\ u = f[Len(list)]
  BY MFoldThrough
<1>2. PICK g \in [0 .. Len(list) -> Answer] :
         Through(g, AnswerTable, a, list) /\ Fold(AnswerTable, a, list) = g[Len(list)]
  BY AnswerTableIs, FoldThrough
<1>3. PICK n \in Nat : n = Len(list)
  OBVIOUS
<1> DEFINE Same(i) == MSays(Seen(c, f[i].events), f[i], g[i])
           h == [i \in 0 .. n |-> IF Same(i) THEN 1 ELSE 0]
           W == {1}
<1>4. Same(0)
  BY <1>1, <1>2 DEF MAlong, Through
<1>5. ASSUME NEW i \in 1 .. n, Same(i - 1) PROVE Same(i)
  <2>1. i - 1 \in 0 .. n /\ list[i] \in Line
    BY <1>3
  <2>2. MGood(c, f[i - 1]) /\ f[i] = M!Consume(f[i - 1], list[i])
    BY <1>1, <1>3, <2>1 DEF MAlong
  <2>3. g[i - 1] \in Answer /\ g[i] = Extended(g[i - 1], list[i])
    <3>1. g[i - 1] \in Answer /\ g[i] = AnswerTable[<<g[i - 1], list[i]>>]
      BY <1>2, <1>3, <2>1 DEF Through
    <3> QED BY <2>1, <3>1, AnswerTableIs
  <2> QED BY <1>5, <2>1, <2>2, <2>3, MConsumeSays
<1>6. h[0] \in W
  BY <1>4
<1>7. ASSUME NEW i \in 1 .. n, h[i - 1] \in W PROVE h[i] \in W
  <2>1. i \in 0 .. n /\ i - 1 \in 0 .. n
    OBVIOUS
  <2>2. Same(i - 1)
    <3> HIDE DEF Same
    <3> QED BY <1>7, <2>1
  <2>3. Same(i)
    <3> HIDE DEF Same
    <3> QED BY <1>5, <2>2
  <2> HIDE DEF Same
  <2> QED BY <2>1, <2>3
<1>8. \A i \in 0 .. n : h[i] \in W
  <2> HIDE DEF h, W
  <2> QED BY <1>6, <1>7, StaysAlong
<1>9. Same(n)
  <2>1. n \in 0 .. n /\ h[n] \in W
    <3> HIDE DEF h, W
    <3> QED BY <1>8
  <2> HIDE DEF Same
  <2> QED BY <2>1
<1> QED BY <1>1, <1>2, <1>3, <1>9

\* So a chunk adds to what the client of the Messages API has what it adds to the answer.
LEMMA MFeedSays ==
    ASSUME NEW sent \in Seq(Event), NEW t \in MTranslator, MTold(Seen(Unread, sent), t),
           NEW a \in Answer, MSays(Seen(Unread, sent), t, a),
           NEW list \in Seq(Line), NEW u, u = M!Feed(t, list)
    PROVE  MSays(Seen(Unread, sent \o u.events), u, Fold(AnswerTable, a, list))
<1>1. PICK t0, c : t0 = [t EXCEPT !.events = <<>>] /\ c = Seen(Unread, sent)
  OBVIOUS
<1>2. /\ c \in View /\ MGood(c, t0) /\ SameNotes(t, t0) /\ Seen(c, t0.events) = c
      /\ \A b \in Seq(Event) : Seen(Unread, sent \o b) = Seen(c, b)
  <2>1. t0 \in MTranslator /\ t0.events = <<>> /\ SameNotes(t, t0)
    <3>1. <<>> \in Seq(Event)
      OBVIOUS
    <3> QED BY <1>1, <3>1 DEF MTranslator, SameNotes
  <2>2. Unread \in View
    BY DEF Unread, View, Ending
  <2>3. MBlocks(c, t) /\ MParts(t) /\ c \in View
    BY <1>1 DEF MTold, MBlocks, Sound
  <2>4. Seen(c, t0.events) = c
    BY <2>1, <2>3, SeenNone
  <2>5. MGood(c, t0)
    <3>1. MParts(t0)
      BY <2>1, <2>3, SameParts DEF SameNotes
    <3>2. MBlocks(c, t0)
      BY <2>1, <2>3 DEF MBlocks, SameNotes
    <3> QED BY <2>1, <2>4, <3>1, <3>2 DEF MGood, MTold
  <2>6. ASSUME NEW b \in Seq(Event) PROVE Seen(Unread, sent \o b) = Seen(c, b)
    <3>1. Seen(Unread, sent \o b) = Seen(Seen(Unread, sent), b)
      BY <2>2, SeenConcat
    <3> QED BY <1>1, <3>1
  <2> QED BY <2>1, <2>3, <2>4, <2>5, <2>6
<1>3. MSays(Seen(c, t0.events), t0, a)
  BY <1>1, <1>2 DEF MSays, MSaysText, MSaysFinish, SameNotes
<1>4. u = M!FoldLeft(M!Consume, t0, list)
  BY <1>1 DEF M!Feed
<1>5. MSays(Seen(c, u.events), u, Fold(AnswerTable, a, list))
  BY <1>2, <1>3, <1>4, MFoldSays
<1>6. u.events \in Seq(Event)
  BY <1>2, <1>4, MFoldGood DEF MGood, MTranslator
<1>7. Seen(Unread, sent \o u.events) = Seen(c, u.events)
  BY <1>2, <1>6, Zenon
<1> QED BY <1>5, <1>7, Zenon

-----------------------------------------------------------------------------
(* A client of the Responses API has the answer so far *)

\* The translator itself has it.
RSaysCalls(list, calls) ==
    /\ Len(list) = Len(calls)
    /\ \A k \in 1 .. Len(calls) : /\ list[k].index = calls[k].index /\ list[k].id = calls[k].id
                                  /\ list[k].args = calls[k].args

RSaysFinish(t, finish) == finish # "none" => t.reason = finish

RSays(t, a) == t.text = a.text /\ RSaysCalls(t.calls, a.calls) /\ RSaysFinish(t, a.finish)

\* The place of the call of a line once it has one.
LEMMA RPlaceThen ==
    ASSUME NEW c \in View, NEW t, RGood(c, t), NEW line \in CallLines,
           NEW u, u = R!WithCall(t, line), NEW at, at = R!Place(t.calls, line.index),
           NEW k, k = R!Place(u.calls, line.index)
    PROVE  /\ k \in 1 .. Len(u.calls)
           /\ k = IF at = 0 THEN Len(t.calls) + 1 ELSE at
<1>1. RGood(c, u) /\ RWithCall(t, line, at, u)
      /\ \E j \in 1 .. Len(u.calls) : u.calls[j].index = line.index
  BY RCallOpen
<1>2. t.calls \in Seq(RCall) /\ Len(t.calls) \in Nat /\ u.calls \in Seq(RCall) /\ Len(u.calls) \in Nat
  BY <1>1, RGoodIs
<1>3. k \in 1 .. Len(u.calls) /\ u.calls[k].index = line.index
  BY <1>1, <1>2, RPlaceIs
<1>4. CASE at = 0
  <2>1. \A j \in 1 .. Len(t.calls) : t.calls[j].index # line.index
    BY <1>2, <1>4, RPlaceIs
  <2>2. PICK call : u.calls = Append(t.calls, call)
    BY <1>1, <1>4 DEF RWithCall
  <2>3. Len(u.calls) = Len(t.calls) + 1 /\ \A j \in 1 .. Len(t.calls) : u.calls[j] = t.calls[j]
    BY <1>2, <2>2
  <2>4. k \notin 1 .. Len(t.calls)
    BY <1>3, <2>1, <2>3
  <2> QED BY <1>2, <1>3, <1>4, <2>3, <2>4
<1>5. CASE at # 0
  <2>1. Len(u.calls) = Len(t.calls) /\ \A j \in 1 .. Len(t.calls) : u.calls[j].index = t.calls[j].index
    BY <1>1, <1>5 DEF RWithCall
  <2>2. PICK xs, ys : xs = u.calls /\ ys = t.calls
    OBVIOUS
  <2>3. Len(xs) = Len(ys) /\ \A j \in 1 .. Len(xs) : xs[j].index = ys[j].index
    BY <2>1, <2>2
  <2>4. R!Place(xs, line.index) = Place(ys, line.index)
    BY <2>3, SamePlace, Zenon
  <2>5. R!Place(ys, line.index) = Place(ys, line.index)
    BY SamePlace
  <2> QED BY <1>3, <1>5, <2>2, <2>4, <2>5
<1> QED BY <1>3, <1>4, <1>5

\* A line of a call extends what the translator has as it extends the answer,
LEMMA RCallSays ==
    ASSUME NEW c \in View, NEW t, RGood(c, t), NEW line \in CallLines, NEW a \in Answer,
           RSays(t, a), NEW w, w = R!AddToolDelta(t, line)
    PROVE  w.text = a.text /\ RSaysCalls(w.calls, MergedCall(a.calls, line))
<1>1. PICK u : u = R!WithCall(t, line)
  OBVIOUS
<1>2. PICK at, k : at = R!Place(t.calls, line.index) /\ k = R!Place(u.calls, line.index)
  OBVIOUS
<1>3. RGood(c, u) /\ RWithCall(t, line, at, u)
  BY <1>1, <1>2, RCallOpen
<1>4. k \in 1 .. Len(u.calls) /\ k = IF at = 0 THEN Len(t.calls) + 1 ELSE at
  BY <1>1, <1>2, RPlaceThen
<1>5. t.calls \in Seq(RCall) /\ Len(t.calls) \in Nat /\ t.next = Len(t.calls) + 1
      /\ Len(u.calls) \in Nat /\ R!Start(t) = t
  BY <1>3, RGoodIs
<1>6. PICK calls, new : calls = a.calls /\ new = MergedCall(calls, line)
  OBVIOUS
<1>7. RSaysCalls(t.calls, calls) /\ t.text = a.text
  BY <1>6 DEF RSays
<1>8. Merged(calls, line, at, new)
  <2>1. calls \in Seq(ACall)
    BY <1>6 DEF Answer
  <2>2. PICK xs, ys : xs = t.calls /\ ys = calls
    OBVIOUS
  <2>3. Len(xs) = Len(ys) /\ \A j \in 1 .. Len(xs) : xs[j].index = ys[j].index
    BY <1>7, <2>2 DEF RSaysCalls
  <2>4. R!Place(xs, line.index) = Place(ys, line.index)
    BY <2>3, SamePlace, Zenon
  <2> QED BY <1>2, <1>6, <2>1, <2>2, <2>4, MergedIs
\* u has the call, its pieces those before the line's.
<1>9. PICK old :
         /\ u.text = a.text /\ Len(u.calls) = Len(new)
         /\ \A j \in 1 .. Len(new) :
               /\ u.calls[j].index = new[j].index /\ u.calls[j].id = new[j].id
               /\ u.calls[j].args = IF j = k THEN old ELSE new[j].args
         /\ new[k].args = WithPiece(old, line.piece)
  <2>0. u.text = a.text
    BY <1>3, <1>7 DEF RWithCall
  <2>1. CASE at = 0
    <3>1. PICK call : /\ call = [index |-> line.index, block |-> t.next, id |-> line.id,
                                 args |-> <<>>]
                      /\ u.calls = Append(t.calls, call)
      BY <1>3, <2>1 DEF RWithCall
    <3>2. /\ Len(u.calls) = Len(t.calls) + 1 /\ u.calls[Len(t.calls) + 1] = call
          /\ \A j \in 1 .. Len(t.calls) : u.calls[j] = t.calls[j]
      BY <1>5, <3>1
    <3>3. /\ Len(new) = Len(calls) + 1 /\ \A j \in 1 .. Len(calls) : new[j] = calls[j]
          /\ new[Len(calls) + 1] = [index |-> line.index, id |-> line.id,
                                   args |-> WithPiece(<<>>, line.piece)]
      BY <1>8, <2>1 DEF Merged
    <3>4. /\ Len(t.calls) = Len(calls) /\ k = Len(calls) + 1
          /\ \A j \in 1 .. Len(calls) : /\ t.calls[j].index = calls[j].index
                                         /\ t.calls[j].id = calls[j].id
                                         /\ t.calls[j].args = calls[j].args
      BY <1>4, <1>7, <2>1 DEF RSaysCalls
    <3>5. ASSUME NEW j \in 1 .. Len(new)
          PROVE  /\ u.calls[j].index = new[j].index /\ u.calls[j].id = new[j].id
                 /\ u.calls[j].args = IF j = k THEN <<>> ELSE new[j].args
      <4>1. CASE j = k
        BY <3>1, <3>2, <3>3, <3>4, <4>1
      <4>2. CASE j # k
        <5>1. j \in 1 .. Len(calls)
          BY <1>5, <3>3, <3>4, <4>2
        <5>2. u.calls[j] = t.calls[j] /\ new[j] = calls[j]
          BY <3>2, <3>3, <3>4, <5>1
        <5> QED BY <3>4, <4>2, <5>1, <5>2
      <4> QED BY <4>1, <4>2
    <3>6. new[k].args = WithPiece(<<>>, line.piece) /\ Len(u.calls) = Len(new)
      BY <3>2, <3>3, <3>4
    <3> QED BY <2>0, <3>5, <3>6
  <2>2. CASE at # 0
    <3>1. /\ Len(u.calls) = Len(t.calls) /\ at \in 1 .. Len(t.calls) /\ k = at
          /\ \A j \in 1 .. Len(t.calls) :
                /\ u.calls[j].index = t.calls[j].index /\ u.calls[j].args = t.calls[j].args
                /\ u.calls[j].id = IF j = at /\ line.id # NoId THEN line.id ELSE t.calls[j].id
      BY <1>3, <1>4, <2>2 DEF RWithCall
    <3>2. /\ Len(new) = Len(calls)
          /\ \A j \in 1 .. Len(calls) :
                /\ new[j].index = calls[j].index
                /\ new[j].id = IF j = at /\ line.id # NoId THEN line.id ELSE calls[j].id
                /\ new[j].args = IF j = at THEN WithPiece(calls[j].args, line.piece) ELSE calls[j].args
      BY <1>8, <2>2 DEF Merged
    <3>3. /\ Len(t.calls) = Len(calls)
          /\ \A j \in 1 .. Len(calls) : /\ t.calls[j].index = calls[j].index
                                         /\ t.calls[j].id = calls[j].id
                                         /\ t.calls[j].args = calls[j].args
      BY <1>7 DEF RSaysCalls
    <3>4. PICK old : old = calls[k].args
      OBVIOUS
    <3>5. \A j \in 1 .. Len(new) :
             /\ u.calls[j].index = new[j].index /\ u.calls[j].id = new[j].id
             /\ u.calls[j].args = IF j = k THEN old ELSE new[j].args
      BY <3>1, <3>2, <3>3, <3>4
    <3>6. new[k].args = WithPiece(old, line.piece) /\ Len(u.calls) = Len(new)
      BY <3>1, <3>2, <3>3, <3>4
    <3> QED BY <2>0, <3>5, <3>6
  <2> QED BY <2>1, <2>2
<1>10. PICK piece \in Nat : piece = line.piece
  BY DEF CallLines
<1>11. PICK x : x = R!EmitNext([u EXCEPT !.calls[k].args = Append(@, piece)],
                               R!Piece(u.calls[k].block, piece))
  OBVIOUS
<1>12. w = IF line.piece = R!NoPiece THEN u ELSE x
  BY <1>1, <1>2, <1>5, <1>10, <1>11, Zenon DEF R!AddToolDelta
<1>13. CASE line.piece = R!NoPiece
  <2>1. w = u
    BY <1>12, <1>13
  <2>2. new[k].args = old
    BY <1>9, <1>13 DEF WithPiece, R!NoPiece, NoPiece
  <2>3. RSaysCalls(w.calls, new)
    BY <1>9, <2>1, <2>2 DEF RSaysCalls
  <2> QED BY <1>6, <1>9, <2>1, <2>3
<1>14. CASE line.piece # R!NoPiece
  <2>1. w = x
    BY <1>12, <1>14
  <2>2. /\ x.text = u.text /\ Len(x.calls) = Len(u.calls)
        /\ \A j \in 1 .. Len(u.calls) :
              /\ x.calls[j].index = u.calls[j].index /\ x.calls[j].id = u.calls[j].id
              /\ x.calls[j].args = IF j = k THEN Append(u.calls[j].args, piece) ELSE u.calls[j].args
    <3>1. \E j \in 1 .. Len(u.calls) : u.calls[j].index = line.index
      BY <1>1, RCallOpen
    <3>2. PICK index : index = line.index
      OBVIOUS
    <3>3. k = R!Place(u.calls, index) /\ \E j \in 1 .. Len(u.calls) : u.calls[j].index = index
      BY <1>2, <3>1, <3>2
    <3>4. RGood(c, x) /\ RWritten(u, k, piece, x)
      BY <1>3, <1>11, <3>3, RCallWrite
    <3> QED BY <3>4, Zenon DEF RWritten
  <2>3. new[k].args = Append(old, piece)
    BY <1>9, <1>10, <1>14 DEF WithPiece, R!NoPiece, NoPiece
  <2>4. \A j \in 1 .. Len(new) : /\ x.calls[j].index = new[j].index /\ x.calls[j].id = new[j].id
                                 /\ x.calls[j].args = new[j].args
    BY <1>9, <2>2, <2>3
  <2>5. RSaysCalls(w.calls, new)
    BY <1>9, <2>1, <2>2, <2>4 DEF RSaysCalls
  <2> QED BY <1>6, <1>9, <2>1, <2>2, <2>5
<1> QED BY <1>13, <1>14

\* so does any line,
LEMMA RConsumeSays ==
    ASSUME NEW c \in View, NEW t, RGood(c, t), NEW line \in Line, NEW a \in Answer, RSays(t, a),
           NEW w, w = R!Consume(t, line), NEW x, x = Extended(a, line)
    PROVE  RSays(w, x)
<1>1. line.kind \in {"text", "call", "finish", "usage", "other"}
  BY DEF Line, CallLines
<1>2. CASE line.kind = "text"
  <2>1. line.piece \in Nat
    BY <1>2 DEF Line, CallLines
  <2>2. w = R!AddText(t, line.piece)
    BY <1>2 DEF R!Consume
  <2>3. w.text = Append(t.text, line.piece) /\ w.calls = t.calls
    BY <2>1, <2>2, RTextGood
  <2>4. x.text = Append(a.text, line.piece) /\ x.calls = a.calls /\ x.finish = "none"
    BY <1>2, ExtendedAre
  <2> QED BY <2>3, <2>4 DEF RSays, RSaysFinish
<1>3. CASE line.kind = "call"
  <2>1. line \in CallLines
    BY <1>3 DEF Line, CallLines
  <2>2. w = R!AddToolDelta(t, line)
    BY <1>3 DEF R!Consume
  <2>3. w.text = a.text /\ RSaysCalls(w.calls, MergedCall(a.calls, line))
    BY <2>1, <2>2, RCallSays
  <2>4. x.text = a.text /\ x.calls = MergedCall(a.calls, line) /\ x.finish = "none"
    BY <1>3, ExtendedAre
  <2> QED BY <2>3, <2>4 DEF RSays, RSaysFinish
<1>4. t \in RTranslator
  BY RGoodIs
<1>5. CASE line.kind = "finish"
  <2>1. w = [t EXCEPT !.reason = line.reason]
    BY <1>5 DEF R!Consume
  <2>2. w.text = t.text /\ w.calls = t.calls /\ w.reason = line.reason
    BY <1>4, <2>1 DEF RTranslator, RNotes
  <2>3. x.text = a.text /\ x.calls = a.calls /\ x.finish = line.reason
    BY <1>5, ExtendedAre
  <2> QED BY <2>2, <2>3 DEF RSays, RSaysFinish
<1>6. CASE line.kind \in {"usage", "other"}
  <2>1. w.text = t.text /\ w.calls = t.calls /\ w.reason = t.reason
    <3>1. w = t \/ w = [t EXCEPT !.usage = TRUE]
      BY <1>6 DEF R!Consume
    <3> QED BY <1>4, <3>1 DEF RTranslator, RNotes
  <2>2. x = a
    BY <1>6, ExtendedAre
  <2> QED BY <2>1, <2>2 DEF RSays, RSaysFinish
<1> QED BY <1>1, <1>2, <1>3, <1>5, <1>6

\* and any list of lines.
LEMMA RFoldSays ==
    ASSUME NEW c \in View, NEW t, RGood(c, t), NEW a \in Answer, RSays(t, a),
           NEW list \in Seq(Line), NEW u, u = R!FoldLeft(R!Consume, t, list)
    PROVE  RSays(u, Fold(AnswerTable, a, list))
<1>1. PICK f : RAlong(c, f, t, list) /\ u = f[Len(list)]
  BY RFoldThrough
<1>2. PICK g \in [0 .. Len(list) -> Answer] :
         Through(g, AnswerTable, a, list) /\ Fold(AnswerTable, a, list) = g[Len(list)]
  BY AnswerTableIs, FoldThrough
<1>3. PICK n \in Nat : n = Len(list)
  OBVIOUS
<1> DEFINE Same(i) == RSays(f[i], g[i])
           h == [i \in 0 .. n |-> IF Same(i) THEN 1 ELSE 0]
           W == {1}
<1>4. Same(0)
  BY <1>1, <1>2 DEF RAlong, Through
<1>5. ASSUME NEW i \in 1 .. n, Same(i - 1) PROVE Same(i)
  <2>1. i - 1 \in 0 .. n /\ list[i] \in Line
    BY <1>3
  <2>2. RGood(c, f[i - 1]) /\ f[i] = R!Consume(f[i - 1], list[i])
    BY <1>1, <1>3, <2>1 DEF RAlong
  <2>3. g[i - 1] \in Answer /\ g[i] = Extended(g[i - 1], list[i])
    <3>1. g[i - 1] \in Answer /\ g[i] = AnswerTable[<<g[i - 1], list[i]>>]
      BY <1>2, <1>3, <2>1 DEF Through
    <3> QED BY <2>1, <3>1, AnswerTableIs
  <2> QED BY <1>5, <2>1, <2>2, <2>3, RConsumeSays
<1>6. h[0] \in W
  BY <1>4
<1>7. ASSUME NEW i \in 1 .. n, h[i - 1] \in W PROVE h[i] \in W
  <2>1. i \in 0 .. n /\ i - 1 \in 0 .. n
    OBVIOUS
  <2>2. Same(i - 1)
    <3> HIDE DEF Same
    <3> QED BY <1>7, <2>1
  <2>3. Same(i)
    <3> HIDE DEF Same
    <3> QED BY <1>5, <2>2
  <2> HIDE DEF Same
  <2> QED BY <2>1, <2>3
<1>8. \A i \in 0 .. n : h[i] \in W
  <2> HIDE DEF h, W
  <2> QED BY <1>6, <1>7, StaysAlong
<1>9. Same(n)
  <2>1. n \in 0 .. n /\ h[n] \in W
    <3> HIDE DEF h, W
    <3> QED BY <1>8
  <2> HIDE DEF Same
  <2> QED BY <2>1
<1> QED BY <1>1, <1>2, <1>3, <1>9

\* So a chunk adds to what the translator has what it adds to the answer.
LEMMA RFeedSays ==
    ASSUME NEW sent \in Seq(Event), NEW t \in RTranslator, t.started, ~t.stopped, RParts(t),
           RItems(Seen(Unread, sent), t), NEW a \in Answer, RSays(t, a),
           NEW list \in Seq(Line), NEW u, u = R!Feed(t, list)
    PROVE  RSays(u, Fold(AnswerTable, a, list))
<1>1. PICK t0 : t0 = [t EXCEPT !.events = <<>>]
  OBVIOUS
<1>2. /\ t0 \in RTranslator /\ t0.events = <<>> /\ RSameNotes(t, t0) /\ t0.sequence = t.sequence
  <2>1. <<>> \in Seq(Event) /\ Len(<<>>) = 0
    OBVIOUS
  <2>2. t0 \in RNotes /\ t0.events = <<>> /\ RSameNotes(t, t0) /\ t0.sequence = t.sequence
    BY <1>1, <2>1 DEF RTranslator, RNotes, RSameNotes
  <2>3. t.sequence \in Nat
    BY DEF RTranslator, RNotes
  <2>4. t0.sequence >= Len(t0.events)
    BY <2>1, <2>2, <2>3
  <2> QED BY <2>2, <2>4 DEF RTranslator
<1>3. PICK c : c = Seen(Unread, sent)
  OBVIOUS
<1>4. c \in View
  BY <1>3 DEF RItems, Sound
<1>5. RGood(c, t0)
  <2>1. Seen(c, t0.events) = c
    BY <1>2, <1>4, SeenNone
  <2>2. RParts(t0) /\ Items(t0) = Items(t) /\ \A b : Pieces(t0, b) = Pieces(t, b)
    BY <1>2, RSameItems
  <2>3. RItems(c, t0)
    BY <1>2, <1>3, <2>2 DEF RItems
  <2>4. t0.started /\ ~t0.stopped
    BY <1>2 DEF RSameNotes
  <2> QED BY <1>2, <2>1, <2>2, <2>3, <2>4 DEF RGood
<1>6. RSays(t0, a)
  BY <1>2 DEF RSays, RSaysFinish, RSameNotes
<1>7. u = R!FoldLeft(R!Consume, t0, list)
  BY <1>1 DEF R!Feed
<1> QED BY <1>4, <1>5, <1>6, <1>7, RFoldSays

-----------------------------------------------------------------------------
(* What a client has read in the end *)

\* Joined, lists of which all but one are empty are that one.
LEMMA FlattenOne ==
    ASSUME NEW n \in Nat, NEW s \in [1 .. n -> Seq(Nat)], NEW at \in 0 .. n,
           \A i \in 1 .. n : i # at => s[i] = <<>>,
           NEW words, words = IF at = 0 THEN <<>> ELSE s[at]
    PROVE  FlattenSeq(s) = words
<1>1. Len(s) = n
  OBVIOUS
<1>2. CASE n = 0
  <2>1. at = 0 /\ s = <<>>
    BY <1>2
  <2> QED BY <1>1, <1>2, <2>1 DEF FlattenSeq
<1>3. CASE n # 0
  <2> DEFINE P(f) == f = [i \in 1 .. n |-> IF i = 1 THEN s[i] ELSE f[i - 1] \o s[i]]
             f == CHOOSE f : P(f)
             g == [i \in 1 .. n |-> IF at # 0 /\ at <= i THEN s[at] ELSE <<>>]
  <2>1. \A x \in Seq(Nat) : <<>> \o x = x /\ x \o <<>> = x
    OBVIOUS
  <2>2. \A i \in 1 .. n : g[i] = IF i = 1 THEN s[i] ELSE g[i - 1] \o s[i]
    <3> SUFFICES ASSUME NEW i \in 1 .. n PROVE g[i] = IF i = 1 THEN s[i] ELSE g[i - 1] \o s[i]
      OBVIOUS
    <3>1. CASE i = 1
      <4>1. at # 0 /\ at <= i <=> at = i
        BY <3>1
      <4> QED BY <3>1, <4>1
    <3>2. CASE i # 1
      <4>1. i - 1 \in 1 .. n /\ <<>> \in Seq(Nat)
        BY <3>2
      <4>2. CASE at = i
        <5>1. g[i] = s[at] /\ g[i - 1] = <<>> /\ s[at] \in Seq(Nat)
          BY <4>1, <4>2
        <5> QED BY <2>1, <3>2, <4>2, <5>1
      <4>3. CASE at # i
        <5>1. g[i] = g[i - 1] /\ s[i] = <<>>
          BY <4>1, <4>3
        <5>2. g[i - 1] \in Seq(Nat)
          BY <4>1
        <5> HIDE DEF g
        <5> QED BY <2>1, <3>2, <5>1, <5>2
      <4> QED BY <4>2, <4>3
    <3> QED BY <3>1, <3>2
  <2>3. P(g)
    <3>1. g = [i \in 1 .. n |-> g[i]]
      OBVIOUS
    <3> HIDE DEF g
    <3> QED BY <2>2, <3>1
  <2>4. P(f)
    <3> HIDE DEF P, g
    <3> QED BY <2>3
  <2>5. \A i \in 1 .. n : f[i] = IF i = 1 THEN s[i] ELSE f[i - 1] \o s[i]
    <3> HIDE DEF f, g
    <3> QED BY <2>4
  <2> DEFINE h == [i \in 0 .. n |-> IF i = 0 \/ f[i] = g[i] THEN 1 ELSE 0]
             W == {1}
  <2>6. h[0] \in W
    <3> HIDE DEF f, g
    <3> QED OBVIOUS
  <2>7. ASSUME NEW i \in 1 .. n, h[i - 1] \in W PROVE h[i] \in W
    <3> HIDE DEF f, g
    <3>1. i - 1 \in 0 .. n /\ i \in 0 .. n
      OBVIOUS
    <3>2. i - 1 # 0 => f[i - 1] = g[i - 1]
      BY <2>7, <3>1
    <3>3. f[i] = g[i]
      BY <2>2, <2>5, <3>2
    <3> QED BY <3>1, <3>3
  <2>8. \A i \in 0 .. n : h[i] \in W
    <3> HIDE DEF h, W
    <3> QED BY <2>6, <2>7, StaysAlong
  <2>9. f[n] = g[n]
    <3> HIDE DEF f, g
    <3> QED BY <1>3, <2>8
  <2>10. g[n] = words
    BY <1>3
  <2>11. FlattenSeq(s) = f[n]
    <3> HIDE DEF g, h
    <3> QED BY <1>1, <1>3 DEF FlattenSeq
  <2> QED BY <2>9, <2>10, <2>11
<1> QED BY <1>2, <1>3

\* If there is one block of text at most, the text of a client is what that block has.
LEMMA TextOfIs ==
    ASSUME NEW d \in View, Unique(d), NEW b,
           \A x \in Numbers(d) : BlockOf(d, x).kind = IF x = b THEN "text" ELSE "call",
           NEW words, words = IF b \in Numbers(d) THEN BlockOf(d, b).pieces ELSE <<>>
    PROVE  TextOf(d) = words
<1>1. PICK blocks \in Seq(ClientBlock) : blocks = d.blocks
  BY DEF View
<1>2. PICK n \in Nat : n = Len(blocks) /\ DOMAIN blocks = 1 .. n
  BY <1>1
<1>3. PICK s : s = [i \in DOMAIN blocks |->
                       IF blocks[i].kind = "text" THEN blocks[i].pieces ELSE <<>>]
  OBVIOUS
<1>4. PICK at : at = IF b \in Numbers(d) THEN BlockAt(d, b) ELSE 0
  OBVIOUS
<1>5. s \in [1 .. n -> Seq(Nat)]
  <2>1. \A i \in 1 .. n : blocks[i].pieces \in Seq(Nat)
    <3>1. \A i \in 1 .. n : blocks[i] \in ClientBlock
      BY <1>1, <1>2
    <3>2. \A x \in ClientBlock : x.pieces \in Seq(Nat)
      BY DEF ClientBlock
    <3> QED BY <3>1, <3>2
  <2>2. <<>> \in Seq(Nat)
    OBVIOUS
  <2> QED BY <1>2, <1>3, <2>1, <2>2
<1>6. \A i \in 1 .. n : /\ blocks[i].block \in Numbers(d)
                        /\ BlockOf(d, blocks[i].block) = blocks[i]
  <2> SUFFICES ASSUME NEW i \in 1 .. n
               PROVE  blocks[i].block \in Numbers(d) /\ BlockOf(d, blocks[i].block) = blocks[i]
    OBVIOUS
  <2>1. i \in DOMAIN d.blocks
    BY <1>1, <1>2
  <2> QED BY <1>1, <2>1, BlockOfIs DEF Numbers
<1>7. at \in 0 .. n /\ at # 0 => blocks[at].block = b
  BY <1>1, <1>2, <1>4, BlockAtIs
<1>8. at \in 0 .. n
  BY <1>1, <1>2, <1>4, BlockAtIs
<1>9. ASSUME NEW i \in 1 .. n, i # at PROVE s[i] = <<>>
  <2>1. blocks[i].block # b
    <3> SUFFICES ASSUME blocks[i].block = b PROVE FALSE
      OBVIOUS
    <3>1. b \in Numbers(d)
      BY <1>6
    <3>2. at # 0
      BY <1>4, <3>1, NumbersAt
    <3>3. blocks[at].block = b /\ at \in DOMAIN blocks /\ i \in DOMAIN blocks
      BY <1>2, <1>7, <1>8, <3>2
    <3> QED BY <1>1, <1>9, <3>3 DEF Unique
  <2>2. blocks[i].kind = "call"
    BY <1>6, <2>1
  <2> QED BY <1>2, <1>3, <2>2
<1>10. words = IF at = 0 THEN <<>> ELSE s[at]
  <2>1. CASE b \in Numbers(d)
    <3>1. at # 0 /\ at \in 1 .. n /\ blocks[at].block = b
      BY <1>4, <1>7, <1>8, <2>1, NumbersAt
    <3>2. BlockOf(d, b) = blocks[at] /\ blocks[at].kind = "text"
      BY <1>6, <2>1, <3>1
    <3> QED BY <1>2, <1>3, <2>1, <3>1, <3>2
  <2>2. CASE b \notin Numbers(d)
    BY <1>4, <2>2
  <2> QED BY <2>1, <2>2
<1>11. FlattenSeq(s) = words
  BY <1>5, <1>8, <1>9, <1>10, FlattenOne
<1> QED BY <1>1, <1>3, <1>11 DEF TextOf

\* The calls of a client are then the other blocks.
LEMMA CallsOfAre ==
    ASSUME NEW d \in View, Unique(d), NEW b,
           \A x \in Numbers(d) : BlockOf(d, x).kind = IF x = b THEN "text" ELSE "call"
    PROVE  /\ ArgsOf(d) = {BlockOf(d, x).pieces : x \in Numbers(d) \ {b}}
           /\ IdsOf(d) = {<<BlockOf(d, x).id, BlockOf(d, x).pieces>> : x \in Numbers(d) \ {b}}
<1> DEFINE C == {i \in DOMAIN d.blocks : d.blocks[i].kind = "call"}
           N == Numbers(d) \ {b}
<1>1. ASSUME NEW i \in C PROVE d.blocks[i].block \in N /\ BlockOf(d, d.blocks[i].block) = d.blocks[i]
  <2>1. BlockOf(d, d.blocks[i].block) = d.blocks[i] /\ d.blocks[i].block \in Numbers(d)
    BY BlockOfIs DEF Numbers
  <2>2. d.blocks[i].block # b
    BY <2>1
  <2> QED BY <2>1, <2>2
<1>2. ASSUME NEW x \in N PROVE \E i \in C : BlockOf(d, x) = d.blocks[i]
  <2>1. PICK i \in DOMAIN d.blocks : d.blocks[i].block = x
    BY DEF Numbers
  <2>2. BlockOf(d, x) = d.blocks[i]
    BY <2>1, BlockOfIs
  <2>3. i \in C
    BY <2>2
  <2> QED BY <2>2, <2>3
<1>3. ArgsOf(d) = {d.blocks[i].pieces : i \in C}
  BY DEF ArgsOf
<1>4. IdsOf(d) = {<<d.blocks[i].id, d.blocks[i].pieces>> : i \in C}
  BY DEF IdsOf
<1>5. \A y : y \in ArgsOf(d) <=> y \in {BlockOf(d, x).pieces : x \in N}
  <2> HIDE DEF C, N
  <2> QED BY <1>1, <1>2, <1>3
<1>6. \A y : y \in IdsOf(d) <=> y \in {<<BlockOf(d, x).id, BlockOf(d, x).pieces>> : x \in N}
  <2> HIDE DEF C, N
  <2> QED BY <1>1, <1>2, <1>4
<1> QED BY <1>5, <1>6

\* At the end a client of the Messages API has the answer that was translated,
LEMMA MEndSays ==
    ASSUME NEW c \in View, NEW t, MGood(c, t), NEW v, v = Seen(c, t.events), NEW a \in Answer,
           MSays(v, t, a), NEW d, Keeps(v, d, t.reason)
    PROVE  /\ TextOf(d) = a.text /\ ArgsOf(d) = AnswerArgs(a)
           /\ a.finish # "none" => d.reason = M!Buffered(a).reason
<1>1. /\ d \in View /\ Unique(d) /\ Numbers(d) = Numbers(v) /\ d.reason = t.reason
      /\ \A x \in Numbers(v) : /\ BlockOf(d, x).kind = BlockOf(v, x).kind
                               /\ BlockOf(d, x).pieces = BlockOf(v, x).pieces
  BY DEF Keeps, SameWords
<1>2. /\ MSaysText(v, t, a.text) /\ MSaysCalls(v, t.calls, a.calls) /\ MSaysFinish(t, a.finish)
  BY DEF MSays
<1>3. PICK b : b = t.text
  OBVIOUS
<1>4. /\ M!NoBlock \notin Numbers(v) /\ b \in Numbers(v) \cup {M!NoBlock}
      /\ Numbers(v) = 0 .. t.next - 1
      /\ \A k \in 1 .. Len(t.calls) : t.calls[k].block \in Numbers(v) \ {b}
  BY <1>3, MBlocksAre
<1>5. \A x \in Numbers(v) \ {b} : \E k \in 1 .. Len(t.calls) : t.calls[k].block = x
  BY <1>3, <1>4 DEF MGood, MTold, MParts
<1>6. \A x \in Numbers(d) : BlockOf(d, x).kind = IF x = b THEN "text" ELSE "call"
  BY <1>1, <1>2, <1>3 DEF MSaysText
<1>7. TextOf(d) = a.text
  <2>1. PICK words : words = IF b \in Numbers(d) THEN BlockOf(d, b).pieces ELSE <<>>
    OBVIOUS
  <2>2. TextOf(d) = words
    BY <1>1, <1>6, <2>1, TextOfIs
  <2>3. words = a.text
    BY <1>1, <1>2, <1>3, <1>4, <2>1 DEF MSaysText
  <2> QED BY <2>2, <2>3
<1>8. ArgsOf(d) = AnswerArgs(a)
  <2>1. ArgsOf(d) = {BlockOf(d, x).pieces : x \in Numbers(d) \ {b}}
    BY <1>1, <1>6, CallsOfAre
  <2>2. a.calls \in Seq(ACall)
    BY DEF Answer
  <2>3. /\ Len(t.calls) = Len(a.calls) /\ DOMAIN a.calls = 1 .. Len(a.calls)
        /\ \A k \in 1 .. Len(a.calls) : BlockOf(v, t.calls[k].block).pieces = a.calls[k].args
    BY <1>2, <2>2 DEF MSaysCalls
  <2>4. \A k \in 1 .. Len(a.calls) : BlockOf(d, t.calls[k].block).pieces = a.calls[k].args
    BY <1>1, <1>4, <2>3
  <2>5. \A y : y \in {BlockOf(d, x).pieces : x \in Numbers(d) \ {b}}
                 <=> \E k \in 1 .. Len(a.calls) : y = a.calls[k].args
    BY <1>1, <1>4, <1>5, <2>3, <2>4
  <2>6. \A y : y \in AnswerArgs(a) <=> \E k \in 1 .. Len(a.calls) : y = a.calls[k].args
    BY <2>3 DEF AnswerArgs
  <2>7. \A y : y \in ArgsOf(d) <=> y \in AnswerArgs(a)
    BY <2>1, <2>5, <2>6
  <2>8. ArgsOf(d) = {BlockOf(d, x).pieces : x \in Numbers(d) \ {b}}
        /\ AnswerArgs(a) = {a.calls[i].args : i \in DOMAIN a.calls}
    BY <2>1 DEF AnswerArgs
  <2> QED BY <2>7, <2>8
<1>9. a.finish # "none" => d.reason = M!Buffered(a).reason
  BY <1>1, <1>2 DEF MSaysFinish, M!Buffered
<1> QED BY <1>7, <1>8, <1>9

\* and so has a client of the Responses API.
LEMMA REndSays ==
    ASSUME NEW c \in View, NEW t, RGood(c, t), NEW v, v = Seen(c, t.events), NEW a \in Answer,
           RSays(t, a), NEW d, RKeeps(v, t, d, R!FinishState(t.reason))
    PROVE  /\ TextOf(d) = a.text /\ IdsOf(d) = AnswerIds(a)
           /\ a.finish # "none" => d.reason = R!Buffered(a).reason
<1>1. /\ d \in View /\ Unique(d) /\ Numbers(d) = Numbers(v) /\ d.reason = R!FinishState(t.reason)
      /\ \A x \in Numbers(v) : /\ BlockOf(d, x).kind = BlockOf(v, x).kind
                               /\ BlockOf(d, x).pieces = BlockOf(v, x).pieces
      /\ \A k \in 1 .. Len(t.calls) : BlockOf(d, k).id = t.calls[k].id
  BY DEF RKeeps, Keeps, SameWords
<1>2. t.text = a.text /\ RSaysCalls(t.calls, a.calls) /\ RSaysFinish(t, a.finish)
  BY DEF RSays
<1>3. /\ RParts(t) /\ t.message \in BOOLEAN /\ Numbers(v) = Items(t) /\ Len(t.calls) \in Nat
      /\ \A x \in Items(t) : BlockOf(v, x).pieces = Pieces(t, x) /\ BlockOf(v, x).kind = KindOf(x)
  BY RGoodIs DEF RItems
<1>4. \A x \in Numbers(d) : BlockOf(d, x).kind = IF x = 0 THEN "text" ELSE "call"
  BY <1>1, <1>3 DEF KindOf
<1>5. TextOf(d) = a.text
  <2>1. PICK words : words = IF 0 \in Numbers(d) THEN BlockOf(d, 0).pieces ELSE <<>>
    OBVIOUS
  <2>2. TextOf(d) = words
    BY <1>1, <1>4, <2>1, TextOfIs
  <2>3. words = t.text
    <3>1. CASE t.message
      <4>1. 0 \in Items(t)
        BY <3>1 DEF Items
      <4> QED BY <1>1, <1>3, <2>1, <4>1 DEF Pieces
    <3>2. CASE ~t.message
      <4>1. 0 \notin Items(t)
        BY <1>3, <3>2 DEF Items
      <4> QED BY <1>1, <1>3, <2>1, <3>2, <4>1 DEF RParts
    <3> QED BY <1>3, <3>1, <3>2
  <2> QED BY <1>2, <2>2, <2>3
<1>6. IdsOf(d) = AnswerIds(a)
  <2>1. IdsOf(d) = {<<BlockOf(d, x).id, BlockOf(d, x).pieces>> : x \in Numbers(d) \ {0}}
    BY <1>1, <1>4, CallsOfAre
  <2>2. a.calls \in Seq(ACall)
    BY DEF Answer
  <2>3. /\ Len(t.calls) = Len(a.calls) /\ DOMAIN a.calls = 1 .. Len(a.calls)
        /\ \A k \in 1 .. Len(a.calls) : t.calls[k].id = a.calls[k].id /\ t.calls[k].args = a.calls[k].args
    BY <1>2, <2>2 DEF RSaysCalls
  <2>4. Numbers(d) \ {0} = 1 .. Len(a.calls)
    BY <1>1, <1>3, <2>3 DEF Items
  <2>5. \A k \in 1 .. Len(a.calls) :
           BlockOf(d, k).id = a.calls[k].id /\ BlockOf(d, k).pieces = a.calls[k].args
    <3> TAKE k \in 1 .. Len(a.calls)
    <3>1. k # 0 /\ k \in Items(t)
      BY <2>3 DEF Items
    <3> QED BY <1>1, <1>3, <2>3, <3>1 DEF Pieces
  <2>6. IdsOf(d) = {<<a.calls[k].id, a.calls[k].args>> : k \in 1 .. Len(a.calls)}
    BY <2>1, <2>4, <2>5
  <2> QED BY <2>3, <2>6 DEF AnswerIds
<1>7. a.finish # "none" => d.reason = R!Buffered(a).reason
  BY <1>1, <1>2 DEF RSaysFinish, R!Buffered
<1> QED BY <1>5, <1>6, <1>7

-----------------------------------------------------------------------------
(* The stream and the answer *)

\* While the stream goes on and no line was cut, both clients have the answer so far.
Answering ==
    ended = "no" /\ ~cut => /\ MSays(Seen(Unread, toMessages), messages, AnswerOf(lines))
                            /\ RSays(responses, AnswerOf(lines))

SameIInv == StreamIInv /\ Answering /\ SameAsBuffered

\* At the start that is the empty answer.
LEMMA AnsweringStarts == StreamInit => SameIInv
<1> HAVE StreamInit
<1>1. PICK m : m = M!Start(M!NewTranslator)
  OBVIOUS
<1>2. PICK r : r = R!Start(R!NewTranslator)
  OBVIOUS
<1>3. /\ lines = <<>> /\ ended = "no" /\ messages = m /\ responses = r
      /\ toMessages = m.events /\ toResponses = r.events
  BY <1>1, <1>2 DEF StreamInit
<1>4. MTold(Seen(Unread, m.events), m) /\ m.text = M!NoBlock /\ m.calls = <<>>
  <2>1. m \in MTranslator /\ MTold(Seen(Unread, m.events), m)
    BY <1>1, MFirst
  <2>2. m.text = M!NoBlock /\ m.calls = <<>>
    BY <1>1 DEF M!Start, M!NewTranslator, M!Emit
  <2> QED BY <2>1, <2>2
<1>5. r.text = <<>> /\ r.calls = <<>>
  BY <1>2 DEF R!Start, R!NewTranslator, R!EmitNext, R!Emit
<1>6. PICK v : v = Seen(Unread, m.events)
  OBVIOUS
<1>7. Numbers(v) = {}
  <2>1. m.next = 0
    BY <1>4 DEF MTold, MParts
  <2>2. Numbers(v) = 0 .. m.next - 1
    BY <1>4, <1>6 DEF MTold, MBlocks
  <2> QED BY <2>1, <2>2
<1>8. PICK a \in Answer : a = AnswerOf(lines) /\ a.text = <<>> /\ a.calls = <<>> /\ a.finish = "none"
  BY <1>3, AnswersAre, AnswerTableIs DEF NoAnswer
<1>9. MSays(v, m, a)
  BY <1>4, <1>7, <1>8 DEF MSays, MSaysText, MSaysCalls, MSaysFinish
<1>10. RSays(r, a)
  BY <1>5, <1>8 DEF RSays, RSaysCalls, RSaysFinish
<1>11. Answering
  BY <1>3, <1>6, <1>8, <1>9, <1>10 DEF Answering
<1>12. SameAsBuffered
  BY <1>3 DEF SameAsBuffered
<1>13. StreamIInv
  BY StreamStarts
<1> QED BY <1>11, <1>12, <1>13 DEF SameIInv

\* A chunk keeps that true,
LEMMA ChunkSays == SameIInv /\ Chunk => SameIInv'
<1> SUFFICES ASSUME SameIInv, Chunk PROVE SameIInv'
  OBVIOUS
<1>1. /\ ended = "no" /\ StreamIInv /\ StreamState /\ Translating /\ Answering
  BY DEF SameIInv, StreamIInv, Chunk
<1>2. PICK batch \in Batches, whole \in BOOLEAN :
         LET decoded == IF whole THEN batch ELSE Front(batch)
         IN  /\ lines' = lines \o batch
             /\ cut' = (cut \/ ~whole)
             /\ messages' = M!Feed(messages, decoded)
             /\ responses' = R!Feed(responses, decoded)
  BY DEF Chunk
<1>3. /\ ended' = "no"
      /\ toMessages' = toMessages \o messages'.events
      /\ toResponses' = toResponses \o responses'.events
  BY <1>1 DEF Chunk
<1>4. ASSUME ~cut' PROVE /\ MSays(Seen(Unread, toMessages'), messages', AnswerOf(lines'))
                         /\ RSays(responses', AnswerOf(lines'))
  <2>1. ~cut /\ whole
    BY <1>2, <1>4
  <2>2. PICK list \in Seq(Line) : list = batch
    BY <1>1, BatchesAre DEF StreamState
  <2>3. PICK m, r : m = messages' /\ r = responses'
    OBVIOUS
  <2>4. /\ m = M!Feed(messages, list) /\ r = R!Feed(responses, list) /\ lines' = lines \o list
    BY <1>2, <2>1, <2>2, <2>3
  <2>5. PICK a \in Answer : a = AnswerOf(lines)
    BY <1>1, AnswersAre DEF StreamState
  <2>6. MSays(Seen(Unread, toMessages), messages, a) /\ RSays(responses, a)
    BY <1>1, <2>1, <2>5 DEF Answering
  <2>7. PICK b : b = Fold(AnswerTable, a, list)
    OBVIOUS
  <2>8. AnswerOf(lines') = b
    BY <1>1, <2>2, <2>4, <2>5, <2>7, AnswersAre DEF StreamState
  <2>9. MSays(Seen(Unread, toMessages \o m.events), m, b)
    <3>1. /\ toMessages \in Seq(Event) /\ messages \in MTranslator
          /\ MTold(Seen(Unread, toMessages), messages)
      BY <1>1 DEF StreamState, Translating
    <3> QED BY <2>4, <2>6, <2>7, <3>1, MFeedSays
  <2>10. RSays(r, b)
    <3>1. /\ toResponses \in Seq(Event) /\ responses \in RTranslator
          /\ responses.started /\ ~responses.stopped /\ RParts(responses)
          /\ RItems(Seen(Unread, toResponses), responses)
      BY <1>1 DEF StreamState, Translating
    <3> QED BY <2>4, <2>6, <2>7, <3>1, RFeedSays
  <2> QED BY <1>3, <2>3, <2>8, <2>9, <2>10
<1>5. Answering'
  BY <1>4 DEF Answering
<1>6. SameAsBuffered'
  BY <1>3 DEF SameAsBuffered
<1>7. StreamIInv'
  BY <1>1, ChunkKeeps
<1> QED BY <1>5, <1>6, <1>7 DEF SameIInv

\* and the end of the stream leaves the clients with the answer.
LEMMA EndSays == SameIInv /\ StreamEnds => SameIInv'
<1> SUFFICES ASSUME SameIInv, StreamEnds PROVE SameIInv'
  OBVIOUS
<1>1. /\ ended = "no" /\ StreamIInv /\ StreamState /\ Translating /\ Answering
  BY DEF SameIInv, StreamIInv, StreamEnds, EndWith
<1>2. PICK m, r : m = M!Finish(messages) /\ r = R!Finish(responses)
  OBVIOUS
<1>3. /\ ended' = "complete" /\ UNCHANGED <<lines, cut>>
      /\ toMessages' = toMessages \o m.events /\ toResponses' = toResponses \o r.events
      /\ fresh' = (messages.events = <<>> /\ responses.events = <<>>)
  BY <1>2 DEF StreamEnds, EndWith
<1>4. StreamIInv'
  BY <1>1, StreamEndsKeeps
<1>5. toMessages' \in Seq(Event) /\ toResponses' \in Seq(Event)
  BY <1>4 DEF StreamIInv, StreamState
<1>6. ASSUME ~cut', fresh', NEW a, a = Collapsed(lines)',
             NEW d, d = Client(toMessages)', NEW e, e = Client(toResponses)'
      PROVE  /\ TextOf(d) = a.text /\ TextOf(e) = a.text
             /\ ArgsOf(d) = AnswerArgs(a) /\ IdsOf(e) = AnswerIds(a)
             /\ a.finish # "none" => /\ d.reason = M!Buffered(a).reason
                                     /\ e.reason = R!Buffered(a).reason
  <2>1. ~cut /\ messages.events = <<>> /\ responses.events = <<>>
    BY <1>3, <1>6
  <2>2. PICK v, w : v = Seen(Unread, toMessages) /\ w = Seen(Unread, toResponses)
    OBVIOUS
  <2>3. v \in View /\ w \in View /\ MGood(v, messages) /\ RGood(w, responses)
    BY <1>1, <2>1, <2>2, Resumes
  <2>4. Seen(v, messages.events) = v /\ Seen(w, responses.events) = w
    BY <2>1, <2>3, SeenNone
  <2>5. a \in Answer /\ MSays(v, messages, a) /\ RSays(responses, a)
    <3>1. lines \in Seq(Line) /\ Collapsed(lines') = Collapsed(lines)
      BY <1>1, <1>3 DEF StreamState
    <3>2. a = AnswerOf(lines) /\ AnswerOf(lines) \in Answer
      BY <1>6, <3>1, CollapsedIs, AnswersAre
    <3> QED BY <1>1, <2>1, <2>2, <3>2 DEF Answering
  <2>6. Unread \in View
    BY DEF Unread, View, Ending
  <2>7. d = Seen(v, m.events) /\ Keeps(v, d, messages.reason)
    <3>1. MEnds(v, m, "complete") /\ Keeps(v, Seen(v, m.events), messages.reason)
      BY <1>2, <2>3, <2>4, MFinishTold
    <3>2. PICK b \in Seq(Event) : b = m.events
      BY <3>1 DEF MEnds
    <3>3. Seen(Unread, toMessages \o b) = Seen(v, b)
      BY <1>1, <2>2, <2>6, SeenConcat DEF StreamState
    <3>4. Client(toMessages') = Seen(Unread, toMessages')
      BY <1>5, ClientIs
    <3> QED BY <1>3, <1>6, <3>1, <3>2, <3>3, <3>4
  <2>8. e = Seen(w, r.events) /\ RKeeps(w, responses, e, R!FinishState(responses.reason))
    <3>1. MEnds(w, r, "complete")
          /\ RKeeps(w, responses, Seen(w, r.events), R!FinishState(responses.reason))
      BY <1>2, <2>3, <2>4, RFinishTold
    <3>2. PICK b \in Seq(Event) : b = r.events
      BY <3>1 DEF MEnds
    <3>3. Seen(Unread, toResponses \o b) = Seen(w, b)
      BY <1>1, <2>2, <2>6, SeenConcat DEF StreamState
    <3>4. Client(toResponses') = Seen(Unread, toResponses')
      BY <1>5, ClientIs
    <3> QED BY <1>3, <1>6, <3>1, <3>2, <3>3, <3>4
  <2>9. /\ TextOf(d) = a.text /\ ArgsOf(d) = AnswerArgs(a)
        /\ a.finish # "none" => d.reason = M!Buffered(a).reason
    <3>1. PICK t : t = messages
      OBVIOUS
    <3>2. v = Seen(v, t.events) /\ MGood(v, t) /\ MSays(v, t, a) /\ Keeps(v, d, t.reason)
      BY <2>3, <2>4, <2>5, <2>7, <3>1
    <3> QED BY <2>3, <2>5, <3>2, MEndSays
  <2>10. /\ TextOf(e) = a.text /\ IdsOf(e) = AnswerIds(a)
         /\ a.finish # "none" => e.reason = R!Buffered(a).reason
    <3>1. PICK t : t = responses
      OBVIOUS
    <3>2. w = Seen(w, t.events) /\ RGood(w, t) /\ RSays(t, a)
          /\ RKeeps(w, t, e, R!FinishState(t.reason))
      BY <2>3, <2>4, <2>5, <2>8, <3>1
    <3> QED BY <2>3, <2>5, <3>2, REndSays
  <2> QED BY <2>9, <2>10
<1>7. SameAsBuffered'
  BY <1>6 DEF SameAsBuffered
<1>8. Answering'
  BY <1>3 DEF Answering
<1> QED BY <1>4, <1>7, <1>8 DEF SameIInv

\* So it holds throughout.
LEMMA SameIsInvariant == StreamSpec => []SameIInv
<1>1. SameIInv /\ [StreamNext]_streamVars => SameIInv'
  <2> SUFFICES ASSUME SameIInv, [StreamNext]_streamVars PROVE SameIInv'
    OBVIOUS
  <2>1. CASE UNCHANGED streamVars
    <3>1. StreamIInv'
      BY <2>1 DEF SameIInv, streamVars, StreamIInv, StreamState, Translating, Told
    <3>2. Answering'
      BY <2>1 DEF SameIInv, streamVars, Answering
    <3>3. SameAsBuffered'
      BY <2>1 DEF SameIInv, streamVars, SameAsBuffered
    <3> QED BY <3>1, <3>2, <3>3 DEF SameIInv
  <2>2. CASE Chunk
    BY <2>2, ChunkSays
  <2>3. CASE StreamEnds
    BY <2>3, EndSays
  <2>4. CASE StreamBreaks
    <3>1. ended' = "failed"
      BY <2>4 DEF StreamBreaks, EndWith
    <3>2. StreamIInv'
      BY <2>4, StreamBreaksKeeps DEF SameIInv
    <3> QED BY <3>1, <3>2 DEF SameIInv, Answering, SameAsBuffered
  <2> QED BY <2>1, <2>2, <2>3, <2>4 DEF StreamNext
<1> QED BY <1>1, AnsweringStarts, PTL DEF StreamSpec

\* If no line was cut and the last chunk's events were not sent twice, a client of either
\* protocol has at the end of the stream what the buffered answer would have told it: the
\* text, the arguments of every call, their ids in the Responses API, and the reason the
\* upstream ended for.
THEOREM BufferedTheSame == StreamSpec => []SameAsBuffered
<1>1. SameIInv => SameAsBuffered
  BY DEF SameIInv
<1> QED BY <1>1, SameIsInvariant, PTL

-----------------------------------------------------------------------------
(* The history of a conversation.  Both translations are folds: over the   *)
(* items of the Responses API, over the turns of the Messages API and the  *)
(* blocks of each.  Good says which calls of a list of messages nothing    *)
(* has answered yet, and that only results follow a message that asks; an  *)
(* act adds a message (GoodSpeaks, GoodAnswers) or lets the last one grow  *)
(* (GoodGrows).  A turn that is not over counts as what it would become    *)
(* if it were (TurnGood).                                                  *)

\* What the values of a conversation and of a chat request are.
Act == [act : {"user"}, text : Nat, image : BOOLEAN] \cup [act : {"say"}, text : Nat]
       \cup [act : {"think"}] \cup [act : {"call", "result"}, id : CallId]
Msg == [role : {"user", "assistant", "tool"}, content : Seq(Nat), calls : Seq(CallId),
        answers : CallId \cup {NoCall}]
Turn == [role : {"user", "assistant"}, blocks : Seq(Act)]

\* An element more makes a longer list of the same.
LEMMA AppendIn ==
    ASSUME NEW S, NEW list \in Seq(S), NEW e \in S
    PROVE  Append(list, e) \in Seq(S)
OBVIOUS

\* The messages that the two translations write are chat messages.
LEMMA MessageIs ==
    /\ \A n \in Nat : /\ Message("user", <<n>>, <<>>, NoCall) \in Msg
                      /\ Message("assistant", <<n>>, <<>>, NoCall) \in Msg
    /\ \A role \in {"user", "assistant"}, t \in Seq(Nat), c \in Seq(CallId) :
          Message(role, t, c, NoCall) \in Msg
    /\ \A id \in CallId : /\ Message("assistant", <<>>, <<id>>, NoCall) \in Msg
                          /\ Message("tool", <<>>, <<>>, id) \in Msg
    /\ \A role \in {"user", "assistant"} : Message(role, <<>>, <<>>, NoCall) \in Msg
BY DEF Message, Msg

\* From the Responses API: the table of Item.
ItemState == [messages : Seq(Msg), pending : BOOLEAN]
NoItems == [messages |-> <<>>, pending |-> FALSE]
ItemTable == [p \in ItemState \X Act |-> Item(p[1], p[2])]
ItemsOf(list) == Fold(ItemTable, NoItems, list)

\* One item of the Responses API leaves well-formed notes of the translation.
LEMMA ItemIn ==
    ASSUME NEW s \in ItemState, NEW act \in Act
    PROVE  Item(s, act) \in ItemState
<1>1. CASE act.act = "call" /\ s.pending
  <2> DEFINE ms == s.messages
             n == Len(ms)
             m == [ms EXCEPT ![n].calls = Append(@, act.id)]
  <2>1. Item(s, act) = [s EXCEPT !.messages = m]
    BY <1>1 DEF Item
  <2>2. ms \in Seq(Msg) /\ act.id \in CallId
    BY <1>1 DEF ItemState, Act
  <2>3. PICK x : x = [ms[n] EXCEPT !.calls = Append(@, act.id)]
    OBVIOUS
  <2>4. n \in 1 .. n => x \in Msg
    <3> HAVE n \in 1 .. n
    <3>1. PICK y \in Msg : y = ms[n]
      BY <2>2
    <3>2. PICK c \in Seq(CallId) : c = Append(y.calls, act.id)
      <4>1. y.calls \in Seq(CallId)
        BY DEF Msg
      <4> QED BY <4>1, <2>2, AppendIn
    <3>3. x = [y EXCEPT !.calls = c]
      BY <2>3, <3>1, <3>2
    <3> QED BY <3>3 DEF Msg
  <2>5. m = [ms EXCEPT ![n] = x]
    BY <2>3
  <2>6. m \in [1 .. n -> Msg]
    <3>1. ms \in [1 .. n -> Msg]
      BY <2>2
    <3> HIDE DEF ms, n, m
    <3> QED BY <3>1, <2>4, <2>5
  <2>7. m \in Seq(Msg)
    <3>1. n \in Nat
      BY <2>2
    <3> HIDE DEF m, n
    <3> QED BY <3>1, <2>6
  <2> HIDE DEF m
  <2> QED BY <2>1, <2>7 DEF ItemState
<1>2. CASE act.act = "call" /\ ~s.pending
  <2>1. Item(s, act) = [messages |-> Append(s.messages, Message("assistant", <<>>, <<act.id>>, NoCall)),
                        pending |-> TRUE]
    BY <1>2 DEF Item
  <2>2. act.id \in CallId
    BY <1>2 DEF Act
  <2>3. PICK m \in Msg : m = Message("assistant", <<>>, <<act.id>>, NoCall)
    BY <2>2, MessageIs
  <2> QED BY <2>1, <2>3 DEF ItemState
<1>3. CASE act.act = "result"
  <2>1. Item(s, act) = [messages |-> Append(s.messages, Message("tool", <<>>, <<>>, act.id)),
                        pending |-> FALSE]
    BY <1>3 DEF Item
  <2>2. act.id \in CallId
    BY <1>3 DEF Act
  <2>3. PICK m \in Msg : m = Message("tool", <<>>, <<>>, act.id)
    BY <2>2, MessageIs
  <2> QED BY <2>1, <2>3 DEF ItemState
<1>4. CASE act.act = "think"
  BY <1>4 DEF Item
<1>5. CASE act.act \in {"user", "say"}
  <2>1. Item(s, act) = [messages |-> Append(s.messages,
                            Message(IF act.act = "user" THEN "user" ELSE "assistant",
                                    <<act.text>>, <<>>, NoCall)),
                        pending |-> FALSE]
    BY <1>5 DEF Item
  <2>2. act.text \in Nat
    BY <1>5 DEF Act
  <2>3. PICK m \in Msg : m = Message(IF act.act = "user" THEN "user" ELSE "assistant",
                                     <<act.text>>, <<>>, NoCall)
    BY <2>2, MessageIs
  <2> QED BY <2>1, <2>3 DEF ItemState
<1>6. act.act \in {"user", "say", "think", "call", "result"}
  BY DEF Act
<1> QED BY <1>1, <1>2, <1>3, <1>4, <1>5, <1>6

\* The table is of Item, and its values are notes again.
LEMMA ItemTableIs ==
    /\ NoItems \in ItemState
    /\ Folds(ItemTable, ItemState, Act)
    /\ \A s \in ItemState, act \in Act :
          ItemTable[<<s, act>>] = Item(s, act) /\ Item(s, act) \in ItemState
<1>1. \A s \in ItemState, act \in Act : Item(s, act) \in ItemState
  BY ItemIn
<1>2. \A s \in ItemState, act \in Act : ItemTable[<<s, act>>] = Item(s, act)
  BY DEF ItemTable
<1>3. Folds(ItemTable, ItemState, Act)
  BY <1>1 DEF Folds, ItemTable
<1>4. NoItems \in ItemState
  BY DEF NoItems, ItemState
<1> QED BY <1>1, <1>2, <1>3, <1>4

\* _input_to_messages, item by item, is the fold of that table.
LEMMA ItemsFold ==
    ASSUME NEW list \in Seq(Act)
    PROVE  FoldLeft(Item, [messages |-> <<>>, pending |-> FALSE], list) = ItemsOf(list)
<1> DEFINE S == DOMAIN list
           P(h) == h = [s \in SUBSET S |->
                           IF s = {} THEN NoItems
                           ELSE Item(h[s \ {Max(s)}], list[Max(s)])]
           Q(h) == h = [s \in SUBSET S |->
                           IF s = {} THEN NoItems
                           ELSE ItemTable[<<h[s \ {Max(s)}], list[Max(s)]>>]]
<1>1. IsFiniteSet(S) /\ S = 1 .. Len(list) /\ Len(list) \in Nat
  BY FS_Interval
<1>2. \A s \in SUBSET S : s # {} => Max(s) \in s /\ list[Max(s)] \in Act
  <2>1. \A s \in SUBSET S : s # {} => Max(s) \in s
    BY <1>1, GreatestIndex
  <2> QED BY <2>1
<1>3. NoItems \in ItemState
  BY ItemTableIs
<1>4. ASSUME NEW h, P(h) \/ Q(h) PROVE \A s \in SUBSET S : h[s] \in ItemState
  <2>1. h[{}] \in ItemState
    <3>1. {} \in SUBSET S
      OBVIOUS
    <3> QED BY <3>1, <1>3, <1>4
  <2>2. ASSUME NEW s \in SUBSET S, s # {}
        PROVE  \E x \in s : h[s \ {x}] \in ItemState => h[s] \in ItemState
    <3>1. Max(s) \in s /\ list[Max(s)] \in Act
      BY <1>2, <2>2
    <3>2. ASSUME h[s \ {Max(s)}] \in ItemState PROVE h[s] \in ItemState
      <4>1. \/ h[s] = Item(h[s \ {Max(s)}], list[Max(s)])
            \/ h[s] = ItemTable[<<h[s \ {Max(s)}], list[Max(s)]>>]
        BY <1>4, <2>2
      <4> QED BY <4>1, <3>1, <3>2, ItemTableIs
    <3> QED BY <3>1, <3>2
  <2> HIDE DEF S, P, Q
  <2> QED BY <1>1, <2>1, <2>2, TableStays
<1>5. ASSUME NEW h, \A s \in SUBSET S : h[s] \in ItemState PROVE P(h) <=> Q(h)
  <2>1. \A s \in SUBSET S : s # {} =>
            Item(h[s \ {Max(s)}], list[Max(s)])
                = ItemTable[<<h[s \ {Max(s)}], list[Max(s)]>>]
    <3> TAKE s \in SUBSET S
    <3> HAVE s # {}
    <3>1. s \ {Max(s)} \in SUBSET S /\ list[Max(s)] \in Act
      BY <1>2
    <3>2. h[s \ {Max(s)}] \in ItemState
      BY <3>1, <1>5
    <3> QED BY <3>1, <3>2, ItemTableIs
  <2>2. [s \in SUBSET S |-> IF s = {} THEN NoItems
                            ELSE Item(h[s \ {Max(s)}], list[Max(s)])]
        = [s \in SUBSET S |-> IF s = {} THEN NoItems
                              ELSE ItemTable[<<h[s \ {Max(s)}], list[Max(s)]>>]]
    BY <2>1
  <2> QED BY <2>2
<1>6. \A h : P(h) <=> Q(h)
  BY <1>4, <1>5
<1>7. (CHOOSE h : P(h)) = (CHOOSE h : Q(h))
  <2> HIDE DEF P, Q
  <2> QED BY <1>6
<1>8. FoldLeft(Item, [messages |-> <<>>, pending |-> FALSE], list) = (CHOOSE h : P(h))[S]
  BY DEF FoldLeft, MapThenFoldSet, NoItems
<1>9. ItemsOf(list) = (CHOOSE h : Q(h))[S]
  BY DEF ItemsOf, Fold, FoldLeft, MapThenFoldSet
<1> QED BY <1>7, <1>8, <1>9

\* What an item more adds to the translation.
LEMMA ItemsAre ==
    /\ ItemsOf(<<>>) = NoItems
    /\ \A list \in Seq(Act) : ItemsOf(list) \in ItemState
    /\ \A list \in Seq(Act), act \in Act : ItemsOf(Append(list, act)) = Item(ItemsOf(list), act)
<1>1. ASSUME NEW list \in Seq(Act), NEW act \in Act
      PROVE  ItemsOf(list) \in ItemState /\ ItemsOf(Append(list, act)) = Item(ItemsOf(list), act)
  <2>1. /\ ItemsOf(list) \in ItemState
        /\ ItemsOf(Append(list, act)) = ItemTable[<<ItemsOf(list), act>>]
    BY ItemTableIs, FoldAppend DEF ItemsOf
  <2> QED BY <2>1, ItemTableIs
<1>2. [act |-> "think"] \in Act
  BY DEF Act
<1>3. ItemsOf(<<>>) = NoItems
  BY ItemTableIs, FoldNone DEF ItemsOf
<1> QED BY <1>1, <1>2, <1>3

-----------------------------------------------------------------------------
\* From the Messages API: the table of Block, and that of the turns.
BlockState == [out : Seq(Msg), texts : Seq(Nat), calls : Seq(CallId), images : Nat]
NoBlocks == [out |-> <<>>, texts |-> <<>>, calls |-> <<>>, images |-> 0]
BlockTable == [p \in BlockState \X Act |-> Block(p[1], p[2])]
Gathered(list) == Fold(BlockTable, NoBlocks, list)

\* Flushing leaves well-formed notes.
LEMMA FlushedIn ==
    ASSUME NEW s \in BlockState, NEW role \in {"user", "assistant"}
    PROVE  Flushed(s, role) \in BlockState
<1>0. /\ s.out \in Seq(Msg) /\ s.texts \in Seq(Nat) /\ s.calls \in Seq(CallId)
      /\ s.images \in Nat
  BY DEF BlockState
<1>1. PICK m \in Msg : m = Message(role, s.texts, s.calls, NoCall)
  BY <1>0, MessageIs
<1>2. PICK o \in Seq(Msg) : o = IF role = "assistant"
                                THEN IF s.texts # <<>> \/ s.calls # <<>>
                                     THEN Append(s.out, m) ELSE s.out
                                ELSE IF s.texts # <<>> \/ s.images > 0
                                     THEN Append(s.out, m) ELSE s.out
  BY <1>0, AppendIn
<1>3. Flushed(s, role) = [out |-> o, texts |-> <<>>, calls |-> <<>>, images |-> 0]
  BY <1>1, <1>2 DEF Flushed
<1> QED BY <1>3 DEF BlockState

\* So does one block of the Messages API.
LEMMA BlockIn ==
    ASSUME NEW s \in BlockState, NEW act \in Act
    PROVE  Block(s, act) \in BlockState
<1>0. /\ s.out \in Seq(Msg) /\ s.texts \in Seq(Nat) /\ s.calls \in Seq(CallId)
      /\ s.images \in Nat
  BY DEF BlockState
<1>1. CASE act.act = "say"
  <2>1. PICK t \in Seq(Nat) : t = Append(s.texts, act.text)
    <3>1. act.text \in Nat
      BY <1>1 DEF Act
    <3> QED BY <3>1, <1>0, AppendIn
  <2>2. Block(s, act) = [s EXCEPT !.texts = t]
    BY <1>1, <2>1 DEF Block
  <2> QED BY <2>2 DEF BlockState
<1>2. CASE act.act = "user"
  <2>1. PICK t \in Seq(Nat) : t = Append(s.texts, act.text)
    <3>1. act.text \in Nat
      BY <1>2 DEF Act
    <3> QED BY <3>1, <1>0, AppendIn
  <2>2. PICK k \in Nat : k = s.images + (IF act.image THEN 1 ELSE 0)
    BY <1>0
  <2>3. Block(s, act) = [s EXCEPT !.texts = t, !.images = k]
    BY <1>2, <2>1, <2>2 DEF Block
  <2> QED BY <2>3 DEF BlockState
<1>3. CASE act.act = "call"
  <2>1. PICK c \in Seq(CallId) : c = Append(s.calls, act.id)
    <3>1. act.id \in CallId
      BY <1>3 DEF Act
    <3> QED BY <3>1, <1>0, AppendIn
  <2>2. Block(s, act) = [s EXCEPT !.calls = c]
    BY <1>3, <2>1 DEF Block
  <2> QED BY <2>2 DEF BlockState
<1>4. CASE act.act = "result"
  <2>1. PICK f : f = Flushed(s, "user")
    OBVIOUS
  <2>2. f \in BlockState /\ act.id \in CallId
    BY <2>1, <1>4, FlushedIn DEF Act
  <2>3. PICK m : m = Message("tool", <<>>, <<>>, act.id)
    OBVIOUS
  <2>4. m \in Msg
    BY <2>2, <2>3, MessageIs
  <2>5. PICK o \in Seq(Msg) : o = Append(f.out, m)
    <3>1. f.out \in Seq(Msg)
      BY <2>2 DEF BlockState
    <3> QED BY <3>1, <2>4, AppendIn
  <2>6. Block(s, act) = [f EXCEPT !.out = o]
    BY <1>4, <2>1, <2>3, <2>5 DEF Block
  <2> QED BY <2>2, <2>6 DEF BlockState
<1>5. CASE act.act = "think"
  BY <1>5 DEF Block
<1>6. act.act \in {"user", "say", "think", "call", "result"}
  BY DEF Act
<1> QED BY <1>1, <1>2, <1>3, <1>4, <1>5, <1>6

\* The table is of Block, and its values are notes again.
LEMMA BlockTableIs ==
    /\ NoBlocks \in BlockState
    /\ Folds(BlockTable, BlockState, Act)
    /\ \A s \in BlockState, act \in Act :
          BlockTable[<<s, act>>] = Block(s, act) /\ Block(s, act) \in BlockState
<1>1. \A s \in BlockState, act \in Act : Block(s, act) \in BlockState
  BY BlockIn
<1>2. \A s \in BlockState, act \in Act : BlockTable[<<s, act>>] = Block(s, act)
  BY DEF BlockTable
<1>3. Folds(BlockTable, BlockState, Act)
  BY <1>1 DEF Folds, BlockTable
<1>4. NoBlocks \in BlockState
  BY DEF NoBlocks, BlockState
<1> QED BY <1>1, <1>2, <1>3, <1>4

\* _content_to_messages, block by block, is the fold of that table.
LEMMA BlocksFold ==
    ASSUME NEW list \in Seq(Act)
    PROVE  FoldLeft(Block, [out |-> <<>>, texts |-> <<>>, calls |-> <<>>, images |-> 0], list) = Gathered(list)
<1> DEFINE S == DOMAIN list
           P(h) == h = [s \in SUBSET S |->
                           IF s = {} THEN NoBlocks
                           ELSE Block(h[s \ {Max(s)}], list[Max(s)])]
           Q(h) == h = [s \in SUBSET S |->
                           IF s = {} THEN NoBlocks
                           ELSE BlockTable[<<h[s \ {Max(s)}], list[Max(s)]>>]]
<1>1. IsFiniteSet(S) /\ S = 1 .. Len(list) /\ Len(list) \in Nat
  BY FS_Interval
<1>2. \A s \in SUBSET S : s # {} => Max(s) \in s /\ list[Max(s)] \in Act
  <2>1. \A s \in SUBSET S : s # {} => Max(s) \in s
    BY <1>1, GreatestIndex
  <2> QED BY <2>1
<1>3. NoBlocks \in BlockState
  BY BlockTableIs
<1>4. ASSUME NEW h, P(h) \/ Q(h) PROVE \A s \in SUBSET S : h[s] \in BlockState
  <2>1. h[{}] \in BlockState
    <3>1. {} \in SUBSET S
      OBVIOUS
    <3> QED BY <3>1, <1>3, <1>4
  <2>2. ASSUME NEW s \in SUBSET S, s # {}
        PROVE  \E x \in s : h[s \ {x}] \in BlockState => h[s] \in BlockState
    <3>1. Max(s) \in s /\ list[Max(s)] \in Act
      BY <1>2, <2>2
    <3>2. ASSUME h[s \ {Max(s)}] \in BlockState PROVE h[s] \in BlockState
      <4>1. \/ h[s] = Block(h[s \ {Max(s)}], list[Max(s)])
            \/ h[s] = BlockTable[<<h[s \ {Max(s)}], list[Max(s)]>>]
        BY <1>4, <2>2
      <4> QED BY <4>1, <3>1, <3>2, BlockTableIs
    <3> QED BY <3>1, <3>2
  <2> HIDE DEF S, P, Q
  <2> QED BY <1>1, <2>1, <2>2, TableStays
<1>5. ASSUME NEW h, \A s \in SUBSET S : h[s] \in BlockState PROVE P(h) <=> Q(h)
  <2>1. \A s \in SUBSET S : s # {} =>
            Block(h[s \ {Max(s)}], list[Max(s)])
                = BlockTable[<<h[s \ {Max(s)}], list[Max(s)]>>]
    <3> TAKE s \in SUBSET S
    <3> HAVE s # {}
    <3>1. s \ {Max(s)} \in SUBSET S /\ list[Max(s)] \in Act
      BY <1>2
    <3>2. h[s \ {Max(s)}] \in BlockState
      BY <3>1, <1>5
    <3> QED BY <3>1, <3>2, BlockTableIs
  <2>2. [s \in SUBSET S |-> IF s = {} THEN NoBlocks
                            ELSE Block(h[s \ {Max(s)}], list[Max(s)])]
        = [s \in SUBSET S |-> IF s = {} THEN NoBlocks
                              ELSE BlockTable[<<h[s \ {Max(s)}], list[Max(s)]>>]]
    BY <2>1
  <2> QED BY <2>2
<1>6. \A h : P(h) <=> Q(h)
  BY <1>4, <1>5
<1>7. (CHOOSE h : P(h)) = (CHOOSE h : Q(h))
  <2> HIDE DEF P, Q
  <2> QED BY <1>6
<1>8. FoldLeft(Block, [out |-> <<>>, texts |-> <<>>, calls |-> <<>>, images |-> 0], list) = (CHOOSE h : P(h))[S]
  BY DEF FoldLeft, MapThenFoldSet, NoBlocks
<1>9. Gathered(list) = (CHOOSE h : Q(h))[S]
  BY DEF Gathered, Fold, FoldLeft, MapThenFoldSet
<1> QED BY <1>7, <1>8, <1>9

\* What a block more adds to what was gathered.
LEMMA BlocksAre ==
    /\ Gathered(<<>>) = NoBlocks
    /\ \A list \in Seq(Act) : Gathered(list) \in BlockState
    /\ \A list \in Seq(Act), act \in Act : Gathered(Append(list, act)) = Block(Gathered(list), act)
<1>1. ASSUME NEW list \in Seq(Act), NEW act \in Act
      PROVE  Gathered(list) \in BlockState /\ Gathered(Append(list, act)) = Block(Gathered(list), act)
  <2>1. /\ Gathered(list) \in BlockState
        /\ Gathered(Append(list, act)) = BlockTable[<<Gathered(list), act>>]
    BY BlockTableIs, FoldAppend DEF Gathered
  <2> QED BY <2>1, BlockTableIs
<1>2. [act |-> "think"] \in Act
  BY DEF Act
<1>3. Gathered(<<>>) = NoBlocks
  BY BlockTableIs, FoldNone DEF Gathered
<1> QED BY <1>1, <1>2, <1>3

\* What a turn becomes once it is over.
Out(s, role) ==
    IF Flushed(s, role).out = <<>> THEN <<Message(role, <<>>, <<>>, NoCall)>>
    ELSE Flushed(s, role).out

\* A turn becomes a list of chat messages.
LEMMA OutIn ==
    ASSUME NEW s \in BlockState, NEW role \in {"user", "assistant"}
    PROVE  Out(s, role) \in Seq(Msg)
<1>1. Flushed(s, role).out \in Seq(Msg)
  BY FlushedIn DEF BlockState
<1>2. Message(role, <<>>, <<>>, NoCall) \in Msg
  BY MessageIs
<1> QED BY <1>1, <1>2 DEF Out

\* _content_to_messages of a turn is what its blocks gathered, flushed.
LEMMA TurnIs ==
    ASSUME NEW turn \in Turn
    PROVE  /\ ContentToMessages(turn) = Out(Gathered(turn.blocks), turn.role)
           /\ ContentToMessages(turn) \in Seq(Msg)
           /\ Gathered(turn.blocks) \in BlockState
<1>1. turn.blocks \in Seq(Act) /\ turn.role \in {"user", "assistant"}
  BY DEF Turn
<1>2. ContentToMessages(turn) = Out(Gathered(turn.blocks), turn.role)
  BY <1>1, BlocksFold DEF ContentToMessages, Out
<1> QED BY <1>1, <1>2, BlocksAre, OutIn

\* The table of the turns: the messages of one more.
TurnTable == [p \in Seq(Msg) \X Turn |-> p[1] \o ContentToMessages(p[2])]
NoMessages == <<>>
FromTurns(list) == Fold(TurnTable, NoMessages, list)

\* Its values are lists of chat messages.
LEMMA TurnTableIs ==
    /\ NoMessages \in Seq(Msg)
    /\ Folds(TurnTable, Seq(Msg), Turn)
    /\ \A s \in Seq(Msg), turn \in Turn :
          /\ TurnTable[<<s, turn>>] = s \o ContentToMessages(turn)
          /\ s \o ContentToMessages(turn) \in Seq(Msg)
<1>1. \A s \in Seq(Msg), turn \in Turn : s \o ContentToMessages(turn) \in Seq(Msg)
  BY TurnIs
<1>2. \A s \in Seq(Msg), turn \in Turn : TurnTable[<<s, turn>>] = s \o ContentToMessages(turn)
  BY DEF TurnTable
<1>3. Folds(TurnTable, Seq(Msg), Turn)
  BY <1>1 DEF Folds, TurnTable
<1>4. NoMessages \in Seq(Msg)
  BY DEF NoMessages
<1> QED BY <1>1, <1>2, <1>3, <1>4

\* anthropic_to_openai_request, turn by turn, is the fold of that table.
LEMMA TurnsFold ==
    ASSUME NEW list \in Seq(Turn)
    PROVE  FoldLeft(LAMBDA before, turn : before \o ContentToMessages(turn), <<>>, list) = FromTurns(list)
<1> DEFINE S == DOMAIN list
           P(h) == h = [s \in SUBSET S |->
                           IF s = {} THEN NoMessages
                           ELSE h[s \ {Max(s)}] \o ContentToMessages(list[Max(s)])]
           Q(h) == h = [s \in SUBSET S |->
                           IF s = {} THEN NoMessages
                           ELSE TurnTable[<<h[s \ {Max(s)}], list[Max(s)]>>]]
<1>1. IsFiniteSet(S) /\ S = 1 .. Len(list) /\ Len(list) \in Nat
  BY FS_Interval
<1>2. \A s \in SUBSET S : s # {} => Max(s) \in s /\ list[Max(s)] \in Turn
  <2>1. \A s \in SUBSET S : s # {} => Max(s) \in s
    BY <1>1, GreatestIndex
  <2> QED BY <2>1
<1>3. NoMessages \in Seq(Msg)
  BY TurnTableIs
<1>4. ASSUME NEW h, P(h) \/ Q(h) PROVE \A s \in SUBSET S : h[s] \in Seq(Msg)
  <2>1. h[{}] \in Seq(Msg)
    <3>1. {} \in SUBSET S
      OBVIOUS
    <3> QED BY <3>1, <1>3, <1>4
  <2>2. ASSUME NEW s \in SUBSET S, s # {}
        PROVE  \E x \in s : h[s \ {x}] \in Seq(Msg) => h[s] \in Seq(Msg)
    <3>1. Max(s) \in s /\ list[Max(s)] \in Turn
      BY <1>2, <2>2
    <3>2. ASSUME h[s \ {Max(s)}] \in Seq(Msg) PROVE h[s] \in Seq(Msg)
      <4>1. \/ h[s] = h[s \ {Max(s)}] \o ContentToMessages(list[Max(s)])
            \/ h[s] = TurnTable[<<h[s \ {Max(s)}], list[Max(s)]>>]
        BY <1>4, <2>2
      <4> QED BY <4>1, <3>1, <3>2, TurnTableIs
    <3> QED BY <3>1, <3>2
  <2> HIDE DEF S, P, Q
  <2> QED BY <1>1, <2>1, <2>2, TableStays
<1>5. ASSUME NEW h, \A s \in SUBSET S : h[s] \in Seq(Msg) PROVE P(h) <=> Q(h)
  <2>1. \A s \in SUBSET S : s # {} =>
            h[s \ {Max(s)}] \o ContentToMessages(list[Max(s)])
                = TurnTable[<<h[s \ {Max(s)}], list[Max(s)]>>]
    <3> TAKE s \in SUBSET S
    <3> HAVE s # {}
    <3>1. s \ {Max(s)} \in SUBSET S /\ list[Max(s)] \in Turn
      BY <1>2
    <3>2. h[s \ {Max(s)}] \in Seq(Msg)
      BY <3>1, <1>5
    <3> QED BY <3>1, <3>2, TurnTableIs
  <2>2. [s \in SUBSET S |-> IF s = {} THEN NoMessages
                            ELSE h[s \ {Max(s)}] \o ContentToMessages(list[Max(s)])]
        = [s \in SUBSET S |-> IF s = {} THEN NoMessages
                              ELSE TurnTable[<<h[s \ {Max(s)}], list[Max(s)]>>]]
    BY <2>1
  <2> QED BY <2>2
<1>6. \A h : P(h) <=> Q(h)
  BY <1>4, <1>5
<1>7. (CHOOSE h : P(h)) = (CHOOSE h : Q(h))
  <2> HIDE DEF P, Q
  <2> QED BY <1>6
<1>8. FoldLeft(LAMBDA before, turn : before \o ContentToMessages(turn), <<>>, list) = (CHOOSE h : P(h))[S]
  BY DEF FoldLeft, MapThenFoldSet, NoMessages
<1>9. FromTurns(list) = (CHOOSE h : Q(h))[S]
  BY DEF FromTurns, Fold, FoldLeft, MapThenFoldSet
<1> QED BY <1>7, <1>8, <1>9

\* What a turn more adds to the messages.
LEMMA TurnsAre ==
    /\ FromTurns(<<>>) = NoMessages
    /\ \A list \in Seq(Turn), turn \in Turn :
          /\ FromTurns(list) \in Seq(Msg)
          /\ FromTurns(Append(list, turn)) = FromTurns(list) \o ContentToMessages(turn)
<1>1. ASSUME NEW list \in Seq(Turn), NEW turn \in Turn
      PROVE  /\ FromTurns(list) \in Seq(Msg)
             /\ FromTurns(Append(list, turn)) = FromTurns(list) \o ContentToMessages(turn)
  <2>1. /\ FromTurns(list) \in Seq(Msg)
        /\ FromTurns(Append(list, turn)) = TurnTable[<<FromTurns(list), turn>>]
    BY TurnTableIs, FoldAppend DEF FromTurns
  <2> QED BY <2>1, TurnTableIs
<1>2. FromTurns(<<>>) = NoMessages
  BY TurnTableIs, FoldNone DEF FromTurns
<1> QED BY <1>1, <1>2

-----------------------------------------------------------------------------
\* The texts of messages.
TextTable == [p \in Seq(Nat) \X Msg |-> p[1] \o p[2].content]
NoTexts == <<>>
TextsOf(list) == Fold(TextTable, NoTexts, list)

\* The values of the table of texts are lists of texts.
LEMMA TextTableIs ==
    /\ NoTexts \in Seq(Nat)
    /\ Folds(TextTable, Seq(Nat), Msg)
    /\ \A s \in Seq(Nat), m \in Msg :
          TextTable[<<s, m>>] = s \o m.content /\ s \o m.content \in Seq(Nat)
<1>1. \A s \in Seq(Nat), m \in Msg : s \o m.content \in Seq(Nat)
  BY DEF Msg
<1>2. \A s \in Seq(Nat), m \in Msg : TextTable[<<s, m>>] = s \o m.content
  BY DEF TextTable
<1>3. Folds(TextTable, Seq(Nat), Msg)
  BY <1>1 DEF Folds, TextTable
<1>4. NoTexts \in Seq(Nat)
  BY DEF NoTexts
<1> QED BY <1>1, <1>2, <1>3, <1>4

\* The texts of a request are the fold of that table.
LEMMA TextsFold ==
    ASSUME NEW list \in Seq(Msg)
    PROVE  Texts(list) = TextsOf(list)
<1> DEFINE S == DOMAIN list
           P(h) == h = [s \in SUBSET S |->
                           IF s = {} THEN NoTexts
                           ELSE h[s \ {Max(s)}] \o list[Max(s)].content]
           Q(h) == h = [s \in SUBSET S |->
                           IF s = {} THEN NoTexts
                           ELSE TextTable[<<h[s \ {Max(s)}], list[Max(s)]>>]]
<1>1. IsFiniteSet(S) /\ S = 1 .. Len(list) /\ Len(list) \in Nat
  BY FS_Interval
<1>2. \A s \in SUBSET S : s # {} => Max(s) \in s /\ list[Max(s)] \in Msg
  <2>1. \A s \in SUBSET S : s # {} => Max(s) \in s
    BY <1>1, GreatestIndex
  <2> QED BY <2>1
<1>3. NoTexts \in Seq(Nat)
  BY TextTableIs
<1>4. ASSUME NEW h, P(h) \/ Q(h) PROVE \A s \in SUBSET S : h[s] \in Seq(Nat)
  <2>1. h[{}] \in Seq(Nat)
    <3>1. {} \in SUBSET S
      OBVIOUS
    <3> QED BY <3>1, <1>3, <1>4
  <2>2. ASSUME NEW s \in SUBSET S, s # {}
        PROVE  \E x \in s : h[s \ {x}] \in Seq(Nat) => h[s] \in Seq(Nat)
    <3>1. Max(s) \in s /\ list[Max(s)] \in Msg
      BY <1>2, <2>2
    <3>2. ASSUME h[s \ {Max(s)}] \in Seq(Nat) PROVE h[s] \in Seq(Nat)
      <4>1. \/ h[s] = h[s \ {Max(s)}] \o list[Max(s)].content
            \/ h[s] = TextTable[<<h[s \ {Max(s)}], list[Max(s)]>>]
        BY <1>4, <2>2
      <4> QED BY <4>1, <3>1, <3>2, TextTableIs
    <3> QED BY <3>1, <3>2
  <2> HIDE DEF S, P, Q
  <2> QED BY <1>1, <2>1, <2>2, TableStays
<1>5. ASSUME NEW h, \A s \in SUBSET S : h[s] \in Seq(Nat) PROVE P(h) <=> Q(h)
  <2>1. \A s \in SUBSET S : s # {} =>
            h[s \ {Max(s)}] \o list[Max(s)].content
                = TextTable[<<h[s \ {Max(s)}], list[Max(s)]>>]
    <3> TAKE s \in SUBSET S
    <3> HAVE s # {}
    <3>1. s \ {Max(s)} \in SUBSET S /\ list[Max(s)] \in Msg
      BY <1>2
    <3>2. h[s \ {Max(s)}] \in Seq(Nat)
      BY <3>1, <1>5
    <3> QED BY <3>1, <3>2, TextTableIs
  <2>2. [s \in SUBSET S |-> IF s = {} THEN NoTexts
                            ELSE h[s \ {Max(s)}] \o list[Max(s)].content]
        = [s \in SUBSET S |-> IF s = {} THEN NoTexts
                              ELSE TextTable[<<h[s \ {Max(s)}], list[Max(s)]>>]]
    BY <2>1
  <2> QED BY <2>2
<1>6. \A h : P(h) <=> Q(h)
  BY <1>4, <1>5
<1>7. (CHOOSE h : P(h)) = (CHOOSE h : Q(h))
  <2> HIDE DEF P, Q
  <2> QED BY <1>6
<1>8. Texts(list) = (CHOOSE h : P(h))[S]
  BY DEF FoldLeft, MapThenFoldSet, Texts, NoTexts
<1>9. TextsOf(list) = (CHOOSE h : Q(h))[S]
  BY DEF TextsOf, Fold, FoldLeft, MapThenFoldSet
<1> QED BY <1>7, <1>8, <1>9

\* What a message more adds to the texts.
LEMMA TextsAre ==
    /\ Texts(<<>>) = NoTexts
    /\ \A list \in Seq(Msg), m \in Msg :
          Texts(list) \in Seq(Nat) /\ Texts(Append(list, m)) = Texts(list) \o m.content
<1>1. ASSUME NEW list \in Seq(Msg), NEW m \in Msg
      PROVE  /\ Texts(list) \in Seq(Nat)
             /\ Texts(Append(list, m)) = Texts(list) \o m.content
  <2>1. /\ TextsOf(list) \in Seq(Nat)
        /\ TextsOf(Append(list, m)) = TextTable[<<TextsOf(list), m>>]
    BY TextTableIs, FoldAppend DEF TextsOf
  <2>2. Texts(list) = TextsOf(list) /\ Texts(Append(list, m)) = TextsOf(Append(list, m))
    <3>1. PICK more : more = Append(list, m)
      OBVIOUS
    <3>2. more \in Seq(Msg)
      BY <3>1
    <3> QED BY <3>1, <3>2, TextsFold
  <2> QED BY <2>1, <2>2, TextTableIs
<1>2. Texts(<<>>) = TextsOf(<<>>)
  <2>1. <<>> \in Seq(Msg)
    OBVIOUS
  <2> QED BY <2>1, TextsFold
<1>3. TextsOf(<<>>) = NoTexts
  BY TextTableIs, FoldNone DEF TextsOf
<1> QED BY <1>1, <1>2, <1>3

-----------------------------------------------------------------------------
\* A list of messages in the middle of a conversation: `open' is answered by nothing
\* yet, and only results follow the message that asked for it.
ToolsUpTo(ms, j, i) == \A k \in j + 1 .. i : ms[k].role = "tool"

Good(ms, open) ==
    /\ \A i \in 1 .. Len(ms) : ms[i].role = "tool" =>
          \E j \in 1 .. i - 1 : ms[i].answers \in ToSet(ms[j].calls) /\ ToolsUpTo(ms, j, i)
    /\ \A j \in 1 .. Len(ms) : \A c \in ToSet(ms[j].calls) :
          \/ \E i \in j + 1 .. Len(ms) : ToolsUpTo(ms, j, i) /\ ms[i].answers = c
          \/ c \in open /\ ToolsUpTo(ms, j, Len(ms))
    /\ \A c \in open :
          \E j \in 1 .. Len(ms) : c \in ToSet(ms[j].calls) /\ ToolsUpTo(ms, j, Len(ms))

\* The list `more' is ms, of length n, and m.
Longer(ms, m, n, more) ==
    /\ n = Len(ms) /\ more = Append(ms, m) /\ Len(more) = n + 1
    /\ \A i \in 1 .. n : more[i] = ms[i]
    /\ more[n + 1] = m
    /\ \A j, i \in 0 .. n : ToolsUpTo(more, j, i) <=> ToolsUpTo(ms, j, i)
    /\ \A j \in 0 .. n : ToolsUpTo(more, j, n + 1) <=> ToolsUpTo(ms, j, n) /\ m.role = "tool"

\* A list with a message more is Longer.
LEMMA LongerList ==
    ASSUME NEW ms \in Seq(Msg), NEW m \in Msg
    PROVE  \E n \in Nat, more \in Seq(Msg) : Longer(ms, m, n, more)
<1>1. PICK more : more = Append(ms, m)
  OBVIOUS
<1>2. PICK n \in Nat : n = Len(ms)
  OBVIOUS
<1>3. /\ more \in Seq(Msg) /\ Len(more) = n + 1 /\ more[n + 1] = m
      /\ \A i \in 1 .. n : more[i] = ms[i]
  BY <1>1, <1>2
<1>4. \A j, i \in 0 .. n : ToolsUpTo(more, j, i) <=> ToolsUpTo(ms, j, i)
  BY <1>3 DEF ToolsUpTo
<1>5. ASSUME NEW j \in 0 .. n
      PROVE  ToolsUpTo(more, j, n + 1) <=> ToolsUpTo(ms, j, n) /\ m.role = "tool"
  <2>1. j + 1 .. n + 1 = (j + 1 .. n) \cup {n + 1}
    OBVIOUS
  <2>2. \A k \in j + 1 .. n : more[k] = ms[k]
    BY <1>3
  <2> QED BY <1>3, <2>1, <2>2 DEF ToolsUpTo
<1> QED BY <1>1, <1>2, <1>3, <1>4, <1>5 DEF Longer

\* A message that is no result: nothing may be open before, its own calls are after.
LEMMA GoodSpeaks ==
    ASSUME NEW ms \in Seq(Msg), NEW m \in Msg, m.role # "tool", Good(ms, {})
    PROVE  Good(Append(ms, m), ToSet(m.calls))
<1>1. PICK n \in Nat, more \in Seq(Msg) : Longer(ms, m, n, more)
  BY LongerList
<1> USE DEF Longer
<1>2. ToolsUpTo(more, n + 1, n + 1)
  BY DEF ToolsUpTo
<1>3. ASSUME NEW i \in 1 .. n + 1, more[i].role = "tool"
      PROVE  \E j \in 1 .. i - 1 : more[i].answers \in ToSet(more[j].calls) /\ ToolsUpTo(more, j, i)
  <2>1. i \in 1 .. n
    BY <1>1, <1>3
  <2>2. PICK j \in 1 .. i - 1 : ms[i].answers \in ToSet(ms[j].calls) /\ ToolsUpTo(ms, j, i)
    BY <1>1, <1>3, <2>1 DEF Good
  <2> QED BY <1>1, <2>1, <2>2
<1>4. ASSUME NEW j \in 1 .. n + 1, NEW c \in ToSet(more[j].calls)
      PROVE  \/ \E i \in j + 1 .. n + 1 : ToolsUpTo(more, j, i) /\ more[i].answers = c
             \/ c \in ToSet(m.calls) /\ ToolsUpTo(more, j, n + 1)
  <2>1. CASE j = n + 1
    BY <2>1, <1>1, <1>2, <1>4
  <2>2. CASE j \in 1 .. n
    <3>1. PICK i \in j + 1 .. n : ToolsUpTo(ms, j, i) /\ ms[i].answers = c
      BY <2>2, <1>1, <1>4 DEF Good
    <3> QED BY <3>1, <2>2, <1>1
  <2> QED BY <2>1, <2>2
<1> QED BY <1>1, <1>2, <1>3, <1>4 DEF Good

\* A result: its call is open before and answered after.
LEMMA GoodAnswers ==
    ASSUME NEW ms \in Seq(Msg), NEW open, NEW m \in Msg, Good(ms, open),
           m.role = "tool", m.answers \in open, ToSet(m.calls) = {}
    PROVE  Good(Append(ms, m), open \ {m.answers})
<1>1. PICK n \in Nat, more \in Seq(Msg) : Longer(ms, m, n, more)
  BY LongerList
<1> USE DEF Longer
<1>3. ASSUME NEW i \in 1 .. n + 1, more[i].role = "tool"
      PROVE  \E j \in 1 .. i - 1 : more[i].answers \in ToSet(more[j].calls) /\ ToolsUpTo(more, j, i)
  <2>1. CASE i \in 1 .. n
    <3>1. PICK j \in 1 .. i - 1 : ms[i].answers \in ToSet(ms[j].calls) /\ ToolsUpTo(ms, j, i)
      BY <1>1, <1>3, <2>1 DEF Good
    <3> QED BY <1>1, <2>1, <3>1
  <2>2. CASE i = n + 1
    <3>1. PICK j \in 1 .. n : m.answers \in ToSet(ms[j].calls) /\ ToolsUpTo(ms, j, n)
      BY <1>1 DEF Good
    <3> QED BY <1>1, <2>2, <3>1
  <2> QED BY <2>1, <2>2
<1>4. ASSUME NEW j \in 1 .. n + 1, NEW c \in ToSet(more[j].calls)
      PROVE  \/ \E i \in j + 1 .. n + 1 : ToolsUpTo(more, j, i) /\ more[i].answers = c
             \/ c \in open \ {m.answers} /\ ToolsUpTo(more, j, n + 1)
  <2>1. j \in 1 .. n /\ more[j] = ms[j]
    BY <1>1, <1>4
  <2>2. CASE \E i \in j + 1 .. n : ToolsUpTo(ms, j, i) /\ ms[i].answers = c
    <3>1. PICK i \in j + 1 .. n : ToolsUpTo(ms, j, i) /\ ms[i].answers = c
      BY <2>2
    <3> QED BY <3>1, <2>1, <1>1
  <2>3. CASE c \in open /\ ToolsUpTo(ms, j, n)
    BY <2>1, <2>3, <1>1
  <2> QED BY <1>1, <1>4, <2>1, <2>2, <2>3 DEF Good
<1>5. ASSUME NEW c \in open \ {m.answers}
      PROVE  \E j \in 1 .. n + 1 : c \in ToSet(more[j].calls) /\ ToolsUpTo(more, j, n + 1)
  <2>1. PICK j \in 1 .. n : c \in ToSet(ms[j].calls) /\ ToolsUpTo(ms, j, n)
    BY <1>1 DEF Good
  <2> QED BY <2>1, <1>1
<1>6. Good(more, open \ {m.answers})
  <2>1. Len(more) = n + 1
    BY <1>1
  <2> QED BY <2>1, <1>3, <1>4, <1>5 DEF Good
<1> QED BY <1>1, <1>6

\* The last message says more or calls more.
LEMMA GoodGrows ==
    ASSUME NEW front \in Seq(Msg), NEW open, NEW m \in Msg, NEW d \in Msg,
           m.role # "tool", d.role # "tool", ToSet(m.calls) \subseteq ToSet(d.calls),
           Good(Append(front, m), open)
    PROVE  Good(Append(front, d), open \cup (ToSet(d.calls) \ ToSet(m.calls)))
<1> DEFINE now == open \cup (ToSet(d.calls) \ ToSet(m.calls))
<1>1. PICK n \in Nat, ms \in Seq(Msg) : Longer(front, m, n, ms)
  BY LongerList
<1>2. PICK k \in Nat, more \in Seq(Msg) : Longer(front, d, k, more)
  BY LongerList
<1> USE DEF Longer
<1>3. k = n /\ Good(ms, open)
  BY <1>1, <1>2
<1>4. ToolsUpTo(more, n + 1, n + 1)
  BY DEF ToolsUpTo
<1>5. ASSUME NEW i \in 1 .. n + 1, more[i].role = "tool"
      PROVE  \E j \in 1 .. i - 1 : more[i].answers \in ToSet(more[j].calls) /\ ToolsUpTo(more, j, i)
  <2>1. i \in 1 .. n /\ more[i] = ms[i]
    BY <1>1, <1>2, <1>3, <1>5
  <2>2. PICK j \in 1 .. i - 1 : ms[i].answers \in ToSet(ms[j].calls) /\ ToolsUpTo(ms, j, i)
    BY <1>1, <1>3, <1>5, <2>1 DEF Good
  <2> QED BY <1>1, <1>2, <1>3, <2>1, <2>2
<1>6. ASSUME NEW j \in 1 .. n, NEW c \in ToSet(more[j].calls)
      PROVE  \E i \in j + 1 .. n + 1 : ToolsUpTo(more, j, i) /\ more[i].answers = c
  <2>1. more[j] = ms[j] /\ ~ToolsUpTo(ms, j, n + 1)
    BY <1>1, <1>2, <1>3
  <2>2. PICK i \in j + 1 .. n + 1 : ToolsUpTo(ms, j, i) /\ ms[i].answers = c
    <3>1. j \in 1 .. Len(ms) /\ c \in ToSet(ms[j].calls) /\ Len(ms) = n + 1
      BY <1>1, <1>6, <2>1
    <3>2. \/ \E i \in j + 1 .. Len(ms) : ToolsUpTo(ms, j, i) /\ ms[i].answers = c
          \/ c \in open /\ ToolsUpTo(ms, j, Len(ms))
      BY <1>3, <3>1 DEF Good
    <3> QED BY <3>1, <3>2, <2>1
  <2>3. i \in 1 .. n
    BY <2>1, <2>2
  <2> QED BY <1>1, <1>2, <1>3, <2>2, <2>3
<1>7. ASSUME NEW c \in ToSet(d.calls)
      PROVE  c \in now
  <2>1. ASSUME c \in ToSet(m.calls) PROVE c \in open
    <3>1. n + 1 \in 1 .. Len(ms) /\ c \in ToSet(ms[n + 1].calls) /\ n + 2 .. Len(ms) = {}
      BY <1>1, <2>1
    <3>2. (n + 1) + 1 .. Len(ms) = {}
      BY <3>1
    <3> QED BY <1>3, <3>1, <3>2 DEF Good
  <2> QED BY <1>7, <2>1
<1>8. ASSUME NEW c \in now
      PROVE  c \in ToSet(d.calls)
  <2>1. ASSUME c \in open PROVE c \in ToSet(m.calls)
    <3>1. PICK j \in 1 .. n + 1 : c \in ToSet(ms[j].calls) /\ ToolsUpTo(ms, j, n + 1)
      BY <1>1, <1>3, <2>1 DEF Good
    <3>2. j = n + 1
      BY <3>1, <1>1
    <3> QED BY <3>1, <3>2, <1>1
  <2> QED BY <1>8, <2>1
<1> HIDE DEF now
<1>9. Good(more, now)
  <2>1. \A j \in 1 .. n + 1 : \A c \in ToSet(more[j].calls) :
          \/ \E i \in j + 1 .. n + 1 : ToolsUpTo(more, j, i) /\ more[i].answers = c
          \/ c \in now /\ ToolsUpTo(more, j, n + 1)
    <3> TAKE j \in 1 .. n + 1
    <3> TAKE c \in ToSet(more[j].calls)
    <3>1. CASE j = n + 1
      BY <3>1, <1>2, <1>3, <1>4, <1>7
    <3>2. CASE j \in 1 .. n
      BY <3>2, <1>6
    <3> QED BY <3>1, <3>2
  <2>2. \A c \in now : \E j \in 1 .. n + 1 : c \in ToSet(more[j].calls) /\ ToolsUpTo(more, j, n + 1)
    BY <1>2, <1>3, <1>4, <1>8
  <2>3. Len(more) = n + 1
    BY <1>2, <1>3
  <2> QED BY <2>1, <2>2, <2>3, <1>5 DEF Good
<1> QED BY <1>2, <1>9 DEF now

\* So the chat upstream takes it.
LEMMA GoodAccepted ==
    ASSUME NEW ms \in Seq(Msg), NEW open, Good(ms, open)
    PROVE  Accepts(ms, open = {})
<1>1. DOMAIN ms = 1 .. Len(ms)
  OBVIOUS
<1>2. ASSUME NEW i \in DOMAIN ms, ms[i].role = "tool"
      PROVE  \E j \in 1 .. i - 1 : /\ ms[i].answers \in ToSet(ms[j].calls)
                                   /\ \A k \in j + 1 .. i : ms[k].role = "tool"
  BY <1>1, <1>2 DEF Good, ToolsUpTo
<1>3. ASSUME open = {}, NEW j \in DOMAIN ms, NEW c \in ToSet(ms[j].calls)
      PROVE  \E i \in {k \in j + 1 .. Len(ms) : \A x \in j + 1 .. k : ms[x].role = "tool"} :
                c = ms[i].answers
  <2>1. PICK i \in j + 1 .. Len(ms) : ToolsUpTo(ms, j, i) /\ ms[i].answers = c
    BY <1>1, <1>3 DEF Good
  <2> QED BY <2>1 DEF ToolsUpTo
<1> QED BY <1>2, <1>3 DEF Accepts

-----------------------------------------------------------------------------
\* The texts so far, in their places.
Kept(texts, written) ==
    /\ texts \in Seq(Nat)
    /\ ToSet(texts) = written
    /\ \A i, j \in DOMAIN texts : i < j => texts[i] < texts[j]

\* A text that was written after the others is kept in its place.
LEMMA KeptMore ==
    ASSUME NEW texts, NEW written, Kept(texts, written), NEW x \in Nat,
           \A w \in written : w < x
    PROVE  Kept(texts \o <<x>>, written \cup {x})
<1>1. PICK n \in Nat : n = Len(texts)
  BY DEF Kept
<1>2. PICK more : more = texts \o <<x>>
  OBVIOUS
<1>3. /\ more \in Seq(Nat) /\ Len(more) = n + 1 /\ DOMAIN more = 1 .. n + 1
      /\ DOMAIN texts = 1 .. n
      /\ more[n + 1] = x /\ \A i \in 1 .. n : more[i] = texts[i]
  BY <1>1, <1>2 DEF Kept
<1>4. \A i \in 1 .. n : texts[i] \in written /\ texts[i] < x
  BY <1>3 DEF Kept, ToSet
<1>5. ToSet(more) = written \cup {x}
  <2>1. \A y \in ToSet(more) : y \in written \cup {x}
    BY <1>3, <1>4 DEF ToSet
  <2>2. \A y \in written : \E i \in 1 .. n : y = texts[i]
    BY <1>3 DEF Kept, ToSet
  <2>3. \A y \in written \cup {x} : y \in ToSet(more)
    BY <2>2, <1>3 DEF ToSet
  <2> QED BY <2>1, <2>3
<1>6. \A i, j \in DOMAIN more : i < j => more[i] < more[j]
  <2> TAKE i, j \in DOMAIN more
  <2> HAVE i < j
  <2>1. i \in 1 .. n /\ i \in Nat
    BY <1>3
  <2>2. CASE j = n + 1
    BY <2>1, <2>2, <1>3, <1>4
  <2>3. CASE j \in 1 .. n
    BY <2>1, <2>3, <1>3 DEF Kept
  <2> QED BY <2>2, <2>3, <1>3
<1> QED BY <1>2, <1>3, <1>5, <1>6 DEF Kept

-----------------------------------------------------------------------------
\* What an act adds.
LEMMA SetOf ==
    /\ ToSet(<<>>) = {}
    /\ \A x : ToSet(<<x>>) = {x}
<1>1. ToSet(<<>>) = {}
  BY DEF ToSet
<1>2. ASSUME NEW x PROVE ToSet(<<x>>) = {x}
  <2>1. DOMAIN <<x>> = {1} /\ <<x>>[1] = x
    OBVIOUS
  <2> QED BY <2>1 DEF ToSet
<1> QED BY <1>1, <1>2

\* The set of a list with an element more.
LEMMA SetMore ==
    ASSUME NEW S, NEW list \in Seq(S), NEW x \in S
    PROVE  ToSet(Append(list, x)) = ToSet(list) \cup {x}
<1>1. PICK more : more = Append(list, x)
  OBVIOUS
<1>2. PICK n \in Nat : n = Len(list)
  OBVIOUS
<1>3. /\ DOMAIN list = 1 .. n /\ DOMAIN more = (1 .. n) \cup {n + 1}
      /\ more[n + 1] = x /\ \A i \in 1 .. n : more[i] = list[i]
  BY <1>1, <1>2
<1>4. ToSet(more) = ToSet(list) \cup {x}
  BY <1>3 DEF ToSet
<1> QED BY <1>1, <1>4

\* The last element of a list, and the list with another in its place.
LEMMA LastReplaced ==
    ASSUME NEW S, NEW front \in Seq(S), NEW m \in S, NEW d \in S
    PROVE  /\ Append(front, m)[Len(Append(front, m))] = m
           /\ [Append(front, m) EXCEPT ![Len(Append(front, m))] = d] = Append(front, d)
           /\ Append(front, m) # <<>>
<1>1. PICK n \in Nat : n = Len(front)
  OBVIOUS
<1>2. PICK a, b : a = Append(front, m) /\ b = Append(front, d)
  OBVIOUS
<1>3. /\ a \in Seq(S) /\ b \in Seq(S) /\ Len(a) = n + 1 /\ Len(b) = n + 1
      /\ a[n + 1] = m /\ b[n + 1] = d /\ \A i \in 1 .. n : a[i] = b[i]
  BY <1>1, <1>2
<1>4. PICK c : c = [a EXCEPT ![n + 1] = d]
  OBVIOUS
<1>5. c = b
  <2>1. a \in [1 .. n + 1 -> S] /\ b \in [1 .. n + 1 -> S] /\ c \in [1 .. n + 1 -> S]
    BY <1>3, <1>4
  <2>2. \A i \in 1 .. n + 1 : c[i] = b[i]
    <3> TAKE i \in 1 .. n + 1
    <3>1. CASE i = n + 1
      BY <3>1, <1>3, <1>4, <2>1
    <3>2. CASE i \in 1 .. n
      BY <3>2, <1>3, <1>4, <2>1
    <3> QED BY <3>1, <3>2
  <2> QED BY <2>1, <2>2
<1>6. a # <<>>
  BY <1>3
<1> QED BY <1>2, <1>3, <1>4, <1>5, <1>6

\* A text is said in a message of its own, or at the end of the last message.
LEMMA SaysNew ==
    ASSUME NEW ms \in Seq(Msg), NEW m \in Msg, NEW x \in Nat, NEW written,
           m.role # "tool", m.content = <<x>>, ToSet(m.calls) = {}, Good(ms, {}),
           Kept(Texts(ms), written), \A w \in written : w < x
    PROVE  Good(Append(ms, m), {}) /\ Kept(Texts(Append(ms, m)), written \cup {x})
<1>1. Good(Append(ms, m), {})
  BY GoodSpeaks
<1>2. Texts(Append(ms, m)) = Texts(ms) \o <<x>>
  BY TextsAre
<1> QED BY <1>1, <1>2, KeptMore

\* The texts of a list whose last message says more.
LEMMA SaysMore ==
    ASSUME NEW front \in Seq(Msg), NEW m \in Msg, NEW d \in Msg, NEW x \in Nat, NEW written,
           NEW open, m.role # "tool", d.role # "tool", d.content = m.content \o <<x>>,
           d.calls = m.calls, Good(Append(front, m), open),
           Kept(Texts(Append(front, m)), written), \A w \in written : w < x
    PROVE  Good(Append(front, d), open) /\ Kept(Texts(Append(front, d)), written \cup {x})
<1>1. Good(Append(front, d), open)
  <2>1. Good(Append(front, d), open \cup (ToSet(d.calls) \ ToSet(m.calls)))
    BY GoodGrows
  <2>2. open \cup (ToSet(d.calls) \ ToSet(m.calls)) = open
    OBVIOUS
  <2> QED BY <2>1, <2>2
<1>2. Texts(Append(front, d)) = Texts(Append(front, m)) \o <<x>>
  <2>1. /\ Texts(front) \in Seq(Nat)
        /\ Texts(Append(front, d)) = Texts(front) \o (m.content \o <<x>>)
        /\ Texts(Append(front, m)) = Texts(front) \o m.content
    BY TextsAre
  <2>2. PICK t \in Seq(Nat) : t = Texts(front)
    BY <2>1
  <2>3. PICK c \in Seq(Nat) : c = m.content
    BY DEF Msg
  <2>4. t \o (c \o <<x>>) = (t \o c) \o <<x>>
    OBVIOUS
  <2> QED BY <2>1, <2>2, <2>3, <2>4
<1> QED BY <1>1, <1>2, KeptMore

\* Without a text nothing is added to them.
LEMMA TextsStay ==
    ASSUME NEW ms \in Seq(Msg), NEW m \in Msg, m.content = <<>>, NEW written,
           Kept(Texts(ms), written)
    PROVE  Kept(Texts(Append(ms, m)), written)
<1>1. Texts(ms) \in Seq(Nat) /\ Texts(Append(ms, m)) = Texts(ms) \o <<>>
  BY TextsAre
<1>2. PICK t \in Seq(Nat) : t = Texts(ms)
  BY <1>1
<1>3. t \o <<>> = t
  OBVIOUS
<1> QED BY <1>1, <1>2, <1>3

\* A call: in a message of its own, or in the last one.
LEMMA CallsNew ==
    ASSUME NEW ms \in Seq(Msg), NEW m \in Msg, NEW id, NEW written, m.role # "tool",
           m.content = <<>>, m.calls = <<id>>, Good(ms, {}), Kept(Texts(ms), written)
    PROVE  Good(Append(ms, m), {id}) /\ Kept(Texts(Append(ms, m)), written)
<1>1. ToSet(m.calls) = {id}
  BY SetOf
<1> QED BY <1>1, GoodSpeaks, TextsStay

\* The open calls of a list whose last message asks for more.
LEMMA CallsMore ==
    ASSUME NEW front \in Seq(Msg), NEW m \in Msg, NEW d \in Msg, NEW id \in CallId,
           NEW written, NEW open, m.role # "tool", d.role # "tool", d.content = m.content,
           d.calls = Append(m.calls, id), Good(Append(front, m), open),
           Kept(Texts(Append(front, m)), written)
    PROVE  Good(Append(front, d), open \cup {id}) /\ Kept(Texts(Append(front, d)), written)
<1>1. ToSet(d.calls) = ToSet(m.calls) \cup {id}
  <2>1. m.calls \in Seq(CallId)
    BY DEF Msg
  <2> QED BY <2>1, SetMore
<1>2. Good(Append(front, d), open \cup (ToSet(d.calls) \ ToSet(m.calls)))
  BY <1>1, GoodGrows
<1>3. ASSUME id \in ToSet(m.calls) PROVE id \in open
  <2>1. PICK n \in Nat, ms \in Seq(Msg) : Longer(front, m, n, ms)
    BY LongerList
  <2>2. Good(ms, open) /\ n + 1 \in 1 .. Len(ms) /\ id \in ToSet(ms[n + 1].calls)
        /\ (n + 1) + 1 .. Len(ms) = {}
    BY <2>1, <1>3 DEF Longer
  <2> QED BY <2>2 DEF Good
<1>4. open \cup (ToSet(d.calls) \ ToSet(m.calls)) = open \cup {id}
  BY <1>1, <1>3
<1>5. Texts(Append(front, d)) = Texts(Append(front, m))
  BY TextsAre
<1> QED BY <1>2, <1>4, <1>5

\* A result.
LEMMA Answered ==
    ASSUME NEW ms \in Seq(Msg), NEW open, NEW id \in open, NEW m \in Msg, NEW written,
           m.role = "tool", m.content = <<>>, m.calls = <<>>, m.answers = id, Good(ms, open),
           Kept(Texts(ms), written)
    PROVE  Good(Append(ms, m), open \ {id}) /\ Kept(Texts(Append(ms, m)), written)
<1>1. ToSet(m.calls) = {}
  BY SetOf
<1> QED BY <1>1, GoodAnswers, TextsStay

-----------------------------------------------------------------------------
\* The conversation.
Written == {acts[i].text : i \in {j \in DOMAIN acts : acts[j].act \in {"user", "say"}}}

\* Its types, and that texts are numbered by their places.
HistoryTypes ==
    /\ acts \in Seq(Act)
    /\ turns \in Seq(Turn)
    /\ Made("result") \subseteq Made("call")
    /\ \A w \in Written : w \in Nat /\ w <= Len(acts)

\* What one act changes of it.
Step(act) ==
    /\ act.act \in {"user", "say"} =>
          /\ OpenCalls = {} /\ OpenCalls' = {}
          /\ \A w \in Written : w < act.text
          /\ Written' = Written \cup {act.text}
    /\ act.act \in {"think", "call", "result"} => Written' = Written
    /\ act.act \in {"think", "call"} => OpenCalls = {} \/ LastAct = "call"
    /\ act.act = "think" => OpenCalls' = OpenCalls
    /\ act.act = "call" => OpenCalls' = OpenCalls \cup {act.id}
    /\ act.act = "result" => act.id \in OpenCalls /\ OpenCalls' = OpenCalls \ {act.id}
    /\ LastAct' = IF act.act = "think" THEN LastAct ELSE act.act

\* Thinking is not an act of its own.
LEMMA LastActStep ==
    ASSUME acts \in Seq(Act), NEW act \in Act, acts' = Append(acts, act)
    PROVE  LastAct' = IF act.act = "think" THEN LastAct ELSE act.act
<1>1. PICK n \in Nat : n = Len(acts)
  OBVIOUS
<1>2. /\ DOMAIN acts = 1 .. n /\ DOMAIN acts' = (1 .. n) \cup {n + 1}
      /\ acts'[n + 1] = act /\ \A i \in 1 .. n : acts'[i] = acts[i]
  BY <1>1
<1> DEFINE old == {i \in DOMAIN acts : acts[i].act # "think"}
           new == {i \in DOMAIN acts' : acts'[i].act # "think"}
           pick(S) == CHOOSE i \in S : \A j \in S : j <= i
<1>3. LastAct = IF old = {} THEN "none" ELSE acts[pick(old)].act
  BY DEF LastAct
<1>4. LastAct' = IF new = {} THEN "none" ELSE acts'[pick(new)].act
  BY DEF LastAct
<1>5. new = old \cup (IF act.act = "think" THEN {} ELSE {n + 1})
  BY <1>2
<1>6. old \subseteq 1 .. n
  BY <1>2
<1> HIDE DEF old, new
<1>7. CASE act.act = "think"
  <2>1. new = old
    BY <1>5, <1>7
  <2>2. ASSUME old # {} PROVE pick(old) \in 1 .. n
    <3>1. Max(old) \in old /\ \A y \in old : y <= Max(old)
      BY <1>6, <2>2, GreatestIndex
    <3>2. pick(old) \in old
      BY <3>1
    <3> QED BY <3>2, <1>6
  <2> QED BY <1>2, <1>3, <1>4, <1>7, <2>1, <2>2
<1>8. CASE act.act # "think"
  <2>1. n + 1 \in new /\ \A j \in new : j <= n + 1 /\ j \in Nat
    BY <1>5, <1>6, <1>8
  <2>2. pick(new) = n + 1
    <3>1. \A i \in new : (\A j \in new : j <= i) <=> i = n + 1
      BY <2>1
    <3> QED BY <2>1, <3>1
  <2> QED BY <1>2, <1>4, <1>8, <2>1, <2>2
<1> QED BY <1>7, <1>8

\* Every step of a conversation adds one act, and Step says what it changes.
LEMMA ActTakes ==
    ASSUME HistoryTypes, Converse
    PROVE  \E act \in Act : /\ acts' = Append(acts, act) /\ turns' = Joined(act)
                            /\ Step(act)
                            /\ acts' \in Seq(Act)
                            /\ (Made("result") \subseteq Made("call"))'
                            /\ (\A w \in Written : w \in Nat /\ w <= Len(acts))'
<1>1. PICK n \in Nat : n = Len(acts)
  BY DEF HistoryTypes
<1>2. PICK act \in {Think, Say(n + 1)} \cup {User(n + 1, image) : image \in BOOLEAN}
                   \cup {Call(id) : id \in CallId} \cup {Result(id) : id \in CallId} :
         /\ act.act \in {"user", "say"} => OpenCalls = {}
         /\ act.act = "call" => act.id \notin Made("call")
         /\ act.act \in {"call", "think"} => OpenCalls = {} \/ LastAct = "call"
         /\ act.act = "result" => act.id \in OpenCalls
         /\ acts' = Append(acts, act)
         /\ turns' = Joined(act)
  BY <1>1 DEF Converse
<1>3. act \in Act /\ (act.act \in {"user", "say"} => act.text = n + 1)
  BY <1>2 DEF Act, Think, Say, User, Call, Result
<1>4. /\ DOMAIN acts = 1 .. n /\ DOMAIN acts' = (1 .. n) \cup {n + 1}
      /\ acts'[n + 1] = act /\ \A i \in 1 .. n : acts'[i] = acts[i]
      /\ acts' \in Seq(Act) /\ Len(acts') = n + 1
  BY <1>1, <1>2, <1>3 DEF HistoryTypes
<1>5. \A kind : Made(kind)' = Made(kind) \cup (IF act.act = kind THEN {act.id} ELSE {})
  <2> TAKE kind
  <2> DEFINE old == {j \in DOMAIN acts : acts[j].act = kind}
             new == {j \in DOMAIN acts' : acts'[j].act = kind}
  <2>1. new = old \cup (IF act.act = kind THEN {n + 1} ELSE {})
    BY <1>4
  <2>2. \A i \in old : acts'[i].id = acts[i].id
    BY <1>4
  <2>3. Made(kind) = {acts[i].id : i \in old} /\ Made(kind)' = {acts'[i].id : i \in new}
    BY DEF Made
  <2> HIDE DEF old, new
  <2> QED BY <2>1, <2>2, <2>3, <1>4
<1>6. Written' = Written \cup (IF act.act \in {"user", "say"} THEN {act.text} ELSE {})
  <2> DEFINE old == {j \in DOMAIN acts : acts[j].act \in {"user", "say"}}
             new == {j \in DOMAIN acts' : acts'[j].act \in {"user", "say"}}
  <2>1. new = old \cup (IF act.act \in {"user", "say"} THEN {n + 1} ELSE {})
    BY <1>4
  <2>2. \A i \in old : acts'[i].text = acts[i].text
    BY <1>4
  <2>3. Written = {acts[i].text : i \in old} /\ Written' = {acts'[i].text : i \in new}
    BY DEF Written
  <2> HIDE DEF old, new
  <2> QED BY <2>1, <2>2, <2>3, <1>4
<1>7. act.act \in {"user", "say", "think", "call", "result"}
  BY <1>3 DEF Act
<1>8. (Made("result") \subseteq Made("call"))'
  BY <1>2, <1>5 DEF HistoryTypes, OpenCalls
<1>9. (\A w \in Written : w \in Nat /\ w <= Len(acts))'
  BY <1>1, <1>3, <1>4, <1>6 DEF HistoryTypes
<1>10. LastAct' = IF act.act = "think" THEN LastAct ELSE act.act
  BY <1>2, <1>3, LastActStep DEF HistoryTypes
<1>11. /\ Made("call")' = Made("call") \cup (IF act.act = "call" THEN {act.id} ELSE {})
       /\ Made("result")' = Made("result") \cup (IF act.act = "result" THEN {act.id} ELSE {})
  BY <1>5
<1>12. Step(act)
  <2>1. ASSUME act.act \in {"user", "say"} PROVE OpenCalls' = OpenCalls
    BY <2>1, <1>11 DEF OpenCalls
  <2>2. ASSUME act.act = "think" PROVE OpenCalls' = OpenCalls
    BY <2>2, <1>11 DEF OpenCalls
  <2>3. ASSUME act.act = "call" PROVE OpenCalls' = OpenCalls \cup {act.id}
    BY <2>3, <1>2, <1>11 DEF OpenCalls, HistoryTypes
  <2>4. ASSUME act.act = "result" PROVE OpenCalls' = OpenCalls \ {act.id}
    BY <2>4, <1>11 DEF OpenCalls
  <2>5. ASSUME act.act \in {"user", "say"}
        PROVE  (\A w \in Written : w < act.text) /\ Written' = Written \cup {act.text}
    BY <2>5, <1>1, <1>3, <1>6 DEF HistoryTypes
  <2>6. act.act \in {"think", "call", "result"} => Written' = Written
    BY <1>6
  <2> QED BY <2>1, <2>2, <2>3, <2>4, <2>5, <2>6, <1>2, <1>10 DEF Step
<1> QED BY <1>2, <1>3, <1>4, <1>8, <1>9, <1>12

-----------------------------------------------------------------------------
\* The messages made of the items so far.
ItemsGood ==
    LET s == ItemsOf(acts)
    IN  /\ Good(s.messages, OpenCalls)
        /\ Kept(Texts(s.messages), Written)
        /\ s.pending <=> LastAct = "call"
        /\ s.pending => \E front \in Seq(Msg), m \in Msg :
                            s.messages = Append(front, m) /\ m.role # "tool"

\* An act more keeps the messages made of the items good.
LEMMA ItemsStay ==
    ASSUME acts \in Seq(Act), ItemsGood, NEW act \in Act, acts' = Append(acts, act), Step(act)
    PROVE  ItemsGood'
<1>1. PICK s \in ItemState : s = ItemsOf(acts)
  BY ItemsAre
<1>2. PICK t \in ItemState : t = ItemsOf(acts')
  <2>1. acts' \in Seq(Act)
    OBVIOUS
  <2> QED BY <2>1, ItemsAre
<1>3. t = Item(s, act)
  BY <1>1, <1>2, ItemsAre
<1>4. PICK ms \in Seq(Msg) : ms = s.messages
  BY DEF ItemState
<1>5. /\ Good(ms, OpenCalls)
      /\ Kept(Texts(ms), Written)
      /\ s.pending <=> LastAct = "call"
      /\ s.pending => \E front \in Seq(Msg), m \in Msg : ms = Append(front, m) /\ m.role # "tool"
  BY <1>1, <1>4 DEF ItemsGood
<1> DEFINE Goal == /\ Good(t.messages, OpenCalls')
                   /\ Kept(Texts(t.messages), Written')
                   /\ t.pending <=> LastAct' = "call"
                   /\ t.pending => \E front \in Seq(Msg), m \in Msg :
                                       t.messages = Append(front, m) /\ m.role # "tool"
<1>6. Goal => ItemsGood'
  BY <1>2 DEF ItemsGood
<1>7. CASE act.act \in {"user", "say"}
  <2>1. PICK role \in {"user", "assistant"} : role = IF act.act = "user" THEN "user" ELSE "assistant"
    OBVIOUS
  <2>2. act.text \in Nat
    BY <1>7 DEF Act
  <2>3. PICK m \in Msg : m = Message(role, <<act.text>>, <<>>, NoCall)
    <3>1. <<act.text>> \in Seq(Nat) /\ <<>> \in Seq(CallId)
      BY <2>2
    <3> QED BY <3>1, MessageIs
  <2>4. m.role # "tool" /\ m.content = <<act.text>> /\ ToSet(m.calls) = {}
    BY <2>1, <2>3, SetOf DEF Message
  <2>5. t.messages = Append(ms, m) /\ t.pending = FALSE
    BY <1>3, <1>4, <1>7, <2>1, <2>3 DEF Item
  <2>6. /\ OpenCalls = {} /\ OpenCalls' = {} /\ Written' = Written \cup {act.text}
        /\ LastAct' # "call" /\ \A w \in Written : w < act.text
    BY <1>7 DEF Step
  <2>7. Good(t.messages, {}) /\ Kept(Texts(t.messages), Written \cup {act.text})
    BY <1>5, <2>2, <2>4, <2>5, <2>6, SaysNew
  <2> QED BY <1>6, <2>5, <2>6, <2>7
<1>8. CASE act.act = "think"
  <2>1. /\ OpenCalls' = OpenCalls /\ Written' = Written /\ LastAct' = LastAct
    BY <1>8 DEF Step
  <2>2. t = s
    BY <1>3, <1>8 DEF Item
  <2> QED BY <1>4, <1>5, <1>6, <2>1, <2>2
<1>9. CASE act.act = "result"
  <2>1. /\ act.id \in OpenCalls /\ OpenCalls' = OpenCalls \ {act.id} /\ Written' = Written
        /\ LastAct' = "result"
    BY <1>9 DEF Step
  <2>2. PICK m \in Msg : m = Message("tool", <<>>, <<>>, act.id)
    <3>1. act.id \in CallId
      BY <1>9 DEF Act
    <3> QED BY <3>1, MessageIs
  <2>3. m.role = "tool" /\ m.content = <<>> /\ m.calls = <<>> /\ m.answers = act.id
    BY <2>2 DEF Message
  <2>4. t.messages = Append(ms, m) /\ t.pending = FALSE
    BY <1>3, <1>4, <1>9, <2>2 DEF Item
  <2>5. Good(Append(ms, m), OpenCalls \ {act.id}) /\ Kept(Texts(Append(ms, m)), Written)
    BY <1>5, <2>1, <2>3, Answered
  <2> QED BY <1>6, <2>1, <2>4, <2>5
<1>10. CASE act.act = "call"
  <2>1. /\ OpenCalls = {} \/ LastAct = "call"
        /\ OpenCalls' = OpenCalls \cup {act.id} /\ Written' = Written /\ LastAct' = "call"
    BY <1>10 DEF Step
  <2>2. act.id \in CallId
    BY <1>10 DEF Act
  <2>3. CASE s.pending
    <3>1. PICK front \in Seq(Msg), m \in Msg : ms = Append(front, m) /\ m.role # "tool"
      BY <1>5, <2>3
    <3>2. PICK d : d = [m EXCEPT !.calls = Append(@, act.id)]
      OBVIOUS
    <3>3. d \in Msg /\ d.role = m.role /\ d.content = m.content /\ d.calls = Append(m.calls, act.id)
      <4>1. PICK c \in Seq(CallId) : c = Append(m.calls, act.id)
        <5>1. m.calls \in Seq(CallId)
          BY DEF Msg
        <5> QED BY <5>1, <2>2, AppendIn
      <4>2. d = [m EXCEPT !.calls = c]
        BY <3>2, <4>1
      <4> QED BY <4>1, <4>2 DEF Msg
    <3>4. t.messages = Append(front, d) /\ t.pending
      <4>1. ms[Len(ms)] = m /\ [ms EXCEPT ![Len(ms)] = d] = Append(front, d)
        BY <3>1, <3>3, LastReplaced
      <4>2. [ms EXCEPT ![Len(ms)].calls = Append(@, act.id)] = [ms EXCEPT ![Len(ms)] = d]
        BY <4>1, <3>2
      <4>3. t = [s EXCEPT !.messages[Len(s.messages)].calls = Append(@, act.id)]
        BY <1>3, <1>10, <2>3 DEF Item
      <4>4. t = [s EXCEPT !.messages = [ms EXCEPT ![Len(ms)].calls = Append(@, act.id)]]
        BY <4>3, <1>4
      <4> QED BY <4>1, <4>2, <4>4, <2>3 DEF ItemState
    <3>5. Good(Append(front, d), OpenCalls \cup {act.id}) /\ Kept(Texts(Append(front, d)), Written)
      BY <1>5, <2>2, <3>1, <3>3, CallsMore
    <3> QED BY <1>6, <2>1, <3>1, <3>3, <3>4, <3>5
  <2>4. CASE ~s.pending
    <3>1. PICK m \in Msg : m = Message("assistant", <<>>, <<act.id>>, NoCall)
      BY <2>2, MessageIs
    <3>2. m.role # "tool" /\ m.content = <<>> /\ m.calls = <<act.id>>
      BY <3>1 DEF Message
    <3>3. t.messages = Append(ms, m) /\ t.pending
      BY <1>3, <1>4, <1>10, <2>4, <3>1 DEF Item
    <3>4. OpenCalls = {} /\ OpenCalls' = {act.id}
      BY <1>5, <2>1, <2>4
    <3>5. Good(Append(ms, m), {act.id}) /\ Kept(Texts(Append(ms, m)), Written)
      BY <1>5, <3>2, <3>4, CallsNew
    <3> QED BY <1>6, <2>1, <3>2, <3>3, <3>4, <3>5
  <2> QED BY <2>3, <2>4
<1>11. act.act \in {"user", "say", "think", "call", "result"}
  BY DEF Act
<1> QED BY <1>7, <1>8, <1>9, <1>10, <1>11

\* A request that has no message gets an empty one.
LEMMA OrEmptyGood ==
    ASSUME NEW ms \in Seq(Msg), NEW open, Good(ms, open), NEW written, Kept(Texts(ms), written)
    PROVE  Accepts(OrEmpty(ms), open = {}) /\ Kept(Texts(OrEmpty(ms)), written)
<1>1. CASE ms # <<>>
  BY <1>1, GoodAccepted DEF OrEmpty
<1>2. CASE ms = <<>>
  <2>1. PICK m \in Msg : m = Message("user", <<>>, <<>>, NoCall)
    BY MessageIs
  <2>2. m.role = "user" /\ m.content = <<>> /\ m.calls = <<>>
    BY <2>1 DEF Message
  <2>3. OrEmpty(ms) = <<m>> /\ <<m>> = Append(ms, m)
    BY <1>2, <2>1 DEF OrEmpty
  <2>4. Good(Append(ms, m), {})
    <3>1. Good(ms, {}) /\ ToSet(m.calls) = {}
      BY <1>2, <2>2, SetOf DEF Good
    <3> QED BY <3>1, <2>2, GoodSpeaks
  <2>5. open = {}
    BY <1>2 DEF Good
  <2>6. Accepts(Append(ms, m), open = {})
    <3>1. PICK list \in Seq(Msg) : list = Append(ms, m)
      BY AppendIn
    <3>2. Good(list, open)
      BY <2>4, <2>5, <3>1
    <3>3. Accepts(list, open = {})
      BY <3>2, GoodAccepted
    <3> QED BY <3>1, <3>3
  <2>7. Kept(Texts(Append(ms, m)), written)
    BY <2>2, TextsStay
  <2> QED BY <2>3, <2>6, <2>7
<1> QED BY <1>1, <1>2

\* The request made of the items is accepted and complete.
LEMMA ResponsesGood ==
    ASSUME acts \in Seq(Act), ItemsGood
    PROVE  Accepts(FromResponses, OpenCalls = {}) /\ Kept(Texts(FromResponses), Written)
<1>1. ItemsOf(acts).messages \in Seq(Msg)
  BY ItemsAre DEF ItemState
<1>2. FromResponses = OrEmpty(ItemsOf(acts).messages)
  BY ItemsFold DEF FromResponses
<1> QED BY <1>1, <1>2, OrEmptyGood DEF ItemsGood

-----------------------------------------------------------------------------
\* The messages made of the turns so far: those of the turns that are over, and what
\* the last would become if it were.
TurnGood(before, s, role, open, written, last) ==
    /\ Good(before \o Out(s, role), open)
    /\ Kept(Texts(before \o Out(s, role)), written)
    /\ role = "assistant" => s.out = <<>>
    /\ role = "user" => /\ s.calls = <<>>
                        /\ s.texts # <<>> \/ s.out # <<>>
                        /\ last # "call"
                        /\ open # {} => s.texts = <<>> /\ s.images = 0

\* A concatenation that ends in a longer list.
LEMMA ConcatAppend ==
    ASSUME NEW S, NEW a \in Seq(S), NEW b \in Seq(S), NEW x \in S
    PROVE  Append(b, x) # <<>> /\ a \o Append(b, x) = Append(a \o b, x)
<1>1. Append(b, x) # <<>>
  OBVIOUS
<1>2. a \o Append(b, x) = Append(a \o b, x)
  OBVIOUS
<1> QED BY <1>1, <1>2

\* A turn of the assistant becomes one message.
LEMMA AssistantOut ==
    ASSUME NEW before \in Seq(Msg), NEW s \in BlockState, s.out = <<>>
    PROVE  before \o Out(s, "assistant")
              = Append(before, Message("assistant", s.texts, s.calls, NoCall))
<1>1. PICK m \in Msg : m = Message("assistant", s.texts, s.calls, NoCall)
  <2>1. s.texts \in Seq(Nat) /\ s.calls \in Seq(CallId)
    BY DEF BlockState
  <2> QED BY <2>1, MessageIs
<1>2. Append(s.out, m) = <<m>> /\ <<m>> # <<>>
  OBVIOUS
<1>3. Out(s, "assistant") = <<m>>
  <2>1. CASE s.texts # <<>> \/ s.calls # <<>>
    <3>1. Flushed(s, "assistant").out = <<m>>
      BY <1>1, <1>2, <2>1 DEF Flushed
    <3> QED BY <3>1, <1>2 DEF Out
  <2>2. CASE s.texts = <<>> /\ s.calls = <<>>
    <3>1. Flushed(s, "assistant").out = <<>>
      BY <2>2 DEF Flushed
    <3> QED BY <3>1, <1>1, <2>2 DEF Out
  <2> QED BY <2>1, <2>2
<1>4. before \o <<m>> = Append(before, m)
  OBVIOUS
<1> QED BY <1>1, <1>3, <1>4

\* A turn of the user becomes the results it gives, and what it says after them.
LEMMA UserOut ==
    ASSUME NEW before \in Seq(Msg), NEW s \in BlockState
    PROVE  /\ s.texts = <<>> /\ s.images = 0 /\ s.out # <<>>
                => before \o Out(s, "user") = before \o s.out
           /\ s.texts # <<>> \/ s.images > 0
                => before \o Out(s, "user")
                      = Append(before \o s.out, Message("user", s.texts, s.calls, NoCall))
<1>1. CASE s.texts = <<>> /\ s.images = 0 /\ s.out # <<>>
  <2>1. Flushed(s, "user").out = s.out
    BY <1>1 DEF Flushed
  <2> QED BY <1>1, <2>1 DEF Out
<1>2. CASE s.texts # <<>> \/ s.images > 0
  <2>1. PICK m \in Msg : m = Message("user", s.texts, s.calls, NoCall)
    <3>1. s.texts \in Seq(Nat) /\ s.calls \in Seq(CallId)
      BY DEF BlockState
    <3> QED BY <3>1, MessageIs
  <2>2. PICK o \in Seq(Msg) : o = s.out
    BY DEF BlockState
  <2>3. Flushed(s, "user").out = Append(o, m)
    BY <1>2, <2>1, <2>2 DEF Flushed
  <2>4. Append(o, m) # <<>> /\ before \o Append(o, m) = Append(before \o o, m)
    OBVIOUS
  <2>5. Out(s, "user") = Append(o, m)
    BY <2>3, <2>4 DEF Out
  <2>6. s.texts # <<>> \/ s.images > 0 => ~(s.texts = <<>> /\ s.images = 0)
    OBVIOUS
  <2> QED BY <1>2, <2>1, <2>2, <2>4, <2>5, <2>6
<1> QED BY <1>1, <1>2

\* A concatenation is a list of the same.
LEMMA ConcatIn ==
    ASSUME NEW S, NEW a \in Seq(S), NEW b \in Seq(S)
    PROVE  a \o b \in Seq(S)
OBVIOUS

\* What was gathered, after a block.
LEMMA BlockSays ==
    ASSUME NEW s \in BlockState, NEW act \in Act, NEW t \in BlockState, t = Block(s, act)
    PROVE  /\ act.act \in {"say", "user"} =>
                 t.out = s.out /\ t.texts = s.texts \o <<act.text>> /\ t.calls = s.calls
           /\ act.act = "call" =>
                 t.out = s.out /\ t.texts = s.texts /\ t.calls = Append(s.calls, act.id)
           /\ act.act = "think" => t = s
           /\ act.act = "result" /\ s.texts = <<>> /\ s.images = 0 /\ s.calls = <<>> =>
                 /\ t.out = Append(s.out, Message("tool", <<>>, <<>>, act.id))
                 /\ t.texts = <<>> /\ t.calls = <<>> /\ t.images = 0
<1>1. /\ s.out \in Seq(Msg) /\ s.texts \in Seq(Nat) /\ s.calls \in Seq(CallId) /\ s.images \in Nat
  BY DEF BlockState
<1>2. ASSUME act.act \in {"say", "user"}
      PROVE  t.out = s.out /\ t.texts = s.texts \o <<act.text>> /\ t.calls = s.calls
  <2>1. PICK x \in Nat : x = act.text
    BY <1>2 DEF Act
  <2>2. PICK a : a = Append(s.texts, x)
    OBVIOUS
  <2>3. a = s.texts \o <<x>>
    <3>1. PICK b \in Seq(Nat) : b = s.texts
      BY <1>1
    <3>2. Append(b, x) = b \o <<x>>
      OBVIOUS
    <3> QED BY <2>2, <3>1, <3>2
  <2>4. \E k : t = [s EXCEPT !.texts = a, !.images = k] \/ t = [s EXCEPT !.texts = a]
    BY <1>2, <2>1, <2>2 DEF Block
  <2>5. t.out = s.out /\ t.texts = a /\ t.calls = s.calls
    BY <2>4 DEF BlockState
  <2> QED BY <2>1, <2>3, <2>5
<1>3. ASSUME act.act = "call"
      PROVE  t.out = s.out /\ t.texts = s.texts /\ t.calls = Append(s.calls, act.id)
  <2>1. PICK a : a = Append(s.calls, act.id)
    OBVIOUS
  <2>2. t = [s EXCEPT !.calls = a]
    BY <1>3, <2>1 DEF Block
  <2>3. t.out = s.out /\ t.texts = s.texts /\ t.calls = a
    BY <2>2 DEF BlockState
  <2> QED BY <2>1, <2>3
<1>4. act.act = "think" => t = s
  BY DEF Block
<1>5. ASSUME act.act = "result", s.texts = <<>>, s.images = 0, s.calls = <<>>
      PROVE  /\ t.out = Append(s.out, Message("tool", <<>>, <<>>, act.id))
             /\ t.texts = <<>> /\ t.calls = <<>> /\ t.images = 0
  <2>1. PICK f : f = [out |-> s.out, texts |-> <<>>, calls |-> <<>>, images |-> 0]
    OBVIOUS
  <2>2. Flushed(s, "user") = f
    BY <1>5, <2>1 DEF Flushed
  <2>3. PICK o : o = Append(s.out, Message("tool", <<>>, <<>>, act.id))
    OBVIOUS
  <2>4. t = [f EXCEPT !.out = Append(f.out, Message("tool", <<>>, <<>>, act.id))]
    BY <1>5, <2>2 DEF Block
  <2>5. f.out = s.out
    BY <2>1
  <2>6. t = [f EXCEPT !.out = o]
    BY <2>3, <2>4, <2>5
  <2>7. t = [out |-> o, texts |-> <<>>, calls |-> <<>>, images |-> 0]
    BY <2>1, <2>6
  <2>8. t.out = o /\ t.texts = <<>> /\ t.calls = <<>> /\ t.images = 0
    BY <2>7
  <2> QED BY <2>3, <2>8
<1> QED BY <1>2, <1>3, <1>4, <1>5

\* An act of the side that has the turn.
LEMMA SameTurn ==
    ASSUME NEW before \in Seq(Msg), NEW s \in BlockState, NEW act \in Act, Step(act),
           TurnGood(before, s, Side(act), OpenCalls, Written, LastAct)
    PROVE  TurnGood(before, Block(s, act), Side(act), OpenCalls', Written', LastAct')
<1>1. PICK t \in BlockState : t = Block(s, act)
  BY BlockIn
<1>2. /\ s.out \in Seq(Msg) /\ s.texts \in Seq(Nat) /\ s.calls \in Seq(CallId) /\ s.images \in Nat
  BY DEF BlockState
<1>3. CASE act.act = "think"
  <2>1. /\ OpenCalls' = OpenCalls /\ Written' = Written /\ LastAct' = LastAct
    BY <1>3 DEF Step
  <2>2. Block(s, act) = s
    BY <1>1, <1>3, BlockSays
  <2> QED BY <2>1, <2>2
<1>4. CASE act.act \in {"say", "call"}
  <2>1. Side(act) = "assistant" /\ s.out = <<>>
    BY <1>4 DEF Side, TurnGood
  <2>2. t.out = <<>>
    BY <1>1, <1>4, <2>1, BlockSays
  <2>3. PICK m \in Msg : m = Message("assistant", s.texts, s.calls, NoCall)
    BY <1>2, MessageIs
  <2>4. PICK d \in Msg : d = Message("assistant", t.texts, t.calls, NoCall)
    <3>1. t.texts \in Seq(Nat) /\ t.calls \in Seq(CallId)
      BY DEF BlockState
    <3> QED BY <3>1, MessageIs
  <2>5. /\ m.role # "tool" /\ m.content = s.texts /\ m.calls = s.calls
        /\ d.role # "tool" /\ d.content = t.texts /\ d.calls = t.calls
    BY <2>3, <2>4 DEF Message
  <2>6. /\ before \o Out(s, "assistant") = Append(before, m)
        /\ before \o Out(t, "assistant") = Append(before, d)
    BY <2>1, <2>2, <2>3, <2>4, AssistantOut
  <2>7. Good(Append(before, m), OpenCalls) /\ Kept(Texts(Append(before, m)), Written)
    BY <2>1, <2>6 DEF TurnGood
  <2>8. Good(Append(before, d), OpenCalls') /\ Kept(Texts(Append(before, d)), Written')
    <3>1. CASE act.act = "say"
      <4>1. t.texts = s.texts \o <<act.text>> /\ t.calls = s.calls
        BY <1>1, <3>1, BlockSays
      <4>2. /\ OpenCalls' = OpenCalls /\ Written' = Written \cup {act.text}
            /\ \A w \in Written : w < act.text
        BY <3>1 DEF Step
      <4>3. act.text \in Nat
        BY <3>1 DEF Act
      <4> QED BY <2>5, <2>7, <4>1, <4>2, <4>3, SaysMore
    <3>2. CASE act.act = "call"
      <4>1. t.texts = s.texts /\ t.calls = Append(s.calls, act.id)
        BY <1>1, <3>2, BlockSays
      <4>2. OpenCalls' = OpenCalls \cup {act.id} /\ Written' = Written
        BY <3>2 DEF Step
      <4>3. act.id \in CallId
        BY <3>2 DEF Act
      <4> QED BY <2>5, <2>7, <4>1, <4>2, <4>3, CallsMore
    <3> QED BY <1>4, <3>1, <3>2
  <2> QED BY <1>1, <2>1, <2>2, <2>6, <2>8 DEF TurnGood
<1>5. CASE act.act = "user"
  <2>1. /\ Side(act) = "user" /\ s.calls = <<>> /\ (s.texts # <<>> \/ s.out # <<>>)
        /\ Good(before \o Out(s, "user"), OpenCalls)
        /\ Kept(Texts(before \o Out(s, "user")), Written)
    BY <1>5 DEF Side, TurnGood
  <2>2. /\ OpenCalls = {} /\ OpenCalls' = {} /\ Written' = Written \cup {act.text}
        /\ \A w \in Written : w < act.text
        /\ LastAct' = "user"
    BY <1>5 DEF Step
  <2>3. act.text \in Nat
    BY <1>5 DEF Act
  <2>4. t.texts = s.texts \o <<act.text>> /\ t.calls = <<>> /\ t.out = s.out
    BY <1>1, <1>5, <2>1, BlockSays
  <2>5. t.texts # <<>>
    <3>1. PICK x \in Nat, a \in Seq(Nat) : x = act.text /\ a = s.texts
      BY <1>2, <2>3
    <3>2. a \o <<x>> # <<>>
      OBVIOUS
    <3> QED BY <2>4, <3>1, <3>2
  <2>6. PICK d \in Msg : d = Message("user", t.texts, t.calls, NoCall)
    <3>1. t.texts \in Seq(Nat) /\ t.calls \in Seq(CallId)
      BY DEF BlockState
    <3> QED BY <3>1, MessageIs
  <2>7. d.role # "tool" /\ d.content = s.texts \o <<act.text>> /\ d.calls = <<>>
    BY <2>4, <2>6 DEF Message
  <2>8. PICK front \in Seq(Msg) : front = before \o s.out
    BY <1>2, ConcatIn
  <2>9. before \o Out(t, "user") = Append(front, d)
    BY <2>4, <2>5, <2>6, <2>8, UserOut
  <2>10. Good(Append(front, d), {}) /\ Kept(Texts(Append(front, d)), Written \cup {act.text})
    <3>1. CASE s.texts # <<>> \/ s.images > 0
      <4>1. PICK m \in Msg : m = Message("user", s.texts, s.calls, NoCall)
        BY <1>2, MessageIs
      <4>2. m.role # "tool" /\ m.content = s.texts /\ m.calls = <<>>
        BY <2>1, <4>1 DEF Message
      <4>3. before \o Out(s, "user") = Append(front, m)
        BY <2>8, <3>1, <4>1, UserOut
      <4>4. Good(Append(front, m), {}) /\ Kept(Texts(Append(front, m)), Written)
        BY <2>1, <2>2, <4>3
      <4> QED BY <2>2, <2>3, <2>7, <4>2, <4>4, SaysMore
    <3>2. CASE s.texts = <<>> /\ s.images = 0
      <4>1. before \o Out(s, "user") = front
        BY <2>1, <2>8, <3>2, UserOut
      <4>2. d.content = <<act.text>> /\ ToSet(d.calls) = {}
        <5>1. PICK x \in Nat : x = act.text
          BY <2>3
        <5>2. <<>> \o <<x>> = <<x>>
          OBVIOUS
        <5> QED BY <2>7, <3>2, <5>1, <5>2, SetOf
      <4>3. Good(front, {}) /\ Kept(Texts(front), Written)
        BY <2>1, <2>2, <4>1
      <4> QED BY <2>2, <2>3, <2>7, <4>2, <4>3, SaysNew
    <3> QED BY <1>2, <3>1, <3>2
  <2> QED BY <1>1, <2>1, <2>2, <2>4, <2>5, <2>9, <2>10 DEF TurnGood
<1>6. CASE act.act = "result"
  <2>1. /\ act.id \in OpenCalls /\ OpenCalls' = OpenCalls \ {act.id} /\ Written' = Written
        /\ LastAct' = "result"
    BY <1>6 DEF Step
  <2>2. /\ Side(act) = "user" /\ s.calls = <<>> /\ s.texts = <<>> /\ s.images = 0 /\ s.out # <<>>
        /\ Good(before \o Out(s, "user"), OpenCalls)
        /\ Kept(Texts(before \o Out(s, "user")), Written)
    BY <1>6, <2>1 DEF Side, TurnGood
  <2>3. PICK m \in Msg : m = Message("tool", <<>>, <<>>, act.id)
    <3>1. act.id \in CallId
      BY <1>6 DEF Act
    <3> QED BY <3>1, MessageIs
  <2>4. m.role = "tool" /\ m.content = <<>> /\ m.calls = <<>> /\ m.answers = act.id
    BY <2>3 DEF Message
  <2>5. t.out = Append(s.out, m) /\ t.texts = <<>> /\ t.calls = <<>> /\ t.images = 0
    BY <1>1, <1>6, <2>2, <2>3, BlockSays
  <2>6. PICK front \in Seq(Msg) : front = before \o s.out
    BY <1>2, ConcatIn
  <2>7. Append(s.out, m) # <<>> /\ before \o Append(s.out, m) = Append(front, m)
    <3>1. PICK o \in Seq(Msg) : o = s.out
      BY <1>2
    <3>2. Append(o, m) # <<>> /\ before \o Append(o, m) = Append(before \o o, m)
      BY ConcatAppend
    <3> QED BY <2>6, <3>1, <3>2
  <2>8. /\ before \o Out(s, "user") = front
        /\ before \o Out(t, "user") = Append(front, m)
    BY <2>2, <2>5, <2>6, <2>7, UserOut
  <2>9. Good(Append(front, m), OpenCalls \ {act.id}) /\ Kept(Texts(Append(front, m)), Written)
    BY <2>1, <2>2, <2>4, <2>8, Answered
  <2> QED BY <1>1, <2>1, <2>2, <2>5, <2>7, <2>8, <2>9 DEF TurnGood
<1>7. act.act \in {"user", "say", "think", "call", "result"}
  BY DEF Act
<1> QED BY <1>3, <1>4, <1>5, <1>6, <1>7

\* An act that begins a turn.
LEMMA NewTurn ==
    ASSUME NEW before \in Seq(Msg), NEW act \in Act, Step(act),
           Good(before, OpenCalls), Kept(Texts(before), Written),
           act.act \in {"call", "think"} => OpenCalls = {}
    PROVE  TurnGood(before, Block(NoBlocks, act), Side(act), OpenCalls', Written', LastAct')
<1>1. PICK s \in BlockState : s = NoBlocks
  BY BlockTableIs
<1>2. PICK t \in BlockState : t = Block(s, act)
  BY BlockIn
<1>3. s.out = <<>> /\ s.texts = <<>> /\ s.calls = <<>> /\ s.images = 0
  BY <1>1 DEF NoBlocks
<1>4. CASE act.act \in {"say", "call", "think"}
  <2>1. Side(act) = "assistant"
    BY <1>4 DEF Side
  <2>2. t.out = <<>>
    BY <1>2, <1>3, <1>4, BlockSays
  <2>3. PICK m \in Msg : m = Message("assistant", t.texts, t.calls, NoCall)
    <3>1. t.texts \in Seq(Nat) /\ t.calls \in Seq(CallId)
      BY DEF BlockState
    <3> QED BY <3>1, MessageIs
  <2>4. m.role # "tool" /\ m.content = t.texts /\ m.calls = t.calls
    BY <2>3 DEF Message
  <2>5. before \o Out(t, "assistant") = Append(before, m)
    BY <2>2, <2>3, AssistantOut
  <2>6. Good(Append(before, m), OpenCalls') /\ Kept(Texts(Append(before, m)), Written')
    <3>1. CASE act.act = "say"
      <4>1. t.texts = <<act.text>> /\ t.calls = <<>>
        <5>1. PICK x \in Nat : x = act.text
          BY <3>1 DEF Act
        <5>2. <<>> \o <<x>> = <<x>>
          OBVIOUS
        <5>3. t.texts = s.texts \o <<act.text>> /\ t.calls = s.calls
          BY <1>2, <3>1, BlockSays
        <5> QED BY <1>3, <5>1, <5>2, <5>3
      <4>2. /\ OpenCalls = {} /\ OpenCalls' = {} /\ Written' = Written \cup {act.text}
            /\ \A w \in Written : w < act.text
        BY <3>1 DEF Step
      <4>3. act.text \in Nat
        BY <3>1 DEF Act
      <4> QED BY <2>4, <4>1, <4>2, <4>3, SetOf, SaysNew
    <3>2. CASE act.act = "call"
      <4>1. t.texts = <<>> /\ t.calls = <<act.id>>
        <5>1. PICK x \in CallId : x = act.id
          BY <3>2 DEF Act
        <5>2. Append(<<>>, x) = <<x>>
          OBVIOUS
        <5>3. t.texts = s.texts /\ t.calls = Append(s.calls, act.id)
          BY <1>2, <3>2, BlockSays
        <5> QED BY <1>3, <5>1, <5>2, <5>3
      <4>2. OpenCalls = {} /\ OpenCalls' = {act.id} /\ Written' = Written
        BY <3>2 DEF Step
      <4> QED BY <2>4, <4>1, <4>2, CallsNew
    <3>3. CASE act.act = "think"
      <4>1. t.texts = <<>> /\ t.calls = <<>>
        BY <1>2, <1>3, <3>3, BlockSays
      <4>2. OpenCalls = {} /\ OpenCalls' = {} /\ Written' = Written
        BY <3>3 DEF Step
      <4>3. ToSet(m.calls) = {}
        BY <2>4, <4>1, SetOf
      <4>4. Good(Append(before, m), {})
        BY <2>4, <4>2, <4>3, GoodSpeaks
      <4> QED BY <2>4, <4>1, <4>2, <4>4, TextsStay
    <3> QED BY <1>4, <3>1, <3>2, <3>3
  <2> QED BY <1>1, <1>2, <2>1, <2>2, <2>5, <2>6 DEF TurnGood
<1>5. CASE act.act = "user"
  <2>1. Side(act) = "user"
    BY <1>5 DEF Side
  <2>2. /\ OpenCalls = {} /\ OpenCalls' = {} /\ Written' = Written \cup {act.text}
        /\ \A w \in Written : w < act.text
        /\ LastAct' = "user"
    BY <1>5 DEF Step
  <2>3. PICK x \in Nat : x = act.text
    BY <1>5 DEF Act
  <2>4. t.texts = <<x>> /\ t.calls = <<>> /\ t.out = <<>>
    <3>1. t.texts = s.texts \o <<act.text>> /\ t.calls = s.calls /\ t.out = s.out
      BY <1>2, <1>5, BlockSays
    <3>2. <<>> \o <<x>> = <<x>>
      OBVIOUS
    <3> QED BY <1>3, <2>3, <3>1, <3>2
  <2>5. PICK m \in Msg : m = Message("user", t.texts, t.calls, NoCall)
    <3>1. t.texts \in Seq(Nat) /\ t.calls \in Seq(CallId)
      BY DEF BlockState
    <3> QED BY <3>1, MessageIs
  <2>6. m.role # "tool" /\ m.content = <<x>> /\ ToSet(m.calls) = {}
    BY <2>4, <2>5, SetOf DEF Message
  <2>7. before \o Out(t, "user") = Append(before, m)
    <3>1. <<x>> # <<>> /\ before \o <<>> = before
      OBVIOUS
    <3> QED BY <2>4, <2>5, <3>1, UserOut
  <2>8. Good(Append(before, m), {}) /\ Kept(Texts(Append(before, m)), Written \cup {x})
    BY <2>2, <2>3, <2>6, SaysNew
  <2>9. t.texts # <<>>
    BY <2>4
  <2> QED BY <1>1, <1>2, <2>1, <2>2, <2>3, <2>4, <2>7, <2>8, <2>9 DEF TurnGood
<1>6. CASE act.act = "result"
  <2>1. /\ act.id \in OpenCalls /\ OpenCalls' = OpenCalls \ {act.id} /\ Written' = Written
        /\ LastAct' = "result"
    BY <1>6 DEF Step
  <2>2. Side(act) = "user"
    BY <1>6 DEF Side
  <2>3. PICK m \in Msg : m = Message("tool", <<>>, <<>>, act.id)
    <3>1. act.id \in CallId
      BY <1>6 DEF Act
    <3> QED BY <3>1, MessageIs
  <2>4. m.role = "tool" /\ m.content = <<>> /\ m.calls = <<>> /\ m.answers = act.id
    BY <2>3 DEF Message
  <2>5. t.out = <<m>> /\ t.texts = <<>> /\ t.calls = <<>> /\ t.images = 0
    <3>1. Append(<<>>, m) = <<m>>
      OBVIOUS
    <3>2. /\ t.out = Append(s.out, Message("tool", <<>>, <<>>, act.id))
          /\ t.texts = <<>> /\ t.calls = <<>> /\ t.images = 0
      BY <1>2, <1>3, <1>6, BlockSays
    <3> QED BY <1>3, <2>3, <3>1, <3>2
  <2>6. <<m>> # <<>> /\ before \o <<m>> = Append(before, m)
    OBVIOUS
  <2>7. before \o Out(t, "user") = Append(before, m)
    BY <2>5, <2>6, UserOut
  <2>8. Good(Append(before, m), OpenCalls \ {act.id}) /\ Kept(Texts(Append(before, m)), Written)
    BY <2>1, <2>4, Answered
  <2> QED BY <1>1, <1>2, <2>1, <2>2, <2>5, <2>6, <2>7, <2>8 DEF TurnGood
<1>7. act.act \in {"user", "say", "think", "call", "result"}
  BY DEF Act
<1> QED BY <1>4, <1>5, <1>6, <1>7

-----------------------------------------------------------------------------
\* The conversation and what is made of it.
TurnsGood ==
    \/ turns = <<>> /\ OpenCalls = {} /\ LastAct # "call" /\ Written = {}
    \/ \E front \in Seq(Turn), turn \in Turn :
          /\ turns = Append(front, turn)
          /\ TurnGood(FromTurns(front), Gathered(turn.blocks), turn.role,
                      OpenCalls, Written, LastAct)

\* The invariant of a conversation.
HistoryIInv == HistoryTypes /\ ItemsGood /\ TurnsGood

\* The list of turns that are to be messages is good, too.
LEMMA TurnsTold ==
    ASSUME turns \in Seq(Turn), TurnsGood
    PROVE  Good(FromTurns(turns), OpenCalls) /\ Kept(Texts(FromTurns(turns)), Written)
<1>1. CASE turns = <<>> /\ OpenCalls = {} /\ Written = {}
  <2>1. FromTurns(turns) = NoMessages /\ NoMessages = <<>>
    BY <1>1, TurnsAre DEF NoMessages
  <2>2. Good(<<>>, {})
    BY DEF Good
  <2>3. Kept(<<>>, {})
    <3>1. <<>> \in Seq(Nat)
      OBVIOUS
    <3> QED BY <3>1, SetOf DEF Kept
  <2>4. Texts(<<>>) = <<>>
    BY TextsAre DEF NoTexts
  <2> QED BY <1>1, <2>1, <2>2, <2>3, <2>4
<1>2. ASSUME NEW front \in Seq(Turn), NEW turn \in Turn, turns = Append(front, turn),
             TurnGood(FromTurns(front), Gathered(turn.blocks), turn.role,
                      OpenCalls, Written, LastAct)
      PROVE  Good(FromTurns(turns), OpenCalls) /\ Kept(Texts(FromTurns(turns)), Written)
  <2>1. FromTurns(turns) = FromTurns(front) \o Out(Gathered(turn.blocks), turn.role)
    BY <1>2, TurnsAre, TurnIs
  <2> QED BY <1>2, <2>1 DEF TurnGood
<1> QED BY <1>1, <1>2 DEF TurnsGood

\* An act more keeps the messages made of the turns good.
LEMMA TurnsStay ==
    ASSUME turns \in Seq(Turn), TurnsGood, NEW act \in Act, turns' = Joined(act), Step(act)
    PROVE  turns' \in Seq(Turn) /\ TurnsGood'
<1>1. Side(act) \in {"user", "assistant"}
  BY DEF Side
<1>2. CASE turns # <<>> /\ Last(turns).role = Side(act)
  <2>1. PICK front \in Seq(Turn), turn \in Turn :
           /\ turns = Append(front, turn)
           /\ TurnGood(FromTurns(front), Gathered(turn.blocks), turn.role,
                       OpenCalls, Written, LastAct)
    BY <1>2 DEF TurnsGood
  <2>2. Last(turns) = turn
    BY <2>1, LastReplaced DEF Last
  <2>3. turn.role = Side(act) /\ turn.blocks \in Seq(Act)
    BY <1>2, <2>2 DEF Turn
  <2>4. PICK more \in Seq(Act) : more = Append(turn.blocks, act)
    BY <2>3, AppendIn
  <2>5. PICK d : d = [turn EXCEPT !.blocks = more]
    OBVIOUS
  <2>6. d \in Turn /\ d.role = Side(act) /\ d.blocks = more
    BY <2>3, <2>5 DEF Turn
  <2>7. turns' = Append(front, d)
    <3>1. turns[Len(turns)] = turn /\ [turns EXCEPT ![Len(turns)] = d] = Append(front, d)
      BY <2>1, <2>6, LastReplaced
    <3>2. turns' = [turns EXCEPT ![Len(turns)].blocks = Append(@, act)]
      BY <1>2 DEF Joined
    <3>3. [turns EXCEPT ![Len(turns)].blocks = Append(@, act)] = [turns EXCEPT ![Len(turns)] = d]
      BY <2>4, <2>5, <3>1
    <3> QED BY <3>1, <3>2, <3>3
  <2>8. FromTurns(front) \in Seq(Msg) /\ Gathered(turn.blocks) \in BlockState
    BY <2>3, TurnsAre, BlocksAre
  <2>9. Gathered(d.blocks) = Block(Gathered(turn.blocks), act)
    BY <2>3, <2>4, <2>6, BlocksAre
  <2>10. TurnGood(FromTurns(front), Gathered(d.blocks), d.role, OpenCalls', Written', LastAct')
    BY <2>1, <2>3, <2>6, <2>8, <2>9, SameTurn
  <2>11. TurnsGood'
    BY <2>6, <2>7, <2>10 DEF TurnsGood
  <2> QED BY <2>6, <2>7, <2>11
<1>3. CASE ~(turns # <<>> /\ Last(turns).role = Side(act))
  <2>1. PICK d : d = [role |-> Side(act), blocks |-> <<act>>]
    OBVIOUS
  <2>2. d \in Turn /\ d.role = Side(act) /\ d.blocks = <<act>>
    <3>1. <<act>> \in Seq(Act)
      OBVIOUS
    <3> QED BY <1>1, <2>1, <3>1 DEF Turn
  <2>3. turns' = Append(turns, d)
    BY <1>3, <2>1 DEF Joined
  <2>4. Good(FromTurns(turns), OpenCalls) /\ Kept(Texts(FromTurns(turns)), Written)
    BY TurnsTold
  <2>5. FromTurns(turns) \in Seq(Msg)
    BY <2>2, TurnsAre
  <2>6. act.act \in {"call", "think"} => OpenCalls = {}
    <3> HAVE act.act \in {"call", "think"}
    <3>1. Side(act) = "assistant" /\ (OpenCalls = {} \/ LastAct = "call")
      BY DEF Side, Step
    <3>2. CASE turns = <<>> /\ LastAct # "call"
      BY <3>1, <3>2
    <3>3. ASSUME NEW front \in Seq(Turn), NEW turn \in Turn, turns = Append(front, turn),
                 TurnGood(FromTurns(front), Gathered(turn.blocks), turn.role,
                          OpenCalls, Written, LastAct)
          PROVE  OpenCalls = {}
      <4>1. Last(turns) = turn /\ turns # <<>>
        BY <3>3, LastReplaced DEF Last
      <4>2. turn.role = "user"
        BY <1>3, <3>1, <4>1 DEF Turn
      <4>3. LastAct # "call"
        BY <3>3, <4>2 DEF TurnGood
      <4> QED BY <3>1, <4>3
    <3> QED BY <3>2, <3>3 DEF TurnsGood
  <2>7. Gathered(d.blocks) = Block(NoBlocks, act)
    <3>1. PICK none \in Seq(Act) : none = <<>>
      <4>1. <<>> \in Seq(Act)
        OBVIOUS
      <4> QED BY <4>1
    <3>2. Append(none, act) = <<act>>
      BY <3>1
    <3>3. Gathered(Append(none, act)) = Block(Gathered(none), act) /\ Gathered(none) = NoBlocks
      BY <3>1, BlocksAre
    <3> QED BY <2>2, <3>2, <3>3
  <2>8. TurnGood(FromTurns(turns), Gathered(d.blocks), d.role, OpenCalls', Written', LastAct')
    BY <2>2, <2>4, <2>5, <2>6, <2>7, NewTurn
  <2>9. TurnsGood'
    BY <2>2, <2>3, <2>8 DEF TurnsGood
  <2> QED BY <2>2, <2>3, <2>9
<1> QED BY <1>2, <1>3

\* Every step of a conversation keeps its invariant.
LEMMA HistoryIsInvariant == ConversationSpec => []HistoryIInv
<1>1. ConversationInit => HistoryIInv
  <2> HAVE ConversationInit
  <2>1. acts = <<>> /\ turns = <<>>
    BY DEF ConversationInit
  <2>2. acts \in Seq(Act) /\ turns \in Seq(Turn)
    BY <2>1
  <2>3. DOMAIN acts = {}
    BY <2>1
  <2>4. /\ Made("call") = {} /\ Made("result") = {} /\ Written = {} /\ LastAct = "none"
    BY <2>3 DEF Made, Written, LastAct
  <2>5. OpenCalls = {}
    BY <2>4 DEF OpenCalls
  <2>6. ItemsGood
    <3>1. PICK s \in ItemState : s = ItemsOf(acts)
      BY <2>2, ItemsAre
    <3>2. s.messages = <<>> /\ s.pending = FALSE
      BY <2>1, <3>1, ItemsAre DEF NoItems
    <3>3. Good(<<>>, {})
      BY DEF Good
    <3>4. Kept(<<>>, {})
      <4>1. <<>> \in Seq(Nat)
        OBVIOUS
      <4> QED BY <4>1, SetOf DEF Kept
    <3>5. Texts(<<>>) = <<>>
      BY TextsAre DEF NoTexts
    <3> QED BY <2>4, <2>5, <3>1, <3>2, <3>3, <3>4, <3>5 DEF ItemsGood
  <2> QED BY <2>1, <2>2, <2>4, <2>5, <2>6 DEF HistoryIInv, HistoryTypes, TurnsGood
<1>2. HistoryIInv /\ [Converse]_historyVars => HistoryIInv'
  <2> SUFFICES ASSUME HistoryIInv, [Converse]_historyVars PROVE HistoryIInv'
    OBVIOUS
  <2>1. CASE Converse
    <3>1. HistoryTypes /\ ItemsGood /\ TurnsGood
      BY DEF HistoryIInv
    <3>2. PICK act \in Act : /\ acts' = Append(acts, act) /\ turns' = Joined(act)
                             /\ Step(act)
                             /\ acts' \in Seq(Act)
                             /\ (Made("result") \subseteq Made("call"))'
                             /\ (\A w \in Written : w \in Nat /\ w <= Len(acts))'
      BY <2>1, <3>1, ActTakes
    <3>3. acts \in Seq(Act) /\ turns \in Seq(Turn)
      BY <3>1 DEF HistoryTypes
    <3>4. ItemsGood'
      BY <3>1, <3>2, <3>3, ItemsStay
    <3>5. turns' \in Seq(Turn) /\ TurnsGood'
      BY <3>1, <3>2, <3>3, TurnsStay
    <3>6. HistoryTypes'
      BY <3>2, <3>5 DEF HistoryTypes
    <3> QED BY <3>4, <3>5, <3>6 DEF HistoryIInv
  <2>2. CASE UNCHANGED historyVars
    <3>1. acts' = acts /\ turns' = turns
      BY <2>2 DEF historyVars
    <3>2. OpenCalls' = OpenCalls /\ Made("call")' = Made("call") /\ Made("result")' = Made("result")
      BY <3>1 DEF OpenCalls, Made
    <3>3. LastAct' = LastAct
      BY <3>1 DEF LastAct
    <3>4. Written' = Written
      BY <3>1 DEF Written
    <3>5. HistoryTypes' /\ ItemsGood'
      BY <3>1, <3>2, <3>3, <3>4 DEF HistoryIInv, HistoryTypes, ItemsGood
    <3>6. TurnsGood'
      BY <3>1, <3>2, <3>3, <3>4 DEF HistoryIInv, TurnsGood
    <3> QED BY <3>5, <3>6 DEF HistoryIInv
  <2> QED BY <2>1, <2>2
<1> QED BY <1>1, <1>2, PTL DEF ConversationSpec

\* For any conversation that keeps its protocol's rules, of any length, with calls in
\* parallel and thinking between them: both translations make a history that a chat
\* upstream accepts, with every text of the conversation once and in its place.
THEOREM HistoryHolds == ConversationSpec => []HistoryTranslated
<1>1. HistoryIInv => HistoryTranslated
  <2> HAVE HistoryIInv
  <2>1. HistoryTypes /\ ItemsGood /\ TurnsGood
    BY DEF HistoryIInv
  <2>2. acts \in Seq(Act) /\ turns \in Seq(Turn)
    BY <2>1 DEF HistoryTypes
  <2>3. Accepts(FromResponses, OpenCalls = {}) /\ Kept(Texts(FromResponses), Written)
    BY <2>1, <2>2, ResponsesGood
  <2>4. Accepts(FromMessages, OpenCalls = {}) /\ Kept(Texts(FromMessages), Written)
    <3>1. Good(FromTurns(turns), OpenCalls) /\ Kept(Texts(FromTurns(turns)), Written)
      BY <2>1, <2>2, TurnsTold
    <3>2. FromTurns(turns) \in Seq(Msg)
      <4>1. [role |-> "user", blocks |-> <<>>] \in Turn
        <5>1. <<>> \in Seq(Act)
          OBVIOUS
        <5> QED BY <5>1 DEF Turn
      <4> QED BY <2>2, <4>1, TurnsAre
    <3>3. FromMessages = OrEmpty(FromTurns(turns))
      BY <2>2, TurnsFold DEF FromMessages
    <3> QED BY <3>1, <3>2, <3>3, OrEmptyGood
  <2>5. HistoryAccepted
    BY <2>3, <2>4 DEF HistoryAccepted
  <2>6. TextsKept
    BY <2>3, <2>4 DEF TextsKept, Kept, Written
  <2> QED BY <2>5, <2>6 DEF HistoryTranslated
<1> QED BY <1>1, HistoryIsInvariant, PTL
=============================================================================
