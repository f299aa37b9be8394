---------------------------- MODULE KnowledgeIndex ----------------------------
(***************************************************************************)
(* Knowledge bases, their chunks and the vectors of the chunks             *)
(* (knowledge_v51.py, vector_rag_v56.py) in one process.  A document is    *)
(* stored with one commit for all its chunks; each chunk is indexed with a *)
(* commit of its own afterwards.  Vectors are found by the number of their *)
(* chunk, and SQLite gives the number of a deleted last row out again.     *)
(* PostgreSQL does not, so the column that pgvector searches, which is     *)
(* written by a statement of its own that may fail, holds the chunk's own  *)
(* vector or NULL, which the search skips; it is not modelled.             *)
(* A document is as many chunks as it names texts.                         *)
(***************************************************************************)
EXTENDS Naturals, Sequences, FiniteSets, FiniteSetsExt, Functions

CONSTANTS
    Base,      \* knowledge bases
    Source,    \* sources of documents
    Document,  \* documents: sequences of texts
    MaxChunk,  \* bound on the numbers of chunks
    Nothing    \* no row

Text == UNION {Range(doc) : doc \in Document}

ASSUME KnowledgeAssumption ==
    /\ MaxChunk \in Nat
    /\ Document \subseteq Seq(Text)
    /\ Nothing \notin [base : Base, source : Source, text : Text, of : Document]

Chunk == 1 .. MaxChunk

VARIABLES
    base,      \* the knowledge bases present
    chunk,     \* number -> [base, source, text, of], or Nothing; of: its document
    vector,    \* number of a chunk -> [base, text], or Nothing
    unindexed, \* the chunks of the request under way still to be indexed
    indexed    \* history: the chunks present whose indexing succeeded

knowledgeVars == <<base, chunk, vector, unindexed, indexed>>

Stored == {c \in Chunk : chunk[c] # Nothing}
OfBase(b) == {c \in Stored : chunk[c].base = b}
OfSource(b, s) == {c \in OfBase(b) : chunk[c].source = s}
Quiet == unindexed = {}

KnowledgeTypeOK ==
    /\ base \subseteq Base
    /\ \A c \in Stored : chunk[c].base \in base /\ chunk[c].text \in Range(chunk[c].of)
    /\ unindexed \cup indexed \subseteq Stored
    /\ unindexed \cap indexed = {}

KnowledgeInit ==
    /\ base = {}
    /\ chunk = [c \in Chunk |-> Nothing]
    /\ vector = [c \in Chunk |-> Nothing]
    /\ unindexed = {}
    /\ indexed = {}

CreateBase(b) ==
    /\ Quiet
    /\ base' = base \cup {b}
    /\ UNCHANGED <<chunk, vector, unindexed, indexed>>

Without(rows) == [c \in Chunk |-> IF c \in rows THEN Nothing ELSE chunk[c]]

\* The digest of the first chunk found decides.
Unchanged(old, doc) == old # {} /\ chunk[Min(old)].of = doc

\* add_document, up to its commit.
AddDocument(b, s, doc) ==
    /\ Quiet /\ b \in base
    /\ LET old == OfSource(b, s)
           kept == Without(old)
           last == Max({0} \cup {c \in Chunk : kept[c] # Nothing})
           new == last + 1 .. last + Len(doc)
       IN  /\ ~Unchanged(old, doc)
           /\ new \subseteq Chunk
           /\ chunk' = [c \in Chunk |->
                 IF c \in new THEN [base |-> b, source |-> s, text |-> doc[c - last], of |-> doc]
                 ELSE kept[c]]
           /\ unindexed' = new
           /\ indexed' = indexed \ (old \cup new)
    /\ UNCHANGED <<base, vector>>

\* Mutant: a number that has a vector keeps it.
IndexedOnce(c) == IF vector[c] # Nothing THEN vector[c] ELSE [base |-> chunk[c].base, text |-> chunk[c].text]
Indexed(c) == [base |-> chunk[c].base, text |-> chunk[c].text]

\* index_chunk, in the order of the chunks; an error is swallowed.
IndexChunk(c) ==
    /\ ~Quiet /\ c = Min(unindexed)
    /\ \/ UNCHANGED <<vector, indexed>>
       \/ /\ vector' = [vector EXCEPT ![c] = Indexed(c)]
          /\ indexed' = indexed \cup {c}
    /\ unindexed' = unindexed \ {c}
    /\ UNCHANGED <<base, chunk>>

\* The process dies in between: the rest stays as it is.
IndexingDies ==
    /\ ~Quiet
    /\ unindexed' = {}
    /\ UNCHANGED <<base, chunk, vector, indexed>>

\* delete_base: the vectors first, which may fail and is then ignored, or the
\* process dies before the rest.
DeleteVectors(b) == [c \in Chunk |->
    IF vector[c] # Nothing /\ vector[c].base = b THEN Nothing ELSE vector[c]]

ChunksWithout(b) == Without(OfBase(b))

DeleteBase(b) ==
    /\ Quiet
    /\ vector' \in {vector, DeleteVectors(b)}
    /\ \/ /\ chunk' = ChunksWithout(b)
          /\ base' = base \ {b}
          /\ indexed' = indexed \ OfBase(b)
       \/ UNCHANGED <<base, chunk, indexed>>
    /\ UNCHANGED unindexed

KnowledgeNext ==
    \/ \E b \in Base : CreateBase(b) \/ DeleteBase(b)
    \/ \E b \in Base, s \in Source, doc \in Document : AddDocument(b, s, doc)
    \/ \E c \in Chunk : IndexChunk(c)
    \/ IndexingDies

KnowledgeSpec == KnowledgeInit /\ [][KnowledgeNext]_knowledgeVars

-----------------------------------------------------------------------------
(* A source of a base holds exactly one document, whole: ingesting it      *)
(* again replaces what was there, and a process that dies leaves neither a *)
(* part of a document nor two (add_document).                              *)
SourcesAreWhole ==
    \A b \in Base, s \in Source :
        \A c \in OfSource(b, s) :
            /\ \A d \in OfSource(b, s) : chunk[d].of = chunk[c].of
            /\ Cardinality(OfSource(b, s)) = Len(chunk[c].of)

(* A chunk that was indexed is never scored by another text's vector,      *)
(* although the numbers of chunks and what is left of their vectors are    *)
(* used again (index_chunk, delete_kb).                                    *)
VectorsAreOwn ==
    \A c \in indexed :
        vector[c] \in {Nothing, [base |-> chunk[c].base, text |-> chunk[c].text]}

(* What the comment in add_document says of an indexing that fails: it     *)
(* only takes a chunk's vector from the search, which scores every chunk   *)
(* by the vector that has its number (VectorIndex.search).  It does not    *)
(* hold: under a number used before, the old vector is still there.        *)
IndexingIsAdditive ==
    Quiet => \A c \in Stored \ indexed :
                \/ vector[c] = Nothing \/ vector[c].base \notin base
                \/ vector[c].text = chunk[c].text

(* The chunks and vectors that retrieval reads belong together.            *)
KnowledgeInv == KnowledgeTypeOK /\ SourcesAreWhole /\ VectorsAreOwn
=============================================================================
