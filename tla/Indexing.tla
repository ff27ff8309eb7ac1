------------------------------- MODULE Indexing -------------------------------
(***************************************************************************)
(* The way of a text from its upload to the hits of a search: Ingest cuts  *)
(* it (Chunker), has the chunks embedded (internal/embed), and stores one  *)
(* point for each (internal/rag/service.go, inmemory.go, qdrant.go);       *)
(* Retrieve finds the nearest of them.                                     *)
(*                                                                         *)
(* A vector is the number of the chunk it was made of; how near it is to   *)
(* that of a phrase is taken to be the embedder's business: nearest are    *)
(* the vectors of chunks that hold the phrase.  What the embedder sends is *)
(* outside, and may be numbered in any way.                                *)
(***************************************************************************)
EXTENDS Chunker, FiniteSets

CONSTANTS
    Replies,    \* what an embedder may send: sequences of vectors, each with the
                \*     number it is sent with and the input it was made of
    Limits      \* what RAG_TOP_K may be configured to be

ASSUME IndexingAssumption ==
    /\ \A data \in Replies : data \in Seq([index : Int, of : Nat \ {0}])
    /\ Limits \subseteq Int

VARIABLES
    stage,      \* chunking, embedded, indexed, found; or refused
    vecs,       \* the vectors as Embed returns them, Nil where it has none
    honest,     \* the upstream numbered its vectors as they were (history)
    points,     \* the points stored: a chunk's number, its text and its vector
    phrase,     \* what is searched for, a stretch of the text
    hits        \* the points found

ownVars      == <<stage, vecs, honest, points, phrase, hits>>
indexingVars == <<vars, ownVars>>

Nil == 0

IndexingInit == /\ Init
                /\ stage  = "chunking"
                /\ vecs   = <<>>
                /\ honest = TRUE
                /\ points = {}
                /\ phrase = [from |-> 0, to |-> 0]
                /\ hits   = {}

Cutting == Next /\ UNCHANGED ownVars

Refused == /\ stage' = "refused"
           /\ UNCHANGED <<vars, vecs, honest, points, phrase, hits>>

\* rag: empty document
RefuseEmpty == stage = "chunking" /\ pc = "returned" /\ chunks = <<>> /\ Refused
-----------------------------------------------------------------------------
\* The item that is put in place m last.
LastFor(data, m) ==
    CHOOSE p \in DOMAIN data :
        data[p].index = m /\ \A q \in DOMAIN data : data[q].index = m => q <= p

\* Mutation: the vectors are taken as they come.
AsTheyCome(data) == [m \in DOMAIN data |-> data[m].of]

\* OpenAI: by the number each item has.
ByIndex(data) == [m \in DOMAIN data |->
                     IF \E p \in DOMAIN data : data[p].index = m
                     THEN data[LastFor(data, m)].of ELSE Nil]

\* Ollama: its vectors have no numbers.
InOrder(data) == [m \in DOMAIN data |-> data[m].of]

Complete(data)  == /\ Len(data) = Len(chunks)
                   /\ \A p \in DOMAIN data : data[p].of \in DOMAIN chunks
InRange(data)   == \A p \in DOMAIN data : data[p].index \in DOMAIN chunks
Numbered(data)  == \A p \in DOMAIN data : data[p].index = data[p].of
OneForEach(data) == /\ DOMAIN data = DOMAIN chunks
                    /\ \A m \in DOMAIN chunks : \E p \in DOMAIN data : data[p].of = m
                    /\ \A p, q \in DOMAIN data : data[p].of = data[q].of => p = q
Ordered(data)   == DOMAIN data = DOMAIN chunks /\ \A p \in DOMAIN data : data[p].of = p

Embeds == stage = "chunking" /\ pc = "returned" /\ chunks # <<>>

EmbedOpenAI ==
    /\ Embeds
    /\ \E data \in Replies :
           /\ Complete(data) /\ InRange(data)
           /\ vecs'   = ByIndex(data)
           /\ honest' = (Numbered(data) /\ OneForEach(data))
    /\ stage' = "embedded"
    /\ UNCHANGED <<vars, points, phrase, hits>>

EmbedOllama ==
    /\ Embeds
    /\ \E data \in Replies :
           /\ Complete(data)
           /\ vecs'   = InOrder(data)
           /\ honest' = Ordered(data)
    /\ stage' = "embedded"
    /\ UNCHANGED <<vars, points, phrase, hits>>

\* No vectors, not as many as chunks, a number that is none, an upstream error.
EmbedFails == Embeds /\ Refused
-----------------------------------------------------------------------------
Point(n) == [index |-> n, text |-> chunks[n], vector |-> vecs[n]]

\* Upsert.  In memory a vector may be missing, and is far from everything then.
Upsert == /\ stage = "embedded"
          /\ points' = {Point(n) : n \in DOMAIN chunks}
          /\ stage'  = "indexed"
          /\ UNCHANGED <<vars, vecs, honest, phrase, hits>>

\* Qdrant refuses a point without its vector, or is out of order: the document
\* is taken back.
UpsertFails == stage = "embedded" /\ Refused
-----------------------------------------------------------------------------
Within(p, span) == span.from <= p.from /\ p.to <= span.to

Score(p, vector) == IF vector # Nil /\ Within(p, chunks[vector]) THEN 1 ELSE 0

\* Mutation: the sort is the wrong way round.
Farthest(p, k) ==
    {S \in SUBSET points :
        /\ IF Cardinality(points) <= k THEN S = points ELSE Cardinality(S) = k
        /\ \A h \in S, o \in points \ S : Score(p, h.vector) <= Score(p, o.vector)}

\* The k nearest points; which ones of equal score is open.
Nearest(p, k) ==
    {S \in SUBSET points :
        /\ IF Cardinality(points) <= k THEN S = points ELSE Cardinality(S) = k
        /\ \A h \in S, o \in points \ S : Score(p, h.vector) >= Score(p, o.vector)}

TopK(k) == IF k <= 0 THEN 4 ELSE k

\* A phrase that NothingStraddles is about.
Phrases == {p \in [from : 0..length, to : 0..length] :
                p.from < p.to /\ p.to - p.from <= overlap + 1}

Retrieve == /\ stage = "indexed"
            /\ \E p \in Phrases, k \in Limits :
                   phrase' = p /\ hits' \in Nearest(p, TopK(k))
            /\ stage' = "found"
            /\ UNCHANGED <<vars, vecs, honest, points>>

IndexingNext == \/ Cutting \/ RefuseEmpty
                \/ EmbedOpenAI \/ EmbedOllama \/ EmbedFails
                \/ Upsert \/ UpsertFails \/ Retrieve

IndexingSpec == IndexingInit /\ [][IndexingNext]_indexingVars
-----------------------------------------------------------------------------
\* Every chunk is stored with the vector of its own text, in whatever order the
\* upstream sent them, as long as it numbered them as they were.
OwnVectors ==
    honest => \A n \in DOMAIN vecs : vecs[n] = n

\* From end to end: a phrase of an uploaded text that is no longer than overlap
\* and one rune is in a hit, wherever the text was cut and however few hits are
\* asked for.
PhraseFound ==
    stage = "found" /\ honest => \E h \in hits : Within(phrase, h.text)
==============================================================================
