---------------------------- MODULE IndexingProofs ----------------------------
(***************************************************************************)
(* Chunker, then Indexing, for every text and every configuration.         *)
(*                                                                         *)
(* First part: the loop advances, the chunks slide over the text, and      *)
(* nothing straddles a boundary.  The invariant is Cut.  Its heart is that *)
(* the chunk of the next turn starts overlap runes before Reached: a       *)
(* phrase of overlap + 1 runes that ends behind Reached cannot begin       *)
(* before that chunk does.                                                 *)
(*                                                                         *)
(* Second part, for every reply of the embedder: a phrase that no boundary *)
(* straddles is found.  The invariant is Indexed: what stands in each      *)
(* place once a stage is behind.                                           *)
(***************************************************************************)
EXTENDS Indexing, FiniteSetTheorems, TLAPS

Sound == TypeOK /\ Cut

\* The end of the last chunk is a position.
LEMMA ReachedType ==
  ASSUME TypeOK
  PROVE  Reached \in Nat
<1>1. CASE chunks = <<>>
  BY <1>1 DEF Reached
<1>2. CASE chunks # <<>>
  <2>1. chunks[Len(chunks)] \in Span
    BY <1>2 DEF TypeOK
  <2> QED
    BY <1>2, <2>1 DEF Reached, Span
<1> QED
  BY <1>1, <1>2

\* A turn of the loop appends a proper chunk, whose bounds are as expected.
LEMMA TurnBounds ==
  ASSUME Sound, Window
  PROVE  /\ [from |-> i, to |-> End] \in Span
         /\ End - i \in 1..size
         /\ Reached <= End
         /\ chunks # <<>> => Reached < End
         /\ End <= length
         /\ Step \in 1..size
         /\ ~Last => End = i + size
<1>1. /\ length \in Nat /\ size \in Int /\ i \in Nat /\ Reached \in Nat
      /\ size > 0 /\ overlap \in 0..(size - 1) /\ i < length
      /\ chunks # <<>> => i = Reached - overlap /\ Reached < length
  BY ReachedType DEF Sound, TypeOK, Cut, Position, Window
<1>2. /\ End \in Nat /\ End - i \in 1..size /\ End <= length
      /\ Step \in 1..size /\ (~Last => End = i + size)
  BY <1>1 DEF End, Step, Last
<1>3. chunks # <<>> => Reached < End
  BY <1>1 DEF End
<1>4. chunks = <<>> => Reached = 0
  BY DEF Reached
<1> QED
  BY <1>1, <1>2, <1>3, <1>4 DEF Span

\* Every variable keeps its type; the start of the next chunk is a position
\* because the overlap was clamped.
LEMMA TypeStep ==
  ASSUME Sound, [Next]_vars
  PROVE  TypeOK'
<1>1. CASE Reject
  BY <1>1 DEF Sound, TypeOK, Reject
<1>2. CASE Clamp
  BY <1>2 DEF Sound, TypeOK, Clamp, Clamped
<1>3. CASE Fits
  BY <1>3 DEF Sound, TypeOK, Fits, Span
<1>4. CASE Window
  <2>1. chunks' \in Seq(Span)
    BY <1>4, TurnBounds DEF Sound, TypeOK, Window
  <2>2. i' \in Nat
    BY <1>4, TurnBounds DEF Sound, TypeOK, Window
  <2> QED
    BY <1>4, <2>1, <2>2 DEF Sound, TypeOK, Window
<1>5. CASE UNCHANGED vars
  BY <1>5 DEF Sound, TypeOK, vars
<1> QED
  BY <1>1, <1>2, <1>3, <1>4, <1>5 DEF Next

\* What is appended to the chunks leaves those before it alone.
LEMMA Appended ==
  ASSUME Sound, Window
  PROVE  /\ Len(chunks') = Len(chunks) + 1
         /\ \A k \in 1..Len(chunks) : chunks'[k] = chunks[k]
         /\ chunks'[Len(chunks) + 1] = [from |-> i, to |-> End]
         /\ chunks' # <<>>
         /\ Reached' = End
BY TurnBounds DEF Sound, TypeOK, Window, Reached

\* The new chunk overlaps its predecessor by exactly overlap runes.
LEMMA WindowSlides ==
  ASSUME Sound, Window
  PROVE  ChunksSlide'
<1> DEFINE n == Len(chunks)
<1>0. n \in Nat /\ overlap' = overlap /\ size' = size /\ i \in Nat
  BY DEF Sound, TypeOK, Window
<1>1. ASSUME NEW k \in 1..Len(chunks')
      PROVE  chunks'[k].to - chunks'[k].from \in 1..size'
  <2>1. CASE k = n + 1
    BY <2>1, <1>0, Appended, TurnBounds
  <2>2. CASE k \in 1..n
    BY <2>2, <1>0, Appended DEF Sound, Cut, ChunksSlide
  <2> QED
    BY <2>1, <2>2, <1>0, Appended
<1>2. ASSUME NEW k \in 1..(Len(chunks') - 1)
      PROVE  /\ chunks'[k].to - chunks'[k + 1].from = overlap'
             /\ chunks'[k].from < chunks'[k + 1].from
             /\ chunks'[k].to < chunks'[k + 1].to
  <2>1. CASE k = n
    <3>1. chunks # <<>> /\ n \in 1..n
      BY <2>1, <1>0, Appended
    <3>2. chunks[n] \in Span
      BY <3>1 DEF Sound, TypeOK
    <3>3. /\ i = chunks[n].to - overlap
          /\ chunks[n].from < i
          /\ chunks[n].to < End
      BY <3>1, TurnBounds DEF Sound, Cut, Position, Window, Reached
    <3>4. overlap \in Int
      BY DEF Sound, TypeOK
    <3> QED
      BY <2>1, <3>1, <3>2, <3>3, <3>4, <1>0, Appended DEF Span
  <2>2. CASE k \in 1..(n - 1)
    <3>1. chunks'[k] = chunks[k] /\ chunks'[k + 1] = chunks[k + 1]
      BY <2>2, <1>0, Appended
    <3> QED
      BY <2>2, <3>1, <1>0 DEF Sound, Cut, ChunksSlide
  <2> QED
    BY <2>1, <2>2, <1>0, Appended
<1> QED
  BY <1>1, <1>2 DEF ChunksSlide

\* A phrase that ends behind Reached begins in the new chunk.
LEMMA WindowKeeps ==
  ASSUME Sound, Window
  PROVE  Keeps(Reached)'
<1>0. Len(chunks) \in Nat /\ overlap' = overlap /\ i \in Nat /\ overlap \in Nat
  BY DEF Sound, TypeOK, Window, Cut, Position
<1>1. Reached \in Nat /\ End \in Nat
  BY TurnBounds, ReachedType DEF Sound, Span
<1> SUFFICES ASSUME NEW a \in 0..End, NEW b \in 0..End, a < b, b - a <= overlap + 1
             PROVE  \E k \in 1..Len(chunks') : chunks'[k].from <= a /\ b <= chunks'[k].to
  BY <1>0, Appended DEF Keeps, Holds
<1>2. CASE b <= Reached
  <2>1. PICK k \in 1..Len(chunks) : chunks[k].from <= a /\ b <= chunks[k].to
    BY <1>2, <1>1 DEF Sound, Cut, Keeps, Holds
  <2>2. k \in 1..Len(chunks') /\ chunks'[k] = chunks[k]
    BY <1>0, Appended
  <2> QED
    BY <2>1, <2>2
<1>3. CASE b > Reached
  <2>1. i <= a
    <3>1. CASE chunks = <<>>
      BY <3>1, <1>0 DEF Sound, Cut, Position, Window
    <3>2. CASE chunks # <<>>
      <4>1. i = Reached - overlap
        BY <3>2 DEF Sound, Cut, Position, Window
      <4> QED
        BY <4>1, <1>0, <1>1, <1>3
    <3> QED
      BY <3>1, <3>2
  <2>2. Len(chunks) + 1 \in 1..Len(chunks')
    BY <1>0, Appended
  <2> WITNESS Len(chunks) + 1 \in 1..Len(chunks')
  <2> QED
    BY <2>1, Appended, <1>1
<1> QED
  BY <1>2, <1>3, <1>1

\* A turn that is not the last leaves the next chunk overlap runes before the
\* end of the one just made.
LEMMA WindowMoves ==
  ASSUME Sound, Window
  PROVE  /\ pc' = "splitting" => Position' /\ i < i'
         /\ pc' = "returned" => Reached' = length'
         /\ pc' # "called"
<1>0. /\ length \in Nat /\ size \in Int /\ overlap \in 0..(size - 1) /\ i \in Nat
      /\ size > 0 /\ End \in Nat
      /\ length' = length /\ size' = size /\ overlap' = overlap
  BY TurnBounds DEF Sound, TypeOK, Window, Cut, Position, Span
<1>1. CASE Last
  BY <1>0, <1>1, Appended DEF Window, Last
<1>2. CASE ~Last
  <2>1. i' = i + Step /\ pc' = "splitting" /\ End = i + size /\ End < length
    BY <1>0, <1>2, TurnBounds DEF Sound, Window, Last
  <2>2. i' = End - overlap /\ i < i' /\ i' < length
    BY <2>1, <1>0 DEF Step
  <2>3. chunks'[Len(chunks')] = [from |-> i, to |-> End]
    BY Appended
  <2>4. Position'
    BY <2>1, <2>2, <2>3, <1>0, Appended DEF Position
  <2> QED
    BY <2>1, <2>2, <2>4
<1> QED
  BY <1>1, <1>2

\* Where the code stands, every step keeps what is known of the chunks.
LEMMA CutStep ==
  ASSUME Sound, [Next]_vars
  PROVE  Cut'
<1>1. CASE Reject
  BY <1>1, ReachedType DEF Sound, TypeOK, Cut, Reject, ChunksSlide, Keeps, Holds, Reached
<1>2. CASE Clamp
  <2>1. chunks = <<>> /\ chunks' = <<>> /\ i' = 0
    BY <1>2 DEF Sound, Cut, Clamp
  <2>2. Position'
    BY <1>2, <2>1 DEF Sound, TypeOK, Clamp, Clamped, Position
  <2>3. ChunksSlide' /\ Keeps(Reached)'
    BY <2>1 DEF ChunksSlide, Keeps, Reached
  <2> QED
    BY <1>2, <2>2, <2>3 DEF Clamp, Cut
<1>3. CASE Fits
  <2>1. chunks' = <<[from |-> 0, to |-> length]>> /\ Len(chunks') = 1
        /\ chunks'[1] = [from |-> 0, to |-> length]
    BY <1>3 DEF Fits
  <2>2. Reached' = length /\ length' = length /\ size' = size /\ overlap' = overlap
    BY <1>3, <2>1 DEF Fits, Reached
  <2>3. length \in Nat /\ 0 < length /\ length <= size /\ size \in Int
    BY <1>3 DEF Fits, Sound, TypeOK, Cut, Position
  <2>4. ChunksSlide'
    BY <2>1, <2>2, <2>3 DEF ChunksSlide
  <2>5. Keeps(Reached)'
    BY <2>1, <2>2, <2>3 DEF Keeps, Holds
  <2> QED
    BY <1>3, <2>2, <2>4, <2>5 DEF Fits, Cut
<1>4. CASE Window
  BY <1>4, WindowSlides, WindowKeeps, WindowMoves DEF Cut
<1>5. CASE UNCHANGED vars
  BY <1>5 DEF Sound, Cut, vars, Position, ChunksSlide, Keeps, Holds, Reached
<1> QED
  BY <1>1, <1>2, <1>3, <1>4, <1>5 DEF Next

\* The types and the invariant hold for every text, size and overlap.
THEOREM Soundness == Spec => []Sound
<1>1. Init => Sound
  BY ChunkerAssumption
  DEF Init, Sound, TypeOK, Cut, Position, ChunksSlide, Keeps, Reached
<1>2. Sound /\ [Next]_vars => Sound'
  BY TypeStep, CutStep DEF Sound
<1> QED
  BY <1>1, <1>2, PTL DEF Spec

\* internal/rag/chunker.go:6: no short phrase is cut by every boundary it meets.
THEOREM NothingIsMissed == Spec => []NothingStraddles
<1>1. Sound => NothingStraddles
  BY DEF Sound, Cut, NothingStraddles
<1> QED
  BY <1>1, Soundness, PTL

\* internal/rag/chunker.go:5: neighbours share exactly the overlap, and every
\* chunk adds to its predecessor.
THEOREM NeighboursOverlap == Spec => []ChunksSlide
<1>1. Sound => ChunksSlide
  BY DEF Sound, Cut
<1> QED
  BY <1>1, Soundness, PTL

\* internal/rag/chunker.go:8: the loop always advances, so that it ends after
\* at most as many turns as the text has runes.
THEOREM Progress == Spec => LoopAdvances
<1>1. Sound /\ [Next]_vars
        => [pc' = "splitting" /\ pc = "splitting" => i < i' /\ i' < length]_vars
  <2> SUFFICES ASSUME Sound, Next, pc' = "splitting", pc = "splitting"
               PROVE  i < i' /\ i' < length
    OBVIOUS
  <2>1. Window
    BY DEF Next, Reject, Clamp, Fits
  <2> QED
    BY <2>1, WindowMoves DEF Position, Window
<1> QED
  BY <1>1, Soundness, PTL DEF Spec, LoopAdvances
-----------------------------------------------------------------------------

Placed == stage \in {"embedded", "indexed", "found"}

Indexed ==
    /\ stage # "chunking" => pc = "returned"
    /\ Placed => chunks # <<>> /\ DOMAIN vecs = DOMAIN chunks
    /\ OwnVectors
    /\ stage \in {"indexed", "found"} => points = {Point(n) : n \in DOMAIN chunks}
    /\ stage = "found" => /\ phrase \in Phrases
                          /\ \E k \in Nat \ {0} : hits \in Nearest(phrase, k)
-----------------------------------------------------------------------------
\* Indexing begins with a run of Chunker, and then leaves its variables alone.
THEOREM IndexingImplementsChunker == IndexingSpec => Spec
<1>1. IndexingInit => Init
  BY DEF IndexingInit
<1>2. [IndexingNext]_indexingVars => [Next]_vars
  BY DEF IndexingNext, indexingVars, Cutting, RefuseEmpty, Refused, EmbedOpenAI, EmbedOllama,
         EmbedFails, Upsert, UpsertFails, Retrieve
<1> QED
  BY <1>1, <1>2, PTL DEF IndexingSpec, Spec

\* Of vectors numbered as they were, one for each input, each gets its place.
LEMMA PutInPlace ==
  ASSUME Sound, NEW data, Numbered(data), OneForEach(data)
  PROVE  /\ DOMAIN ByIndex(data) = DOMAIN chunks
         /\ \A n \in DOMAIN chunks : ByIndex(data)[n] = n
<1>1. DOMAIN ByIndex(data) = DOMAIN chunks
  BY DEF ByIndex, OneForEach
<1>2. ASSUME NEW n \in DOMAIN chunks PROVE ByIndex(data)[n] = n
  <2> DEFINE IsLast(p) == /\ data[p].index = n
                          /\ \A q \in DOMAIN data : data[q].index = n => q <= p
  <2>1. PICK p \in DOMAIN data : data[p].of = n
    BY <1>2 DEF OneForEach
  <2>2. data[p].index = n
    BY <2>1 DEF Numbered
  <2>3. \A q \in DOMAIN data : data[q].index = n => q = p
    BY <2>1 DEF Numbered, OneForEach
  <2>4. p <= p
    BY <2>1 DEF OneForEach, Sound, TypeOK
  <2>5. IsLast(p)
    BY <2>2, <2>3, <2>4
  <2>6. LastFor(data, n) \in DOMAIN data /\ IsLast(LastFor(data, n))
    BY <2>5, Zenon DEF LastFor
  <2>7. LastFor(data, n) = p
    BY <2>3, <2>6
  <2> QED
    BY <1>2, <2>1, <2>2, <2>7 DEF ByIndex, OneForEach
<1> QED
  BY <1>1, <1>2

LEMMA IndexedStep ==
  ASSUME Sound, Indexed, [IndexingNext]_indexingVars
  PROVE  Indexed'
<1>1. CASE Cutting
  <2>1. stage = "chunking"
    BY <1>1 DEF Indexed, Cutting, Next, Reject, Clamp, Fits, Window
  <2>2. stage' = "chunking" /\ vecs' = vecs /\ honest' = honest
    BY <1>1, <2>1 DEF Cutting, ownVars
  <2> QED
    BY <2>2 DEF Indexed, Placed, OwnVectors
<1>2. CASE RefuseEmpty \/ EmbedFails \/ UpsertFails
  <2>1. pc = "returned"
    BY <1>2 DEF RefuseEmpty, EmbedFails, Embeds, UpsertFails, Indexed
  <2>2. Refused
    BY <1>2 DEF RefuseEmpty, EmbedFails, UpsertFails
  <2> QED
    BY <2>1, <2>2 DEF Indexed, Refused, Placed, vars, OwnVectors
<1>3. CASE EmbedOpenAI
  <2>1. PICK data \in Replies : /\ Complete(data)
                                /\ vecs' = ByIndex(data)
                                /\ honest' = (Numbered(data) /\ OneForEach(data))
    BY <1>3 DEF EmbedOpenAI
  <2>2. /\ pc = "returned" /\ chunks # <<>> /\ stage' = "embedded"
        /\ UNCHANGED <<pc, chunks>>
    BY <1>3 DEF EmbedOpenAI, Embeds, vars
  <2>3. DOMAIN vecs' = DOMAIN chunks
    <3>1. DOMAIN data = 1..Len(data) /\ DOMAIN chunks = 1..Len(chunks)
      BY IndexingAssumption DEF Sound, TypeOK
    <3> QED
      BY <2>1, <3>1 DEF Complete, ByIndex
  <2>4. OwnVectors'
    BY <2>1, <2>3, PutInPlace DEF OwnVectors
  <2> QED
    BY <2>2, <2>3, <2>4 DEF Indexed, Placed
<1>4. CASE EmbedOllama
  <2>1. PICK data \in Replies : /\ Complete(data)
                                /\ vecs' = InOrder(data)
                                /\ honest' = Ordered(data)
    BY <1>4 DEF EmbedOllama
  <2>2. /\ pc = "returned" /\ chunks # <<>> /\ stage' = "embedded"
        /\ UNCHANGED <<pc, chunks>>
    BY <1>4 DEF EmbedOllama, Embeds, vars
  <2>3. DOMAIN vecs' = DOMAIN chunks
    <3>1. DOMAIN data = 1..Len(data) /\ DOMAIN chunks = 1..Len(chunks)
      BY IndexingAssumption DEF Sound, TypeOK
    <3> QED
      BY <2>1, <3>1 DEF Complete, InOrder
  <2>4. OwnVectors'
    BY <2>1 DEF OwnVectors, InOrder, Ordered
  <2> QED
    BY <2>2, <2>3, <2>4 DEF Indexed, Placed
<1>5. CASE Upsert
  <2>1. /\ stage = "embedded" /\ stage' = "indexed"
        /\ points' = {Point(n) : n \in DOMAIN chunks}
        /\ UNCHANGED <<pc, chunks, vecs, honest>>
    BY <1>5 DEF Upsert, vars
  <2>2. points' = {Point(n)' : n \in DOMAIN chunks'}
    BY <2>1 DEF Point
  <2> QED
    BY <2>1, <2>2 DEF Indexed, Placed, OwnVectors
<1>6. CASE Retrieve
  <2>1. PICK p \in Phrases, k \in Limits : phrase' = p /\ hits' \in Nearest(p, TopK(k))
    BY <1>6 DEF Retrieve
  <2>2. /\ stage = "indexed" /\ stage' = "found"
        /\ UNCHANGED <<vars, vecs, honest, points>>
    BY <1>6 DEF Retrieve
  <2>3. TopK(k) \in Nat \ {0}
    BY IndexingAssumption DEF TopK
  <2>4. Nearest(p, TopK(k))' = Nearest(p, TopK(k)) /\ Phrases' = Phrases
    BY <2>2 DEF Nearest, Score, Phrases, vars
  <2>5. phrase' \in Phrases' /\ hits' \in Nearest(phrase, TopK(k))'
    BY <2>1, <2>4 DEF Nearest, Score
  <2>6. points' = {Point(n)' : n \in DOMAIN chunks'}
    BY <2>2 DEF Indexed, Point, vars
  <2> QED
    BY <2>2, <2>3, <2>5, <2>6 DEF Indexed, Placed, OwnVectors, vars
<1>7. CASE UNCHANGED indexingVars
  BY <1>7 DEF indexingVars, vars, ownVars, Indexed, Placed, OwnVectors, Point, Phrases,
              Nearest, Score
<1> QED
  BY <1>1, <1>2, <1>3, <1>4, <1>5, <1>6, <1>7 DEF IndexingNext

LEMMA StaysIndexed == IndexingSpec => [](Sound /\ Indexed)
<1>1. IndexingInit => Indexed
  BY DEF IndexingInit, Init, Indexed, Placed, OwnVectors
<1>2. IndexingSpec => []Sound
  BY IndexingImplementsChunker, Soundness, PTL
<1>3. Sound /\ Indexed /\ [IndexingNext]_indexingVars => Indexed'
  BY IndexedStep
<1> QED
  BY <1>1, <1>2, <1>3, PTL DEF IndexingSpec

\* Whatever order the vectors come in: numbered as they were, each is stored with
\* the text it was made of.
THEOREM VectorsAreOwn == IndexingSpec => []OwnVectors
<1>1. Indexed => OwnVectors
  BY DEF Indexed
<1> QED
  BY <1>1, StaysIndexed, PTL

\* Wherever a text was cut, and however few hits are asked for: a short phrase of
\* it is in one of them.
THEOREM PhrasesAreFound == IndexingSpec => []PhraseFound
<1>1. Sound /\ Indexed => PhraseFound
  <2> SUFFICES ASSUME Sound, Indexed, stage = "found", honest
               PROVE  \E h \in hits : Within(phrase, h.text)
    BY DEF PhraseFound
  <2>1. /\ pc = "returned" /\ chunks # <<>> /\ phrase \in Phrases
        /\ points = {Point(n) : n \in DOMAIN chunks}
        /\ \A n \in DOMAIN chunks : vecs[n] = n
    BY DEF Indexed, Placed, OwnVectors
  <2>2. DOMAIN chunks = 1..Len(chunks) /\ Len(chunks) \in Nat \ {0}
    BY <2>1 DEF Sound, TypeOK
  <2>3. size > 0
    <3>1. chunks[1].to - chunks[1].from \in 1..size /\ chunks[1] \in Span
      BY <2>1, <2>2 DEF Sound, TypeOK, Cut, ChunksSlide
    <3> QED
      BY <3>1 DEF Span, Sound, TypeOK
  <2>4. PICK n \in 1..Len(chunks) : Within(phrase, chunks[n])
    <3>1. Keeps(length)
      BY <2>1, <2>3 DEF Sound, Cut
    <3>2. /\ phrase.from \in 0..length /\ phrase.to \in 0..length
          /\ phrase.from < phrase.to /\ phrase.to - phrase.from <= overlap + 1
      BY <2>1 DEF Phrases
    <3>3. \E n \in 1..Len(chunks) : Holds(n, phrase.from, phrase.to)
      BY <3>1, <3>2 DEF Keeps
    <3> QED
      BY <3>3 DEF Holds, Within
  <2>5. Point(n) \in points /\ Point(n).text = chunks[n] /\ Point(n).vector = n
    BY <2>1, <2>2, <2>4 DEF Point
  <2>6. Score(phrase, Point(n).vector) = 1
    BY <2>4, <2>5 DEF Score, Nil
  <2>7. PICK k \in Nat \ {0} : hits \in Nearest(phrase, k)
    BY DEF Indexed
  <2>8. CASE Point(n) \in hits
    BY <2>4, <2>5, <2>8
  <2>9. CASE Point(n) \notin hits
    <3>1. /\ hits \subseteq points /\ Cardinality(hits) = k
          /\ \A h \in hits : Score(phrase, h.vector) >= Score(phrase, Point(n).vector)
      BY <2>5, <2>7, <2>9 DEF Nearest
    <3>2. hits # {}
      BY <3>1, <2>7, FS_EmptySet
    <3>3. PICK h \in hits : Score(phrase, h.vector) >= 1
      BY <2>6, <3>1, <3>2
    <3>4. Within(phrase, chunks[h.vector])
      BY <3>3 DEF Score
    <3>5. PICK m \in DOMAIN chunks : h = Point(m)
      BY <2>1, <3>1, <3>3
    <3>6. h.text = chunks[m] /\ h.vector = m
      BY <2>1, <3>5 DEF Point
    <3> QED
      BY <3>3, <3>4, <3>6
  <2> QED
    BY <2>8, <2>9
<1> QED
  BY <1>1, StaysIndexed, PTL
==============================================================================
