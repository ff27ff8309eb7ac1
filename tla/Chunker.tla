------------------------------- MODULE Chunker -------------------------------
(***************************************************************************)
(* rag.Chunk: a text cut into overlapping windows (internal/rag/           *)
(* chunker.go), one action per turn of its loop.                           *)
(*                                                                         *)
(* The text is its number of runes, and a chunk is the pair of positions   *)
(* it runs from and to.  Sizes and overlaps come from the environment      *)
(* (RAG_CHUNK_SIZE, RAG_OVERLAP) unchecked, so they may be zero or   *)
(* negative.  The sums cannot overflow: the loop runs only if size is      *)
(* below the length of a text that is in memory.                           *)
(***************************************************************************)
EXTENDS Integers, Sequences

CONSTANTS
    Lengths,    \* how long a text may be
    Sizes,      \* what ChunkSize may be configured to be
    Overlaps    \* what Overlap may be configured to be

ASSUME ChunkerAssumption == /\ Lengths \subseteq Nat
                            /\ Sizes \subseteq Int
                            /\ Overlaps \subseteq Int

VARIABLES
    pc,         \* called, splitting or returned
    length,     \* len(runes)
    size,       \* the argument
    overlap,    \* the argument, clamped once splitting
    i,          \* where the next chunk starts
    chunks      \* the chunks so far

vars == <<pc, length, size, overlap, i, chunks>>

Span == [from : Nat, to : Nat]

Init == /\ pc = "called"
        /\ length \in Lengths
        /\ size \in Sizes
        /\ overlap \in Overlaps
        /\ i = 0
        /\ chunks = <<>>

\* Nothing to cut, or nothing to cut it by.
Reject == /\ pc = "called"
          /\ size <= 0 \/ length = 0
          /\ pc' = "returned"
          /\ UNCHANGED <<length, size, overlap, i, chunks>>

\* Mutation: an overlap that is too large becomes the size.
ClampedToSize == IF overlap < 0 THEN 0 ELSE IF overlap >= size THEN size ELSE overlap

Clamped == IF overlap < 0 THEN 0 ELSE IF overlap >= size THEN size - 1 ELSE overlap

Clamp == /\ pc = "called"
         /\ size > 0
         /\ length > 0
         /\ overlap' = Clamped
         /\ pc' = "splitting"
         /\ UNCHANGED <<length, size, i, chunks>>

\* A text that fits is one chunk.
Fits == /\ pc = "splitting"
        /\ length <= size
        /\ chunks' = <<[from |-> 0, to |-> length]>>
        /\ pc' = "returned"
        /\ UNCHANGED <<length, size, overlap, i>>

\* Mutation: windows one rune too far apart.
StepTooFar == size - overlap + 1

Step == size - overlap
End  == IF i + size > length THEN length ELSE i + size

\* Mutation: the loop runs on while there is text left to start in.
LastByStart == i + Step >= length

Last == End = length

\* One turn of the loop.  It ends behind the chunk that reaches the end of the
\* text; its own condition, i < length, never is what ends it.
Window == /\ pc = "splitting"
          /\ length > size
          /\ i < length
          /\ chunks' = Append(chunks, [from |-> i, to |-> End])
          /\ IF Last THEN pc' = "returned" /\ UNCHANGED i
                     ELSE i' = i + Step /\ UNCHANGED pc
          /\ UNCHANGED <<length, size, overlap>>

Next == Reject \/ Clamp \/ Fits \/ Window

Spec == Init /\ [][Next]_vars
-----------------------------------------------------------------------------
TypeOK == /\ pc \in {"called", "splitting", "returned"}
          /\ length \in Nat
          /\ size \in Int
          /\ overlap \in Int
          /\ i \in Nat
          /\ chunks \in Seq(Span)

\* Chunk k has the runes from a up to b.
Holds(k, a, b) == chunks[k].from <= a /\ b <= chunks[k].to

\* Every phrase up to position upto that is short enough is in one chunk.
Keeps(upto) == \A a, b \in 0..upto : a < b /\ b - a <= overlap + 1 =>
                  \E k \in 1..Len(chunks) : Holds(k, a, b)

\* internal/rag/chunker.go:6, "so retrieval doesn't miss content that straddles
\* a boundary": every run of runes of up to one more than the overlap is in one
\* chunk as a whole.  For a run of one rune, this says that no rune is lost.
NothingStraddles == pc = "returned" /\ size > 0 => Keeps(length)

\* internal/rag/chunker.go:5, "overlap is how many runes each chunk shares with
\* its predecessor": exactly that many, no chunk is longer than size, and every
\* chunk has text that its predecessor has not, so none is stored in vain.
ChunksSlide ==
    /\ \A k \in 1..Len(chunks) : chunks[k].to - chunks[k].from \in 1..size
    /\ \A k \in 1..(Len(chunks) - 1) :
          /\ chunks[k].to - chunks[k + 1].from = overlap
          /\ chunks[k].from < chunks[k + 1].from
          /\ chunks[k].to < chunks[k + 1].to

\* internal/rag/chunker.go:8, the overlap is clamped "so the loop always
\* advances": every turn that is not the last moves closer to the end of the
\* text, and stays in front of it, whatever the configuration says.
LoopAdvances ==
    [][pc' = "splitting" /\ pc = "splitting" => i < i' /\ i' < length]_vars

(***************************************************************************)
(* Why: while splitting, the next chunk starts overlap runes before the    *)
(* end of the last one, in front of the end of the text.                   *)
(***************************************************************************)
Reached == IF chunks = <<>> THEN 0 ELSE chunks[Len(chunks)].to

Position == /\ size > 0
            /\ overlap \in 0..(size - 1)
            /\ i < length
            /\ IF chunks = <<>> THEN i = 0
               ELSE /\ i = Reached - overlap
                    /\ chunks[Len(chunks)].from < i
                    /\ Reached < length

Cut == /\ pc = "called" => chunks = <<>> /\ i = 0
       /\ pc = "splitting" => Position
       /\ pc = "returned" /\ size > 0 => Reached = length
       /\ ChunksSlide
       /\ Keeps(Reached)
==============================================================================
