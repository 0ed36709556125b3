------------------------------- MODULE Chunking -------------------------------
(***************************************************************************)
(* chunk_text() of app/services/chunking.py: a document's text is cut into *)
(* overlapping chunks at the widest boundary that leaves a chunk of        *)
(* reasonable size.  A chunk is the interval of the text it holds.  The    *)
(* function keeps no state: `chunking` is private to its caller.           *)
(***************************************************************************)
EXTENDS Integers, Sequences, FiniteSets

CONSTANT Characters   \* among them " ", "\n" and ".", which the boundaries know

VARIABLE chunking     \* the locals of one call

MaxOf(S) == CHOOSE i \in S : \A j \in S : j <= i
MinOf(S) == CHOOSE i \in S : \A j \in S : i <= j

Blank(c) == c \in {" ", "\n"}

AllBlank(text, from, to) == \A i \in from..to : Blank(text[i])

-----------------------------------------------------------------------------
\* Where the matches of each boundary end.  A blank line: a blank run from one
\* line end to another.  A sentence end: all the blanks after a full stop.
Paragraphs(w) == {e \in DOMAIN w : w[e] = "\n" /\ \E i \in 1..(e - 1) : w[i] = "\n" /\ AllBlank(w, i, e)}

Lines(w) == {e \in DOMAIN w : w[e] = "\n"}

Sentences(w) ==
    {e \in DOMAIN w :
        /\ Blank(w[e])
        /\ e = Len(w) \/ ~Blank(w[e + 1])
        /\ \E i \in 1..(e - 1) : w[i] = "." /\ AllBlank(w, i + 1, e)}

\* _split_point() for the window w = text[:limit]: the last match of the first
\* kind of boundary whose last match does not come too early.
SplitPoint(w, limit) ==
    LET kinds  == <<Paragraphs(w), Lines(w), Sentences(w)>>
        worthy == {k \in 1..3 : kinds[k] # {} /\ MaxOf(kinds[k]) >= limit \div 2}
    IN  IF worthy = {} THEN limit ELSE MaxOf(kinds[MinOf(worthy)])

-----------------------------------------------------------------------------
Interval(from, to) == [from |-> from, to |-> to]

\* strip(): text[from..to] without its outer blanks, as the chunks it makes: one,
\* or none if there is nothing left.
Strip(text, from, to) ==
    LET kept == {i \in from..to : ~Blank(text[i])}
    IN  IF kept = {} THEN {} ELSE {Interval(MinOf(kept), MaxOf(kept))}

\* text.strip()
Trimmed(text) ==
    LET kept == {i \in DOMAIN text : ~Blank(text[i])}
    IN  IF kept = {} THEN <<>> ELSE SubSeq(text, MinOf(kept), MaxOf(kept))

\* The call: text that fits is one chunk, if any, and other text is cut.
ChunkCall(raw, max_chars, overlap) ==
    LET text == Trimmed(raw)
        fits == Len(text) <= max_chars
    IN  [pc        |-> IF ~(max_chars > 0 /\ 0 <= overlap /\ overlap < max_chars) THEN "error"
                       ELSE IF fits THEN "chunked" ELSE "cut",
         text      |-> text,
         max_chars |-> max_chars,
         overlap   |-> overlap,
         start     |-> 0,
         chunks    |-> IF fits THEN Strip(text, 1, Len(text)) ELSE {},
         \* History: how far the pieces cut so far reach.
         reached   |-> 0]

Remaining == Len(chunking.text) - chunking.start

\* Mutation of Forward: a step may be no step, or one back.
ForwardByCut(cut) == cut - chunking.overlap

\* Mutation of Forward: the overlap is left out rather than repeated.
ForwardOver(cut) == cut + chunking.overlap

\* max(cut - overlap, 1)
Forward(cut) == IF cut - chunking.overlap > 1 THEN cut - chunking.overlap ELSE 1

\* One turn of the loop while more remains than a chunk can hold.
Cut ==
    LET text  == chunking.text
        start == chunking.start
        cut   == SplitPoint(SubSeq(text, start + 1, start + chunking.max_chars), chunking.max_chars)
    IN  /\ chunking.pc = "cut"
        /\ Remaining > chunking.max_chars
        /\ chunking' = [chunking EXCEPT !.chunks = @ \cup Strip(text, start + 1, start + cut),
                                        !.start = @ + Forward(cut),
                                        !.reached = start + cut]

\* The last turn: what remains is a chunk.
LastPiece ==
    /\ chunking.pc = "cut"
    /\ Remaining <= chunking.max_chars
    /\ chunking' = [chunking EXCEPT
           !.pc = "chunked",
           !.chunks = @ \cup Strip(chunking.text, chunking.start + 1, Len(chunking.text)),
           !.reached = Len(chunking.text)]

ChunkStep == Cut \/ LastPiece

ChunkInit ==
    \E raw \in Seq(Characters), max_chars \in Int, overlap \in Int :
        chunking = ChunkCall(raw, max_chars, overlap)

ChunkSpec == ChunkInit /\ [][ChunkStep]_chunking

-----------------------------------------------------------------------------
\* Properties.

\* No text is lost between two chunks: every character but blanks is in one, and
\* no chunk is longer than asked.
ChunksCoverText ==
    /\ chunking.pc = "chunked" =>
           \A i \in DOMAIN chunking.text :
               Blank(chunking.text[i]) \/ \E c \in chunking.chunks : i \in c.from..c.to
    /\ \A c \in chunking.chunks : c.to - c.from + 1 <= chunking.max_chars

\* The loop gets on: every turn starts at least one character further, whatever the
\* boundary and the overlap, and with an overlap below half a chunk every piece
\* reaches beyond the one before, so that no chunk repeats what the last one had.
EveryPieceIsNew ==
    [][/\ chunking'.pc = "cut" => chunking'.start > chunking.start
       /\ chunking.overlap < chunking.max_chars \div 2
              => chunking'.reached > chunking.reached]_chunking
=============================================================================
