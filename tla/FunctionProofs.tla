--------------------------- MODULE FunctionProofs ---------------------------
(***************************************************************************)
(* What holds of chunk_text() for texts, chunks and overlaps of any size,  *)
(* of build() for any filters, time range and dimensions, of               *)
(* resolve_timeframe() for any day and phrase, of retrieve() for any three *)
(* lists, and of the expressions' parser for expressions of any length.    *)
(***************************************************************************)
EXTENDS Chunking, QueryPlan, RankFusion, Expressions,
        SequenceTheorems, FiniteSetTheorems, WellFoundedInduction, TLAPS

-----------------------------------------------------------------------------
(***************************************************************************)
(* The greatest and the least of a set of positions.                       *)
(***************************************************************************)

LEMMA LeastOfNaturals ==
    ASSUME NEW T \in SUBSET Nat, T # {}
    PROVE  \E x \in T : \A y \in T : x <= y
<1>1. PICK x \in T : \A y \in T : ~(<<y, x>> \in OpToRel(<, Nat))
    BY WFMin, NatLessThanWellFounded, Zenon
<1>2. \A y \in T : <<y, x>> \in OpToRel(<, Nat) <=> y < x
    BY Zenon DEF OpToRel
<1>3. \A y \in T : ~(y < x)
    BY <1>1, <1>2, Zenon
<1>q. QED BY <1>3

LEMMA LeastOf ==
    ASSUME NEW a \in Int, NEW b \in Int, NEW S \in SUBSET (a..b), S # {}
    PROVE  MinOf(S) \in S /\ \A i \in S : MinOf(S) <= i
<1> DEFINE T == {i - a : i \in S}
<1>1. T \in SUBSET Nat /\ T # {}
    OBVIOUS
<1>2. PICK x \in T : \A y \in T : x <= y
    BY <1>1, LeastOfNaturals
<1>3. PICK m \in S : x = m - a
    OBVIOUS
<1>4. \A i \in S : m <= i
    BY <1>2, <1>3
<1>q. QED BY <1>4 DEF MinOf

LEMMA GreatestOf ==
    ASSUME NEW a \in Int, NEW b \in Int, NEW S \in SUBSET (a..b), S # {}
    PROVE  MaxOf(S) \in S /\ \A i \in S : i <= MaxOf(S)
<1> DEFINE T == {b - i : i \in S}
<1>1. T \in SUBSET Nat /\ T # {}
    OBVIOUS
<1>2. PICK x \in T : \A y \in T : x <= y
    BY <1>1, LeastOfNaturals
<1>3. PICK m \in S : x = b - m
    OBVIOUS
<1>4. \A i \in S : i <= m
    BY <1>2, <1>3
<1>q. QED BY <1>4 DEF MaxOf

-----------------------------------------------------------------------------
(***************************************************************************)
(* What strip() keeps and where a window is cut.                           *)
(***************************************************************************)

\* strip() loses blanks only, and adds nothing.
LEMMA StripKeeps ==
    ASSUME NEW text, NEW from \in Int, NEW to \in Int
    PROVE  /\ Strip(text, from, to) \in SUBSET [from : Int, to : Int]
           /\ \A c \in Strip(text, from, to) : from <= c.from /\ c.to <= to
           /\ \A i \in from..to : Blank(text[i]) \/ \E c \in Strip(text, from, to) : i \in c.from..c.to
<1> DEFINE kept == {i \in from..to : ~Blank(text[i])}
<1>1. CASE kept = {}
    BY <1>1 DEF Strip
<1>2. CASE kept # {}
  <2>1. kept \in SUBSET (from..to)
    OBVIOUS
  <2>2. /\ MinOf(kept) \in kept /\ \A i \in kept : MinOf(kept) <= i
        /\ MaxOf(kept) \in kept /\ \A i \in kept : i <= MaxOf(kept)
    BY <1>2, <2>1, LeastOf, GreatestOf
  <2>3. Strip(text, from, to) = {[from |-> MinOf(kept), to |-> MaxOf(kept)]}
    BY <1>2 DEF Strip, Interval
  <2>4. \A i \in from..to : Blank(text[i]) \/ i \in MinOf(kept)..MaxOf(kept)
    BY <2>2
  <2> HIDE DEF kept
  <2>5. MinOf(kept) \in from..to /\ MaxOf(kept) \in from..to
    BY <2>1, <2>2
  <2>q. QED BY <2>3, <2>4, <2>5
<1>q. QED BY <1>1, <1>2

LEMMA TrimmedIsText ==
    ASSUME NEW raw \in Seq(Characters)
    PROVE  Trimmed(raw) \in Seq(Characters)
<1> DEFINE kept == {i \in DOMAIN raw : ~Blank(raw[i])}
<1>1. CASE kept = {}
    BY <1>1 DEF Trimmed
<1>2. CASE kept # {}
  <2>1. kept \in SUBSET (1..Len(raw)) /\ Len(raw) \in Nat
    OBVIOUS
  <2>2. Trimmed(raw) = SubSeq(raw, MinOf(kept), MaxOf(kept))
    BY <1>2 DEF Trimmed
  <2> HIDE DEF kept
  <2>3. MinOf(kept) \in kept /\ MaxOf(kept) \in kept
    <3>1. 1 \in Int /\ Len(raw) \in Int
        BY <2>1
    <3>q. QED BY <1>2, <2>1, <3>1, LeastOf, GreatestOf, Zenon
  <2>4. MinOf(kept) \in 1..Len(raw) /\ MaxOf(kept) \in 1..Len(raw)
    BY <2>1, <2>3
  <2>5. SubSeq(raw, MinOf(kept), MaxOf(kept)) \in Seq(Characters)
    BY <2>1, <2>4, SubSeqProperties
  <2>q. QED BY <2>2, <2>5
<1>q. QED BY <1>1, <1>2

\* _split_point() never cuts before half the window, nor after it, nor at its start.
LEMMA SplitWithin ==
    ASSUME NEW w \in Seq(Characters), NEW limit \in Int, limit > 0, Len(w) = limit
    PROVE  SplitPoint(w, limit) \in 1..limit /\ SplitPoint(w, limit) >= limit \div 2
<1> DEFINE kinds  == <<Paragraphs(w), Lines(w), Sentences(w)>>
           worthy == {k \in 1..3 : kinds[k] # {} /\ MaxOf(kinds[k]) >= limit \div 2}
<1>1. \A k \in 1..3 : kinds[k] \in SUBSET (1..limit)
  <2>d. DOMAIN w = 1..limit
    OBVIOUS
  <2>1. /\ Paragraphs(w) \in SUBSET (1..limit)
        /\ Lines(w) \in SUBSET (1..limit)
        /\ Sentences(w) \in SUBSET (1..limit)
    BY <2>d, Zenon DEF Paragraphs, Lines, Sentences
  <2>2. kinds[1] = Paragraphs(w) /\ kinds[2] = Lines(w) /\ kinds[3] = Sentences(w)
    OBVIOUS
  <2> HIDE DEF kinds
  <2>q. QED BY <2>1, <2>2
<1>2. SplitPoint(w, limit) = IF worthy = {} THEN limit ELSE MaxOf(kinds[MinOf(worthy)])
    BY DEF SplitPoint
<1>3. worthy \in SUBSET (1..3)
    OBVIOUS
<1>4. \A k \in worthy : kinds[k] # {} /\ MaxOf(kinds[k]) >= limit \div 2
    OBVIOUS
<1> HIDE DEF kinds, worthy
<1>5. CASE worthy = {}
    BY <1>2, <1>5
<1>6. CASE worthy # {}
  <2>1. MinOf(worthy) \in worthy
    <3>1. 1 \in Int /\ 3 \in Int
        OBVIOUS
    <3>q. QED BY <1>3, <1>6, <3>1, LeastOf, Zenon
  <2>2. MaxOf(kinds[MinOf(worthy)]) \in kinds[MinOf(worthy)]
    <3>1. MinOf(worthy) \in 1..3
        BY <1>3, <2>1, Zenon
    <3>2. kinds[MinOf(worthy)] \in SUBSET (1..limit) /\ kinds[MinOf(worthy)] # {}
        BY <1>1, <1>4, <2>1, <3>1, Zenon
    <3>3. 1 \in Int
        OBVIOUS
    <3>q. QED BY <3>2, <3>3, GreatestOf, Zenon
  <2>q. QED BY <1>1, <1>2, <1>3, <1>4, <1>6, <2>1, <2>2
<1>q. QED BY <1>5, <1>6

-----------------------------------------------------------------------------
(***************************************************************************)
(* The inductive invariant.                                                *)
(***************************************************************************)

TypeInv ==
    chunking \in
        [pc        : {"error", "chunked", "cut"},
         text      : Seq(Characters),
         max_chars : Int,
         overlap   : Int,
         start     : Nat,
         chunks    : SUBSET [from : Int, to : Int],
         reached   : Nat]

\* The characters up to n that are not blank are in chunks.
CoveredTo(n) ==
    \A i \in 1..n : Blank(chunking.text[i]) \/ \E c \in chunking.chunks : i \in c.from..c.to

\* What is cut so far covers the text up to where it reaches; the next piece starts
\* before that point, by the overlap at most, and more text remains.
IInv ==
    /\ TypeInv
    /\ \A c \in chunking.chunks : c.to - c.from + 1 <= chunking.max_chars
    /\ chunking.pc = "chunked" => CoveredTo(Len(chunking.text))
    /\ chunking.pc = "cut" =>
          /\ chunking.max_chars > 0 /\ 0 <= chunking.overlap /\ chunking.overlap < chunking.max_chars
          /\ CoveredTo(chunking.reached)
          /\ chunking.start <= chunking.reached
          /\ chunking.reached <= chunking.start + chunking.overlap
          /\ chunking.reached < Len(chunking.text)

LEMMA InitInv == ChunkInit => IInv
<1> SUFFICES ASSUME NEW raw \in Seq(Characters), NEW max_chars \in Int, NEW overlap \in Int,
                    chunking = ChunkCall(raw, max_chars, overlap)
             PROVE  IInv
    BY DEF ChunkInit
<1> DEFINE text == Trimmed(raw)
<1>1. text \in Seq(Characters) /\ Len(text) \in Nat
    BY TrimmedIsText, LenProperties
<1>2. /\ chunking.text = text /\ chunking.max_chars = max_chars /\ chunking.overlap = overlap
      /\ chunking.start = 0 /\ chunking.reached = 0
      /\ chunking.pc = IF ~(max_chars > 0 /\ 0 <= overlap /\ overlap < max_chars) THEN "error"
                       ELSE IF Len(text) <= max_chars THEN "chunked" ELSE "cut"
      /\ chunking.chunks = IF Len(text) <= max_chars THEN Strip(text, 1, Len(text)) ELSE {}
    BY DEF ChunkCall
<1>3. /\ Strip(text, 1, Len(text)) \in SUBSET [from : Int, to : Int]
      /\ \A c \in Strip(text, 1, Len(text)) : 1 <= c.from /\ c.to <= Len(text)
      /\ \A i \in 1..Len(text) :
            Blank(text[i]) \/ \E c \in Strip(text, 1, Len(text)) : i \in c.from..c.to
    BY <1>1, StripKeeps
<1>4. TypeInv
    BY <1>1, <1>2, <1>3 DEF ChunkCall, TypeInv
<1> HIDE DEF text
<1>5. \A c \in chunking.chunks : c.to - c.from + 1 <= chunking.max_chars
    BY <1>1, <1>2, <1>3
<1>6. chunking.pc = "chunked" => CoveredTo(Len(chunking.text))
    BY <1>1, <1>2, <1>3 DEF CoveredTo
<1>7. chunking.pc = "cut" =>
          /\ chunking.max_chars > 0 /\ 0 <= chunking.overlap /\ chunking.overlap < chunking.max_chars
          /\ CoveredTo(chunking.reached)
          /\ chunking.start <= chunking.reached
          /\ chunking.reached <= chunking.start + chunking.overlap
          /\ chunking.reached < Len(chunking.text)
    BY <1>1, <1>2 DEF CoveredTo
<1>q. QED BY <1>4, <1>5, <1>6, <1>7 DEF IInv

\* Where a turn of the loop cuts, and what becomes of the locals.
LEMMA CutShape ==
    ASSUME IInv, Cut
    PROVE  \E cut \in 1..chunking.max_chars :
              /\ cut >= chunking.max_chars \div 2
              /\ chunking.pc = "cut"
              /\ Len(chunking.text) - chunking.start > chunking.max_chars
              /\ chunking'.pc = "cut" /\ chunking'.text = chunking.text
              /\ chunking'.max_chars = chunking.max_chars /\ chunking'.overlap = chunking.overlap
              /\ chunking'.chunks = chunking.chunks \cup
                    Strip(chunking.text, chunking.start + 1, chunking.start + cut)
              /\ chunking'.start = chunking.start + Forward(cut)
              /\ chunking'.reached = chunking.start + cut
              /\ TypeInv'
<1> DEFINE text  == chunking.text
           start == chunking.start
           limit == chunking.max_chars
           w     == SubSeq(text, start + 1, start + limit)
           cut   == SplitPoint(w, limit)
<1>1. chunking.pc = "cut" /\ Len(text) - start > limit
    BY DEF Cut, Remaining
<1>2. /\ text \in Seq(Characters) /\ Len(text) \in Nat /\ start \in Nat
      /\ limit \in Int /\ limit > 0 /\ chunking.overlap \in Int
    BY <1>1, LenProperties DEF IInv, TypeInv
<1>3. w \in Seq(Characters) /\ Len(w) = limit
  <2>1. \A i \in (start + 1)..(start + limit) : text[i] \in Characters
    BY <1>1, <1>2
  <2> HIDE DEF text, start, limit
  <2>q. QED BY <1>2, <2>1, SubSeqProperties
<1> HIDE DEF w
<1>4. cut \in 1..limit /\ cut >= limit \div 2
    BY <1>2, <1>3, SplitWithin
<1>5. chunking' = [chunking EXCEPT
          !.chunks = @ \cup Strip(text, start + 1, start + cut),
          !.start = @ + Forward(cut),
          !.reached = start + cut]
    BY DEF Cut, w
<1> HIDE DEF cut
<1>6. Strip(text, start + 1, start + cut) \in SUBSET [from : Int, to : Int]
    BY <1>2, <1>4, StripKeeps
<1>7. Forward(cut) \in Nat
    BY <1>2, <1>4 DEF Forward
<1>8. TypeInv'
  <2>1. TypeInv
    BY DEF IInv
  <2>2. start + Forward(cut) \in Nat /\ start + cut \in Nat
    BY <1>2, <1>4, <1>7
  <2>3. chunking.chunks \cup Strip(text, start + 1, start + cut) \in SUBSET [from : Int, to : Int]
    BY <2>1, <1>6 DEF TypeInv
  <2>q. QED BY <2>1, <2>2, <2>3, <1>5 DEF TypeInv
<1>q. QED BY <1>1, <1>4, <1>5, <1>8 DEF IInv, TypeInv

LEMMA CutKeeps == ASSUME IInv, Cut PROVE IInv'
<1>1. PICK cut \in 1..chunking.max_chars :
        /\ chunking.pc = "cut"
        /\ Len(chunking.text) - chunking.start > chunking.max_chars
        /\ chunking'.pc = "cut" /\ chunking'.text = chunking.text
        /\ chunking'.max_chars = chunking.max_chars /\ chunking'.overlap = chunking.overlap
        /\ chunking'.chunks = chunking.chunks \cup
              Strip(chunking.text, chunking.start + 1, chunking.start + cut)
        /\ chunking'.start = chunking.start + Forward(cut)
        /\ chunking'.reached = chunking.start + cut
        /\ TypeInv'
    BY CutShape
<1>2. /\ chunking.start \in Nat /\ chunking.reached \in Nat /\ Len(chunking.text) \in Nat
      /\ chunking.max_chars \in Int /\ chunking.overlap \in Int
      /\ chunking.chunks \in SUBSET [from : Int, to : Int]
    BY LenProperties DEF IInv, TypeInv
<1>3. /\ chunking.max_chars > 0 /\ 0 <= chunking.overlap /\ chunking.overlap < chunking.max_chars
      /\ CoveredTo(chunking.reached)
      /\ chunking.start <= chunking.reached
    BY <1>1 DEF IInv
<1> DEFINE piece == Strip(chunking.text, chunking.start + 1, chunking.start + cut)
<1>4. /\ piece \in SUBSET [from : Int, to : Int]
      /\ \A c \in piece : chunking.start + 1 <= c.from /\ c.to <= chunking.start + cut
      /\ \A i \in (chunking.start + 1)..(chunking.start + cut) :
            Blank(chunking.text[i]) \/ \E c \in piece : i \in c.from..c.to
  <2>1. chunking.start + 1 \in Int /\ chunking.start + cut \in Int
    BY <1>2
  <2>q. QED BY <2>1, StripKeeps, Zenon
<1> HIDE DEF piece
<1>5. \A c \in chunking'.chunks : c.to - c.from + 1 <= chunking'.max_chars
  <2>1. \A c \in piece : c.to - c.from + 1 <= chunking.max_chars
    BY <1>2, <1>4
  <2>q. QED BY <1>1, <2>1 DEF IInv, piece
<1>6. CoveredTo(chunking.reached)'
  <2> SUFFICES ASSUME NEW i \in 1..chunking'.reached
               PROVE  Blank(chunking'.text[i]) \/ \E c \in chunking'.chunks : i \in c.from..c.to
    BY DEF CoveredTo
  <2>1. i \in 1..chunking.reached \/ i \in (chunking.start + 1)..(chunking.start + cut)
    BY <1>1, <1>2, <1>3
  <2>2. CASE i \in 1..chunking.reached
    BY <1>1, <1>3, <2>2 DEF CoveredTo
  <2>3. CASE i \in (chunking.start + 1)..(chunking.start + cut)
    BY <1>1, <1>4, <2>3 DEF piece
  <2>q. QED BY <2>1, <2>2, <2>3
<1>7. /\ chunking'.start <= chunking'.reached
      /\ chunking'.reached <= chunking'.start + chunking'.overlap
      /\ chunking'.reached < Len(chunking'.text)
  <2>1. Forward(cut) \in 1..cut /\ Forward(cut) >= cut - chunking.overlap
    BY <1>2, <1>3 DEF Forward
  <2> DEFINE step == Forward(cut)
  <2> HIDE DEF step
  <2>2. /\ step \in Int /\ step <= cut /\ step >= cut - chunking.overlap
        /\ chunking'.start = chunking.start + step
    BY <1>1, <1>2, <2>1 DEF step
  <2>3. chunking'.start <= chunking'.reached
    BY <1>1, <1>2, <2>2
  <2>4. chunking'.reached <= chunking'.start + chunking'.overlap
    BY <1>1, <1>2, <2>2
  <2>5. chunking'.reached < Len(chunking'.text)
    BY <1>1, <1>2
  <2>q. QED BY <2>3, <2>4, <2>5
<1>q. QED BY <1>1, <1>3, <1>5, <1>6, <1>7 DEF IInv

LEMMA LastPieceKeeps == ASSUME IInv, LastPiece PROVE IInv'
<1>1. /\ chunking.pc = "cut" /\ Len(chunking.text) - chunking.start <= chunking.max_chars
      /\ chunking' = [chunking EXCEPT
             !.pc = "chunked",
             !.chunks = @ \cup Strip(chunking.text, chunking.start + 1, Len(chunking.text)),
             !.reached = Len(chunking.text)]
    BY DEF LastPiece, Remaining
<1>2. /\ chunking.start \in Nat /\ chunking.reached \in Nat /\ Len(chunking.text) \in Nat
      /\ chunking.max_chars \in Int /\ chunking.chunks \in SUBSET [from : Int, to : Int]
    BY LenProperties DEF IInv, TypeInv
<1> DEFINE piece == Strip(chunking.text, chunking.start + 1, Len(chunking.text))
<1>3. /\ piece \in SUBSET [from : Int, to : Int]
      /\ \A c \in piece : chunking.start + 1 <= c.from /\ c.to <= Len(chunking.text)
      /\ \A i \in (chunking.start + 1)..Len(chunking.text) :
            Blank(chunking.text[i]) \/ \E c \in piece : i \in c.from..c.to
    BY <1>2, StripKeeps
<1>4. /\ chunking'.pc = "chunked" /\ chunking'.text = chunking.text
      /\ chunking'.max_chars = chunking.max_chars
      /\ chunking'.chunks = chunking.chunks \cup piece
    BY <1>1 DEF IInv, TypeInv
<1> HIDE DEF piece
<1>5. TypeInv'
    BY <1>1, <1>2, <1>3 DEF IInv, TypeInv, piece
<1>6. \A c \in chunking'.chunks : c.to - c.from + 1 <= chunking'.max_chars
  <2>1. \A c \in piece : c.to - c.from + 1 <= chunking.max_chars
    BY <1>1, <1>2, <1>3
  <2>q. QED BY <1>4, <2>1 DEF IInv
<1>7. CoveredTo(Len(chunking.text))'
  <2> SUFFICES ASSUME NEW i \in 1..Len(chunking'.text)
               PROVE  Blank(chunking'.text[i]) \/ \E c \in chunking'.chunks : i \in c.from..c.to
    BY DEF CoveredTo
  <2>1. CoveredTo(chunking.reached) /\ chunking.start <= chunking.reached
    BY <1>1 DEF IInv
  <2>2. i \in 1..chunking.reached \/ i \in (chunking.start + 1)..Len(chunking.text)
    BY <1>2, <1>4, <2>1
  <2>3. CASE i \in 1..chunking.reached
    BY <1>4, <2>1, <2>3 DEF CoveredTo
  <2>4. CASE i \in (chunking.start + 1)..Len(chunking.text)
    BY <1>3, <1>4, <2>4
  <2>q. QED BY <2>2, <2>3, <2>4
<1>q. QED BY <1>4, <1>5, <1>6, <1>7 DEF IInv

LEMMA Invariant == ChunkSpec => []IInv
<1>1. IInv /\ [ChunkStep]_chunking => IInv'
  <2>1. ASSUME IInv, UNCHANGED chunking PROVE IInv'
    BY <2>1 DEF IInv, TypeInv, CoveredTo
  <2>q. QED BY <2>1, CutKeeps, LastPieceKeeps DEF ChunkStep
<1>q. QED BY <1>1, InitInv, PTL DEF ChunkSpec

-----------------------------------------------------------------------------
(***************************************************************************)
(* The properties.                                                         *)
(***************************************************************************)

\* No character but blanks is lost and no chunk is too long (chunk_text()).
THEOREM TextIsCovered == ChunkSpec => []ChunksCoverText
<1>1. IInv => ChunksCoverText
  <2> SUFFICES ASSUME IInv PROVE ChunksCoverText
    OBVIOUS
  <2>1. chunking.text \in Seq(Characters)
    BY DEF IInv, TypeInv
  <2>2. DOMAIN chunking.text = 1..Len(chunking.text)
    BY <2>1
  <2>q. QED BY <2>2 DEF IInv, CoveredTo, ChunksCoverText
<1>q. QED BY <1>1, Invariant, PTL

\* Every turn of chunk_text() starts further on, so that the loop ends; a piece that
\* overlaps by less than half a chunk reaches further too.
THEOREM PiecesGetOn == ChunkSpec => EveryPieceIsNew
<1> DEFINE new ==
        /\ chunking'.pc = "cut" => chunking'.start > chunking.start
        /\ chunking.overlap < chunking.max_chars \div 2 => chunking'.reached > chunking.reached
<1>1. ASSUME IInv, ChunkStep PROVE new
  <2>1. /\ chunking.start \in Nat /\ chunking.reached \in Nat /\ Len(chunking.text) \in Nat
        /\ chunking.max_chars \in Int /\ chunking.overlap \in Int
    BY <1>1, LenProperties DEF IInv, TypeInv
  <2>2. CASE Cut
    <3>1. PICK cut \in 1..chunking.max_chars :
            /\ cut >= chunking.max_chars \div 2
            /\ chunking.pc = "cut"
            /\ chunking'.start = chunking.start + Forward(cut)
            /\ chunking'.reached = chunking.start + cut
        BY <1>1, <2>2, CutShape
    <3>2. Forward(cut) \in Nat /\ Forward(cut) >= 1
        BY <2>1 DEF Forward
    <3>3. chunking.reached <= chunking.start + chunking.overlap
        BY <1>1, <3>1 DEF IInv
    <3>4. chunking.max_chars \div 2 \in Int
        BY <2>1
    <3> DEFINE half == chunking.max_chars \div 2
    <3> HIDE DEF half
    <3>5. chunking'.start > chunking.start
        BY <2>1, <3>1, <3>2
    <3>6. half \in Int /\ cut >= half /\ cut \in Int
        BY <2>1, <3>1, <3>4 DEF half
    <3>7. chunking.overlap < half => chunking'.reached > chunking.reached
        BY <2>1, <3>1, <3>3, <3>6
    <3>q. QED BY <3>5, <3>7 DEF half
  <2>3. CASE LastPiece
    <3>1. chunking'.pc = "chunked" /\ chunking'.reached = Len(chunking.text)
        BY <1>1, <2>3 DEF LastPiece, IInv, TypeInv
    <3>2. chunking.reached < Len(chunking.text)
        BY <1>1, <2>3 DEF LastPiece, IInv
    <3>q. QED BY <2>1, <3>1, <3>2
  <2>q. QED BY <1>1, <2>2, <2>3 DEF ChunkStep
<1>2. IInv /\ [ChunkStep]_chunking => [new]_chunking
    BY <1>1
<1>q. QED BY <1>2, Invariant, PTL DEF ChunkSpec, EveryPieceIsNew

-----------------------------------------------------------------------------
(***************************************************************************)
(* build().  The inductive invariant says how far the loop has come, that  *)
(* what it has read of the fields of filters stays as it was, and which    *)
(* candidates have been looked at.                                         *)
(***************************************************************************)

\* The filters looked at so far: those that are wrong have a problem of their
\* number, and as long as there is none the others are made, in order.
FiltersInv ==
    /\ build.next \in 1..(Len(build.filters) + 1)
    /\ build.pc = "load" => build.next = 1
    /\ build.pc \notin {"load", "filters"} => build.next = Len(build.filters) + 1
    /\ \A i \in 1..Len(build.filters) :
          (\E p \in build.problems : p.about = i) <=> i < build.next /\ Bad(build.filters[i])
    /\ \A p \in build.problems :
          p.about < build.next /\ (p.about = 0 => build.pc = "refused")
    /\ build.problems = {} =>
          /\ Len(build.made) = build.next - 1
          /\ \A i \in 1..(build.next - 1) : build.made[i] = build.filters[i]
    /\ build.pc = "built" => build.problems = {}
    /\ build.pc = "refused" => build.problems # {}

\* A field that was not there when it was looked for was dropped, and an id never
\* comes back.
FieldsInv ==
    /\ \A d \in dropped : dimensions[d] = None
    /\ \A d \in Fields(build.filters) :
          IF build.pc = "load" THEN dimensions[d] # None \/ d \in dropped
          ELSE build.read[d] = None => d \in dropped

\* The candidates are those there were to pick from, as far as their entities have
\* been looked at.
TimeInv ==
    /\ build.pc \in {"load", "filters", "candidates"} => build.candidates = {}
    /\ build.pc \in {"load", "filters", "candidates", "owners"} => build.time = None
    /\ build.pc \in {"candidates", "owners"} => build.phrase # None
    /\ build.pc = "owners" =>
          build.temporal = build.candidates \cup {d \in build.pending : EntityOf[d] \in OfVersion}
    /\ build.pc = "built" => (build.phrase = None <=> build.time = None)
    /\ TimeDimensionWasTheOnlyOne

PlanInv == PlanTypeOK /\ FiltersInv /\ FieldsInv /\ TimeInv

\* Whatever a phrase is, resolve_timeframe() returns, refuses or raises.
LEMMA ResolvedOrNot ==
    ASSUME NEW p \in Phrases(Nat), NEW today
    PROVE  ResolveTimeframe(p, today).status \in {"refused", "raised", "range"}
<1>1. ASSUME NEW range PROVE Resolved(range).status \in {"refused", "raised", "range"}
    BY DEF Resolved, Refused, Raised
<1>2. p.says \in {"this", "last", "last count", "to date", "other"}
    BY DEF Phrases
<1>q. QED BY <1>1, <1>2 DEF ResolveTimeframe, Refused, Raised

LEMMA FieldsAre ==
    ASSUME NEW s \in Seq(Filters)
    PROVE  /\ Len(s) \in Nat /\ DOMAIN s = 1..Len(s)
           /\ \A i \in 1..Len(s) : s[i] \in Filters /\ s[i].dimension \in Dimensions \cap Fields(s)
           /\ Fields(s) \subseteq Dimensions
<1>1. Len(s) \in Nat /\ DOMAIN s = 1..Len(s) /\ \A i \in 1..Len(s) : s[i] \in Filters
    BY LenProperties
<1>2. \A i \in 1..Len(s) : s[i].dimension \in Dimensions /\ s[i].dimension \in Fields(s)
    BY <1>1 DEF Filters, Fields
<1>3. \A d \in Fields(s) : \E i \in 1..Len(s) : s[i].dimension = d
    BY <1>1 DEF Fields
<1>q. QED BY <1>1, <1>2, <1>3

\* The chain of conditions of the loop finds a problem exactly if one of them holds.
LEMMA WrongIfBad ==
    ASSUME NEW f \in Filters
    PROVE  Wrong(f) \subseteq Reasons /\ (Wrong(f) = {} <=> ~Bad(f))
<1> DEFINE row == build.read[f.dimension]
           n   == Len(f.values)
<1>1. f.values \in Seq(Values) /\ f.set \in BOOLEAN
    BY DEF Filters
<1>2. n \in Nat /\ (f.values = <<>> <=> n = 0)
    BY <1>1, LenProperties, EmptySeq
<1> DEFINE readable == Readable(f.values, row)
<1>3. Wrong(f) = CASE row = None -> {"not loaded"}
                   [] row # None /\ f.values = <<>> -> {"no value"}
                   [] row # None /\ f.values # <<>> /\ n > 1 /\ ~f.set -> {"several values"}
                   [] row # None /\ f.values # <<>> /\ (n = 1 \/ f.set) /\ ~readable -> {"not a value"}
                   [] OTHER -> {}
    BY <1>2 DEF Wrong
<1>4. Bad(f) <=> row = None \/ f.values = <<>> \/ (~f.set /\ n > 1) \/ ~readable
    BY DEF Bad
<1> HIDE DEF row, n, readable
<1>5. Wrong(f) \subseteq Reasons
    BY <1>3 DEF Reasons
<1>6. ASSUME Bad(f) PROVE Wrong(f) # {}
  <2>1. CASE row = None
    BY <1>3, <2>1
  <2>2. CASE row # None /\ f.values = <<>>
    BY <1>3, <2>2
  <2>3. CASE row # None /\ f.values # <<>> /\ ~f.set /\ n > 1
    BY <1>3, <2>3
  <2>4. CASE row # None /\ f.values # <<>> /\ (n = 1 \/ f.set) /\ ~readable
    BY <1>2, <1>3, <2>4
  <2>q. QED BY <1>1, <1>2, <1>4, <1>6, <2>1, <2>2, <2>3, <2>4
<1>7. ASSUME ~Bad(f) PROVE Wrong(f) = {}
    BY <1>2, <1>3, <1>4, <1>7
<1>q. QED BY <1>5, <1>6, <1>7

LEMMA OutcomeIs ==
    ASSUME NEW problems
    PROVE  \/ Outcome(problems) = "built" /\ problems = {}
           \/ Outcome(problems) = "refused" /\ problems # {}
BY DEF Outcome

LEMMA PlanInit == BuildInit => PlanInv
<1> SUFFICES ASSUME BuildInit PROVE PlanInv
    OBVIOUS
<1>1. PICK filters \in Seq(Filters), grouped \in SUBSET Dimensions,
           phrase \in Phrases(Nat) \cup {None}, today \in Calendar :
        /\ \A d \in grouped \cup Fields(filters) : dimensions[d] # None \/ d \in dropped
        /\ build = Build(filters, grouped, phrase, today)
    BY DEF BuildInit
<1>2. /\ build.pc = "load" /\ build.filters = filters /\ build.next = 1
      /\ build.problems = {} /\ build.made = <<>> /\ build.time = None
      /\ build.candidates = {}
    BY <1>1 DEF Build
<1>3. PlanTypeOK
  <2>1. <<>> \in Seq(Filters) /\ [d \in Dimensions |-> None] \in [Dimensions -> Declared \cup {None}]
    OBVIOUS
  <2>2. "load" \in Steps /\ 1 \in Nat
    BY DEF Steps
  <2>q. QED BY <1>1, <2>1, <2>2 DEF PlanTypeOK, Build, BuildInit
<1>4. FiltersInv
  <2>1. Len(filters) \in Nat /\ Len(build.made) = 0
    BY <1>1, <1>2, LenProperties, EmptySeq
  <2>q. QED BY <1>2, <2>1 DEF FiltersInv
<1>5. FieldsInv
    BY <1>1, <1>2 DEF FieldsInv, BuildInit
<1>6. TimeInv
    BY <1>2 DEF TimeInv, TimeDimensionWasTheOnlyOne
<1>q. QED BY <1>3, <1>4, <1>5, <1>6 DEF PlanInv

LEMMA LoadKeeps == ASSUME PlanInv, Load PROVE PlanInv'
<1>1. PlanTypeOK /\ FiltersInv /\ FieldsInv /\ TimeInv /\ build.pc = "load"
    BY DEF PlanInv, Load
<1> DEFINE asked == build.grouped \cup Fields(build.filters)
           read  == [d \in Dimensions |-> IF d \in asked THEN dimensions[d] ELSE None]
<1>2. read \in [Dimensions -> Declared \cup {None}] /\ \A d \in asked \cap Dimensions : read[d] = dimensions[d]
    BY <1>1 DEF PlanTypeOK
<1>3. build' = [build EXCEPT !.pc = "filters", !.read = read] /\ UNCHANGED <<dimensions, dropped>>
    BY DEF Load, model
<1> HIDE DEF read
<1>4. PlanTypeOK'
    BY <1>1, <1>2, <1>3 DEF PlanTypeOK, Steps
<1>5. /\ build'.pc = "filters" /\ build'.read = read /\ build'.filters = build.filters
      /\ build'.next = build.next /\ build'.problems = build.problems
      /\ build'.made = build.made /\ build'.time = build.time
      /\ build'.candidates = build.candidates
    BY <1>1, <1>3 DEF PlanTypeOK
<1>6. FiltersInv'
    BY <1>1, <1>5 DEF FiltersInv
<1>7. FieldsInv'
  <2>1. Fields(build.filters) \subseteq Dimensions
    BY <1>1, FieldsAre DEF PlanTypeOK
  <2>q. QED BY <1>1, <1>2, <1>3, <1>5, <2>1 DEF FieldsInv, Fields
<1>8. TimeInv'
    BY <1>1, <1>5 DEF TimeInv, TimeDimensionWasTheOnlyOne
<1>q. QED BY <1>4, <1>6, <1>7, <1>8 DEF PlanInv

LEMMA FilterKeeps == ASSUME PlanInv, Filter PROVE PlanInv'
<1> DEFINE n == build.next
           f == build.filters[n]
           problems == build.problems \cup {Problem(n, w) : w \in Wrong(f)}
           made == IF Wrong(f) = {} THEN Append(build.made, f) ELSE build.made
<1>1. /\ PlanTypeOK /\ FiltersInv /\ FieldsInv /\ TimeInv
      /\ build.pc = "filters" /\ n <= Len(build.filters)
    BY DEF PlanInv, Filter
<1>2. /\ build.filters \in Seq(Filters) /\ build.made \in Seq(Filters)
      /\ Len(build.filters) \in Nat /\ Len(build.made) \in Nat
      /\ n \in 1..Len(build.filters) /\ f \in Filters
    BY <1>1, FieldsAre, LenProperties DEF PlanTypeOK, FiltersInv
<1>3. Wrong(f) \subseteq Reasons /\ (Wrong(f) = {} <=> ~Bad(f))
    BY <1>2, WrongIfBad
<1>4. /\ problems \subseteq [about : Nat, what : Reasons]
      /\ \A p \in problems : p \in build.problems \/ p.about = n
      /\ build.problems \subseteq problems
      /\ Wrong(f) # {} => \E p \in problems : p.about = n
      /\ Wrong(f) = {} => problems = build.problems
  <2>1. build.problems \subseteq [about : Nat, what : Reasons] /\ n \in Nat
    BY <1>1 DEF PlanTypeOK
  <2>2. \A w \in Wrong(f) : /\ Problem(n, w) \in [about : Nat, what : Reasons]
                          /\ Problem(n, w).about = n
    BY <1>3, <2>1 DEF Problem
  <2>3. \A p \in problems : p \in build.problems \/ \E w \in Wrong(f) : p = Problem(n, w)
    OBVIOUS
  <2>4. \A w \in Wrong(f) : Problem(n, w) \in problems
    OBVIOUS
  <2>5. build.problems \subseteq problems /\ (Wrong(f) = {} => problems = build.problems)
    OBVIOUS
  <2> HIDE DEF problems
  <2>q. QED BY <2>1, <2>2, <2>3, <2>4, <2>5
<1>5. /\ made \in Seq(Filters)
      /\ Wrong(f) = {} => /\ Len(made) = Len(build.made) + 1
                          /\ \A i \in 1..Len(build.made) : made[i] = build.made[i]
                          /\ made[Len(build.made) + 1] = f
  <2>1. CASE Wrong(f) = {}
    BY <1>2, <2>1, AppendProperties
  <2>2. CASE Wrong(f) # {}
    BY <1>2, <2>2
  <2>q. QED BY <2>1, <2>2
<1>6. /\ build' = [build EXCEPT !.next = n + 1, !.problems = problems, !.made = made]
      /\ UNCHANGED <<dimensions, dropped>>
    BY DEF Filter, model
<1> HIDE DEF problems, made
<1>7. PlanTypeOK'
  <2>1. n + 1 \in Nat
    BY <1>2
  <2> HIDE DEF n
  <2>q. QED BY <1>1, <1>4, <1>5, <1>6, <2>1 DEF PlanTypeOK
<1>8. /\ build'.pc = "filters" /\ build'.read = build.read /\ build'.filters = build.filters
      /\ build'.next = n + 1 /\ build'.problems = problems
      /\ build'.made = made /\ build'.time = build.time
      /\ build'.candidates = build.candidates
    BY <1>1, <1>6 DEF PlanTypeOK
<1>9. FiltersInv'
  <2>1. \A i \in 1..Len(build.filters) : Bad(build.filters[i])' <=> Bad(build.filters[i])
    BY <1>8 DEF Bad, Readable
  <2>2. \A i \in 1..Len(build.filters) :
           (\E p \in problems : p.about = i) <=> i < n + 1 /\ Bad(build.filters[i])
    BY <1>1, <1>2, <1>3, <1>4 DEF FiltersInv
  <2>3. \A p \in problems : p.about < n + 1 /\ p.about # 0
    BY <1>1, <1>2, <1>4 DEF FiltersInv, PlanTypeOK
  <2>4. problems = {} =>
          /\ Len(made) = n + 1 - 1
          /\ \A i \in 1..(n + 1 - 1) : made[i] = build.filters[i]
    <3> SUFFICES ASSUME problems = {} 
                 PROVE  /\ Len(made) = n
                        /\ \A i \in 1..n : made[i] = build.filters[i]
        BY <1>2
    <3>1. Wrong(f) = {} /\ build.problems = {}
        BY <1>4
    <3>2. Len(build.made) = n - 1 /\ \A i \in 1..(n - 1) : build.made[i] = build.filters[i]
        BY <1>1, <3>1 DEF FiltersInv
    <3>3. made[n] = f /\ Len(made) = n /\ \A i \in 1..(n - 1) : made[i] = build.filters[i]
        BY <1>2, <1>5, <3>1, <3>2
    <3>4. \A i \in 1..n : i = n \/ i \in 1..(n - 1)
        BY <1>2
    <3>q. QED BY <3>3, <3>4
  <2>q. QED BY <1>2, <1>8, <2>1, <2>2, <2>3, <2>4 DEF FiltersInv
<1>10. FieldsInv'
    BY <1>1, <1>6, <1>8 DEF FieldsInv
<1>11. TimeInv'
    BY <1>1, <1>8 DEF TimeInv, TimeDimensionWasTheOnlyOne
<1>q. QED BY <1>7, <1>9, <1>10, <1>11 DEF PlanInv

\* The loop is over: what it found stays.
LEMMA FiltersStay ==
    ASSUME PlanInv, build.next = Len(build.filters) + 1, PlanTypeOK',
           build'.pc \in {"candidates", "owners", "built", "refused", "raised"},
           build'.filters = build.filters, build'.next = build.next, build'.made = build.made,
           \A d \in Fields(build.filters) : build'.read[d] = build.read[d],
           build.problems \subseteq build'.problems,
           \A p \in build'.problems \ build.problems : p.about = 0 /\ build'.pc = "refused",
           build.pc # "refused",
           build'.pc = "built" => build'.problems = {},
           build'.pc = "refused" => build'.problems # {}
    PROVE  FiltersInv'
<1>1. PlanTypeOK /\ FiltersInv /\ build.filters \in Seq(Filters)
    BY DEF PlanInv, PlanTypeOK
<1>2. \A i \in 1..Len(build.filters) : Bad(build.filters[i])' <=> Bad(build.filters[i])
    BY <1>1, FieldsAre DEF Bad, Readable
<1>3. \A i \in 1..Len(build.filters) :
         (\E p \in build'.problems : p.about = i) <=> (\E p \in build.problems : p.about = i)
    BY <1>1, FieldsAre
<1>4. \A p \in build'.problems : p.about < build.next /\ (p.about = 0 => build'.pc = "refused")
    BY <1>1, FieldsAre DEF FiltersInv
<1>5. build'.problems = {} => build.problems = {}
    OBVIOUS
<1>q. QED BY <1>1, <1>2, <1>3, <1>4, <1>5, FieldsAre DEF FiltersInv

LEMMA ResolveTimeRangeKeeps == ASSUME PlanInv, ResolveTimeRange PROVE PlanInv'
<1> DEFINE resolved == ResolveTimeframe(build.phrase, build.today)
           more == {Problem(0, "phrase")}
<1>1. /\ PlanTypeOK /\ FiltersInv /\ FieldsInv /\ TimeInv
      /\ build.pc = "filters" /\ build.next = Len(build.filters) + 1
      /\ UNCHANGED <<dimensions, dropped>>
    BY DEF PlanInv, ResolveTimeRange, model
<1>2. build.phrase # None => resolved.status \in {"refused", "raised", "range"}
    BY <1>1, ResolvedOrNot DEF PlanTypeOK
<1>3. \/ /\ build.phrase = None
         /\ build' = [build EXCEPT !.pc = Outcome(build.problems)]
      \/ build' = [build EXCEPT !.pc = "refused", !.problems = @ \cup more]
      \/ build' = [build EXCEPT !.pc = "raised"]
      \/ /\ build.phrase # None
         /\ build' = [build EXCEPT !.pc = "candidates"]
    BY <1>2 DEF ResolveTimeRange
<1>4. /\ more \subseteq [about : Nat, what : Reasons] /\ more # {}
      /\ \A p \in more : p.about = 0
    BY DEF Problem, Reasons
<1> HIDE DEF more
<1>5. /\ PlanTypeOK'
      /\ build'.read = build.read /\ build'.filters = build.filters
      /\ build'.next = build.next /\ build'.made = build.made /\ build'.time = build.time
      /\ build'.candidates = build.candidates /\ build'.phrase = build.phrase
      /\ \/ build'.pc = "refused" /\ build'.problems = build.problems \cup more
         \/ build'.pc = "refused" /\ build'.problems = build.problems /\ build.problems # {}
         \/ build'.pc \in {"raised", "candidates"} /\ build'.problems = build.problems
         \/ build'.pc = "built" /\ build'.problems = build.problems /\ build.problems = {}
      /\ build'.pc = "candidates" => build.phrase # None
      /\ build'.pc = "built" => build.phrase = None
  <2>1. CASE build.phrase = None /\ build' = [build EXCEPT !.pc = Outcome(build.problems)]
    <3>1. Outcome(build.problems) \in Steps
        BY OutcomeIs DEF Steps
    <3>2. build'.pc = Outcome(build.problems)
        BY <1>1, <2>1 DEF PlanTypeOK
    <3>q. QED BY <1>1, <2>1, <3>1, <3>2, OutcomeIs DEF PlanTypeOK
  <2>2. CASE build' = [build EXCEPT !.pc = "refused", !.problems = @ \cup more]
    BY <1>1, <1>4, <2>2 DEF PlanTypeOK, Steps
  <2>3. CASE build' = [build EXCEPT !.pc = "raised"]
    BY <1>1, <2>3 DEF PlanTypeOK, Steps
  <2>4. CASE build.phrase # None /\ build' = [build EXCEPT !.pc = "candidates"]
    BY <1>1, <2>4 DEF PlanTypeOK, Steps
  <2>q. QED BY <1>3, <2>1, <2>2, <2>3, <2>4
<1>6. FiltersInv'
    BY <1>1, <1>4, <1>5, FiltersStay
<1>7. FieldsInv'
    BY <1>1, <1>5 DEF FieldsInv
<1>8. TimeInv'
    BY <1>1, <1>5 DEF TimeInv, TimeDimensionWasTheOnlyOne
<1>q. QED BY <1>5, <1>6, <1>7, <1>8 DEF PlanInv

LEMMA CandidatesKeeps == ASSUME PlanInv, Candidates PROVE PlanInv'
<1> DEFINE found == {d \in Dimensions : dimensions[d] # None /\ Temporal(dimensions[d])}
           read  == [d \in Dimensions |->
                        IF d \in found /\ build.read[d] = None THEN dimensions[d] ELSE build.read[d]]
           ours  == {d \in found : EntityOf[d] \in OfVersion}
<1>1. /\ PlanTypeOK /\ FiltersInv /\ FieldsInv /\ TimeInv
      /\ build.pc = "candidates" /\ build.next = Len(build.filters) + 1
      /\ UNCHANGED <<dimensions, dropped>>
      /\ build' = [build EXCEPT !.pc = "owners", !.pending = found, !.read = read, !.temporal = ours]
    BY DEF PlanInv, Candidates, model, FiltersInv
<1>2. /\ read \in [Dimensions -> Declared \cup {None}]
      /\ \A d \in Dimensions : build.read[d] # None \/ d \in dropped => read[d] = build.read[d]
    BY <1>1 DEF PlanTypeOK, FieldsInv
<1>3. found \subseteq Dimensions /\ ours = {d \in found : EntityOf[d] \in OfVersion}
    OBVIOUS
<1> HIDE DEF read, found, ours
<1>4. ours \subseteq Dimensions
    BY <1>3
<1>5. /\ PlanTypeOK'
      /\ build'.pc = "owners" /\ build'.read = read /\ build'.filters = build.filters
      /\ build'.next = build.next /\ build'.made = build.made /\ build'.time = build.time
      /\ build'.candidates = build.candidates /\ build'.phrase = build.phrase
      /\ build'.problems = build.problems /\ build'.pending = found /\ build'.temporal = ours
    BY <1>1, <1>2, <1>3, <1>4 DEF PlanTypeOK, Steps
<1>6. \A d \in Fields(build.filters) : read[d] = build.read[d]
    BY <1>1, <1>2, FieldsAre DEF FieldsInv, PlanTypeOK
<1>7. FiltersInv'
    BY <1>1, <1>5, <1>6, FiltersStay
<1>8. FieldsInv'
    BY <1>1, <1>5, <1>6 DEF FieldsInv
<1>9. TimeInv'
    BY <1>1, <1>3, <1>5 DEF TimeInv, TimeDimensionWasTheOnlyOne
<1>q. QED BY <1>5, <1>7, <1>8, <1>9 DEF PlanInv

LEMMA OwnerKeeps == ASSUME PlanInv, NEW d \in Dimensions, Owner(d) PROVE PlanInv'
<1> DEFINE e == EntityOf[d]
           mine == IF e \in OfVersion THEN {d} ELSE {}
<1>1. /\ PlanTypeOK /\ FiltersInv /\ FieldsInv /\ TimeInv
      /\ build.pc = "owners" /\ build.next = Len(build.filters) + 1 /\ d \in build.pending
      /\ UNCHANGED <<dimensions, dropped>>
    BY DEF PlanInv, Owner, model, FiltersInv
<1>2. e \in Owners /\ mine \subseteq Dimensions
    BY DEF Owners
<1>3. CASE build' = [build EXCEPT !.pc = "raised"]
  <2>1. /\ PlanTypeOK' /\ build'.pc = "raised"
        /\ build'.read = build.read /\ build'.filters = build.filters
        /\ build'.next = build.next /\ build'.made = build.made
        /\ build'.problems = build.problems
    BY <1>1, <1>3 DEF PlanTypeOK, Steps
  <2>2. FiltersInv'
    BY <1>1, <2>1, FiltersStay
  <2>3. FieldsInv' /\ TimeInv'
    BY <1>1, <2>1 DEF FieldsInv, TimeInv, TimeDimensionWasTheOnlyOne
  <2>q. QED BY <2>1, <2>2, <2>3 DEF PlanInv
<1>4. CASE build' = [build EXCEPT !.pending = @ \ {d}, !.owners = @ \cup {e},
                                  !.candidates = @ \cup mine]
  <2> HIDE DEF e, mine
  <2>1. /\ PlanTypeOK' /\ build'.pc = "owners"
        /\ build'.read = build.read /\ build'.filters = build.filters
        /\ build'.next = build.next /\ build'.made = build.made
        /\ build'.problems = build.problems /\ build'.time = build.time
        /\ build'.phrase = build.phrase /\ build'.temporal = build.temporal
        /\ build'.pending = build.pending \ {d}
        /\ build'.candidates = build.candidates \cup mine
    BY <1>1, <1>2, <1>4 DEF PlanTypeOK, Steps
  <2>2. FiltersInv'
    BY <1>1, <2>1, FiltersStay
  <2>3. build.candidates \cup {x \in build.pending : EntityOf[x] \in OfVersion} =
        (build.candidates \cup mine) \cup {x \in build.pending \ {d} : EntityOf[x] \in OfVersion}
    BY <1>1 DEF mine, e
  <2>4. FieldsInv' /\ TimeInv'
    BY <1>1, <2>1, <2>3 DEF FieldsInv, TimeInv, TimeDimensionWasTheOnlyOne
  <2>q. QED BY <2>1, <2>2, <2>4 DEF PlanInv
<1>q. QED BY <1>3, <1>4 DEF Owner

\* A grain is one of those in order; None is not.
LEMMA NothingIsFiner == ASSUME NEW grain PROVE ~Finer(grain, None)
BY NoneAssumption DEF Finer, GrainOrder, Units

LEMMA PickKeeps ==
    ASSUME IsFiniteSet(Dimensions), PlanInv, PickTimeDimension PROVE PlanInv'
<1> DEFINE more == {Problem(0, "dimension")}
           d == CHOOSE x \in build.candidates : TRUE
           range == ResolveTimeframe(build.phrase, build.today).range
           coarse == IF build.read[d].granularity # None
                        /\ Finer(range.grain, build.read[d].granularity)
                     THEN {Problem(0, "grain")} ELSE {}
<1>1. /\ PlanTypeOK /\ FiltersInv /\ FieldsInv /\ TimeInv
      /\ build.pc = "owners" /\ build.next = Len(build.filters) + 1 /\ build.pending = {}
      /\ UNCHANGED <<dimensions, dropped>>
    BY DEF PlanInv, PickTimeDimension, model, FiltersInv
<1>2. /\ more \subseteq [about : Nat, what : Reasons] /\ more # {}
      /\ \A p \in more : p.about = 0
    BY DEF Problem, Reasons
<1>3. /\ coarse \subseteq [about : Nat, what : Reasons]
      /\ \A p \in coarse : p.about = 0
      /\ coarse = {} => ~Finer(range.grain, build.read[d].granularity)
  <2>1. coarse = {} => build.read[d].granularity = None \/ ~Finer(range.grain, build.read[d].granularity)
    OBVIOUS
  <2>2. Problem(0, "grain") \in [about : Nat, what : Reasons] /\ Problem(0, "grain").about = 0
    BY DEF Problem, Reasons
  <2>3. coarse \subseteq {Problem(0, "grain")}
    OBVIOUS
  <2> HIDE DEF coarse, d, range
  <2>q. QED BY <2>1, <2>2, <2>3, NothingIsFiner
<1>4. CASE Cardinality(build.candidates) # 1
  <2> HIDE DEF more
  <2>1. build' = [build EXCEPT !.pc = "refused", !.problems = @ \cup more]
    BY <1>4 DEF PickTimeDimension, more
  <2>2. /\ PlanTypeOK' /\ build'.pc = "refused"
        /\ build'.read = build.read /\ build'.filters = build.filters
        /\ build'.next = build.next /\ build'.made = build.made
        /\ build'.problems = build.problems \cup more
    BY <1>1, <1>2, <2>1 DEF PlanTypeOK, Steps
  <2>3. FiltersInv'
    BY <1>1, <1>2, <2>2, FiltersStay
  <2>4. FieldsInv' /\ TimeInv'
    BY <1>1, <2>2 DEF FieldsInv, TimeInv, TimeDimensionWasTheOnlyOne
  <2>q. QED BY <2>2, <2>3, <2>4 DEF PlanInv
<1>5. CASE Cardinality(build.candidates) = 1
  <2>1. build.candidates = {d} /\ d \in Dimensions
    <3>1. IsFiniteSet(build.candidates) /\ build.candidates \subseteq Dimensions
        BY <1>1, FS_Subset DEF PlanTypeOK
    <3>2. PICK x : build.candidates = {x}
        BY <1>5, <3>1, FS_Singleton
    <3>q. QED BY <3>1, <3>2
  <2>2. build.temporal = {d}
    BY <1>1, <2>1 DEF TimeInv
  <2> DEFINE problems == build.problems \cup coarse
  <2>3. build' = [build EXCEPT !.pc = Outcome(problems), !.problems = problems,
                               !.time = d, !.range = range]
    BY <1>5 DEF PickTimeDimension, Picked
  <2>4. range \in Ranges
    BY <1>1 DEF TimeInv, PlanTypeOK, Ranges
  <2>5. problems \subseteq [about : Nat, what : Reasons]
        /\ (problems = {} => coarse = {})
        /\ \A p \in problems \ build.problems : p.about = 0
    BY <1>1, <1>3 DEF PlanTypeOK
  <2> HIDE DEF d, range, coarse
  <2>6. /\ PlanTypeOK'
        /\ build'.pc = Outcome(problems)
        /\ build'.read = build.read /\ build'.filters = build.filters
        /\ build'.next = build.next /\ build'.made = build.made
        /\ build'.problems = problems /\ build'.phrase = build.phrase
        /\ build'.time = d /\ build'.range = range /\ build'.temporal = build.temporal
    <3> HIDE DEF problems
    <3>1. Outcome(problems) \in Steps
        BY OutcomeIs DEF Steps
    <3>q. QED BY <1>1, <2>1, <2>3, <2>4, <2>5, <3>1 DEF PlanTypeOK
  <2>7. /\ \/ build'.pc = "built" /\ problems = {}
           \/ build'.pc = "refused" /\ problems # {}
        /\ build.problems \subseteq problems
    <3>1. build.problems \subseteq problems
        OBVIOUS
    <3> HIDE DEF problems
    <3>q. QED BY <2>6, <3>1, OutcomeIs
  <2>8. FiltersInv'
    <3> HIDE DEF problems
    <3>q. QED BY <1>1, <2>5, <2>6, <2>7, FiltersStay
  <2>9. d # None /\ build.phrase # None
    BY <1>1, <2>1, NoneAssumption DEF TimeInv
  <2>10. FieldsInv'
    BY <1>1, <2>6, <2>7 DEF FieldsInv
  <2>11. TimeInv'
    BY <1>3, <2>2, <2>5, <2>6, <2>7, <2>9 DEF TimeInv, TimeDimensionWasTheOnlyOne
  <2>q. QED BY <2>6, <2>8, <2>10, <2>11 DEF PlanInv
<1>q. QED BY <1>4, <1>5

\* Modellers touch nothing the call has read; what they drop stays dropped.
LEMMA ModellerKeeps == ASSUME PlanInv, Modeller PROVE PlanInv'
<1>1. PlanTypeOK /\ FiltersInv /\ FieldsInv /\ TimeInv
    BY DEF PlanInv
<1>2. /\ build' = build
      /\ dimensions' \in [Dimensions -> Declared \cup {None}]
      /\ dropped \subseteq dropped' /\ dropped' \subseteq Dimensions
      /\ \A x \in dropped' : dimensions'[x] = None
      /\ \A x \in Dimensions \ dropped' : dimensions[x] # None => dimensions'[x] # None
  <2>1. CASE \E d \in Dimensions : Declare(d)
    BY <1>1, <2>1, NoneAssumption DEF Declare, Edited, PlanTypeOK, FieldsInv
  <2>2. CASE \E d \in Dimensions : DropDimension(d)
    BY <1>1, <2>2 DEF DropDimension, Edited, PlanTypeOK, FieldsInv
  <2>3. CASE \E e \in Owners : DropEntity(e)
    BY <1>1, <2>3 DEF DropEntity, Edited, PlanTypeOK, FieldsInv
  <2>q. QED BY <2>1, <2>2, <2>3 DEF Modeller
<1>3. PlanTypeOK'
    BY <1>1, <1>2 DEF PlanTypeOK
<1>4. FiltersInv' /\ TimeInv'
    BY <1>1, <1>2 DEF FiltersInv, TimeInv, TimeDimensionWasTheOnlyOne, Bad, Readable
<1>5. FieldsInv'
    BY <1>1, <1>2, FieldsAre DEF FieldsInv, PlanTypeOK
<1>q. QED BY <1>3, <1>4, <1>5 DEF PlanInv

LEMMA PlanInvariant == ASSUME IsFiniteSet(Dimensions) PROVE BuildSpec => []PlanInv
<1>1. ASSUME PlanInv, [BuildNext]_<<model, build>> PROVE PlanInv'
  <2>1. CASE BuildStep
    BY <1>1, <2>1, LoadKeeps, FilterKeeps, ResolveTimeRangeKeeps, CandidatesKeeps,
       OwnerKeeps, PickKeeps DEF BuildStep
  <2>2. CASE Modeller
    BY <1>1, <2>2, ModellerKeeps
  <2>3. CASE UNCHANGED <<model, build>>
    BY <1>1, <2>3 DEF model, PlanInv, PlanTypeOK, FiltersInv, FieldsInv, TimeInv,
       TimeDimensionWasTheOnlyOne, Bad, Readable
  <2>q. QED BY <1>1, <2>1, <2>2, <2>3 DEF BuildNext
<1>q. QED BY <1>1, PlanInit, PTL DEF BuildSpec

-----------------------------------------------------------------------------
(***************************************************************************)
(* What the callers of build() rely on.                                    *)
(***************************************************************************)

\* The locals of build(), and the rows it reads, keep their types.
THEOREM PlansAreTyped == ASSUME IsFiniteSet(Dimensions) PROVE BuildSpec => []PlanTypeOK
<1>1. PlanInv => PlanTypeOK
    BY DEF PlanInv
<1>q. QED BY <1>1, PlanInvariant, PTL

\* Whatever modellers commit between the statements of build(), a plan has every
\* filter and the time range of the question, and a refusal names every wrong filter.
THEOREM PlansAreComplete == ASSUME IsFiniteSet(Dimensions) PROVE BuildSpec => []PlanOrEveryProblem
<1>1. PlanInv => PlanOrEveryProblem
  <2> SUFFICES ASSUME PlanInv PROVE PlanOrEveryProblem
    OBVIOUS
  <2>1. /\ build.filters \in Seq(Filters) /\ build.made \in Seq(Filters)
        /\ Len(build.filters) \in Nat /\ Len(build.made) \in Nat
        /\ DOMAIN build.filters = 1..Len(build.filters)
        /\ DOMAIN build.made = 1..Len(build.made)
        /\ FiltersInv /\ TimeInv
    BY FieldsAre DEF PlanInv, PlanTypeOK
  <2>2. ASSUME build.pc = "built"
        PROVE  build.made = build.filters /\ \A i \in DOMAIN build.made : ~Bad(build.made[i])
    <3>1. /\ build.next = Len(build.filters) + 1 /\ build.problems = {}
          /\ Len(build.made) = Len(build.filters)
          /\ \A i \in 1..Len(build.filters) : build.made[i] = build.filters[i]
        BY <2>1, <2>2 DEF FiltersInv
    <3>2. build.made = build.filters
        BY <2>1, <3>1, SeqEqual
    <3>3. \A i \in 1..Len(build.filters) : ~Bad(build.filters[i])
        BY <2>1, <3>1 DEF FiltersInv
    <3>q. QED BY <2>1, <3>2, <3>3
  <2>3. ASSUME build.pc = "refused"
        PROVE  /\ \A i \in DOMAIN build.filters :
                     Bad(build.filters[i]) <=> \E p \in build.problems : p.about = i
               /\ build.problems # {}
    BY <2>1, <2>3 DEF FiltersInv
  <2>4. build.pc = "built" => (build.phrase = None <=> build.time = None)
    BY <2>1 DEF TimeInv
  <2>q. QED BY <2>2, <2>3, <2>4 DEF PlanOrEveryProblem
<1>q. QED BY <1>1, PlanInvariant, PTL

\* However many dimensions there are and whatever modellers do to them, time is
\* filtered on the only temporal one of the version, recorded finely enough.
THEOREM TimeIsUnambiguous ==
    ASSUME IsFiniteSet(Dimensions) PROVE BuildSpec => []TimeDimensionWasTheOnlyOne
<1>1. PlanInv => TimeDimensionWasTheOnlyOne
    BY DEF PlanInv, TimeInv
<1>q. QED BY <1>1, PlanInvariant, PTL

-----------------------------------------------------------------------------
(***************************************************************************)
(* The calendar: months are counted from year 0, so that one number is a   *)
(* month of a year, and each begins where the one before it ends.          *)
(***************************************************************************)
MonthStart(t) == Date(t \div 12, (t % 12) + 1, 1)

Months == (12 * MinYear)..(12 * MaxYear + 11)

DaysInYear(y) == IF Leap(y) THEN 366 ELSE 365

LEMMA YearsFollow ==
    ASSUME NEW y \in Int
    PROVE  /\ DaysBeforeYear(y) \in Int /\ DaysBeforeYear(y + 1) \in Int
           /\ DaysBeforeYear(y + 1) = DaysBeforeYear(y) + DaysInYear(y)
           /\ DaysInYear(y) \in {365, 366}
BY DEF DaysBeforeYear, Leap, DaysInYear

LEMMA YearsGrow ==
    ASSUME NEW x \in Int, NEW y \in Int, x < y
    PROVE  DaysBeforeYear(x + 1) <= DaysBeforeYear(y)
BY DEF DaysBeforeYear

LEMMA MonthsFollow ==
    ASSUME NEW y \in Int, NEW m \in 1..12
    PROVE  /\ DaysBeforeMonth(y, m) \in Nat /\ DaysInMonth(y, m) \in 28..31
           /\ m < 12 => DaysBeforeMonth(y, m + 1) = DaysBeforeMonth(y, m) + DaysInMonth(y, m)
           /\ m = 12 => DaysBeforeMonth(y, m) + DaysInMonth(y, m) = DaysInYear(y)
           /\ m = 1 => DaysBeforeMonth(y, m) = 0
           /\ DaysBeforeMonth(y, m) + DaysInMonth(y, m) <= DaysInYear(y)
BY DEF DaysBeforeMonth, DaysInMonth, DaysInYear

LEMMA MonthsGrow ==
    ASSUME NEW y \in Int, NEW m \in 1..12, NEW n \in 1..12, m < n
    PROVE  DaysBeforeMonth(y, m) < DaysBeforeMonth(y, n)
BY DEF DaysBeforeMonth

LEMMA YearAndMonth ==
    ASSUME NEW t \in Int
    PROVE  /\ t \div 12 \in Int /\ (t % 12) + 1 \in 1..12
           /\ t = 12 * (t \div 12) + (t % 12)
           /\ (t % 12) + 1 < 12 => (t + 1) \div 12 = t \div 12 /\ (t + 1) % 12 = (t % 12) + 1
           /\ (t % 12) + 1 = 12 => (t + 1) \div 12 = (t \div 12) + 1 /\ (t + 1) % 12 = 0
OBVIOUS

LEMMA MonthOfYear ==
    ASSUME NEW y \in Int, NEW m \in 1..12
    PROVE  /\ (12 * y + (m - 1)) \div 12 = y
           /\ ((12 * y + (m - 1)) % 12) + 1 = m
           /\ MonthStart(12 * y + (m - 1)) = Date(y, m, 1)
BY DEF MonthStart

LEMMA NextMonth ==
    ASSUME NEW t \in Int
    PROVE  /\ MonthStart(t) \in Int
           /\ MonthStart(t + 1) = MonthStart(t) + DaysInMonth(t \div 12, (t % 12) + 1)
           /\ DaysInMonth(t \div 12, (t % 12) + 1) \in 28..31
<1> DEFINE y == t \div 12
           m == (t % 12) + 1
<1>1. y \in Int /\ m \in 1..12
    BY YearAndMonth
<1>2. DaysBeforeYear(y) \in Int /\ DaysBeforeMonth(y, m) \in Nat /\ DaysInMonth(y, m) \in 28..31
    <2> HIDE DEF y, m
    <2>q. QED BY <1>1, YearsFollow, MonthsFollow, Zenon
<1>3. CASE m < 12
    <2>1. MonthStart(t + 1) = Date(y, m + 1, 1)
        BY <1>3, YearAndMonth DEF MonthStart
    <2>2. DaysBeforeMonth(y, m + 1) = DaysBeforeMonth(y, m) + DaysInMonth(y, m)
        BY <1>1, <1>3, MonthsFollow, Zenon
    <2> HIDE DEF y, m
    <2>3. Date(y, m + 1, 1) = Date(y, m, 1) + DaysInMonth(y, m) /\ Date(y, m, 1) \in Int
        BY <1>2, <2>2 DEF Date
    <2>q. QED BY <1>2, <2>1, <2>3 DEF MonthStart, y, m
<1>4. CASE m = 12
    <2>1. MonthStart(t + 1) = Date(y + 1, 1, 1)
        BY <1>4, YearAndMonth DEF MonthStart
    <2>2. /\ DaysBeforeMonth(y, m) + DaysInMonth(y, m) = DaysInYear(y)
          /\ DaysBeforeMonth(y + 1, 1) = 0
        <3>1. 1 \in 1..12 /\ y + 1 \in Int
            BY <1>1
        <3>q. QED BY <1>1, <1>4, <3>1, MonthsFollow, Zenon
    <2>3. DaysBeforeYear(y + 1) = DaysBeforeYear(y) + DaysInYear(y)
        BY <1>1, YearsFollow, Zenon
    <2> HIDE DEF y, m
    <2>4. Date(y + 1, 1, 1) = Date(y, m, 1) + DaysInMonth(y, m) /\ Date(y, m, 1) \in Int
        BY <1>2, <2>2, <2>3 DEF Date
    <2>q. QED BY <1>2, <2>1, <2>4 DEF MonthStart, y, m
<1>q. QED BY <1>1, <1>3, <1>4

LEMMA MonthStartsGrow ==
    ASSUME NEW s \in Int, NEW t \in Int, s < t
    PROVE  MonthStart(s) < MonthStart(t)
<1> DEFINE x == s \div 12
           m == (s % 12) + 1
           y == t \div 12
           n == (t % 12) + 1
<1>1. /\ x \in Int /\ m \in 1..12 /\ y \in Int /\ n \in 1..12
      /\ x < y \/ (x = y /\ m < n)
    BY YearAndMonth
<1>2. /\ DaysBeforeYear(x) \in Int /\ DaysBeforeMonth(x, m) \in Nat
      /\ DaysBeforeYear(y) \in Int /\ DaysBeforeMonth(y, n) \in Nat
    <2> HIDE DEF x, m, y, n
    <2>q. QED BY <1>1, YearsFollow, MonthsFollow, Zenon
<1>3. MonthStart(s) = Date(x, m, 1) /\ MonthStart(t) = Date(y, n, 1)
    BY DEF MonthStart
<1> HIDE DEF x, m, y, n
<1>4. CASE x < y
    <2>1. DaysBeforeYear(x + 1) <= DaysBeforeYear(y)
        BY <1>1, <1>4, YearsGrow
    <2>2. DaysBeforeYear(x + 1) = DaysBeforeYear(x) + DaysInYear(x) /\ DaysInYear(x) \in {365, 366}
        BY <1>1, YearsFollow, Zenon
    <2>3. /\ DaysBeforeMonth(x, m) + DaysInMonth(x, m) <= DaysInYear(x)
          /\ DaysInMonth(x, m) \in 28..31
        BY <1>1, MonthsFollow, Zenon
    <2>q. QED BY <1>1, <1>2, <1>3, <2>1, <2>2, <2>3 DEF Date
<1>5. CASE x = y /\ m < n
    BY <1>1, <1>2, <1>3, <1>5, MonthsGrow DEF Date
<1>q. QED BY <1>1, <1>4, <1>5

\* The ends of the calendar are ends of months.
LEMMA EndsOfCalendar ==
    /\ MinYear \in Nat \ {0} /\ MaxYear \in Nat /\ MinYear <= MaxYear
    /\ FirstDate \in Int /\ LastDate \in Int
    /\ FirstDate = MonthStart(12 * MinYear)
    /\ LastDate + 1 = MonthStart(12 * MaxYear + 12)
<1>1. MinYear \in Nat \ {0} /\ MaxYear \in Nat /\ MinYear <= MaxYear
    BY CalendarAssumption
<1>2. FirstDate = MonthStart(12 * MinYear) /\ FirstDate \in Int
    BY <1>1, MonthOfYear, NextMonth DEF FirstDate
<1>3. Date(MaxYear, 12, 1) = MonthStart(12 * MaxYear + 11)
    BY <1>1, MonthOfYear
<1>4. /\ MonthStart(12 * MaxYear + 11) \in Int
      /\ MonthStart((12 * MaxYear + 11) + 1) = MonthStart(12 * MaxYear + 11) + DaysInMonth(MaxYear, 12)
    <2>1. /\ 12 * MaxYear + 11 \in Int /\ (12 * MaxYear + 11) \div 12 = MaxYear
          /\ ((12 * MaxYear + 11) % 12) + 1 = 12
        BY <1>1
    <2>q. QED BY <2>1, NextMonth, Zenon
<1>5. DaysInMonth(MaxYear, 12) = 31
    <2>1. 12 # 2 /\ 12 \notin {4, 6, 9, 11}
        OBVIOUS
    <2>q. QED BY <2>1, Zenon DEF DaysInMonth
<1>6. DaysBeforeYear(MaxYear) \in Int /\ DaysBeforeMonth(MaxYear, 12) \in Nat
    BY <1>1, YearsFollow, MonthsFollow
<1>7. LastDate = Date(MaxYear, 12, 1) + 30 /\ LastDate \in Int
    BY <1>6 DEF LastDate, Date
<1>8. (12 * MaxYear + 11) + 1 = 12 * MaxYear + 12
    BY <1>1
<1>q. QED BY <1>1, <1>2, <1>3, <1>4, <1>5, <1>7, <1>8

Within(t, d) == MonthStart(t) <= d /\ d < MonthStart(t + 1)

\* Every date of the calendar is in one of its months, ...
LEMMA MonthOfDate ==
    ASSUME NEW d \in Int, InCalendar(d)
    PROVE  \E t \in Months : Within(t, d)
<1> DEFINE S == {t \in Months : d < MonthStart(t + 1)}
<1>1. Months \subseteq Nat /\ 12 * MaxYear + 11 \in Months
    BY EndsOfCalendar DEF Months
<1>2. 12 * MaxYear + 11 \in S
    <2>1. (12 * MaxYear + 11) + 1 = 12 * MaxYear + 12
        BY EndsOfCalendar
    <2>q. QED BY <1>1, <2>1, EndsOfCalendar DEF InCalendar
<1>3. S \in SUBSET Nat /\ S # {}
    BY <1>1, <1>2
<1>4. PICK t \in S : \A u \in S : t <= u
    BY <1>3, LeastOfNaturals
<1>5. t \in Months /\ t \in Int /\ d < MonthStart(t + 1)
    BY <1>1, <1>4
<1>6. MonthStart(t) <= d
    <2>1. CASE t = 12 * MinYear
        BY <2>1, EndsOfCalendar DEF InCalendar
    <2>2. CASE t # 12 * MinYear
        <3>1. t - 1 \in Months /\ (t - 1) + 1 = t
            BY <1>5, <2>2, EndsOfCalendar DEF Months
        <3>2. t - 1 \notin S
            BY <1>4, <1>5
        <3>q. QED BY <1>5, <3>1, <3>2, NextMonth
    <2>q. QED BY <2>1, <2>2
<1>q. QED BY <1>5, <1>6 DEF Within

\* ... the one that Year and Month tell; Day() counts from 1.
LEMMA PartsOf ==
    ASSUME NEW t \in Months, NEW d \in Int, Within(t, d)
    PROVE  /\ d \in Calendar
           /\ Year[d] = t \div 12
           /\ Month[d] = (t % 12) + 1
           /\ Day(d) \in Nat \ {0}
<1> DEFINE y == t \div 12
           m == (t % 12) + 1
<1>1. t \in Int /\ y \in MinYear..MaxYear /\ y \in Int /\ m \in 1..12 /\ t = 12 * y + (m - 1)
    BY EndsOfCalendar DEF Months
<1>2. MonthStart(t) = Date(y, m, 1) /\ MonthStart(t + 1) = Date(y, m, 1) + DaysInMonth(y, m)
    BY <1>1, NextMonth, Zenon DEF MonthStart
<1> HIDE DEF y, m
<1>0. d \in Calendar
    <2>1. /\ MinYear \in Nat /\ MaxYear \in Nat /\ 12 * MinYear \in Int /\ 12 * MaxYear + 12 \in Int
          /\ FirstDate \in Int /\ LastDate \in Int /\ t + 1 \in Int
          /\ FirstDate = MonthStart(12 * MinYear) /\ LastDate + 1 = MonthStart(12 * MaxYear + 12)
        BY <1>1, EndsOfCalendar
    <2>2. /\ 12 * MinYear = t \/ 12 * MinYear < t
          /\ t + 1 = 12 * MaxYear + 12 \/ t + 1 < 12 * MaxYear + 12
        BY <2>1 DEF Months
    <2>3. MonthStart(t) \in Int /\ MonthStart(t + 1) \in Int
        BY <1>1, <2>1, NextMonth, Zenon
    <2>4. FirstDate <= MonthStart(t)
        BY <1>1, <2>1, <2>2, <2>3, MonthStartsGrow
    <2>5. MonthStart(t + 1) <= LastDate + 1
        BY <1>1, <2>1, <2>2, <2>3, MonthStartsGrow
    <2>q. QED BY <2>1, <2>3, <2>4, <2>5 DEF Within, Calendar
<1>3. Year[d] = y
    <2>1. /\ DaysBeforeYear(y) \in Int /\ DaysBeforeMonth(y, m) \in Nat
          /\ DaysInMonth(y, m) \in 28..31
          /\ DaysBeforeMonth(y, m) + DaysInMonth(y, m) <= DaysInYear(y)
          /\ DaysBeforeYear(y + 1) = DaysBeforeYear(y) + DaysInYear(y)
          /\ DaysInYear(y) \in {365, 366}
        BY <1>1, YearsFollow, MonthsFollow, Zenon
    <2>2. DaysBeforeYear(y) < d /\ d <= DaysBeforeYear(y + 1)
        BY <1>2, <2>1 DEF Within, Date
    <2>3. ASSUME NEW x \in MinYear..MaxYear, DaysBeforeYear(x) < d, d <= DaysBeforeYear(x + 1)
          PROVE  x = y
        <3>1. x \in Int /\ DaysBeforeYear(x) \in Int /\ DaysBeforeYear(x + 1) \in Int
            BY EndsOfCalendar, YearsFollow
        <3>2. ~(x < y)
            BY <1>1, <2>1, <2>2, <2>3, <3>1, YearsGrow
        <3>3. ~(y < x)
            BY <1>1, <2>1, <2>2, <2>3, <3>1, YearsGrow
        <3>q. QED BY <1>1, <3>1, <3>2, <3>3
    <2>4. Year[d] = CHOOSE x \in MinYear..MaxYear : DaysBeforeYear(x) < d /\ d <= DaysBeforeYear(x + 1)
        BY <1>0, Zenon DEF Year
    <2>q. QED BY <1>1, <2>2, <2>3, <2>4, Zenon
<1>4. Month[d] = m
    <2>1. Date(y, m, 1) <= d /\ d < Date(y, m, 1) + DaysInMonth(y, m)
        BY <1>2 DEF Within
    <2>2. ASSUME NEW n \in 1..12, Date(y, n, 1) <= d, d < Date(y, n, 1) + DaysInMonth(y, n)
          PROVE  n = m
        <3> DEFINE u == 12 * y + (n - 1)
        <3>1. u \in Int /\ u \div 12 = y /\ (u % 12) + 1 = n /\ MonthStart(u) = Date(y, n, 1)
            <4>1. u \in Int
                BY <1>1
            <4>q. QED BY <1>1, <4>1, MonthOfYear
        <3>2. MonthStart(u + 1) = Date(y, n, 1) + DaysInMonth(y, n)
            BY <3>1, NextMonth, Zenon
        <3>3. MonthStart(u) \in Int /\ MonthStart(u + 1) \in Int /\ MonthStart(t) \in Int /\ MonthStart(t + 1) \in Int
            <4>1. u + 1 \in Int /\ t + 1 \in Int
                BY <1>1, <3>1
            <4>q. QED BY <1>1, <3>1, <4>1, NextMonth, Zenon
        <3> HIDE DEF u
        <3>4. ~(u < t)
            <4>1. SUFFICES ASSUME u < t PROVE FALSE
                OBVIOUS
            <4>2. MonthStart(u + 1) <= MonthStart(t)
                <5>1. u + 1 = t \/ (u + 1 < t /\ u + 1 \in Int)
                    BY <1>1, <3>1, <4>1
                <5>q. QED BY <1>1, <3>3, <5>1, MonthStartsGrow
            <4>q. QED BY <1>2, <2>1, <2>2, <3>2, <3>3, <4>2
        <3>5. ~(t < u)
            <4>1. SUFFICES ASSUME t < u PROVE FALSE
                OBVIOUS
            <4>2. MonthStart(t + 1) <= MonthStart(u)
                <5>1. t + 1 = u \/ (t + 1 < u /\ t + 1 \in Int)
                    BY <1>1, <3>1, <4>1
                <5>q. QED BY <1>1, <3>1, <3>3, <5>1, MonthStartsGrow
            <4>q. QED BY <1>2, <2>1, <2>2, <3>1, <3>3, <4>2
        <3>6. u = t
            BY <1>1, <3>1, <3>4, <3>5
        <3>q. QED BY <1>1, <3>6 DEF u
    <2>3. Month[d] = CHOOSE n \in 1..12 :
                         Date(Year[d], n, 1) <= d /\ d < Date(Year[d], n, 1) + DaysInMonth(Year[d], n)
        BY <1>0, Zenon DEF Month
    <2>q. QED BY <1>1, <1>3, <2>1, <2>2, <2>3, Zenon
<1>5. Day(d) = d - MonthStart(t) + 1
    BY <1>2, <1>3, <1>4 DEF Day
<1>6. MonthStart(t) \in Int
    BY <1>1, NextMonth
<1>q. QED BY <1>0, <1>3, <1>4, <1>5, <1>6 DEF Within, y, m

-----------------------------------------------------------------------------
(***************************************************************************)
(* Periods: each holds its dates, and the one before it ends where it      *)
(* begins.                                                                 *)
(***************************************************************************)
MonthsOf(unit) == CASE unit = "month" -> 1 [] unit = "quarter" -> 3 [] unit = "year" -> 12

FirstMonth(unit, t) == t - (t % MonthsOf(unit))

LEMMA MonthsOfUnits == MonthsOf("month") = 1 /\ MonthsOf("quarter") = 3 /\ MonthsOf("year") = 12
BY DEF MonthsOf

LEMMA FirstMonths ==
    ASSUME NEW t \in Months, NEW unit \in {"month", "quarter", "year"}
    PROVE  /\ t \in Int /\ FirstMonth(unit, t) \in Months /\ FirstMonth(unit, t) \in Int
           /\ FirstMonth(unit, t) <= t /\ t < FirstMonth(unit, t) + MonthsOf(unit)
           /\ MonthsOf(unit) \in {1, 3, 12}
           /\ FirstMonth(unit, FirstMonth(unit, t) - 1) = FirstMonth(unit, t) - MonthsOf(unit)
<1>1. MinYear \in Nat /\ MaxYear \in Nat /\ MinYear <= MaxYear
    BY EndsOfCalendar
<1>2. CASE unit = "month"
    BY <1>1, <1>2, MonthsOfUnits DEF Months, FirstMonth
<1>3. CASE unit = "quarter"
    BY <1>1, <1>3, MonthsOfUnits DEF Months, FirstMonth
<1>4. CASE unit = "year"
    BY <1>1, <1>4, MonthsOfUnits DEF Months, FirstMonth
<1>q. QED BY <1>2, <1>3, <1>4

LEMMA FirstDateOfMonth == ASSUME NEW t \in Months PROVE Within(t, MonthStart(t)) /\ MonthStart(t) \in Int
<1>1. t \in Int
    BY EndsOfCalendar DEF Months
<1>2. /\ MonthStart(t) \in Int /\ DaysInMonth(t \div 12, (t % 12) + 1) \in 28..31
      /\ MonthStart(t + 1) = MonthStart(t) + DaysInMonth(t \div 12, (t % 12) + 1)
    BY <1>1, NextMonth, Zenon
<1>q. QED BY <1>2 DEF Within

LEMMA AddedMonths ==
    ASSUME NEW t \in Months, NEW d \in Int, Within(t, d), NEW n \in Int
    PROVE  AddMonths(d, n) = MonthStart(t + n)
<1>1. t \in Int /\ Year[d] = t \div 12 /\ Month[d] = (t % 12) + 1
    BY EndsOfCalendar, PartsOf DEF Months
<1>2. Year[d] * 12 + (Month[d] - 1) + n = t + n
    BY <1>1
<1>q. QED BY <1>2 DEF AddMonths, MonthStart

LEMMA MonthUnits ==
    ASSUME NEW t \in Months, NEW d \in Int, Within(t, d),
           NEW unit \in {"month", "quarter", "year"}, NEW n \in Int
    PROVE  /\ Start(unit, d) = MonthStart(FirstMonth(unit, t))
           /\ Shifted(unit, Start(unit, d), n)
                = MonthStart(FirstMonth(unit, t) + MonthsOf(unit) * n)
<1>1. t \in Int /\ Year[d] = t \div 12 /\ Month[d] = (t % 12) + 1
    BY EndsOfCalendar, PartsOf DEF Months
<1>2. /\ FirstMonth(unit, t) \in Months /\ FirstMonth(unit, t) \in Int
    BY FirstMonths
<1>3. /\ Within(FirstMonth(unit, t), MonthStart(FirstMonth(unit, t)))
      /\ MonthStart(FirstMonth(unit, t)) \in Int
    BY <1>2, FirstDateOfMonth
<1>4. CASE unit = "month"
    <2>1. FirstMonth(unit, t) = t /\ MonthsOf(unit) * n = n
        BY <1>1, <1>4, MonthsOfUnits DEF FirstMonth
    <2>2. Start(unit, d) = MonthStart(t)
        BY <1>1, <1>4 DEF Start, MonthStart
    <2>3. AddMonths(MonthStart(t), n) = MonthStart(t + n)
        BY <1>3, <2>1, AddedMonths
    <2>q. QED BY <1>4, <2>1, <2>2, <2>3 DEF Shifted
<1>5. CASE unit = "quarter"
    <2>1. MonthsOf(unit) = 3
        BY <1>5, MonthsOfUnits
    <2>2. FirstMonth(unit, t) = 12 * (t \div 12) + ((3 * ((t % 12) \div 3) + 1) - 1)
          /\ 3 * ((t % 12) \div 3) + 1 \in 1..12 /\ t \div 12 \in Int
        BY <1>1, <2>1 DEF FirstMonth
    <2>3. MonthStart(FirstMonth(unit, t)) = Date(t \div 12, 3 * ((t % 12) \div 3) + 1, 1)
        BY <2>2, MonthOfYear
    <2>4. Month[d] - 1 = t % 12
        BY <1>1
    <2>5. Start(unit, d) = MonthStart(FirstMonth(unit, t))
        BY <1>1, <1>5, <2>3, <2>4 DEF Start, QuarterStart
    <2>6. AddMonths(MonthStart(FirstMonth(unit, t)), 3 * n) = MonthStart(FirstMonth(unit, t) + 3 * n)
        <3>1. 3 * n \in Int
            OBVIOUS
        <3>q. QED BY <1>2, <1>3, <3>1, AddedMonths
    <2>q. QED BY <1>5, <2>1, <2>5, <2>6 DEF Shifted
<1>6. CASE unit = "year"
    <2>1. MonthsOf(unit) = 12
        BY <1>6, MonthsOfUnits
    <2>2. /\ FirstMonth(unit, t) = 12 * (t \div 12) + (1 - 1)
          /\ t \div 12 \in Int /\ 1 \in 1..12 /\ (t \div 12) + n \in Int
          /\ FirstMonth(unit, t) + 12 * n = 12 * ((t \div 12) + n) + (1 - 1)
          /\ FirstMonth(unit, t) \div 12 = t \div 12
        BY <1>1, <2>1 DEF FirstMonth
    <2>3. /\ MonthStart(FirstMonth(unit, t)) = Date(t \div 12, 1, 1)
          /\ MonthStart(FirstMonth(unit, t) + 12 * n) = Date((t \div 12) + n, 1, 1)
        BY <2>2, MonthOfYear
    <2>4. Start(unit, d) = MonthStart(FirstMonth(unit, t))
        BY <1>1, <1>6, <2>3 DEF Start
    <2>5. Year[MonthStart(FirstMonth(unit, t))] = t \div 12
        BY <1>2, <1>3, <2>2, PartsOf
    <2>q. QED BY <1>6, <2>1, <2>3, <2>4, <2>5 DEF Shifted
<1>q. QED BY <1>4, <1>5, <1>6

LEMMA Periods ==
    ASSUME NEW unit \in Units, NEW d \in Int, InCalendar(d)
    PROVE  LET start == Start(unit, d)
           IN  /\ start \in Int /\ start <= d
               /\ Shifted(unit, start, 1) \in Int /\ d < Shifted(unit, start, 1)
               /\ Shifted(unit, start, -1) \in Int /\ Shifted(unit, start, -1) < start
               /\ InCalendar(Shifted(unit, start, -1)) =>
                    /\ InCalendar(start - 1)
                    /\ Start(unit, start - 1) = Shifted(unit, start, -1)
                    /\ Shifted(unit, Start(unit, start - 1), 1) = start
<1> DEFINE start == Start(unit, d)
<1>1. FirstDate \in Int /\ LastDate \in Int /\ FirstDate <= d /\ d <= LastDate
    BY EndsOfCalendar DEF InCalendar
<1>2. CASE unit = "day"
    <2>1. \A x : Start(unit, x) = x
        BY <1>2 DEF Start
    <2>2. \A x, n : Shifted(unit, x, n) = x + n
        BY <1>2 DEF Shifted
    <2>q. QED BY <1>1, <2>1, <2>2 DEF InCalendar
<1>3. CASE unit = "week"
    <2>1. \A x : Start(unit, x) = x - ((x + 6) % 7)
        BY <1>3 DEF Start, Weekday
    <2>2. \A x, n : Shifted(unit, x, n) = x + 7 * n
        BY <1>3 DEF Shifted
    <2>3. start \in Int /\ start <= d /\ d < start + 7 /\ (start + 6) % 7 = 0
        BY <2>1
    <2>4. /\ Shifted(unit, start, 1) = start + 7 /\ Shifted(unit, start, -1) = start - 7
          /\ Start(unit, start - 1) = start - 7
          /\ Shifted(unit, start - 7, 1) = start
        <3> HIDE DEF start
        <3>1. Shifted(unit, start, 1) = start + 7 /\ Shifted(unit, start, -1) = start - 7
            BY <2>2, <2>3
        <3>2. ((start - 1) + 6) % 7 = 6 /\ (start - 1) - 6 = start - 7
            BY <2>3
        <3>3. Start(unit, start - 1) = start - 7
            BY <2>1, <3>2
        <3>4. Shifted(unit, start - 7, 1) = start
            BY <2>2, <2>3
        <3>q. QED BY <3>1, <3>3, <3>4
    <2> HIDE DEF start
    <2>q. QED BY <1>1, <2>3, <2>4 DEF InCalendar, start
<1>4. CASE unit \in {"month", "quarter", "year"}
    <2>1. PICK t \in Months : Within(t, d)
        BY MonthOfDate
    <2> DEFINE f == FirstMonth(unit, t)
               k == MonthsOf(unit)
    <2>2. /\ t \in Int /\ f \in Months /\ f \in Int /\ f <= t /\ t < f + k
          /\ k \in {1, 3, 12} /\ FirstMonth(unit, f - 1) = f - k
        BY <1>4, FirstMonths
    <2>3. /\ start = MonthStart(f)
          /\ Shifted(unit, start, 1) = MonthStart(f + k * 1)
          /\ Shifted(unit, start, -1) = MonthStart(f + k * (-1))
        <3>1. 1 \in Int /\ -1 \in Int
            OBVIOUS
        <3>q. QED BY <1>4, <2>1, <3>1, MonthUnits
    <2> HIDE DEF f, k
    <2>4. /\ f + k * 1 = f + k /\ f + k * (-1) = f - k
          /\ f + k \in Int /\ f - k \in Int /\ f - k < f /\ t + 1 \in Int /\ f - 1 \in Int
        BY <2>2
    <2>5. /\ MonthStart(f) \in Int /\ MonthStart(t) \in Int /\ MonthStart(t + 1) \in Int
          /\ MonthStart(f + k) \in Int /\ MonthStart(f - k) \in Int /\ MonthStart(f - 1) \in Int
        BY <2>2, <2>4, NextMonth, Zenon
    <2>6. MonthStart(f) <= d
        <3>1. f = t \/ f < t
            BY <2>2
        <3>2. MonthStart(f) <= MonthStart(t)
            BY <2>2, <2>5, <3>1, MonthStartsGrow
        <3>q. QED BY <2>1, <2>5, <3>2 DEF Within
    <2>7. d < MonthStart(f + k)
        <3>1. t + 1 = f + k \/ t + 1 < f + k
            BY <2>2
        <3>2. MonthStart(t + 1) <= MonthStart(f + k)
            BY <2>4, <2>5, <3>1, MonthStartsGrow
        <3>q. QED BY <2>1, <2>5, <3>2 DEF Within
    <2>8. MonthStart(f - k) < MonthStart(f)
        BY <2>2, <2>4, MonthStartsGrow
    <2>9. ASSUME InCalendar(MonthStart(f - k))
          PROVE  /\ InCalendar(start - 1)
                 /\ Start(unit, start - 1) = MonthStart(f - k)
                 /\ Shifted(unit, Start(unit, start - 1), 1) = start
        <3>1. InCalendar(start - 1)
            BY <1>1, <2>3, <2>5, <2>6, <2>8, <2>9 DEF InCalendar
        <3>2. f - 1 \in Months
            <4>1. MinYear \in Nat /\ MaxYear \in Nat /\ FirstDate = MonthStart(12 * MinYear)
                BY EndsOfCalendar
            <4>2. 12 * MinYear \in Int /\ MonthStart(12 * MinYear) \in Int
                BY <4>1, NextMonth
            <4>3. ~(f - k < 12 * MinYear)
                BY <1>1, <2>4, <2>5, <2>9, <4>1, <4>2, MonthStartsGrow DEF InCalendar
            <4>q. QED BY <2>2, <4>1, <4>3 DEF Months
        <3>3. Within(f - 1, start - 1)
            <4>1. (f - 1) + 1 = f
                BY <2>2
            <4>2. MonthStart(f - 1) < MonthStart(f)
                BY <2>2, <2>4, MonthStartsGrow
            <4>q. QED BY <2>3, <2>5, <4>1, <4>2 DEF Within
        <3>4. start - 1 \in Int /\ 1 \in Int
            BY <2>3, <2>5
        <3>5. /\ Start(unit, start - 1) = MonthStart(f - k)
              /\ Shifted(unit, Start(unit, start - 1), 1) = MonthStart(f - k + k * 1)
            BY <1>4, <2>2, <3>2, <3>3, <3>4, MonthUnits DEF k
        <3>6. f - k + k * 1 = f
            BY <2>2
        <3>q. QED BY <2>3, <3>1, <3>5, <3>6
    <2>q. QED BY <2>3, <2>4, <2>5, <2>6, <2>7, <2>8, <2>9
<1>q. QED BY <1>2, <1>3, <1>4 DEF Units

\* What a period is, once it is in the calendar.
LEMMA WhenResolved ==
    ASSUME NEW range, Resolved(range).status = "range"
    PROVE  /\ InCalendar(range.start) /\ InCalendar(range.end)
           /\ Resolved(range) = [status |-> "range", range |-> range]
BY DEF Resolved, Raised, Refused

LEMMA PeriodResolves ==
    ASSUME NEW unit \in Units, NEW d \in Int, InCalendar(d), Resolved(This(unit, d)) # Raised
    PROVE  Resolved(This(unit, d)) = [status |-> "range", range |-> This(unit, d)]
<1>1. /\ This(unit, d).start = Start(unit, d)
      /\ This(unit, d).end = Shifted(unit, Start(unit, d), 1)
    BY DEF This, TimeRange
<1>2. ~(This(unit, d).end <= This(unit, d).start)
    BY <1>1, Periods
<1>q. QED BY <1>2 DEF Resolved

\* resolve_timeframe() returns the period the phrase names, to the day, whatever
\* the day and the phrase are.
THEOREM RangesAreTheirPeriods ==
    ASSUME NEW today \in Int, InCalendar(today), NEW phrase \in Phrases(Nat),
           ResolveTimeframe(phrase, today).status = "range"
    PROVE  RangeIsWhole(ResolveTimeframe(phrase, today).range, phrase, today)
<1> DEFINE resolved == ResolveTimeframe(phrase, today)
           range    == resolved.range
<1>1. \A r \in Fixed(today) : Resolved(r) # Raised
    BY DEF ResolveTimeframe, Raised
<1>2. /\ \A u \in Units : Resolved(This(u, today)) # Raised /\ Resolved(Last(u, today)) # Raised
      /\ Resolved(ToDate(today)) # Raised
    BY <1>1 DEF Fixed
<1>3. ToDate(today).end = today + 1 /\ InCalendar(today + 1) /\ today + 1 \in Int
    BY <1>2 DEF Resolved, ToDate, TimeRange
<1>4. phrase.says \in {"this", "last", "last count", "to date", "other"}
    BY DEF Phrases
<1>5. CASE phrase.says = "this"
    <2>1. phrase.unit \in Units
        BY <1>5 DEF Phrases
    <2>2. resolved = Resolved(This(phrase.unit, today))
        BY <1>1, <1>5 DEF ResolveTimeframe
    <2>3. range = This(phrase.unit, today)
        BY <2>2, WhenResolved
    <2>4. /\ range.start = Start(phrase.unit, today)
          /\ range.end = Shifted(phrase.unit, Start(phrase.unit, today), 1)
        BY <2>3 DEF This, TimeRange
    <2>5. today \in range.start..(range.end - 1)
        BY <2>1, <2>4, Periods
    <2>q. QED BY <1>5, <2>5 DEF RangeIsWhole
<1>6. CASE phrase.says = "last"
    <2> DEFINE u == phrase.unit
               start == Start(u, today)
               Current(d) == ResolveTimeframe([says |-> "this", unit |-> u], d)
    <2>1. u \in Units
        BY <1>6 DEF Phrases
    <2>2. resolved = Resolved(Last(u, today)) /\ range = Last(u, today)
        BY <1>1, <1>6, WhenResolved DEF ResolveTimeframe
    <2>3. /\ resolved = [status |-> "range", range |-> Last(u, today)]
          /\ InCalendar(Shifted(u, start, -1))
          /\ range.end = start
        BY <2>2, WhenResolved DEF Last, TimeRange
    <2>4. /\ start \in Int /\ InCalendar(start - 1)
          /\ Start(u, start - 1) = Shifted(u, start, -1)
          /\ Shifted(u, Start(u, start - 1), 1) = start
        BY <2>1, <2>3, Periods
    <2>5. \A d : Current(d) = Raised \/ Current(d) = Resolved(This(u, d))
        BY DEF ResolveTimeframe
    <2>6. range.end = Current(today).range.start
        <3>1. Current(today) = Resolved(This(u, today))
            BY <1>1 DEF ResolveTimeframe
        <3>2. Current(today).range = This(u, today)
            BY <1>2, <2>1, <3>1, PeriodResolves
        <3>q. QED BY <2>3, <3>2 DEF This, TimeRange
    <2>7. Current(range.end - 1) \in {[status |-> "range", range |-> range], Raised}
        <3>1. This(u, start - 1) = Last(u, today)
            BY <2>4 DEF This, Last
        <3>q. QED BY <2>2, <2>3, <2>5, <3>1
    <2>q. QED BY <1>6, <2>6, <2>7 DEF RangeIsWhole
<1>7. CASE phrase.says = "last count"
    <2> DEFINE u == phrase.unit
               n == phrase.count
               end == today + 1
    <2>1. u \in {"day", "week", "month", "year"} /\ n \in Nat
        BY <1>7 DEF Phrases, Units
    <2>2. resolved = Resolved(LastCount(u, n, today)) /\ range = LastCount(u, n, today)
        <3>1. resolved = IF n < 1 THEN Refused ELSE Resolved(LastCount(u, n, today))
            BY <1>1, <1>7 DEF ResolveTimeframe
        <3>2. resolved = Resolved(LastCount(u, n, today))
            BY <3>1 DEF Refused
        <3>q. QED BY <3>2, WhenResolved
    <2>3. range.end = end
        <3>1. \A a, b, c : TimeRange(a, b, c).end = b
            BY DEF TimeRange
        <3>2. LastCount(u, n, today).end = end
            BY <3>1 DEF LastCount
        <3>q. QED BY <2>2, <3>2
    <2>4. PICK t \in Months : Within(t, end)
        BY <1>3, MonthOfDate
    <2>5. t \in Int /\ end \in Int /\ Year[end] = t \div 12 /\ Month[end] = (t % 12) + 1 /\ Day(end) \in Nat \ {0}
        BY <1>3, <2>4, EndsOfCalendar, PartsOf DEF Months
    <2>6. ASSUME NEW back \in Nat
          PROVE  AddMonths(end, -back) <= SameDayBefore(end, back)
        <3> DEFINE s == t - back
        <3>1. s \in Int /\ -back \in Int /\ t + (-back) = s
            BY <2>5
        <3>2. AddMonths(end, -back) = MonthStart(s)
            BY <2>4, <2>5, <3>1, AddedMonths
        <3>3. Year[end] * 12 + Month[end] - 1 - back = s
            BY <2>5
        <3> HIDE DEF s
        <3> DEFINE last == DaysInMonth(s \div 12, (s % 12) + 1)
                   day  == IF Day(end) <= last THEN Day(end) ELSE last
        <3>4. SameDayBefore(end, back) = Date(s \div 12, (s % 12) + 1, day)
            BY <3>3 DEF SameDayBefore
        <3>5. last \in 28..31
            BY <3>1, NextMonth
        <3>6. day \in Nat \ {0}
            BY <2>5, <3>5
        <3>7. DaysBeforeYear(s \div 12) \in Int /\ DaysBeforeMonth(s \div 12, (s % 12) + 1) \in Int
            <4>1. s \div 12 \in Int /\ (s % 12) + 1 \in 1..12
                BY <3>1
            <4>2. DaysBeforeYear(s \div 12) \in Int
                BY <4>1, YearsFollow, Zenon
            <4>3. DaysBeforeMonth(s \div 12, (s % 12) + 1) \in Nat
                BY <4>1, MonthsFollow, Zenon
            <4>q. QED BY <4>2, <4>3
        <3> HIDE DEF day
        <3>q. QED BY <3>2, <3>4, <3>6, <3>7 DEF MonthStart, Date
    <2>7. range.start <= WholeUnitsAgo(u, end, n)
        <3>1. CASE u = "day"
            BY <2>1, <2>2, <2>5, <3>1 DEF LastCount, TimeRange, WholeUnitsAgo
        <3>2. CASE u = "week"
            BY <2>1, <2>2, <2>5, <3>2 DEF LastCount, TimeRange, WholeUnitsAgo
        <3>3. CASE u = "month"
            <4>1. range.start = AddMonths(end, -n) /\ WholeUnitsAgo(u, end, n) = SameDayBefore(end, n)
                BY <2>2, <3>3 DEF LastCount, TimeRange, WholeUnitsAgo
            <4>q. QED BY <2>1, <2>6, <4>1
        <3>4. CASE u = "year"
            <4>1. range.start = AddMonths(end, -12 * n) /\ WholeUnitsAgo(u, end, n) = SameDayBefore(end, 12 * n)
                BY <2>2, <3>4 DEF LastCount, TimeRange, WholeUnitsAgo
            <4>2. 12 * n \in Nat /\ -12 * n = -(12 * n)
                BY <2>1
            <4>q. QED BY <2>6, <4>1, <4>2
        <3>q. QED BY <2>1, <3>1, <3>2, <3>3, <3>4
    <2>q. QED BY <1>7, <2>3, <2>7 DEF RangeIsWhole
<1>8. CASE phrase.says = "to date"
    <2>1. resolved = Resolved(ToDate(today))
        BY <1>1, <1>8 DEF ResolveTimeframe
    <2>2. range.end = today + 1 /\ range.start = Start("year", today)
        BY <2>1, WhenResolved DEF ToDate, TimeRange
    <2>3. PICK t \in Months : Within(t, today)
        BY MonthOfDate
    <2>4. "year" \in {"month", "quarter", "year"} /\ 1 \in Int
        OBVIOUS
    <2>5. Start("year", today) = MonthStart(FirstMonth("year", t)) /\ FirstMonth("year", t) \in Months
        BY <2>3, <2>4, MonthUnits, FirstMonths
    <2>6. Year[Start("year", today)] = FirstMonth("year", t) \div 12 /\ Year[today] = t \div 12
        BY <2>3, <2>5, FirstDateOfMonth, PartsOf
    <2>7. FirstMonth("year", t) \div 12 = t \div 12
        BY <2>3, MonthsOfUnits, EndsOfCalendar DEF FirstMonth, Months
    <2>q. QED BY <1>8, <2>2, <2>6, <2>7 DEF RangeIsWhole
<1>9. CASE phrase.says = "other"
    <2>1. resolved = Refused
        BY <1>1, <1>9 DEF ResolveTimeframe
    <2>q. QED BY <2>1 DEF Refused
<1>q. QED BY <1>4, <1>5, <1>6, <1>7, <1>8, <1>9

-----------------------------------------------------------------------------
(***************************************************************************)
(* The time range of a plan is what its phrase was resolved to, on the day *)
(* of the call, and the call went on only because it was resolved.         *)
(***************************************************************************)
Resolution == ResolveTimeframe(build.phrase, build.today)

RangeInv ==
    /\ build.pc \in {"candidates", "owners"} \/ build.range # None =>
          build.phrase # None /\ Resolution.status = "range"
    /\ build.range # None => build.range = Resolution.range

LEMMA RangeInit == BuildInit => RangeInv
BY DEF BuildInit, Build, RangeInv

LEMMA RangeNext == PlanInv /\ RangeInv /\ [BuildNext]_<<model, build>> => RangeInv'
<1> SUFFICES ASSUME PlanInv, RangeInv, [BuildNext]_<<model, build>> PROVE RangeInv'
    OBVIOUS
<1>0. PlanTypeOK
    BY DEF PlanInv
<1>1. ASSUME build'.phrase = build.phrase, build'.today = build.today, build'.range = build.range,
             build'.pc \in {"candidates", "owners"} =>
                build.phrase # None /\ Resolution.status = "range"
      PROVE  RangeInv'
    BY <1>1 DEF RangeInv, Resolution
<1>2. CASE Load
    BY <1>0, <1>1, <1>2 DEF Load, PlanTypeOK
<1>3. CASE Filter
    BY <1>0, <1>1, <1>3 DEF Filter, PlanTypeOK
<1>4. CASE ResolveTimeRange
  <2>1. build.phrase # None => Resolution.status \in {"refused", "raised", "range"}
    BY <1>0, ResolvedOrNot DEF PlanTypeOK, Resolution
  <2>2. \/ build' = [build EXCEPT !.pc = Outcome(build.problems)]
        \/ build' = [build EXCEPT !.pc = "refused", !.problems = @ \cup {Problem(0, "phrase")}]
        \/ build' = [build EXCEPT !.pc = "raised"]
        \/ /\ build' = [build EXCEPT !.pc = "candidates"]
           /\ build.phrase # None /\ Resolution.status = "range"
    BY <1>4, <2>1 DEF ResolveTimeRange, Resolution
  <2>3. Outcome(build.problems) \notin {"candidates", "owners"}
    BY OutcomeIs
  <2>4. /\ build'.phrase = build.phrase /\ build'.today = build.today /\ build'.range = build.range
        /\ build'.pc = "candidates" => build.phrase # None /\ Resolution.status = "range"
        /\ build'.pc # "owners"
    BY <1>0, <2>2, <2>3 DEF PlanTypeOK
  <2>q. QED BY <1>1, <2>4
<1>5. CASE Candidates
    BY <1>0, <1>1, <1>5 DEF Candidates, PlanTypeOK, RangeInv
<1>6. ASSUME NEW d \in Dimensions, Owner(d) PROVE RangeInv'
  <2>1. build.pc = "owners" /\ build.phrase # None /\ Resolution.status = "range"
    BY <1>6 DEF Owner, RangeInv
  <2>2. /\ build'.phrase = build.phrase /\ build'.today = build.today /\ build'.range = build.range
    BY <1>0, <1>6 DEF Owner, PlanTypeOK
  <2>q. QED BY <1>1, <2>1, <2>2
<1>7. CASE PickTimeDimension
  <2>1. build.pc = "owners" /\ build.phrase # None /\ Resolution.status = "range"
    BY <1>7 DEF PickTimeDimension, RangeInv
  <2>2. CASE build' = [build EXCEPT !.pc = "refused", !.problems = @ \cup {Problem(0, "dimension")}]
    BY <1>0, <1>1, <2>1, <2>2 DEF PlanTypeOK
  <2>3. CASE build' = Picked(CHOOSE d \in build.candidates : TRUE)
    <3>1. build'.phrase = build.phrase /\ build'.today = build.today /\ build'.range = Resolution.range
        BY <1>0, <2>3 DEF Picked, PlanTypeOK, Resolution
    <3>q. QED BY <2>1, <3>1 DEF RangeInv, Resolution
  <2>q. QED BY <1>7, <2>2, <2>3 DEF PickTimeDimension
<1>8. CASE Modeller
  <2>1. UNCHANGED build
    BY <1>8 DEF Modeller, Declare, DropDimension, DropEntity, Edited
  <2>q. QED BY <2>1 DEF RangeInv, Resolution
<1>9. CASE UNCHANGED <<model, build>>
    BY <1>9 DEF RangeInv, Resolution
<1>q. QED BY <1>2, <1>3, <1>4, <1>5, <1>6, <1>7, <1>8, <1>9 DEF BuildNext, BuildStep

\* Whatever the day and the phrase, and whatever modellers do, the range of a plan
\* is the periods the phrase names, to the day.
THEOREM PlannedRangesAreWhole ==
    ASSUME IsFiniteSet(Dimensions) PROVE BuildSpec => []RangesAreWhole
<1>1. PlanInv /\ RangeInv => RangesAreWhole
  <2> SUFFICES ASSUME PlanInv, RangeInv, build.range # None
               PROVE  RangeIsWhole(build.range, build.phrase, build.today)
    BY DEF RangesAreWhole
  <2>1. /\ build.phrase \in Phrases(Nat) /\ build.today \in Calendar
        /\ Resolution.status = "range" /\ build.range = Resolution.range
    BY DEF PlanInv, PlanTypeOK, RangeInv
  <2>2. build.today \in Int /\ InCalendar(build.today)
    BY <2>1, EndsOfCalendar DEF Calendar, InCalendar
  <2>q. QED BY <2>1, <2>2, RangesAreTheirPeriods DEF Resolution
<1>2. BuildSpec => []RangeInv
    BY RangeInit, RangeNext, PlanInvariant, PTL DEF BuildSpec
<1>q. QED BY <1>1, <1>2, PlanInvariant, PTL

-----------------------------------------------------------------------------
(***************************************************************************)
(* The ranking of a search.                                                *)
(***************************************************************************)
RankedList(l) == l \in Seq(Rows) /\ \A i, j \in DOMAIN l : l[i] = l[j] => i = j

LEMMA ListsAreRanked ==
    ASSUME NEW lists \in Lists
    PROVE  /\ lists["exact"] \in Seq(Rows) /\ RankedList(lists["exact"])
           /\ lists["lexical"] \in Seq(Rows) /\ RankedList(lists["lexical"])
           /\ lists["vector"] \in Seq(Rows) /\ RankedList(lists["vector"])
<1>1. \A l \in Ranked : RankedList(l) /\ l \in Seq(Rows)
    BY ScaleAssumption DEF Ranked, RankedList
<1>2. lists["exact"] \in Ranked /\ lists["lexical"] \in Ranked /\ lists["vector"] \in Ranked
    BY DEF Lists, Methods
<1>q. QED BY <1>1, <1>2

\* No vote is worth more than the first place of its list.
LEMMA Votes ==
    ASSUME NEW method, NEW l \in Seq(Rows), RankedList(l), NEW row
    PROVE  /\ Vote(method, l, row) \in 0..(Weight(method) * (Scale \div 61))
           /\ row \notin Range(l) => Vote(method, l, row) = 0
           /\ l # <<>> => Vote(method, l, l[1]) = Weight(method) * (Scale \div 61)
<1>1. Weight(method) \in {1, 2} /\ Scale \in Nat \ {0}
    BY ScaleAssumption DEF Weight
<1>2. DOMAIN l = 1..Len(l) /\ Len(l) \in Nat
    OBVIOUS
<1>3. ASSUME row \in Range(l)
      PROVE  Position(row, l) \in 1..Len(l)
    BY <1>2, <1>3, Zenon DEF Range, Position
<1>4. \A p \in Nat \ {0} : Scale \div (60 + p) \in Nat /\ Scale \div (60 + p) <= Scale \div 61
    <2> SUFFICES ASSUME NEW p \in Nat \ {0}
                 PROVE  Scale \div (60 + p) \in Nat /\ Scale \div (60 + p) <= Scale \div 61
        OBVIOUS
    <2> DEFINE q == 60 + p
               a == Scale \div q
               b == Scale \div 61
    <2>1. q \in Nat /\ 61 <= q
        OBVIOUS
    <2>2. a \in Nat /\ q * a <= Scale
        BY <1>1, <2>1
    <2>3. b \in Nat /\ Scale < 61 * (b + 1)
        BY <1>1
    <2> HIDE DEF q, a, b
    <2>4. 61 * a <= q * a
        BY <2>1, <2>2
    <2>5. a <= b
        BY <1>1, <2>1, <2>2, <2>3, <2>4
    <2>q. QED BY <2>2, <2>5 DEF a, b, q
<1>5. Vote(method, l, row) \in 0..(Weight(method) * (Scale \div 61))
    <2>1. CASE row \in Range(l)
        <3>1. Vote(method, l, row) = Weight(method) * (Scale \div (60 + Position(row, l)))
            BY <2>1 DEF Vote, RRF_K
        <3>2. Position(row, l) \in Nat \ {0}
            BY <1>2, <1>3, <2>1
        <3>3. Scale \div (60 + Position(row, l)) \in Nat
              /\ Scale \div (60 + Position(row, l)) <= Scale \div 61 /\ Scale \div 61 \in Nat
            BY <1>1, <1>4, <3>2
        <3>q. QED BY <1>1, <3>1, <3>3
    <2>2. CASE row \notin Range(l)
        <3>1. Scale \div 61 \in Nat
            BY <1>1
        <3>q. QED BY <1>1, <2>2, <3>1 DEF Vote
    <2>q. QED BY <2>1, <2>2
<1>6. ASSUME l # <<>>
      PROVE  Vote(method, l, l[1]) = Weight(method) * (Scale \div 61)
    <2>1. 1 \in DOMAIN l /\ l[1] \in Range(l)
        BY <1>6 DEF Range
    <2>2. Position(l[1], l) = 1
        BY <2>1, Zenon DEF Position, RankedList
    <2>q. QED BY <2>1, <2>2 DEF Vote, RRF_K
<1>q. QED BY <1>5, <1>6 DEF Vote

LEMMA Scores ==
    ASSUME NEW lists \in Lists, NEW row
    PROVE  /\ Score(lists, row) \in 0..(4 * (Scale \div 61))
           /\ row \notin Range(lists["exact"]) => Score(lists, row) <= 2 * (Scale \div 61)
           /\ lists["exact"] # <<>> => Score(lists, lists["exact"][1]) >= 2 * (Scale \div 61)
<1> DEFINE V(m, r) == Vote(m, lists[m], r)
           unit == Scale \div 61
<1>1. unit \in Nat
    BY ScaleAssumption
<1>2. Weight("exact") = 2 /\ Weight("lexical") = 1 /\ Weight("vector") = 1
    BY DEF Weight
<1>3. \A r : /\ V("exact", r) \in 0..(2 * unit) /\ V("lexical", r) \in 0..(1 * unit)
             /\ V("vector", r) \in 0..(1 * unit)
    BY <1>2, ListsAreRanked, Votes
<1>4. row \notin Range(lists["exact"]) => V("exact", row) = 0
    BY ListsAreRanked, Votes
<1>5. lists["exact"] # <<>> => V("exact", lists["exact"][1]) = 2 * unit
    BY <1>2, ListsAreRanked, Votes
<1>6. \A r : Score(lists, r) = V("exact", r) + V("lexical", r) + V("vector", r)
    BY DEF Score
<1> HIDE DEF V, unit
<1>7. Score(lists, row) \in 0..(4 * unit)
    BY <1>1, <1>3, <1>6
<1>8. row \notin Range(lists["exact"]) => Score(lists, row) <= 2 * unit
    BY <1>1, <1>3, <1>4, <1>6
<1>9. lists["exact"] # <<>> => Score(lists, lists["exact"][1]) >= 2 * unit
    BY <1>1, <1>3, <1>5, <1>6
<1>q. QED BY <1>7, <1>8, <1>9 DEF unit

LEMMA FirstOfConcat ==
    ASSUME NEW S, NEW a \in Seq(S), NEW b \in Seq(S), a # <<>>
    PROVE  a \o b \in Seq(S) /\ a \o b # <<>> /\ (a \o b)[1] = a[1]
<1>1. Len(a) \in Nat \ {0} /\ Len(b) \in Nat
    OBVIOUS
<1>2. 1 \in 1..(Len(a) + Len(b)) /\ 1 <= Len(a)
    BY <1>1
<1>q. QED BY <1>1, <1>2, ConcatProperties

\* The keys of `scores`: finitely many, one for each row, and the first exact match
\* before all of them.
LEMMA KeysAre ==
    ASSUME NEW lists \in Lists, lists["exact"] # <<>>
    PROVE  /\ IsFiniteSet(Keys(lists))
           /\ \A k \in Keys(lists) : k.met \in Nat \ {0}
           /\ \A k, l \in Keys(lists) : k.met = l.met => k = l
           /\ [row |-> lists["exact"][1], met |-> 1] \in Keys(lists)
<1> DEFINE met == Met(lists)
<1>1. met \in Seq(Rows) /\ met[1] = lists["exact"][1] /\ 1 \in DOMAIN met
    <2> DEFINE head == lists["exact"] \o lists["lexical"]
    <2>1. head \in Seq(Rows) /\ head # <<>> /\ head[1] = lists["exact"][1]
        BY ListsAreRanked, FirstOfConcat
    <2>2. met = head \o lists["vector"]
        BY DEF Met
    <2> HIDE DEF head, met
    <2>3. met \in Seq(Rows) /\ met # <<>> /\ met[1] = head[1]
        BY <2>1, <2>2, ListsAreRanked, FirstOfConcat
    <2>q. QED BY <2>1, <2>3
<1>2. DOMAIN met = 1..Len(met) /\ Len(met) \in Nat
    BY <1>1
<1> DEFINE firsts == {j \in DOMAIN met : \A earlier \in 1..(j - 1) : met[earlier] # met[j]}
<1>3. Keys(lists) = {[row |-> met[i], met |-> i] : i \in firsts}
    BY DEF Keys
<1>4. 1 \in firsts
    BY <1>1
<1>5. IsFiniteSet(firsts)
    <2>1. IsFiniteSet(1..Len(met))
        BY <1>2, FS_Interval
    <2>2. firsts \subseteq 1..Len(met)
        BY <1>2
    <2>q. QED BY <2>1, <2>2, FS_Subset
<1> HIDE DEF met, firsts
<1>6. IsFiniteSet(Keys(lists))
    <2> DEFINE keyed == [i \in firsts |-> [row |-> met[i], met |-> i]]
    <2>1. keyed \in Surjection(firsts, Keys(lists))
        BY <1>3 DEF Surjection
    <2>q. QED BY <1>5, <2>1, FS_Surjection
<1>7. firsts \subseteq 1..Len(met)
    BY <1>2 DEF firsts
<1>q. QED BY <1>1, <1>2, <1>3, <1>4, <1>6, <1>7

\* Some key is before all the others.
LEMMA BestKey ==
    ASSUME NEW lists \in Lists, lists["exact"] # <<>>
    PROVE  \E k \in Keys(lists) : \A l \in Keys(lists) : ~Before(lists, l, k)
<1> DEFINE keys == Keys(lists)
           top  == 4 * (Scale \div 61)
           S(k) == Score(lists, k.row)
<1>1. /\ \A k \in keys : k.met \in Nat \ {0}
      /\ keys # {}
    BY KeysAre
<1>2. top \in Nat /\ \A k : S(k) \in 0..top
    BY ScaleAssumption, Scores
<1> HIDE DEF keys, top, S
<1> DEFINE lost == {top - S(k) : k \in keys}
<1>3. lost \in SUBSET Nat /\ lost # {}
    BY <1>1, <1>2
<1>4. PICK least \in lost : \A y \in lost : least <= y
    BY <1>3, LeastOfNaturals
<1>5. PICK best \in keys : least = top - S(best)
    OBVIOUS
<1>6. \A l \in keys : S(l) <= S(best)
    <2> TAKE l \in keys
    <2>1. least <= top - S(l)
        BY <1>4
    <2>q. QED BY <1>2, <1>5, <2>1
<1> DEFINE met == {k.met : k \in {l \in keys : S(l) = S(best)}}
<1>7. met \in SUBSET Nat /\ met # {}
    BY <1>1, <1>5
<1>8. PICK first \in met : \A y \in met : first <= y
    BY <1>7, LeastOfNaturals
<1>9. PICK k \in keys : S(k) = S(best) /\ k.met = first
    OBVIOUS
<1>10. ASSUME NEW l \in keys PROVE ~Before(lists, l, k)
  <2>1. S(l) <= S(k) /\ S(l) \in Int /\ S(k) \in Int /\ l.met \in Nat /\ k.met \in Nat
    BY <1>1, <1>2, <1>6, <1>9
  <2>2. S(l) = S(k) => k.met <= l.met
    BY <1>8, <1>9
  <2>q. QED BY <2>1, <2>2 DEF Before, S
<1>q. QED BY <1>9, <1>10 DEF keys

\* The first hit is an exact match: two lesser methods can draw level with it and
\* no more.
LEMMA ExactMatchIsFirst ==
    ASSUME NEW lists \in Lists, NEW limit \in Nat \ {0}, lists["exact"] # <<>>
    PROVE  /\ Hits(lists, limit)[1] \in Range(lists["exact"])
           /\ 1 \in DOMAIN Hits(lists, limit) /\ DOMAIN Hits(lists, limit) \subseteq Nat \ {0}
<1> DEFINE keys == Keys(lists)
           Place(k) == Cardinality({l \in keys : Before(lists, l, k)}) + 1
           shown == IF Cardinality(keys) < limit THEN Cardinality(keys) ELSE limit
           first == CHOOSE k \in keys : Place(k) = 1
           exact == [row |-> lists["exact"][1], met |-> 1]
           hits == Hits(lists, limit)
<1>1. /\ IsFiniteSet(keys) /\ exact \in keys
      /\ \A k \in keys : k.met \in Nat \ {0}
      /\ \A k, l \in keys : k.met = l.met => k = l
    BY KeysAre
<1>2. \A k \in keys : Place(k) = 1 <=> \A l \in keys : ~Before(lists, l, k)
  <2> TAKE k \in keys
  <2> DEFINE better == {l \in keys : Before(lists, l, k)}
  <2>1. IsFiniteSet(better)
    BY <1>1, FS_Subset
  <2>2. Cardinality(better) \in Nat /\ (Cardinality(better) = 0 <=> better = {})
    BY <2>1, FS_CardinalityType, FS_EmptySet
  <2>3. Place(k) = 1 <=> better = {}
    BY <2>2
  <2>q. QED BY <2>3
<1>3. first \in keys /\ \A l \in keys : ~Before(lists, l, first)
  <2>1. \E k \in keys : Place(k) = 1
    BY <1>2, BestKey
  <2>2. first \in keys /\ Place(first) = 1
    BY <2>1, Zenon
  <2>q. QED BY <1>2, <2>2
<1>4. hits = [i \in 1..shown |-> (CHOOSE k \in keys : Place(k) = i).row]
  BY DEF Hits
<1>5. shown \in Nat \ {0}
  <2>1. Cardinality(keys) \in Nat /\ Cardinality(keys) # 0
    BY <1>1, FS_CardinalityType, FS_EmptySet
  <2>q. QED BY <2>1
<1>6. 1 \in 1..shown /\ DOMAIN hits = 1..shown /\ hits[1] = first.row
  BY <1>4, <1>5
<1>7. first.row \in Range(lists["exact"])
  <2> HIDE DEF first, keys
  <2> SUFFICES ASSUME first.row \notin Range(lists["exact"]) PROVE FALSE
    OBVIOUS
  <2>1. Score(lists, first.row) <= 2 * (Scale \div 61) /\ Score(lists, exact.row) >= 2 * (Scale \div 61)
    BY Scores
  <2>2. Score(lists, first.row) \in Int /\ Score(lists, exact.row) \in Int /\ Scale \div 61 \in Int
    BY Scores, ScaleAssumption
  <2>3. exact.met = 1 /\ first # exact
    <3>1. lists["exact"][1] \in Range(lists["exact"])
        BY ListsAreRanked DEF Range
    <3>q. QED BY <3>1
  <2>4. exact.met < first.met
    BY <1>1, <1>3, <2>3
  <2>5. ~Before(lists, exact, first)
    BY <1>1, <1>3
  <2> HIDE DEF exact
  <2>q. QED BY <2>1, <2>2, <2>4, <2>5 DEF Before
<1>q. QED BY <1>5, <1>6, <1>7

\* What a search has done so far.
RankInv ==
    /\ DOMAIN search = {"pc", "expected", "limit", "lists", "hits", "resolved"}
    /\ search.limit \in Nat \ {0}
    /\ search.lists \in Lists
    /\ search.pc \in {"resolve", "resolved"} => search.hits = Hits(search.lists, search.limit)
    /\ search.pc = "resolved" =>
          LET right == {i \in DOMAIN search.hits : KindOf[search.hits[i]] = search.expected}
          IN  search.resolved = IF right = {} THEN Unresolved ELSE search.hits[Min(right)]

LEMMA RankInit == SearchInit => RankInv
<1> SUFFICES ASSUME SearchInit PROVE RankInv
    OBVIOUS
<1>1. PICK expected \in Range(KindOf), limit \in Nat \ {0} : search = Search(expected, limit)
    BY DEF SearchInit
<1>2. <<>> \in Ranked
    <2>1. 0 \in 0..PerMethod /\ <<>> \in [1..0 -> Rows]
        BY ScaleAssumption
    <2>q. QED BY <2>1 DEF Ranked
<1>q. QED BY <1>1, <1>2 DEF Search, RankInv, Lists

LEMMA RankNext == RankInv /\ [SearchStep]_search => RankInv'
<1> SUFFICES ASSUME RankInv, [SearchStep]_search PROVE RankInv'
    OBVIOUS
<1>1. ASSUME NEW m \in Methods, Statement(m) PROVE RankInv'
  <2>1. PICK list \in Ranked :
            search' = [search EXCEPT !.pc = Following(m), !.lists[m] = list]
    BY <1>1 DEF Statement
  <2>2. /\ search'.pc = Following(m) /\ DOMAIN search' = DOMAIN search
        /\ search'.limit = search.limit
        /\ search'.lists = [search.lists EXCEPT ![m] = list]
    BY <2>1 DEF RankInv
  <2>3. Following(m) \in {"lexical", "vector", "fuse"}
    BY DEF Following, Methods
  <2>4. search'.lists \in Lists
    BY <2>2 DEF RankInv, Lists
  <2>q. QED BY <2>2, <2>3, <2>4 DEF RankInv
<1>2. CASE Fuse
  <2>1. /\ search'.pc = "resolve" /\ DOMAIN search' = DOMAIN search
        /\ search'.limit = search.limit /\ search'.lists = search.lists
        /\ search'.hits = Hits(search.lists, search.limit)
    BY <1>2 DEF Fuse, RankInv
  <2>q. QED BY <2>1 DEF RankInv
<1>3. CASE ResolveOne
  <2> DEFINE right == {i \in DOMAIN search.hits : KindOf[search.hits[i]] = search.expected}
             answer == IF right = {} THEN Unresolved ELSE search.hits[Min(right)]
  <2>1. search' = [search EXCEPT !.pc = "resolved", !.resolved = answer] /\ search.pc = "resolve"
    BY <1>3 DEF ResolveOne
  <2> HIDE DEF answer
  <2>2. /\ search'.pc = "resolved" /\ DOMAIN search' = DOMAIN search
        /\ search'.limit = search.limit /\ search'.lists = search.lists
        /\ search'.hits = search.hits /\ search'.expected = search.expected
        /\ search'.resolved = answer
    BY <2>1 DEF RankInv
  <2>q. QED BY <2>1, <2>2 DEF RankInv, answer
<1>4. CASE UNCHANGED search
    BY <1>4 DEF RankInv
<1>q. QED BY <1>1, <1>2, <1>3, <1>4 DEF SearchStep

\* However many rows there are, however the statements rank them and however few
\* hits are looked at, a phrase that is the name of something is resolved to it,
\* if it is of the expected kind and comes first.
THEOREM ExactMatchesWin == SearchSpec => []ExactNameWins
<1>1. RankInv => ExactNameWins
  <2> SUFFICES ASSUME RankInv, search.pc = "resolved", search.lists["exact"] # <<>>
               PROVE  /\ search.hits[1] \in Range(search.lists["exact"])
                      /\ KindOf[search.hits[1]] = search.expected
                            => search.resolved = search.hits[1]
    BY DEF ExactNameWins
  <2> DEFINE hits == search.hits
             right == {i \in DOMAIN hits : KindOf[hits[i]] = search.expected}
  <2>1. /\ hits[1] \in Range(search.lists["exact"])
        /\ 1 \in DOMAIN hits /\ DOMAIN hits \subseteq Nat \ {0}
    BY ExactMatchIsFirst DEF RankInv
  <2>2. search.resolved = IF right = {} THEN Unresolved ELSE hits[Min(right)]
    BY DEF RankInv
  <2>3. ASSUME KindOf[hits[1]] = search.expected PROVE Min(right) = 1 /\ right # {}
    <3>1. 1 \in right /\ right \subseteq Nat \ {0}
        BY <2>1, <2>3
    <3> HIDE DEF right
    <3>2. \A y \in right : y \in Int /\ 1 <= y
        BY <3>1
    <3>3. \A x \in right : (\A y \in right : x <= y) => x = 1
        BY <3>1, <3>2
    <3>q. QED BY <3>1, <3>2, <3>3, Zenon DEF Min
  <2>q. QED BY <2>1, <2>2, <2>3
<1>q. QED BY <1>1, RankInit, RankNext, PTL DEF SearchSpec

-----------------------------------------------------------------------------
(***************************************************************************)
(* The parser, and what the validators say of what it accepts.             *)
(***************************************************************************)
Items    == Operands \cup Signs \cup {"(", ")"} \cup Blanks
Labels   == Operands \cup Signs \cup {"negate"}
Pendings == [operator : Signs \cup {"negate", "("}, left : Seq(Labels)]

ParsingTypeOK ==
    parsing \in
        [pc : {"tokenize", "factor", "term", "expr", "parsed", "error"}, grammar : Grammars,
         expression : Seq(Items), taken : Nat, stack : Seq(Pendings), node : Seq(Labels)]

\* Tokens were taken one after the other.
TakenInv ==
    /\ Tokenized(parsing.grammar, parsing.expression)
    /\ parsing.taken \in 0..Len(parsing.expression)
    /\ parsing.taken # 0 => parsing.expression[parsing.taken] \notin Blanks
    /\ parsing.pc = "parsed" => parsing.stack = <<>> /\ Upcoming = {}

\* The parentheses open are those that wait on the stack.
Parentheses(stack) == {i \in 1..Len(stack) : stack[i].operator = "("}

NestingInv ==
    /\ Nesting(parsing.expression, parsing.taken) = Cardinality(Parentheses(parsing.stack))
    /\ \A n \in 1..parsing.taken : Nesting(parsing.expression, n) >= 0

\* Every atom taken is in the last node or in one that waits for a right operand.
InNodes(item) ==
    \/ \E i \in 1..Len(parsing.stack) : item \in Range(parsing.stack[i].left)
    \/ parsing.pc # "factor" /\ item \in Range(parsing.node)

AtomsInv ==
    \A a \in Operands :
        (\E i \in 1..parsing.taken : parsing.expression[i] = a) <=> InNodes(a)

\* A parenthesis does not follow a name.
CallsNone(items, n) ==
    \A i, j \in 1..n :
        i < j /\ items[i] \in Columns /\ items[j] = "(" => \E k \in (i + 1)..(j - 1) : items[k] \notin Blanks

CallsInv ==
    /\ parsing.pc = "factor" /\ parsing.taken # 0 =>
          parsing.expression[parsing.taken] \notin Columns
    /\ CallsNone(parsing.expression, parsing.taken)

\* A sign of one operand, or a parenthesis, has none before it.
PendingInv ==
    \A i \in 1..Len(parsing.stack) :
        parsing.stack[i].operator \in {"negate", "("} => parsing.stack[i].left = <<>>

ParseInv ==
    /\ ParsingTypeOK
    /\ PendingInv
    /\ parsing.pc = "tokenize" => parsing.taken = 0 /\ parsing.stack = <<>>
    /\ parsing.pc \notin {"tokenize", "error"} => TakenInv /\ NestingInv /\ AtomsInv /\ CallsInv

LEMMA ItemsDiffer ==
    /\ Operands \cap {"+", "-", "*", "/", "(", ")", "NULLIF", "ZERO", "negate"} = {}
    /\ Operands \cap Blanks = {} /\ {"(", ")"} \cap Blanks = {}
    /\ \A item \in Items : item \notin {"NULLIF", "ZERO", "negate"}
    /\ Items \subseteq Labels \cup {"(", ")"} \cup Blanks
BY ItemsAssumption DEF Items, Labels, Signs, Blanks

Among(items, S, n) == {i \in 1..n : items[i] \in S}

LEMMA OpenedBy ==
    ASSUME NEW e, NEW S, NEW t \in Nat, NEW p \in Nat, t < p,
           \A i \in (t + 1)..(p - 1) : e[i] \notin S
    PROVE  /\ Cardinality(Among(e, S, t)) \in Nat
           /\ \A n \in t..(p - 1) : Cardinality(Among(e, S, n)) = Cardinality(Among(e, S, t))
           /\ Cardinality(Among(e, S, p)) = Cardinality(Among(e, S, t)) + IF e[p] \in S THEN 1 ELSE 0
<1>1. IsFiniteSet(Among(e, S, t))
  <2>1. IsFiniteSet(1..t) /\ Among(e, S, t) \in SUBSET (1..t)
    BY FS_Interval DEF Among
  <2>q. QED BY <2>1, FS_Subset
<1>2. Cardinality(Among(e, S, t)) \in Nat
    BY <1>1, FS_CardinalityType
<1>3. \A n \in t..(p - 1) : Among(e, S, n) = Among(e, S, t)
    BY DEF Among
<1>4. CASE e[p] \in S
  <2>1. Among(e, S, p) = Among(e, S, t) \cup {p} /\ p \notin Among(e, S, t)
    BY <1>4 DEF Among
  <2>q. QED BY <1>1, <1>2, <1>3, <1>4, <2>1, FS_AddElement
<1>5. CASE e[p] \notin S
  <2>1. Among(e, S, p) = Among(e, S, t)
    BY <1>5 DEF Among
  <2>q. QED BY <1>2, <1>3, <1>5, <2>1
<1>q. QED BY <1>4, <1>5

\* Blanks change no nesting, and a token changes it by one or not at all.
LEMMA NestingOf ==
    ASSUME NEW e \in Seq(Items), NEW t \in Nat, NEW p \in Nat, t < p, p <= Len(e),
           \A i \in (t + 1)..(p - 1) : e[i] \in Blanks
    PROVE  /\ Nesting(e, t) \in Int
           /\ \A n \in t..(p - 1) : Nesting(e, n) = Nesting(e, t)
           /\ Nesting(e, p) = Nesting(e, t)
                                  + IF e[p] = "(" THEN 1 ELSE IF e[p] = ")" THEN -1 ELSE 0
<1>0. Len(e) \in Nat /\ \A i \in 1..Len(e) : e[i] \in Items
    OBVIOUS
<1> DEFINE opens(n) == Among(e, {"("}, n)
           closes(n) == Among(e, {")"}, n)
<1>1. \A n \in 0..Len(e) : Nesting(e, n) = Cardinality(opens(n)) - Cardinality(closes(n))
  <2>1. \A i \in 1..Len(e) : e[i] # "NULLIF" /\ e[i] # "ZERO"
    BY <1>0, ItemsDiffer
  <2> SUFFICES ASSUME NEW n \in 0..Len(e)
               PROVE  Nesting(e, n) = Cardinality(opens(n)) - Cardinality(closes(n))
    OBVIOUS
  <2>2. \A i \in 1..n : i \in 1..Len(e)
    BY <1>0
  <2>3. /\ {i \in 1..n : e[i] \in {"(", "NULLIF"}} = opens(n)
        /\ {i \in 1..n : e[i] \in {")", "ZERO"}} = closes(n)
    BY <2>1, <2>2 DEF Among
  <2>q. QED BY <2>3 DEF Nesting
<1>3. /\ Cardinality(opens(t)) \in Nat
      /\ \A n \in t..(p - 1) : Cardinality(opens(n)) = Cardinality(opens(t))
      /\ Cardinality(opens(p)) = Cardinality(opens(t)) + IF e[p] \in {"("} THEN 1 ELSE 0
  <2>1. \A i \in (t + 1)..(p - 1) : e[i] \notin {"("}
    BY ItemsDiffer
  <2>q. QED BY <2>1, OpenedBy
<1>4. /\ Cardinality(closes(t)) \in Nat
      /\ \A n \in t..(p - 1) : Cardinality(closes(n)) = Cardinality(closes(t))
      /\ Cardinality(closes(p)) = Cardinality(closes(t)) + IF e[p] \in {")"} THEN 1 ELSE 0
  <2>1. \A i \in (t + 1)..(p - 1) : e[i] \notin {")"}
    BY ItemsDiffer
  <2>q. QED BY <2>1, OpenedBy
<1> HIDE DEF opens, closes
<1>5. t \in 0..Len(e) /\ p \in 0..Len(e) /\ \A n \in t..(p - 1) : n \in 0..Len(e)
    BY <1>0
<1>q. QED BY <1>1, <1>3, <1>4, <1>5

\* What takes a token takes the next one, over blanks.
LEMMA TokenIsNext ==
    ASSUME ParsingTypeOK, Upcoming # {}
    PROVE  /\ Min(Upcoming) \in Nat /\ Min(Upcoming) \in (parsing.taken + 1)..Len(parsing.expression)
           /\ Token = parsing.expression[Min(Upcoming)] /\ Token \notin Blanks /\ Token \in Items
           /\ \A i \in (parsing.taken + 1)..(Min(Upcoming) - 1) : parsing.expression[i] \in Blanks
<1>0. parsing.taken \in Nat /\ parsing.expression \in Seq(Items) /\ Len(parsing.expression) \in Nat
    BY DEF ParsingTypeOK
<1>1. Upcoming \in SUBSET Nat
    BY <1>0 DEF Upcoming
<1>2. PICK x \in Upcoming : \A y \in Upcoming : x <= y
    BY <1>1, LeastOfNaturals
<1>3. Min(Upcoming) \in Upcoming /\ \A y \in Upcoming : Min(Upcoming) <= y
    BY <1>2, Zenon DEF Min
<1> DEFINE p == Min(Upcoming)
<1>4. p \in Upcoming /\ \A y \in Upcoming : p <= y
    BY <1>3
<1>5. Token = parsing.expression[p]
    BY DEF Token
<1> HIDE DEF p
<1>6. /\ p \in Nat /\ p \in (parsing.taken + 1)..Len(parsing.expression)
      /\ parsing.expression[p] \notin Blanks /\ parsing.expression[p] \in Items
    BY <1>0, <1>4 DEF Upcoming
<1>7. \A i \in (parsing.taken + 1)..(p - 1) : parsing.expression[i] \in Blanks
    BY <1>0, <1>4, <1>6 DEF Upcoming
<1>q. QED BY <1>5, <1>6, <1>7 DEF p

LEMMA ParenthesesAreFinite ==
    ASSUME NEW s \in Seq(Pendings)
    PROVE  IsFiniteSet(Parentheses(s)) /\ Cardinality(Parentheses(s)) \in Nat
<1>1. Len(s) \in Nat
    OBVIOUS
<1>2. IsFiniteSet(1..Len(s)) /\ Parentheses(s) \in SUBSET (1..Len(s))
    BY <1>1, FS_Interval DEF Parentheses
<1>3. IsFiniteSet(Parentheses(s))
    BY <1>2, FS_Subset, Zenon
<1>q. QED BY <1>3, FS_CardinalityType

\* What the expression holds up to the next token.
LEMMA AfterToken ==
    ASSUME ParsingTypeOK, TakenInv, NestingInv, CallsInv, Upcoming # {}
    PROVE  /\ Nesting(parsing.expression, Min(Upcoming))
                  = Nesting(parsing.expression, parsing.taken)
                        + IF Token = "(" THEN 1 ELSE IF Token = ")" THEN -1 ELSE 0
           /\ Nesting(parsing.expression, Min(Upcoming)) >= 0 =>
                  \A n \in 1..Min(Upcoming) : Nesting(parsing.expression, n) >= 0
           /\ \A a \in Operands :
                  (\E i \in 1..Min(Upcoming) : parsing.expression[i] = a)
                      <=> (\E i \in 1..parsing.taken : parsing.expression[i] = a) \/ Token = a
           /\ parsing.pc = "factor" \/ Token # "(" => CallsNone(parsing.expression, Min(Upcoming))
<1> DEFINE p == Min(Upcoming)
           e == parsing.expression
           t == parsing.taken
<1>1. /\ p \in Nat /\ p \in (t + 1)..Len(e) /\ Token = e[p] /\ Token \notin Blanks /\ Token \in Items
      /\ \A i \in (t + 1)..(p - 1) : e[i] \in Blanks
    BY TokenIsNext
<1>2. e \in Seq(Items) /\ t \in Nat /\ Len(e) \in Nat
    BY DEF ParsingTypeOK
<1> HIDE DEF p, e, t
<1>3. t < p /\ p <= Len(e)
    BY <1>1, <1>2
<1>4. /\ Nesting(e, t) \in Int
      /\ \A n \in t..(p - 1) : Nesting(e, n) = Nesting(e, t)
      /\ Nesting(e, p) = Nesting(e, t) + IF e[p] = "(" THEN 1 ELSE IF e[p] = ")" THEN -1 ELSE 0
    BY <1>1, <1>2, <1>3, NestingOf
<1>5. /\ \A n \in 1..t : Nesting(e, n) >= 0
      /\ Nesting(e, t) >= 0
  <2>1. parsing.stack \in Seq(Pendings)
    BY DEF ParsingTypeOK
  <2>2. Cardinality(Parentheses(parsing.stack)) \in Nat
    BY <2>1, ParenthesesAreFinite, Zenon
  <2>q. QED BY <2>2 DEF NestingInv, e, t
<1>6. Nesting(e, p) >= 0 => \A n \in 1..p : Nesting(e, n) >= 0
  <2>1. \A n \in 1..p : n \in 1..t \/ n \in t..(p - 1) \/ n = p
    BY <1>1, <1>2
  <2>q. QED BY <1>4, <1>5, <2>1
<1>7. \A a \in Operands : (\E i \in 1..p : e[i] = a) <=> (\E i \in 1..t : e[i] = a) \/ e[p] = a
  <2>1. \A i \in 1..p : i \in 1..t \/ i \in (t + 1)..(p - 1) \/ i = p
    BY <1>1, <1>2
  <2>2. \A i \in 1..t : i \in 1..p
    BY <1>1, <1>2, <1>3
  <2>3. p \in 1..p
    BY <1>1, <1>2, <1>3
  <2>4. Blanks \cap Operands = {}
    BY ItemsDiffer
  <2>q. QED BY <1>1, <2>1, <2>2, <2>3, <2>4
<1>8. ASSUME parsing.pc = "factor" \/ Token # "("
      PROVE  CallsNone(e, p)
  <2> SUFFICES ASSUME NEW i \in 1..p, NEW j \in 1..p, i < j, e[i] \in Columns, e[j] = "(",
                      \A k \in (i + 1)..(j - 1) : e[k] \in Blanks
               PROVE  FALSE
    BY DEF CallsNone
  <2>1. CASE j # p
    <3>1. j \in 1..t
        BY <1>1, <1>2, <2>1, ItemsDiffer
    <3>2. i \in 1..t
        BY <1>2, <3>1
    <3>q. QED BY <3>1, <3>2 DEF CallsInv, CallsNone, e, t
  <2>2. CASE j = p
    <3>1. parsing.pc = "factor"
        BY <1>1, <1>8, <2>2
    <3>2. e[i] \notin Blanks
        BY ItemsDiffer DEF Operands
    <3>3. i \in 1..t
        BY <1>1, <1>2, <2>2, <3>2
    <3>4. t \in 1..Len(e) /\ e[t] \notin Blanks /\ e[t] \notin Columns
        BY <1>2, <1>3, <3>1, <3>3 DEF TakenInv, CallsInv, e, t
    <3>5. i # t /\ t \in (i + 1)..(j - 1)
        BY <1>2, <1>3, <2>2, <3>3, <3>4
    <3>q. QED BY <3>4, <3>5
  <2>q. QED BY <2>1, <2>2
<1>q. QED BY <1>1, <1>4, <1>6, <1>7, <1>8 DEF p, e, t

LEMMA Pushed ==
    ASSUME NEW s \in Seq(Pendings), NEW f \in Pendings
    PROVE  /\ Append(s, f) \in Seq(Pendings) /\ Len(Append(s, f)) = Len(s) + 1
           /\ \A i \in 1..Len(s) : Append(s, f)[i] = s[i]
           /\ Append(s, f)[Len(s) + 1] = f
           /\ Cardinality(Parentheses(Append(s, f)))
                  = Cardinality(Parentheses(s)) + IF f.operator = "(" THEN 1 ELSE 0
<1> DEFINE n == Len(s)
           u == Append(s, f)
<1>1. n \in Nat /\ u \in Seq(Pendings) /\ Len(u) = n + 1 /\ u[n + 1] = f
      /\ \A i \in 1..n : u[i] = s[i]
    OBVIOUS
<1> HIDE DEF u
<1>2. IsFiniteSet(Parentheses(s)) /\ Cardinality(Parentheses(s)) \in Nat
    BY ParenthesesAreFinite
<1>3. \A i : i \in 1..(n + 1) <=> i \in 1..n \/ i = n + 1
    BY <1>1
<1>4. n + 1 \notin Parentheses(s)
    BY <1>1 DEF Parentheses
<1>5. CASE f.operator = "("
  <2>1. Parentheses(u) = Parentheses(s) \cup {n + 1}
    BY <1>1, <1>3, <1>5 DEF Parentheses
  <2>2. Cardinality(Parentheses(u)) = Cardinality(Parentheses(s)) + 1
    BY <1>2, <1>4, <2>1, FS_AddElement
  <2>q. QED BY <1>1, <1>5, <2>2 DEF u
<1>6. CASE f.operator # "("
  <2>1. Parentheses(u) = Parentheses(s)
    BY <1>1, <1>3, <1>6 DEF Parentheses
  <2>q. QED BY <1>1, <1>2, <1>6, <2>1 DEF u
<1>q. QED BY <1>5, <1>6

LEMMA Popped ==
    ASSUME NEW s \in Seq(Pendings), s # <<>>
    PROVE  LET u == SubSeq(s, 1, Len(s) - 1)
           IN  /\ u \in Seq(Pendings) /\ Len(u) = Len(s) - 1 /\ Len(s) \in Nat /\ Len(s) >= 1
               /\ s[Len(s)] \in Pendings
               /\ \A i \in 1..Len(u) : u[i] = s[i] /\ i \in 1..Len(s)
               /\ \A i \in 1..Len(s) : i \in 1..Len(u) \/ i = Len(s)
               /\ Cardinality(Parentheses(u))
                      = Cardinality(Parentheses(s)) - IF s[Len(s)].operator = "(" THEN 1 ELSE 0
<1> DEFINE u == SubSeq(s, 1, Len(s) - 1)
           n == Len(s)
<1>1. n \in Nat /\ n >= 1 /\ s[n] \in Pendings
    OBVIOUS
<1>2. u \in Seq(Pendings) /\ Len(u) = n - 1 /\ \A i \in 1..(n - 1) : u[i] = s[i]
  <2>1. 1 \in 1..(n + 1) /\ n - 1 \in (1 - 1)..n
    BY <1>1
  <2> HIDE DEF n
  <2>2. s \in Seq(Pendings) /\ n = Len(s)
    BY DEF n
  <2>3. SubSeq(s, 1, n - 1) \in Seq(Pendings) /\ Len(SubSeq(s, 1, n - 1)) = n - 1
        /\ \A i \in 1..(n - 1) : SubSeq(s, 1, n - 1)[i] = s[i]
    BY <1>1, <2>1, <2>2
  <2>q. QED BY <2>2, <2>3 DEF u
<1> HIDE DEF u
<1>3. \A i : i \in 1..n <=> i \in 1..(n - 1) \/ i = n
    BY <1>1
<1>4. IsFiniteSet(Parentheses(s)) /\ Cardinality(Parentheses(s)) \in Nat
    BY ParenthesesAreFinite
<1>5. Parentheses(u) = Parentheses(s) \ {n}
  <2>1. n \notin 1..(n - 1)
    BY <1>1
  <2>q. QED BY <1>2, <1>3, <2>1 DEF Parentheses
<1>6. n \in Parentheses(s) <=> s[n].operator = "("
    BY <1>1, <1>3 DEF Parentheses
<1>7. Cardinality(Parentheses(u)) = Cardinality(Parentheses(s)) - IF s[n].operator = "(" THEN 1 ELSE 0
  <2>1. Cardinality(Parentheses(s) \ {n})
            = IF n \in Parentheses(s) THEN Cardinality(Parentheses(s)) - 1 ELSE Cardinality(Parentheses(s))
    BY <1>4, FS_RemoveElement
  <2> HIDE DEF n
  <2>2. CASE n \in Parentheses(s)
    BY <1>4, <1>5, <1>6, <2>1, <2>2
  <2>3. CASE n \notin Parentheses(s)
    BY <1>4, <1>5, <1>6, <2>1, <2>3
  <2>q. QED BY <2>2, <2>3
<1>q. QED BY <1>1, <1>2, <1>3, <1>7 DEF u

LEMMA NodesHold ==
    /\ \A node \in Seq(Labels) :
          /\ Negate(node) \in Seq(Labels)
          /\ \A a \in Operands : a \in Range(Negate(node)) <=> a \in Range(node)
    /\ \A sign \in Signs, l, r \in Seq(Labels) :
          /\ BinaryOp(sign, l, r) \in Seq(Labels)
          /\ \A a \in Operands : a \in Range(BinaryOp(sign, l, r)) <=> a \in Range(l) \/ a \in Range(r)
    /\ \A item \in Labels : <<item>> \in Seq(Labels) /\ Range(<<item>>) = {item}
    /\ <<>> \in Seq(Labels) /\ Range(<<>>) = {}
<1>1. \A a \in Operands : a \notin Signs \cup {"negate"}
    BY ItemsDiffer DEF Signs
<1>2. \A item \in Labels : <<item>> \in Seq(Labels) /\ Range(<<item>>) = {item}
    BY DEF Range
<1>3. <<>> \in Seq(Labels) /\ Range(<<>>) = {}
    BY DEF Range
<1>4. \A l, r \in Seq(Labels) : l \o r \in Seq(Labels) /\ Range(l \o r) = Range(l) \cup Range(r)
    BY RangeConcatenation
<1>5. "negate" \in Labels /\ Signs \subseteq Labels
    BY DEF Labels
<1>6. ASSUME NEW node \in Seq(Labels)
      PROVE  /\ Negate(node) \in Seq(Labels)
             /\ \A a \in Operands : a \in Range(Negate(node)) <=> a \in Range(node)
  <2>1. <<"negate">> \in Seq(Labels) /\ Range(<<"negate">>) = {"negate"}
    BY <1>2, <1>5
  <2>2. Negate(node) = <<"negate">> \o node
    BY DEF Negate
  <2>3. Negate(node) \in Seq(Labels) /\ Range(Negate(node)) = {"negate"} \cup Range(node)
    BY <1>4, <2>1, <2>2, Zenon
  <2>q. QED BY <1>1, <2>3
<1>7. ASSUME NEW sign \in Signs, NEW l \in Seq(Labels), NEW r \in Seq(Labels)
      PROVE  /\ BinaryOp(sign, l, r) \in Seq(Labels)
             /\ \A a \in Operands : a \in Range(BinaryOp(sign, l, r)) <=> a \in Range(l) \/ a \in Range(r)
  <2>1. <<sign>> \o l \in Seq(Labels) /\ Range(<<sign>> \o l) = {sign} \cup Range(l)
    <3>1. <<sign>> \in Seq(Labels) /\ Range(<<sign>>) = {sign}
        BY <1>2, <1>5
    <3>q. QED BY <1>4, <3>1, Zenon
  <2>2. BinaryOp(sign, l, r) = (<<sign>> \o l) \o r
    BY DEF BinaryOp
  <2>3. /\ BinaryOp(sign, l, r) \in Seq(Labels)
        /\ Range(BinaryOp(sign, l, r)) = Range(<<sign>> \o l) \cup Range(r)
    BY <1>4, <2>1, <2>2, Zenon
  <2>q. QED BY <1>1, <2>1, <2>3
<1>q. QED BY <1>2, <1>3, <1>6, <1>7

LEMMA TokenizeKeeps == ASSUME ParseInv, Tokenize PROVE ParseInv'
<1>1. /\ ParsingTypeOK /\ PendingInv /\ parsing.taken = 0 /\ parsing.stack = <<>>
      /\ parsing.expression \in Seq(Items) /\ Len(parsing.expression) \in Nat
    BY DEF ParseInv, Tokenize, ParsingTypeOK
<1>2. /\ parsing'.expression = parsing.expression /\ parsing'.grammar = parsing.grammar
      /\ parsing'.taken = 0 /\ parsing'.stack = <<>> /\ parsing'.node = parsing.node
      /\ parsing'.pc = IF Tokenized(parsing.grammar, parsing.expression) THEN "factor" ELSE "error"
    BY <1>1 DEF Tokenize, ParsingTypeOK
<1>3. ParsingTypeOK' /\ PendingInv'
    BY <1>1, <1>2 DEF Tokenize, ParsingTypeOK, PendingInv
<1>4. CASE parsing'.pc = "factor"
  <2>1. TakenInv'
    BY <1>1, <1>2, <1>4 DEF TakenInv
  <2>2. NestingInv'
    <3>1. Parentheses(<<>>) = {}
        BY DEF Parentheses
    <3>2. Nesting(parsing.expression, 0) = 0
      <4>1. {i \in 1..0 : parsing.expression[i] \in {"(", "NULLIF"}} = {}
            /\ {i \in 1..0 : parsing.expression[i] \in {")", "ZERO"}} = {}
        OBVIOUS
      <4>q. QED BY <4>1, FS_EmptySet DEF Nesting
    <3>3. \A n \in 1..0 : FALSE
        OBVIOUS
    <3>4. Nesting(parsing.expression, 0) = Cardinality(Parentheses(<<>>))
        BY <3>1, <3>2, FS_EmptySet
    <3>q. QED BY <1>2, <3>3, <3>4, Zenon DEF NestingInv
  <2>3. AtomsInv' /\ CallsInv'
    BY <1>2, <1>4 DEF AtomsInv, InNodes, CallsInv, CallsNone
  <2>q. QED BY <1>3, <1>4, <2>1, <2>2, <2>3 DEF ParseInv
<1>q. QED BY <1>2, <1>3, <1>4 DEF ParseInv

\* What every other step keeps: the expression is what it was.
LEMMA Taking ==
    ASSUME ParseInv, parsing.pc \in {"factor", "term", "expr"}, Upcoming # {},
           parsing'.taken = Min(Upcoming), parsing'.expression = parsing.expression,
           parsing'.grammar = parsing.grammar, parsing'.pc \in {"factor", "term", "expr"},
           parsing.pc = "factor" \/ Token # "(",
           parsing'.pc = "factor" => Token \notin Columns,
           Cardinality(Parentheses(parsing'.stack)) = Cardinality(Parentheses(parsing.stack))
               + IF Token = "(" THEN 1 ELSE IF Token = ")" THEN -1 ELSE 0,
           Cardinality(Parentheses(parsing'.stack)) \in Nat
    PROVE  /\ TakenInv' /\ NestingInv' /\ CallsInv'
           /\ parsing'.taken \in Nat /\ Token \in Items
           /\ \A a \in Operands :
                  (\E i \in 1..parsing'.taken : parsing'.expression[i] = a)
                      <=> (\E i \in 1..parsing.taken : parsing.expression[i] = a) \/ Token = a
<1>1. ParsingTypeOK /\ TakenInv /\ NestingInv /\ CallsInv
    BY DEF ParseInv
<1>2. /\ Min(Upcoming) \in Nat /\ Min(Upcoming) \in (parsing.taken + 1)..Len(parsing.expression)
      /\ Token = parsing.expression[Min(Upcoming)] /\ Token \notin Blanks /\ Token \in Items
    BY <1>1, TokenIsNext
<1>3. /\ Nesting(parsing.expression, Min(Upcoming))
             = Nesting(parsing.expression, parsing.taken)
                   + IF Token = "(" THEN 1 ELSE IF Token = ")" THEN -1 ELSE 0
      /\ Nesting(parsing.expression, Min(Upcoming)) >= 0 =>
             \A n \in 1..Min(Upcoming) : Nesting(parsing.expression, n) >= 0
      /\ \A a \in Operands :
             (\E i \in 1..Min(Upcoming) : parsing.expression[i] = a)
                 <=> (\E i \in 1..parsing.taken : parsing.expression[i] = a) \/ Token = a
      /\ CallsNone(parsing.expression, Min(Upcoming))
    BY <1>1, AfterToken
<1> DEFINE p == Min(Upcoming)
<1>4. parsing'.taken = p
    OBVIOUS
<1>5. parsing.taken \in Nat /\ Len(parsing.expression) \in Nat
    BY <1>1 DEF ParsingTypeOK
<1> HIDE DEF p
<1>6. p \in 0..Len(parsing.expression) /\ p # 0 /\ parsing.expression[p] = Token
    BY <1>2, <1>5 DEF p
<1>7. TakenInv'
    BY <1>1, <1>2, <1>4, <1>6 DEF TakenInv
<1>8. NestingInv'
    BY <1>1, <1>3, <1>4 DEF NestingInv, p
<1>9. CallsInv'
    BY <1>3, <1>4, <1>6 DEF CallsInv, p
<1>q. QED BY <1>2, <1>3, <1>7, <1>8, <1>9

LEMMA OpenKeeps == ASSUME ParseInv, Open PROVE ParseInv'
<1> DEFINE f == [operator |-> IF Token = "-" THEN "negate" ELSE "(", left |-> <<>>]
<1>1. /\ ParsingTypeOK /\ PendingInv /\ AtomsInv /\ parsing.pc = "factor" /\ Upcoming # {}
      /\ Token \in {"-", "("} /\ parsing.stack \in Seq(Pendings)
    BY DEF ParseInv, Open, Peek, ParsingTypeOK
<1>2. f \in Pendings /\ f.left = <<>> /\ (f.operator = "(" <=> Token = "(")
    BY <1>1, NodesHold DEF Pendings
<1>3. parsing' = [parsing EXCEPT !.taken = Min(Upcoming), !.stack = Append(parsing.stack, f)]
    BY DEF Open, Awaits
<1> HIDE DEF f
<1>4. /\ parsing'.taken = Min(Upcoming) /\ parsing'.stack = Append(parsing.stack, f)
      /\ parsing'.pc = "factor" /\ parsing'.expression = parsing.expression
      /\ parsing'.grammar = parsing.grammar /\ parsing'.node = parsing.node
    BY <1>1, <1>3 DEF ParsingTypeOK
<1>5. /\ parsing'.stack \in Seq(Pendings) /\ Len(parsing'.stack) = Len(parsing.stack) + 1
      /\ \A i \in 1..Len(parsing.stack) : parsing'.stack[i] = parsing.stack[i]
      /\ parsing'.stack[Len(parsing.stack) + 1] = f
      /\ Cardinality(Parentheses(parsing'.stack))
             = Cardinality(Parentheses(parsing.stack)) + IF Token = "(" THEN 1 ELSE 0
    BY <1>1, <1>2, <1>4, Pushed
<1>6. Cardinality(Parentheses(parsing'.stack)) \in Nat
    BY <1>5, ParenthesesAreFinite
<1>7. Token \notin Columns /\ Token \notin Operands
    BY <1>1, ItemsDiffer DEF Operands
<1>8. /\ TakenInv' /\ NestingInv' /\ CallsInv' /\ parsing'.taken \in Nat
      /\ \A a \in Operands :
             (\E i \in 1..parsing'.taken : parsing'.expression[i] = a)
                 <=> (\E i \in 1..parsing.taken : parsing.expression[i] = a) \/ Token = a
    BY <1>1, <1>4, <1>5, <1>6, <1>7, Taking
<1>9. Len(parsing.stack) \in Nat /\ \A i : i \in 1..Len(parsing'.stack)
          <=> i \in 1..Len(parsing.stack) \/ i = Len(parsing.stack) + 1
    BY <1>1, <1>5
<1>10. ParsingTypeOK'
    BY <1>1, <1>3, <1>5, <1>8, <1>4 DEF ParsingTypeOK
<1>11. PendingInv'
    BY <1>1, <1>2, <1>5, <1>9 DEF PendingInv
<1>12. AtomsInv'
  <2>1. \A a \in Operands : InNodes(a)' <=> InNodes(a)
    BY <1>1, <1>2, <1>4, <1>5, <1>9, NodesHold DEF InNodes
  <2>q. QED BY <1>1, <1>7, <1>8, <2>1 DEF AtomsInv
<1>q. QED BY <1>4, <1>8, <1>10, <1>11, <1>12 DEF ParseInv

LEMMA AtomKeeps == ASSUME ParseInv, Atom PROVE ParseInv'
<1>1. /\ ParsingTypeOK /\ PendingInv /\ AtomsInv /\ parsing.pc = "factor" /\ Upcoming # {}
      /\ Token \in Operands /\ parsing.stack \in Seq(Pendings)
    BY DEF ParseInv, Atom, Peek, ParsingTypeOK
<1>2. parsing' = [parsing EXCEPT !.pc = "term", !.taken = Min(Upcoming), !.node = <<Token>>]
    BY DEF Atom
<1>3. /\ parsing'.taken = Min(Upcoming) /\ parsing'.stack = parsing.stack
      /\ parsing'.pc = "term" /\ parsing'.expression = parsing.expression
      /\ parsing'.grammar = parsing.grammar /\ parsing'.node = <<Token>>
    BY <1>1, <1>2 DEF ParsingTypeOK
<1>4. Token \notin {"(", ")"} /\ Token \in Labels
    BY <1>1, ItemsDiffer DEF Labels
<1>5. Cardinality(Parentheses(parsing.stack)) \in Nat
    BY <1>1, ParenthesesAreFinite
<1>6. /\ TakenInv' /\ NestingInv' /\ CallsInv' /\ parsing'.taken \in Nat
      /\ \A a \in Operands :
             (\E i \in 1..parsing'.taken : parsing'.expression[i] = a)
                 <=> (\E i \in 1..parsing.taken : parsing.expression[i] = a) \/ Token = a
    BY <1>1, <1>3, <1>4, <1>5, Taking
<1>7. <<Token>> \in Seq(Labels) /\ Range(<<Token>>) = {Token}
    BY <1>4, NodesHold
<1>8. ParsingTypeOK'
    BY <1>1, <1>2, <1>3, <1>6, <1>7 DEF ParsingTypeOK
<1>9. PendingInv'
    BY <1>1, <1>3 DEF PendingInv
<1>10. AtomsInv'
  <2>1. \A a \in Operands : InNodes(a)' <=> InNodes(a) \/ a = Token
    BY <1>1, <1>3, <1>7 DEF InNodes
  <2>q. QED BY <1>1, <1>6, <2>1 DEF AtomsInv
<1>q. QED BY <1>3, <1>6, <1>8, <1>9, <1>10 DEF ParseInv

LEMMA OperateKeeps == ASSUME ParseInv, Operate PROVE ParseInv'
<1> DEFINE f == [operator |-> Token, left |-> parsing.node]
<1>1. /\ ParsingTypeOK /\ PendingInv /\ AtomsInv /\ parsing.pc \in {"term", "expr"} /\ Upcoming # {}
      /\ Token \in Loop(parsing.pc) /\ parsing.stack \in Seq(Pendings) /\ parsing.node \in Seq(Labels)
    BY DEF ParseInv, Operate, Peek, ParsingTypeOK
<1>2. Token \in Signs /\ Token \notin {"(", ")", "negate"} /\ Token \notin Operands
    BY <1>1, ItemsDiffer DEF Loop, Signs
<1>3. f \in Pendings /\ f.left = parsing.node /\ f.operator = Token
    BY <1>1, <1>2 DEF Pendings
<1>4. parsing' = [parsing EXCEPT
          !.pc = "factor", !.taken = Min(Upcoming), !.stack = Append(parsing.stack, f)]
    BY DEF Operate, Awaits
<1> HIDE DEF f
<1>5. /\ parsing'.taken = Min(Upcoming) /\ parsing'.stack = Append(parsing.stack, f)
      /\ parsing'.pc = "factor" /\ parsing'.expression = parsing.expression
      /\ parsing'.grammar = parsing.grammar /\ parsing'.node = parsing.node
    BY <1>1, <1>4 DEF ParsingTypeOK
<1>6. /\ parsing'.stack \in Seq(Pendings) /\ Len(parsing'.stack) = Len(parsing.stack) + 1
      /\ \A i \in 1..Len(parsing.stack) : parsing'.stack[i] = parsing.stack[i]
      /\ parsing'.stack[Len(parsing.stack) + 1] = f
      /\ Cardinality(Parentheses(parsing'.stack))
             = Cardinality(Parentheses(parsing.stack)) + IF f.operator = "(" THEN 1 ELSE 0
    BY <1>1, <1>3, <1>5, Pushed
<1>7. Cardinality(Parentheses(parsing'.stack)) \in Nat
    BY <1>6, ParenthesesAreFinite
<1>8. Token \notin Columns
    BY <1>2 DEF Operands
<1>9. /\ TakenInv' /\ NestingInv' /\ CallsInv' /\ parsing'.taken \in Nat
      /\ \A a \in Operands :
             (\E i \in 1..parsing'.taken : parsing'.expression[i] = a)
                 <=> (\E i \in 1..parsing.taken : parsing.expression[i] = a) \/ Token = a
    BY <1>1, <1>2, <1>3, <1>5, <1>6, <1>7, <1>8, Taking
<1>10. Len(parsing.stack) \in Nat /\ \A i : i \in 1..Len(parsing'.stack)
          <=> i \in 1..Len(parsing.stack) \/ i = Len(parsing.stack) + 1
    BY <1>1, <1>6
<1>11. ParsingTypeOK'
    BY <1>1, <1>4, <1>5, <1>6, <1>9 DEF ParsingTypeOK
<1>12. PendingInv'
    BY <1>1, <1>2, <1>3, <1>6, <1>10 DEF PendingInv
<1>13. AtomsInv'
  <2>1. \A a \in Operands : InNodes(a)' <=> InNodes(a)
    BY <1>1, <1>3, <1>5, <1>6, <1>10 DEF InNodes
  <2>q. QED BY <1>1, <1>2, <1>9, <2>1 DEF AtomsInv
<1>q. QED BY <1>5, <1>9, <1>11, <1>12, <1>13 DEF ParseInv

\* The stack without its innermost call.
LEMMA AppliedIsPopped ==
    ASSUME parsing.stack \in Seq(Pendings), parsing.stack # <<>>
    PROVE  /\ Applied \in Seq(Pendings) /\ Len(Applied) = Len(parsing.stack) - 1
           /\ Len(parsing.stack) \in Nat /\ Len(parsing.stack) >= 1
           /\ \A i \in 1..Len(Applied) : Applied[i] = parsing.stack[i] /\ i \in 1..Len(parsing.stack)
           /\ \A i \in 1..Len(parsing.stack) : i \in 1..Len(Applied) \/ i = Len(parsing.stack)
           /\ Cardinality(Parentheses(Applied))
                  = Cardinality(Parentheses(parsing.stack)) - IF Pending.operator = "(" THEN 1 ELSE 0
BY Popped, Zenon DEF Applied, Pending

\* What was pending when an operand is returned, but for parentheses.
LEMMA Applying ==
    ASSUME ParseInv, parsing.pc \in {"term", "expr"}, Awaiting \in Signs \cup {"negate"},
           NEW node \in Seq(Labels), parsing' = [parsing EXCEPT !.node = node, !.stack = Applied],
           \A a \in Operands :
               a \in Range(node) <=> a \in Range(parsing.node) \/ a \in Range(Pending.left)
    PROVE  ParseInv'
<1>1. /\ ParsingTypeOK /\ PendingInv /\ AtomsInv /\ TakenInv /\ NestingInv /\ CallsInv
      /\ parsing.stack \in Seq(Pendings)
    BY DEF ParseInv, ParsingTypeOK
<1>2. /\ parsing'.taken = parsing.taken /\ parsing'.stack = Applied
      /\ parsing'.pc = parsing.pc /\ parsing'.expression = parsing.expression
      /\ parsing'.grammar = parsing.grammar /\ parsing'.node = node
    BY <1>1 DEF ParsingTypeOK
<1>3. parsing.stack # <<>> /\ Awaiting = Pending.operator /\ Pending.operator # "("
    BY DEF Awaiting, Signs
<1>4. /\ parsing'.stack \in Seq(Pendings) /\ Len(parsing'.stack) = Len(parsing.stack) - 1
      /\ Len(parsing.stack) \in Nat /\ Len(parsing.stack) >= 1
      /\ \A i \in 1..Len(parsing'.stack) :
            parsing'.stack[i] = parsing.stack[i] /\ i \in 1..Len(parsing.stack)
      /\ \A i \in 1..Len(parsing.stack) : i \in 1..Len(parsing'.stack) \/ i = Len(parsing.stack)
      /\ Cardinality(Parentheses(parsing'.stack))
             = Cardinality(Parentheses(parsing.stack)) - IF Pending.operator = "(" THEN 1 ELSE 0
    BY <1>1, <1>2, <1>3, AppliedIsPopped
<1>5. Cardinality(Parentheses(parsing'.stack)) = Cardinality(Parentheses(parsing.stack))
    BY <1>1, <1>3, <1>4, ParenthesesAreFinite
<1>6. ParsingTypeOK'
    BY <1>1, <1>2, <1>4 DEF ParsingTypeOK
<1>7. PendingInv'
    BY <1>1, <1>4 DEF PendingInv
<1>8. TakenInv'
    BY <1>1, <1>2 DEF TakenInv
<1>9. NestingInv' /\ CallsInv'
    BY <1>1, <1>2, <1>5 DEF NestingInv, CallsInv
<1>10. AtomsInv'
  <2>1. \A a \in Operands : InNodes(a)' <=> InNodes(a)
    <3> SUFFICES ASSUME NEW a \in Operands PROVE InNodes(a)' <=> InNodes(a)
        OBVIOUS
    <3>1. Len(parsing.stack) \in 1..Len(parsing.stack)
        BY <1>4
    <3>2. InNodes(a)' => InNodes(a)
        BY <1>2, <1>4, <3>1 DEF InNodes, Pending
    <3>3. InNodes(a) => InNodes(a)'
        BY <1>2, <1>4 DEF InNodes, Pending
    <3>q. QED BY <3>2, <3>3
  <2>q. QED BY <1>1, <1>2, <2>1 DEF AtomsInv
<1>q. QED BY <1>2, <1>6, <1>7, <1>8, <1>9, <1>10 DEF ParseInv

LEMMA NegatedKeeps == ASSUME ParseInv, Negated PROVE ParseInv'
<1>1. /\ parsing.pc = "term" /\ Awaiting = "negate" /\ parsing.node \in Seq(Labels)
      /\ parsing.stack \in Seq(Pendings) /\ PendingInv
    BY DEF ParseInv, Negated, ParsingTypeOK
<1>2. parsing.stack # <<>> /\ Pending.operator = "negate"
    BY <1>1 DEF Awaiting
<1>3. Len(parsing.stack) \in 1..Len(parsing.stack)
    BY <1>1, <1>2
<1>4. Pending.left = <<>>
    BY <1>1, <1>2, <1>3 DEF PendingInv, Pending
<1>5. /\ Negate(parsing.node) \in Seq(Labels)
      /\ \A a \in Operands : a \in Range(Negate(parsing.node))
             <=> a \in Range(parsing.node) \/ a \in Range(Pending.left)
    BY <1>1, <1>4, NodesHold
<1>6. parsing' = [parsing EXCEPT !.node = Negate(parsing.node), !.stack = Applied]
    BY DEF Negated
<1>q. QED BY <1>1, <1>5, <1>6, Applying

LEMMA CombineKeeps == ASSUME ParseInv, Combine PROVE ParseInv'
<1>1. /\ parsing.pc \in {"term", "expr"} /\ Awaiting \in Signs /\ parsing.node \in Seq(Labels)
      /\ parsing.stack \in Seq(Pendings)
    BY DEF ParseInv, Combine, ParsingTypeOK, Loop, Signs
<1>2. parsing.stack # <<>>
    BY <1>1 DEF Awaiting, Signs
<1>3. Pending.left \in Seq(Labels)
  <2>1. Len(parsing.stack) \in Nat /\ Len(parsing.stack) \in 1..Len(parsing.stack)
    BY <1>1, <1>2
  <2>2. parsing.stack[Len(parsing.stack)] \in Pendings
    BY <1>1, <2>1, ElementOfSeq
  <2>q. QED BY <2>2 DEF Pending, Pendings
<1> DEFINE node == BinaryOp(Awaiting, Pending.left, parsing.node)
<1>4. /\ node \in Seq(Labels)
      /\ \A a \in Operands : a \in Range(node) <=> a \in Range(parsing.node) \/ a \in Range(Pending.left)
    BY <1>1, <1>3, NodesHold
<1>5. parsing' = [parsing EXCEPT !.node = node, !.stack = Applied]
    BY DEF Combine
<1> HIDE DEF node
<1>q. QED BY <1>1, <1>4, <1>5, Applying

LEMMA CloseKeeps == ASSUME ParseInv, Close PROVE ParseInv'
<1>1. /\ ParsingTypeOK /\ PendingInv /\ AtomsInv /\ NestingInv /\ parsing.pc = "expr" /\ Awaiting = "("
      /\ parsing.stack \in Seq(Pendings) /\ parsing.expression \in Seq(Items)
    BY DEF ParseInv, Close, ParsingTypeOK
<1>2. CASE ~Peek({")"})
  <2>1. parsing' = [parsing EXCEPT !.pc = "error"]
    BY <1>2 DEF Close
  <2>2. ParsingTypeOK' /\ parsing'.pc = "error" /\ parsing'.stack = parsing.stack
    BY <1>1, <2>1 DEF ParsingTypeOK
  <2>q. QED BY <1>1, <2>2 DEF ParseInv, PendingInv
<1>3. CASE Peek({")"})
  <2>1. /\ Upcoming # {} /\ Token = ")"
        /\ parsing' = [parsing EXCEPT !.pc = "term", !.taken = Min(Upcoming), !.stack = Applied]
    BY <1>3 DEF Close, Peek
  <2>2. /\ parsing'.taken = Min(Upcoming) /\ parsing'.stack = Applied
        /\ parsing'.pc = "term" /\ parsing'.expression = parsing.expression
        /\ parsing'.grammar = parsing.grammar /\ parsing'.node = parsing.node
    BY <1>1, <2>1 DEF ParsingTypeOK
  <2>3. parsing.stack # <<>> /\ Pending.operator = "("
    BY <1>1 DEF Awaiting
  <2>4. /\ parsing'.stack \in Seq(Pendings) /\ Len(parsing'.stack) = Len(parsing.stack) - 1
        /\ Len(parsing.stack) \in Nat /\ Len(parsing.stack) >= 1
        /\ \A i \in 1..Len(parsing'.stack) :
              parsing'.stack[i] = parsing.stack[i] /\ i \in 1..Len(parsing.stack)
        /\ \A i \in 1..Len(parsing.stack) : i \in 1..Len(parsing'.stack) \/ i = Len(parsing.stack)
        /\ Cardinality(Parentheses(parsing'.stack))
               = Cardinality(Parentheses(parsing.stack)) - IF Pending.operator = "(" THEN 1 ELSE 0
    BY <1>1, <2>2, <2>3, AppliedIsPopped
  <2>5. /\ Cardinality(Parentheses(parsing'.stack)) = Cardinality(Parentheses(parsing.stack)) - 1
        /\ Cardinality(Parentheses(parsing'.stack)) \in Nat
        /\ Cardinality(Parentheses(parsing.stack)) \in Nat
    BY <1>1, <2>3, <2>4, ParenthesesAreFinite
  <2>6. Token \notin Columns /\ Token \notin Operands
    BY <2>1, ItemsDiffer DEF Operands
  <2>7. /\ TakenInv' /\ NestingInv' /\ CallsInv' /\ parsing'.taken \in Nat
        /\ \A a \in Operands :
               (\E i \in 1..parsing'.taken : parsing'.expression[i] = a)
                   <=> (\E i \in 1..parsing.taken : parsing.expression[i] = a) \/ Token = a
    BY <1>1, <2>1, <2>2, <2>5, <2>6, Taking
  <2>8. ParsingTypeOK'
    BY <1>1, <2>1, <2>2, <2>4, <2>7 DEF ParsingTypeOK
  <2>9. PendingInv'
    BY <1>1, <2>4 DEF PendingInv
  <2>10. Pending.left = <<>>
    <3>1. Len(parsing.stack) \in 1..Len(parsing.stack)
        BY <2>4
    <3>q. QED BY <1>1, <2>3, <3>1 DEF PendingInv, Pending
  <2>11. \A a \in Operands : InNodes(a)' <=> InNodes(a)
    <3> SUFFICES ASSUME NEW a \in Operands PROVE InNodes(a)' <=> InNodes(a)
        OBVIOUS
    <3>1. a \notin Range(Pending.left)
        BY <2>10, NodesHold
    <3>2. InNodes(a)' => InNodes(a)
        BY <1>1, <2>2, <2>4 DEF InNodes
    <3>3. InNodes(a) => InNodes(a)'
        BY <1>1, <2>2, <2>4, <3>1 DEF InNodes, Pending
    <3>q. QED BY <3>2, <3>3
  <2>12. AtomsInv'
    BY <1>1, <2>6, <2>7, <2>11 DEF AtomsInv
  <2>q. QED BY <2>2, <2>7, <2>8, <2>9, <2>12 DEF ParseInv
<1>q. QED BY <1>2, <1>3

\* The steps that only decide where to go on.
LEMMA TurnsKeep ==
    ASSUME ParseInv, NoFactor \/ TermReturns \/ ParseEnds PROVE ParseInv'
<1>1. PICK pc \in {"error", "expr", "parsed"} :
          /\ parsing' = [parsing EXCEPT !.pc = pc]
          /\ pc = "expr" => parsing.pc = "term"
          /\ pc = "parsed" => parsing.pc = "expr" /\ Awaiting = "nothing" /\ Upcoming = {}
    BY DEF NoFactor, TermReturns, ParseEnds
<1>2. ParsingTypeOK /\ PendingInv
    BY DEF ParseInv
<1>3. /\ parsing'.taken = parsing.taken /\ parsing'.stack = parsing.stack
      /\ parsing'.pc = pc /\ parsing'.expression = parsing.expression
      /\ parsing'.grammar = parsing.grammar /\ parsing'.node = parsing.node
    BY <1>1, <1>2 DEF ParsingTypeOK
<1>4. ParsingTypeOK' /\ PendingInv'
    BY <1>1, <1>2 DEF ParsingTypeOK, PendingInv
<1>5. CASE pc = "error"
    BY <1>3, <1>4, <1>5 DEF ParseInv
<1>6. CASE pc # "error"
  <2>1. parsing.pc \in {"term", "expr"} /\ pc \in {"expr", "parsed"}
    BY <1>1, <1>6
  <2>2. TakenInv /\ NestingInv /\ AtomsInv /\ CallsInv
    BY <2>1 DEF ParseInv
  <2>3. pc = "parsed" => parsing.stack = <<>>
    <3> SUFFICES ASSUME pc = "parsed", parsing.stack # <<>> PROVE FALSE
        OBVIOUS
    <3>1. Pending.operator = "nothing" /\ parsing.stack \in Seq(Pendings)
        BY <1>1, <1>2 DEF Awaiting, ParsingTypeOK
    <3>2. Pending \in Pendings
        BY <3>1 DEF Pending
    <3>q. QED BY <3>1, <3>2 DEF Pendings, Signs
  <2>4. Upcoming' = Upcoming
    BY <1>3 DEF Upcoming
  <2>5. TakenInv'
    BY <1>1, <1>3, <2>1, <2>2, <2>3, <2>4 DEF TakenInv
  <2>6. NestingInv' /\ CallsInv'
    BY <1>3, <2>1, <2>2 DEF NestingInv, CallsInv
  <2>7. AtomsInv'
    BY <1>3, <2>1, <2>2 DEF AtomsInv, InNodes
  <2>q. QED BY <1>3, <1>4, <2>1, <2>5, <2>6, <2>7 DEF ParseInv
<1>q. QED BY <1>5, <1>6

LEMMA ParseInvariant == ParseSpec => []ParseInv
<1>1. ASSUME ParseInit PROVE ParseInv
  <2>1. PICK grammar \in Grammars, expression \in Seq(Items) : parsing = ParseCall(grammar, expression)
    BY <1>1 DEF ParseInit, Items
  <2>2. /\ ParsingTypeOK /\ parsing.pc = "tokenize" /\ parsing.taken = 0 /\ parsing.stack = <<>>
    BY <2>1, NodesHold DEF ParseCall, ParsingTypeOK
  <2>q. QED BY <2>2 DEF ParseInv, PendingInv
<1>2. ASSUME ParseInv, [ParseStep]_parsing PROVE ParseInv'
  <2>1. CASE UNCHANGED parsing
    BY <1>2, <2>1 DEF ParseInv, ParsingTypeOK, PendingInv, TakenInv, Upcoming, NestingInv, AtomsInv, InNodes, CallsInv
  <2>2. CASE ParseStep
    BY <1>2, <2>2, TokenizeKeeps, OpenKeeps, AtomKeeps, NegatedKeeps, CombineKeeps, OperateKeeps,
       CloseKeeps, TurnsKeep DEF ParseStep
  <2>q. QED BY <1>2, <2>1, <2>2
<1>q. QED BY <1>1, <1>2, PTL DEF ParseSpec

\* For any names and numbers and expressions of any length: what is parsed was
\* stored under its names, and is refused when stored only for "--", for lack of
\* names, or for white space that is neither a space nor a tab.
THEOREM ParsersAndValidatorsAgree == ParseSpec => []StoredAsParsed
<1>1. ASSUME ParseInv, parsing.pc = "parsed"
      PROVE  LET grammar    == parsing.grammar
                 expression == parsing.expression
             IN  /\ AtomsIn(grammar, parsing.node) = AtomsIn(grammar, expression)
                 /\ Validated(grammar, expression)
                       <=> /\ AtomsIn(grammar, expression) # {}
                           /\ ~HasComment(expression)
                           /\ "newline" \notin Range(expression)
  <2> DEFINE e == parsing.expression
             t == parsing.taken
             grammar == parsing.grammar
  <2>1. /\ ParsingTypeOK /\ TakenInv /\ NestingInv /\ AtomsInv /\ CallsInv
    BY <1>1 DEF ParseInv
  <2>2. e \in Seq(Items) /\ t \in Nat /\ Len(e) \in Nat /\ t \in 0..Len(e) /\ parsing.stack = <<>>
    BY <1>1, <2>1 DEF ParsingTypeOK, TakenInv
  <2>3. Range(e) \subseteq Atoms(grammar) \cup Numbers \cup Signs \cup {"(", ")"} \cup Blanks
    BY <2>1 DEF TakenInv, Tokenized
  <2>4. \A i \in (t + 1)..Len(e) : e[i] \in Blanks
    BY <1>1, <2>1 DEF TakenInv, Upcoming
  <2> HIDE DEF e, t
  <2>5. Nesting(e, t) = 0 /\ \A n \in 1..t : Nesting(e, n) >= 0
    <3>1. Parentheses(<<>>) = {}
        BY DEF Parentheses
    <3>2. Cardinality(Parentheses(parsing.stack)) = 0
        BY <2>2, <3>1, FS_EmptySet
    <3>q. QED BY <2>1, <3>2 DEF NestingInv, e, t
  <2>6. \A n \in t..Len(e) : Nesting(e, n) = 0
    <3>1. CASE t = Len(e)
        BY <2>2, <2>5, <3>1
    <3>2. CASE t # Len(e)
      <4>1. t < Len(e) /\ \A i \in (t + 1)..(Len(e) - 1) : e[i] \in Blanks
        BY <2>2, <2>4, <3>2
      <4>2. /\ \A n \in t..(Len(e) - 1) : Nesting(e, n) = Nesting(e, t)
            /\ Nesting(e, Len(e)) = Nesting(e, t)
                   + IF e[Len(e)] = "(" THEN 1 ELSE IF e[Len(e)] = ")" THEN -1 ELSE 0
        <5>1. Len(e) \in Nat /\ t \in Nat /\ t < Len(e) /\ Len(e) <= Len(e) /\ e \in Seq(Items)
            BY <2>2, <4>1
        <5>q. QED BY <4>1, <5>1, NestingOf, Zenon
      <4>3. e[Len(e)] \in Blanks
        BY <2>2, <2>4, <4>1
      <4>q. QED BY <2>2, <2>5, <4>2, <4>3, ItemsDiffer
    <3>q. QED BY <3>1, <3>2
  <2>7. Balanced(e)
    <3>1. \A n \in 1..Len(e) : n \in 1..t \/ n \in t..Len(e)
        BY <2>2
    <3>2. Len(e) \in t..Len(e)
        BY <2>2
    <3>q. QED BY <2>5, <2>6, <3>1, <3>2 DEF Balanced
  <2>8. ~CallsFunction(e)
    <3> SUFFICES ASSUME NEW i \in 1..Len(e), NEW j \in 1..Len(e), i < j, e[i] \in Columns, e[j] = "(",
                        \A k \in (i + 1)..(j - 1) : e[k] \in Blanks
                 PROVE  FALSE
        BY DEF CallsFunction
    <3>1. j \in 1..t
        BY <2>2, <2>4, ItemsDiffer
    <3>2. i \in 1..t
        BY <2>2, <3>1
    <3>q. QED BY <2>1, <3>1, <3>2 DEF CallsInv, CallsNone, e, t
  <2>9. Atoms(grammar) \subseteq Operands /\ Blanks \cap Operands = {}
    BY ItemsDiffer DEF Atoms, Operands
  <2>10. \A a \in Operands : a \in Range(parsing.node) <=> a \in Range(e)
    <3> SUFFICES ASSUME NEW a \in Operands PROVE a \in Range(parsing.node) <=> a \in Range(e)
        OBVIOUS
    <3>1. a \in Range(e) <=> \E i \in 1..Len(e) : e[i] = a
        BY <2>2 DEF Range
    <3>2. (\E i \in 1..Len(e) : e[i] = a) <=> (\E i \in 1..t : e[i] = a)
        BY <2>2, <2>4, <2>9
    <3>3. InNodes(a) <=> a \in Range(parsing.node)
        BY <1>1, <2>2 DEF InNodes
    <3>4. (\E i \in 1..t : e[i] = a) <=> InNodes(a)
        BY <2>1 DEF AtomsInv, e, t
    <3>q. QED BY <3>1, <3>2, <3>3, <3>4
  <2>11. AtomsIn(grammar, parsing.node) = AtomsIn(grammar, e)
    BY <2>9, <2>10 DEF AtomsIn
  <2>a. "newline" \in Range(e) \/ Range(e) \subseteq Atoms(grammar) \cup Numbers \cup Signs \cup {"(", ")", "blank"}
    BY <2>3 DEF Blanks
  <2>b. "newline" \notin Atoms(grammar) \cup Numbers \cup Signs \cup {"(", ")", "blank"}
    <3>1. "newline" \notin Operands
        BY <2>9 DEF Blanks
    <3>q. QED BY <2>9, <3>1 DEF Operands, Signs
  <2>12. Validated(grammar, e) <=> /\ AtomsIn(grammar, e) # {}
                                   /\ ~HasComment(e)
                                   /\ "newline" \notin Range(e)
    BY <2>7, <2>8, <2>a, <2>b DEF Validated
  <2>q. QED BY <2>11, <2>12 DEF e
<1>2. ParseInv => StoredAsParsed
    BY <1>1 DEF StoredAsParsed
<1>q. QED BY <1>2, ParseInvariant, PTL
=============================================================================
