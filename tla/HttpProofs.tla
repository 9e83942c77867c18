----------------------------- MODULE HttpProofs -----------------------------
(***************************************************************************)
(* Proofs about the HTTP server.                                           *)
(*                                                                         *)
(* First HttpContext, the parser of a connection, for any input and any    *)
(* sizes of its buffer: its invariant, the safety of its pieces, how a     *)
(* request is decoded, and that what it answers is what the grammar of     *)
(* HttpSyntax reads in the input.                                          *)
(*                                                                         *)
(* Then HttpServer, its threads and tasks, for any number of workers,      *)
(* nodes, connections and requests.  The server drives its queue as        *)
(* WorkQueue lets it, so the queue's invariant and theorems are taken from *)
(* WorkQueueProofs; what is proved of it here is what the server adds:     *)
(* contexts, cancellation, order.                                          *)
(***************************************************************************)
EXTENDS HttpServer, HttpContext, SequenceLemmas, FiniteSetTheorems, TLAPS

-----------------------------------------------------------------------------
(* The parser: HttpContext.                                                *)

\* A byte of the buffer, received or a terminator.
Char == STRING \cup {Nul}

\* A line or a chunk.
Piece == [first : Nat, length : Nat]
State == {"start", "header", "body", "chunkHeader", "chunkBody", "chunkFooter", "done", "bad"}
Members ==
    [buf : Seq(Char), index : Nat, state : State, lines : Seq(Piece), headerSize : Nat,
     keepAlive : BOOLEAN, chunked : BOOLEAN, contentLength : Nat,
     chunkSize : Nat, sizeStart : BOOLEAN, sizeDone : BOOLEAN, chunks : Seq(Piece)]

\* The line is complete, or the one that is being read.
Ended(c, line) ==
    line.first + line.length + 2 <= c.index /\ c.buf[line.first + line.length + 1] = Nul
Unfinished(c, line) == line.length = Unknown /\ line.first <= c.index

\* Every line but the last is complete, and in the states that read lines there is
\* a last.
LinesInv(c) ==
    /\ \A k \in 1..Len(c.lines) :
          \/ Ended(c, c.lines[k])
          \/ /\ k = Len(c.lines) /\ Unfinished(c, c.lines[k])
             /\ c.state \in {"header", "chunkFooter", "bad"}
    /\ c.state \in {"header", "chunkFooter"} => c.lines # <<>>
    /\ c.state = "start" => c.lines = <<>>

\* A chunk lies in what was read unless its own length wrapped, and there is none
\* before the headers are complete.
ChunksInv(c) ==
    /\ \A k \in 1..Len(c.chunks) :
          /\ c.headerSize <= c.chunks[k].first /\ c.chunks[k].first <= c.index
          /\ c.chunks[k].length + 2 < Word => c.chunks[k].first + c.chunks[k].length <= c.index
    /\ c.state \in {"start", "header"} => c.chunks = <<>>

\* Before the line that is being read there is a terminator, unless it is the first,
\* which does not begin with a line feed; before a chunk there is something.
OpenInv(c) ==
    /\ c.state \in {"header", "chunkFooter"} =>
          LET f == Last(c.lines).first IN
          /\ f <= c.index
          /\ f = 0 => c.buf # <<>> /\ c.buf[1] # LF
          /\ f > 0 => c.buf[f] = Nul
    /\ c.state \in {"chunkHeader", "chunkBody"} => c.index > 0

\* The invariant of a context, the present one or one handed to a task.
MembersInv(c) ==
    /\ c \in Members
    /\ c.index <= Len(c.buf) /\ c.headerSize <= c.index
    /\ LinesInv(c) /\ ChunksInv(c) /\ OpenInv(c)

\* The buffer has room for what it holds, and a refusal is final.
SizeInv ==
    /\ capacity \in Nat \ {0} /\ capacity <= Limit
    /\ nowIndex <= capacity
    /\ stage = "refused" => nowIndex = Limit

\* The inductive invariant of the parser.
ContextInv ==
    /\ start \in Seq(STRING) /\ got \in Seq(STRING)
    /\ stage \in {"reading", "analysis", "verdict", "refused"}
    /\ SizeInv
    /\ MembersInv(ctx)
    /\ taken \in Seq(Members) /\ \A k \in 1..Len(taken) : MembersInv(taken[k])

-----------------------------------------------------------------------------
\* The arithmetic of size_t stays within it.
LEMMA Widths == Word \in Nat /\ Word >= 4 /\ Radix \in Nat /\ Unknown \in Nat
<1>1. Word \in Nat /\ Radix \in Nat /\ 2 <= Radix /\ Radix < Word /\ Word % Radix = 0
  BY WordAssumption
<1>2. Word # 3
  <2>1. SUFFICES ASSUME Word = 3 PROVE FALSE
    OBVIOUS
  <2>2. Radix = 2
    BY <1>1, <2>1
  <2>3. QED
    BY <1>1, <2>1, <2>2
<1>3. QED
  BY <1>1, <1>2 DEF Unknown

\* Terminators are not overwritten.
NulStays(c, d) == \A i \in 1..c.index : c.buf[i] = Nul => d.buf[i] = Nul

\* A complete line stays complete as the index goes on.
LEMMA EndedStays ==
    ASSUME NEW c \in Members, NEW d \in Members, c.index <= d.index, NulStays(c, d),
           NEW line \in Piece, Ended(c, line)
    PROVE  Ended(d, line)
<1>1. /\ line.first \in Nat /\ line.length \in Nat /\ c.index \in Nat /\ d.index \in Nat
  BY DEF Members, Piece
<1>2. PICK p \in Nat : p = line.first + line.length + 1
  BY <1>1
<1>3. p \in 1..c.index /\ c.buf[p] = Nul /\ p + 1 <= c.index
  BY <1>1, <1>2 DEF Ended
<1>4. d.buf[p] = Nul /\ p + 1 <= d.index
  BY <1>1, <1>3 DEF NulStays
<1>5. QED
  BY <1>1, <1>2, <1>4 DEF Ended

\* A step that leaves the lines alone keeps what is known of them.
LEMMA LinesStay ==
    ASSUME NEW c \in Members, NEW d \in Members, LinesInv(c), c.index <= d.index,
           d.lines = c.lines, d.state \notin {"header", "chunkFooter", "start"} \/ d.state = c.state,
           c.state \in {"header", "chunkFooter", "bad"} => d.state \in {c.state, "bad"},
           NulStays(c, d)
    PROVE  LinesInv(d)
<1>1. c.lines \in Seq(Piece) /\ c.index \in Nat /\ d.index \in Nat
  BY DEF Members
<1>2. ASSUME NEW k \in 1..Len(c.lines)
      PROVE  /\ Ended(c, c.lines[k]) => Ended(d, c.lines[k])
             /\ Unfinished(c, c.lines[k]) => Unfinished(d, c.lines[k])
  <2>1. c.lines[k] \in Piece
    BY <1>1
  <2>2. c.lines[k].first \in Nat
    BY <2>1 DEF Piece
  <2>3. Ended(c, c.lines[k]) => Ended(d, c.lines[k])
    BY <2>1, EndedStays
  <2>4. QED
    BY <1>1, <2>2, <2>3 DEF Unfinished
<1>3. QED
  BY <1>2 DEF LinesInv

\* And of the one that is being read.
LEMMA OpenStays ==
    ASSUME NEW c \in Members, NEW d \in Members, LinesInv(c), OpenInv(c), c.index <= d.index,
           d.lines = c.lines, NulStays(c, d),
           c.buf # <<>> /\ c.buf[1] # LF => d.buf # <<>> /\ d.buf[1] # LF,
           d.state \in {"header", "chunkFooter"} => d.state = c.state,
           d.state \in {"chunkHeader", "chunkBody"} => c.state \in {"chunkHeader", "chunkBody"}
    PROVE  OpenInv(d)
<1>1. c.index \in Nat /\ d.index \in Nat /\ c.lines \in Seq(Piece)
  BY DEF Members
<1>2. CASE d.state \in {"header", "chunkFooter"}
  <2>1. d.state = c.state /\ c.lines # <<>>
    BY <1>2 DEF LinesInv
  <2>2. Last(c.lines) \in Piece
    BY <1>1, <2>1 DEF Last
  <2>3. PICK f \in Nat : f = Last(c.lines).first
    BY <2>2 DEF Piece
  <2>4. /\ f <= c.index /\ (f = 0 => c.buf # <<>> /\ c.buf[1] # LF) /\ (f > 0 => c.buf[f] = Nul)
    BY <1>2, <2>1, <2>3 DEF OpenInv
  <2>5. f > 0 => d.buf[f] = Nul
    BY <1>1, <2>4 DEF NulStays
  <2>6. f <= d.index
    BY <1>1, <2>4
  <2>7. d.state \notin {"chunkHeader", "chunkBody"}
    BY <1>2
  <2>8. QED
    BY <2>3, <2>4, <2>5, <2>6, <2>7 DEF OpenInv
<1>3. CASE d.state \notin {"header", "chunkFooter"}
  BY <1>1, <1>3 DEF OpenInv
<1>4. QED
  BY <1>2, <1>3

\* Nor the chunks.
LEMMA ChunksStay ==
    ASSUME NEW c \in Members, NEW d \in Members, ChunksInv(c), c.index <= d.index,
           d.chunks = c.chunks, d.headerSize = c.headerSize,
           d.state \in {"start", "header"} => c.state \in {"start", "header"}
    PROVE  ChunksInv(d)
<1>1. c.chunks \in Seq(Piece) /\ c.index \in Nat /\ d.index \in Nat
  BY DEF Members
<1>2. ASSUME NEW k \in 1..Len(c.chunks)
      PROVE  c.chunks[k].first \in Nat /\ c.chunks[k].length \in Nat
  <2>1. c.chunks[k] \in Piece
    BY <1>1
  <2>2. QED
    BY <2>1 DEF Piece
<1>3. PICK u \in Nat, v \in Nat : u = c.index /\ v = d.index /\ u <= v
  BY <1>1
<1>4. ASSUME NEW k \in 1..Len(c.chunks)
      PROVE  /\ c.headerSize <= c.chunks[k].first /\ c.chunks[k].first <= d.index
             /\ c.chunks[k].length + 2 < Word =>
                   c.chunks[k].first + c.chunks[k].length <= d.index
  <2>1. PICK f \in Nat, l \in Nat : f = c.chunks[k].first /\ l = c.chunks[k].length
    BY <1>2
  <2>2. c.headerSize <= f /\ f <= u /\ (l + 2 < Word => f + l <= u)
    BY <1>3, <2>1 DEF ChunksInv
  <2>3. f <= v /\ (f + l <= u => f + l <= v)
    BY <1>3, <2>2
  <2>4. QED
    BY <1>3, <2>1, <2>2, <2>3
<1>5. c.state \in {"start", "header"} => c.chunks = <<>>
  BY DEF ChunksInv
<1>6. QED
  BY <1>4, <1>5 DEF ChunksInv

-----------------------------------------------------------------------------
(* kvDecoder and the chunk size, over a whole line.                         *)

\* Contexts that differ only in what the headers and a chunk size set.
SamePlaces(c) ==
    {d \in Members :
        /\ d.buf = c.buf /\ d.index = c.index /\ d.state = c.state /\ d.lines = c.lines
        /\ d.headerSize = c.headerSize /\ d.chunks = c.chunks}

\* What kvDecoder does with one line: the step of the fold in Decoded.
KvDecoder(d, c, line) ==
    IF IsHeader(Slice(c, line))
    THEN [d EXCEPT ![Field[Slice(c, line)[1]]] = Value[Slice(c, line)[1]]]
    ELSE d

\* The headers, and what they say.
LEMMA Headers ==
    /\ DOMAIN Field = {"Alive", "Close", "Chunked", "Plain", "One", "Two", "Minus"}
    /\ \A name \in {"Alive", "Close"} : Field[name] = "keepAlive" /\ Value[name] \in BOOLEAN
    /\ \A name \in {"Chunked", "Plain"} : Field[name] = "chunked" /\ Value[name] \in BOOLEAN
    /\ \A name \in {"One", "Two", "Minus"} : Field[name] = "contentLength" /\ Value[name] \in Nat
<1>1. /\ Field["Alive"] = "keepAlive" /\ Field["Close"] = "keepAlive"
      /\ Field["Chunked"] = "chunked" /\ Field["Plain"] = "chunked"
      /\ Field["One"] = "contentLength" /\ Field["Two"] = "contentLength"
      /\ Field["Minus"] = "contentLength"
  BY DEF Field
<1>2. /\ Value["Alive"] = TRUE /\ Value["Close"] = FALSE
      /\ Value["Chunked"] = TRUE /\ Value["Plain"] = FALSE
  BY DEF Value
<1>3. Value["One"] = 1 /\ Value["Two"] = 2 /\ Value["Minus"] = Word - 1
  BY DEF Value
<1>4. Word - 1 \in Nat
  BY Widths
<1>5. DOMAIN Field = {"Alive", "Close", "Chunked", "Plain", "One", "Two", "Minus"}
  BY DEF Field
<1>6. \A name \in {"Alive", "Close"} : Field[name] = "keepAlive" /\ Value[name] \in BOOLEAN
  BY <1>1, <1>2
<1>7. \A name \in {"Chunked", "Plain"} : Field[name] = "chunked" /\ Value[name] \in BOOLEAN
  BY <1>1, <1>2
<1>8. \A name \in {"One", "Two", "Minus"} : Field[name] = "contentLength" /\ Value[name] \in Nat
  BY <1>1, <1>3, <1>4
<1>9. QED
  BY <1>5, <1>6, <1>7, <1>8

\* One line sets one member.
LEMMA KvDecoderSets ==
    ASSUME NEW c \in Members, NEW d \in SamePlaces(c), NEW line
    PROVE  KvDecoder(d, c, line) \in SamePlaces(c)
<1> DEFINE name == Slice(c, line)[1]
<1>1. d \in Members
  BY DEF SamePlaces
<1>2. CASE IsHeader(Slice(c, line))
  <2>1. name \in {"Alive", "Close", "Chunked", "Plain", "One", "Two", "Minus"}
    BY <1>2, Headers DEF IsHeader
  <2>2. KvDecoder(d, c, line) = [d EXCEPT ![Field[name]] = Value[name]]
    BY <1>2 DEF KvDecoder
  <2> HIDE DEF name
  <2>3. CASE name \in {"Alive", "Close"}
    <3>1. Field[name] = "keepAlive" /\ Value[name] \in BOOLEAN
      BY <2>3, Headers
    <3>2. [d EXCEPT !["keepAlive"] = Value[name]] \in SamePlaces(c)
      BY <1>1, <3>1 DEF Members, SamePlaces
    <3>3. QED
      BY <2>2, <3>1, <3>2
  <2>4. CASE name \in {"Chunked", "Plain"}
    <3>1. Field[name] = "chunked" /\ Value[name] \in BOOLEAN
      BY <2>4, Headers
    <3>2. [d EXCEPT !["chunked"] = Value[name]] \in SamePlaces(c)
      BY <1>1, <3>1 DEF Members, SamePlaces
    <3>3. QED
      BY <2>2, <3>1, <3>2
  <2>5. CASE name \in {"One", "Two", "Minus"}
    <3>1. Field[name] = "contentLength" /\ Value[name] \in Nat
      BY <2>5, Headers
    <3>2. [d EXCEPT !["contentLength"] = Value[name]] \in SamePlaces(c)
      BY <1>1, <3>1 DEF Members, SamePlaces
    <3>3. QED
      BY <2>2, <3>1, <3>2
  <2>6. QED
    BY <2>1, <2>3, <2>4, <2>5
<1>3. QED
  BY <1>2 DEF KvDecoder

\* h holds the contexts after each of the lines.
DecodedBy(h, c) == h[0] = c /\ \A k \in 1..Len(c.lines) : h[k] = KvDecoder(h[k - 1], c, c.lines[k])

\* kvDecoder goes from line to line.
LEMMA DecodedChain ==
    ASSUME NEW c \in Members
    PROVE  \E h \in [0..Len(c.lines) -> SamePlaces(c)] :
              DecodedBy(h, c) /\ Decoded(c) = h[Len(c.lines)]
<1> DEFINE n == Len(c.lines)
           iter[s \in SUBSET (1..n)] ==
             IF s = {} THEN c ELSE KvDecoder(iter[s \ {Max(s)}], c, c.lines[Max(s)])
           step == [i \in 1..n |-> [d \in SamePlaces(c) |-> KvDecoder(d, c, c.lines[i])]]
<1>1. n \in Nat /\ DOMAIN c.lines = 1..n
  BY DEF Members
<1>2. Decoded(c) = iter[1..n]
  BY <1>1 DEF Decoded, FoldLeft, MapThenFoldSet, KvDecoder
<1>3. c \in SamePlaces(c)
  BY DEF SamePlaces
<1> HIDE DEF n
<1>4. step \in [1..n -> [SamePlaces(c) -> SamePlaces(c)]]
  BY KvDecoderSets
<1>5. \A i \in 1..n, d \in SamePlaces(c) : step[i][d] = KvDecoder(d, c, c.lines[i])
  OBVIOUS
<1> HIDE DEF step
<1>6. CanChain(n, SamePlaces(c), c, step)
  BY <1>1, <1>3, <1>4 DEF CanChain
<1>7. PICK g \in [SUBSET (1..n) -> SamePlaces(c)] : IsMaxFold(g, n, c, step)
  BY <1>6, MaxFoldExists DEF HasMaxFold
<1>8. ASSUME NEW s \in SUBSET (1..n)
      PROVE  g[s] = IF s = {} THEN c ELSE KvDecoder(g[s \ {Max(s)}], c, c.lines[Max(s)])
  <2>1. CASE s = {}
    BY <1>7, <2>1 DEF IsMaxFold
  <2>2. CASE s # {}
    <3>1. Max(s) \in 1..n /\ s \ {Max(s)} \in SUBSET (1..n)
      BY <1>1, <2>2, MaxIn
    <3>2. g[s \ {Max(s)}] \in SamePlaces(c)
      BY <1>7, <3>1
    <3>3. QED
      BY <1>5, <1>7, <2>2, <3>1, <3>2 DEF IsMaxFold
  <2>3. QED
    BY <2>1, <2>2
<1>9. g = [s \in SUBSET (1..n) |-> IF s = {} THEN c ELSE KvDecoder(g[s \ {Max(s)}], c, c.lines[Max(s)])]
  BY <1>7, <1>8
<1>10. iter = [s \in SUBSET (1..n) |->
                  IF s = {} THEN c ELSE KvDecoder(iter[s \ {Max(s)}], c, c.lines[Max(s)])]
  BY <1>9
<1> HIDE DEF iter
<1>11. PICK h \in [0..n -> SamePlaces(c)] : IsChain(h, n, c, step)
  BY <1>6, ChainExists DEF HasChain
<1>12. ASSUME NEW k \in 1..n PROVE h[k] = KvDecoder(h[k - 1], c, c.lines[k])
  <2>1. k - 1 \in 0..n /\ h[k] = step[k][h[k - 1]]
    BY <1>1, <1>11 DEF IsChain
  <2>2. QED
    BY <1>5, <1>11, <2>1
<1> DEFINE P == {k \in 0..n : iter[1..k] = h[k]}
<1>13. 0 \in P
  <2>1. 1..0 = {} /\ 0 \in 0..n
    BY <1>1
  <2>2. QED
    BY <1>10, <1>11, <2>1 DEF IsChain
<1>14. ASSUME NEW k \in 1..n, k - 1 \in P PROVE k \in P
  <2>1. k \in Nat \ {0} /\ 1..k \in SUBSET (1..n) /\ k \in 1..k /\ k \in 0..n
    BY <1>1
  <2>2. iter[1..k] = KvDecoder(iter[1..(k - 1)], c, c.lines[k])
    BY <1>10, <2>1, MaxOfFirst
  <2>3. iter[1..k] = h[k]
    BY <1>12, <1>14, <2>2
  <2>4. QED
    BY <2>1, <2>3
<1> HIDE DEF P
<1>15. n \in P
  BY <1>1, <1>13, <1>14, InductTo DEF Inductive
<1>16. iter[1..n] = h[n]
  BY <1>15 DEF P
<1>17. DecodedBy(h, c)
  BY <1>11, <1>12 DEF DecodedBy, IsChain, n
<1>18. QED
  BY <1>2, <1>11, <1>16, <1>17 DEF n

\* It sets nothing but what the headers are about.
LEMMA DecodedSets ==
    ASSUME NEW c \in Members
    PROVE  Decoded(c) \in SamePlaces(c)
<1>1. PICK h \in [0..Len(c.lines) -> SamePlaces(c)] : Decoded(c) = h[Len(c.lines)]
  BY DecodedChain
<1>2. Len(c.lines) \in 0..Len(c.lines)
  BY DEF Members
<1>3. QED
  BY <1>1, <1>2

\* What one byte does to the chunk size: the step of the fold in Scanned.
SizeDecoder(d, b) ==
    IF d.sizeDone THEN d
    ELSE IF IsDigit(b)
         THEN [d EXCEPT !.chunkSize = (@ * Radix + DigitValue[b]) % Word, !.sizeStart = TRUE]
         ELSE [d EXCEPT !.sizeDone = d.sizeStart \/ ~IsSpace(b)]

\* One byte of the size: it stays a size_t.
LEMMA SizeDecoderSets ==
    ASSUME NEW c \in Members, NEW d \in SamePlaces(c), NEW b
    PROVE  SizeDecoder(d, b) \in SamePlaces(c)
<1>1. /\ d \in Members /\ d.chunkSize \in Nat /\ d.sizeStart \in BOOLEAN
  BY DEF SamePlaces, Members
<1>2. CASE d.sizeDone
  BY <1>2 DEF SizeDecoder
<1>3. CASE ~d.sizeDone /\ IsDigit(b)
  <2>1. DigitValue[b] \in Nat
    BY <1>3 DEF IsDigit, DigitValue
  <2>2. PICK m \in Nat : m = d.chunkSize * Radix + DigitValue[b]
    BY <1>1, <2>1, Widths
  <2>3. m % Word \in Nat
    BY <2>2, Widths
  <2>4. SizeDecoder(d, b) = [d EXCEPT !.chunkSize = m % Word, !.sizeStart = TRUE]
    BY <1>3, <2>2 DEF SizeDecoder
  <2>5. [d EXCEPT !.chunkSize = m % Word, !.sizeStart = TRUE] \in SamePlaces(c)
    BY <1>1, <2>3 DEF Members, SamePlaces
  <2>6. QED
    BY <2>4, <2>5
<1>4. CASE ~d.sizeDone /\ ~IsDigit(b)
  <2>1. (d.sizeStart \/ ~IsSpace(b)) \in BOOLEAN
    BY <1>1 DEF IsSpace
  <2>2. PICK v \in BOOLEAN : v = (d.sizeStart \/ ~IsSpace(b))
    BY <2>1
  <2>3. SizeDecoder(d, b) = [d EXCEPT !.sizeDone = v]
    BY <1>4, <2>2 DEF SizeDecoder
  <2>4. [d EXCEPT !.sizeDone = v] \in SamePlaces(c)
    BY <1>1 DEF Members, SamePlaces
  <2>5. QED
    BY <2>3, <2>4
<1>5. QED
  BY <1>2, <1>3, <1>4

\* h holds the contexts after each of the bytes.
ScannedBy(h, c, bytes) == h[0] = c /\ \A k \in 1..Len(bytes) : h[k] = SizeDecoder(h[k - 1], bytes[k])

\* The size is read byte by byte.
LEMMA ScannedChain ==
    ASSUME NEW c \in Members, NEW bytes \in Seq(Char)
    PROVE  \E h \in [0..Len(bytes) -> SamePlaces(c)] :
              ScannedBy(h, c, bytes) /\ Scanned(c, bytes) = h[Len(bytes)]
<1> DEFINE n == Len(bytes)
           iter[s \in SUBSET (1..n)] ==
             IF s = {} THEN c ELSE SizeDecoder(iter[s \ {Max(s)}], bytes[Max(s)])
           step == [i \in 1..n |-> [d \in SamePlaces(c) |-> SizeDecoder(d, bytes[i])]]
<1>1. n \in Nat /\ DOMAIN bytes = 1..n
  BY DEF Members
<1>2. Scanned(c, bytes) = iter[1..n]
  BY <1>1 DEF Scanned, FoldLeft, MapThenFoldSet, SizeDecoder
<1>3. c \in SamePlaces(c)
  BY DEF SamePlaces
<1> HIDE DEF n
<1>4. step \in [1..n -> [SamePlaces(c) -> SamePlaces(c)]]
  BY SizeDecoderSets
<1>5. \A i \in 1..n, d \in SamePlaces(c) : step[i][d] = SizeDecoder(d, bytes[i])
  OBVIOUS
<1> HIDE DEF step
<1>6. CanChain(n, SamePlaces(c), c, step)
  BY <1>1, <1>3, <1>4 DEF CanChain
<1>7. PICK g \in [SUBSET (1..n) -> SamePlaces(c)] : IsMaxFold(g, n, c, step)
  BY <1>6, MaxFoldExists DEF HasMaxFold
<1>8. ASSUME NEW s \in SUBSET (1..n)
      PROVE  g[s] = IF s = {} THEN c ELSE SizeDecoder(g[s \ {Max(s)}], bytes[Max(s)])
  <2>1. CASE s = {}
    BY <1>7, <2>1 DEF IsMaxFold
  <2>2. CASE s # {}
    <3>1. Max(s) \in 1..n /\ s \ {Max(s)} \in SUBSET (1..n)
      BY <1>1, <2>2, MaxIn
    <3>2. g[s \ {Max(s)}] \in SamePlaces(c)
      BY <1>7, <3>1
    <3>3. QED
      BY <1>5, <1>7, <2>2, <3>1, <3>2 DEF IsMaxFold
  <2>3. QED
    BY <2>1, <2>2
<1>9. g = [s \in SUBSET (1..n) |-> IF s = {} THEN c ELSE SizeDecoder(g[s \ {Max(s)}], bytes[Max(s)])]
  BY <1>7, <1>8
<1>10. iter = [s \in SUBSET (1..n) |->
                  IF s = {} THEN c ELSE SizeDecoder(iter[s \ {Max(s)}], bytes[Max(s)])]
  BY <1>9
<1> HIDE DEF iter
<1>11. PICK h \in [0..n -> SamePlaces(c)] : IsChain(h, n, c, step)
  BY <1>6, ChainExists DEF HasChain
<1>12. ASSUME NEW k \in 1..n PROVE h[k] = SizeDecoder(h[k - 1], bytes[k])
  <2>1. k - 1 \in 0..n /\ h[k] = step[k][h[k - 1]]
    BY <1>1, <1>11 DEF IsChain
  <2>2. QED
    BY <1>5, <1>11, <2>1
<1> DEFINE P == {k \in 0..n : iter[1..k] = h[k]}
<1>13. 0 \in P
  <2>1. 1..0 = {} /\ 0 \in 0..n
    BY <1>1
  <2>2. QED
    BY <1>10, <1>11, <2>1 DEF IsChain
<1>14. ASSUME NEW k \in 1..n, k - 1 \in P PROVE k \in P
  <2>1. k \in Nat \ {0} /\ 1..k \in SUBSET (1..n) /\ k \in 1..k /\ k \in 0..n
    BY <1>1
  <2>2. iter[1..k] = SizeDecoder(iter[1..(k - 1)], bytes[k])
    BY <1>10, <2>1, MaxOfFirst
  <2>3. iter[1..k] = h[k]
    BY <1>12, <1>14, <2>2
  <2>4. QED
    BY <2>1, <2>3
<1> HIDE DEF P
<1>15. n \in P
  BY <1>1, <1>13, <1>14, InductTo DEF Inductive
<1>16. iter[1..n] = h[n]
  BY <1>15 DEF P
<1>17. ScannedBy(h, c, bytes)
  BY <1>11, <1>12 DEF ScannedBy, IsChain, n
<1>18. QED
  BY <1>2, <1>11, <1>16, <1>17 DEF n

\* And it sets nothing else.
LEMMA ScannedSets ==
    ASSUME NEW c \in Members, NEW bytes \in Seq(Char)
    PROVE  Scanned(c, bytes) \in SamePlaces(c)
<1>1. PICK h \in [0..Len(bytes) -> SamePlaces(c)] : Scanned(c, bytes) = h[Len(bytes)]
  BY ScannedChain
<1>2. Len(bytes) \in 0..Len(bytes)
  OBVIOUS
<1>3. QED
  BY <1>1, <1>2

-----------------------------------------------------------------------------
(* Lines.                                                                   *)

\* All but the last.
LEMMA FrontIs ==
    ASSUME NEW S, NEW s \in Seq(S), s # <<>>
    PROVE  /\ Front(s) \in Seq(S) /\ Len(Front(s)) = Len(s) - 1
           /\ \A k \in 1..(Len(s) - 1) : Front(s)[k] = s[k]
<1>1. Len(s) \in Nat /\ Len(s) >= 1
  OBVIOUS
<1>2. \A k \in 1..Len(s) : s[k] \in S
  OBVIOUS
<1>3. SubSeq(s, 1, Len(s) - 1) \in Seq(S)
  BY <1>1, <1>2
<1>8. PICK m \in Nat : m = Len(s)
  BY <1>1
<1>9. m >= 1
  BY <1>1, <1>8
<1>10. PICK n \in Nat : n = m - 1
  BY <1>9
<1>4. n = Len(s) - 1 /\ \A k \in 1..n : k \in 1..Len(s)
  <2>1. \A k \in 1..n : k \in 1..m
    BY <1>10
  <2>2. QED
    BY <1>8, <1>10, <2>1
<1>5. /\ Len(SubSeq(s, 1, n)) = IF 1 <= n THEN n - 1 + 1 ELSE 0
      /\ \A k \in 1..(n - 1 + 1) : SubSeq(s, 1, n)[k] = s[1 + k - 1]
  <2>1. \A k \in 1..n : s[k] \in S
    BY <1>2, <1>4
  <2>2. QED
    BY <2>1, SubSeqProperties
<1>6. (IF 1 <= n THEN n - 1 + 1 ELSE 0) = n /\ n - 1 + 1 = n /\ \A k \in 1..n : 1 + k - 1 = k
  OBVIOUS
<1>7. QED
  BY <1>3, <1>4, <1>5, <1>6 DEF Front

\* The line feed that is found lies ahead of the index.
LEMMA LineFeedIs ==
    ASSUME ctx \in Members
    PROVE  \/ LineFeed = 0
           \/ LineFeed \in (ctx.index + 1)..nowIndex /\ ctx.buf[LineFeed] = LF
<1> DEFINE I == {i \in (ctx.index + 1)..nowIndex : ctx.buf[i] = LF}
<1>1. ctx.index \in Nat /\ nowIndex \in Nat
  BY DEF Members, nowIndex
<1>2. LineFeed = IF I # {} THEN Min(I) ELSE 0
  BY DEF LineFeed, SelectInSubSeq
<1>3. ASSUME I # {} PROVE Min(I) \in I
  <2>1. I \in SUBSET Nat
    BY <1>1
  <2> HIDE DEF I
  <2>2. PICK m \in I : \A y \in I : m <= y
    BY <1>3, <2>1, LeastNat
  <2>3. QED
    BY <2>2 DEF Min
<1>4. ASSUME NEW j \in I PROVE j \in (ctx.index + 1)..nowIndex /\ ctx.buf[j] = LF
  OBVIOUS
<1> HIDE DEF I
<1>5. CASE I = {}
  BY <1>2, <1>5
<1>6. CASE I # {}
  <2>1. LineFeed \in I
    BY <1>2, <1>3, <1>6
  <2>2. QED
    BY <1>4, <2>1
<1>7. QED
  BY <1>5, <1>6

\* Two bytes of the line become terminators.
LEMMA TerminatedIs ==
    ASSUME ctx \in Members, NEW j \in 1..nowIndex
    PROVE  /\ Terminated(j) \in Members
           /\ Terminated(j).index = ctx.index /\ Terminated(j).state = ctx.state
           /\ Terminated(j).lines = ctx.lines /\ Terminated(j).chunks = ctx.chunks
           /\ Terminated(j).headerSize = ctx.headerSize
           /\ Terminated(j).chunkSize = ctx.chunkSize
           /\ Len(Terminated(j).buf) = nowIndex
           /\ \A i \in 1..nowIndex :
                 Terminated(j).buf[i] = IF i \in {j - 1, j} THEN Nul ELSE ctx.buf[i]
<1> DEFINE b == [[ctx.buf EXCEPT ![j - 1] = Nul] EXCEPT ![j] = Nul]
<1>1. ctx.buf \in Seq(Char) /\ nowIndex = Len(ctx.buf) /\ nowIndex \in Nat
  BY DEF Members, nowIndex
<1>2. /\ b \in Seq(Char) /\ Len(b) = nowIndex
      /\ \A i \in 1..nowIndex : b[i] = IF i \in {j - 1, j} THEN Nul ELSE ctx.buf[i]
  <2>1. PICK s \in Seq(Char) : s = ctx.buf /\ Len(s) = nowIndex
    BY <1>1
  <2>2. j \in 1..Len(s) /\ Nul \in Char
    BY <1>1, <2>1 DEF Char
  <2> DEFINE a == [s EXCEPT ![j - 1] = Nul]
             e == [a EXCEPT ![j] = Nul]
  <2>3. a \in Seq(Char) /\ Len(a) = Len(s)
        /\ \A i \in 1..Len(s) : a[i] = IF i = j - 1 THEN Nul ELSE s[i]
    <3>1. CASE j - 1 \in 1..Len(s)
      BY <2>2, <3>1, ExceptSeq
    <3>2. CASE j - 1 \notin 1..Len(s)
      <4>1. DOMAIN s = 1..Len(s)
        OBVIOUS
      <4>2. a = s
        BY <3>2, <4>1
      <4>3. QED
        BY <3>2, <4>2
    <3>3. QED
      BY <3>1, <3>2
  <2> HIDE DEF a
  <2>4. e \in Seq(Char) /\ Len(e) = Len(a)
        /\ \A i \in 1..Len(a) : e[i] = IF i = j THEN Nul ELSE a[i]
    BY <2>2, <2>3, ExceptSeq
  <2> HIDE DEF e
  <2>5. b = e
    BY <2>1 DEF a, e
  <2>6. QED
    BY <2>1, <2>2, <2>3, <2>4, <2>5
<1>3. Terminated(j) = [ctx EXCEPT !.buf = b]
  BY DEF Terminated, Members
<1> HIDE DEF b
<1>4. QED
  BY <1>2, <1>3 DEF Members

-----------------------------------------------------------------------------
(* The steps of analysis(), of one context: c becomes d.                    *)

\* Of the lines all but the last are complete; all, in a state that reads none.
LEMMA EndedLines ==
    ASSUME NEW c \in Members, LinesInv(c)
    PROVE  /\ \A k \in 1..(Len(c.lines) - 1) : Ended(c, c.lines[k])
           /\ c.state \notin {"header", "chunkFooter", "bad"} =>
                 \A k \in 1..Len(c.lines) : Ended(c, c.lines[k])
<1>1. c.lines \in Seq(Piece) /\ Len(c.lines) \in Nat
  BY DEF Members
<1>2. \A k \in 1..(Len(c.lines) - 1) : k \in 1..Len(c.lines) /\ k # Len(c.lines)
  BY <1>1
<1>3. QED
  BY <1>2 DEF LinesInv

\* A new line is opened at f.
LEMMA OpensLine ==
    ASSUME NEW c \in Members, NEW f \in 0..c.index, NEW lines \in Seq(Piece),
           c.lines = Append(lines, [first |-> f, length |-> Unknown]),
           c.state \in {"header", "chunkFooter"},
           \A k \in 1..Len(lines) : Ended(c, lines[k]),
           f = 0 => c.buf # <<>> /\ c.buf[1] # LF, f > 0 => c.buf[f] = Nul
    PROVE  LinesInv(c) /\ OpenInv(c)
<1>1. c.index \in Nat /\ f <= c.index /\ f \in Nat
  BY DEF Members
<1>2. /\ Len(c.lines) = Len(lines) + 1 /\ Len(lines) \in Nat
      /\ \A k \in 1..Len(lines) : c.lines[k] = lines[k]
      /\ c.lines[Len(lines) + 1] = [first |-> f, length |-> Unknown]
  <2>1. [first |-> f, length |-> Unknown] \in Piece
    BY <1>1, Widths DEF Piece
  <2>2. QED
    BY <2>1, AppendProperties
<1>3. Unfinished(c, c.lines[Len(lines) + 1])
  BY <1>1, <1>2 DEF Unfinished
<1>4. ASSUME NEW k \in 1..Len(c.lines)
      PROVE  \/ Ended(c, c.lines[k])
             \/ k = Len(c.lines) /\ Unfinished(c, c.lines[k])
  <2>1. k \in 1..Len(lines) \/ k = Len(lines) + 1
    BY <1>2
  <2>2. QED
    BY <1>2, <1>3, <2>1
<1>5. c.lines # <<>>
  <2>1. SUFFICES ASSUME c.lines = <<>> PROVE FALSE
    OBVIOUS
  <2>2. Len(c.lines) = 0
    BY <2>1
  <2>3. QED
    BY <1>2, <2>2
<1>6. c.state # "start"
  OBVIOUS
<1>7. LinesInv(c)
  BY <1>4, <1>5, <1>6 DEF LinesInv
<1>8. Last(c.lines).first = f
  <2>1. Last(c.lines) = c.lines[Len(lines) + 1]
    BY <1>2 DEF Last
  <2>2. QED
    BY <1>2, <2>1
<1>9. QED
  BY <1>1, <1>7, <1>8 DEF OpenInv

\* Malformed input, and a line that goes on.
LEMMA MovesOn ==
    ASSUME NEW c, MembersInv(c), NEW i \in c.index..Len(c.buf), NEW q \in {c.state, "bad"}
    PROVE  MembersInv([c EXCEPT !.index = i, !.state = q])
<1> DEFINE d == [c EXCEPT !.index = i, !.state = q]
<1>1. /\ c \in Members /\ c.index \in Nat /\ Len(c.buf) \in Nat /\ c.headerSize \in Nat
      /\ c.headerSize <= c.index /\ LinesInv(c) /\ ChunksInv(c) /\ OpenInv(c)
      /\ c.state \in State
  BY DEF MembersInv, Members
<1>2. i \in Nat /\ c.index <= i /\ i <= Len(c.buf) /\ q \in State
  BY <1>1 DEF State
<1>3. /\ d \in Members /\ d.index = i /\ d.state = q /\ d.buf = c.buf /\ d.lines = c.lines
      /\ d.chunks = c.chunks /\ d.headerSize = c.headerSize
  BY <1>1, <1>2 DEF Members
<1> HIDE DEF d
<1>4. LinesInv(d)
  BY <1>1, <1>2, <1>3, LinesStay DEF NulStays
<1>5. ChunksInv(d)
  BY <1>1, <1>2, <1>3, ChunksStay
<1>6. OpenInv(d)
  BY <1>1, <1>2, <1>3, OpenStays DEF NulStays
<1>7. MembersInv(d)
  BY <1>1, <1>2, <1>3, <1>4, <1>5, <1>6 DEF MembersInv
<1>8. QED
  BY <1>7 DEF d

-----------------------------------------------------------------------------
(* The actions of analysis().                                               *)

\* What a step of analysis() keeps, whatever it does to the members.
Keeps == MembersInv(ctx') /\ Len(ctx'.buf) = nowIndex

\* What is known of a context at any time.
LEMMA MembersFacts ==
    ASSUME NEW c, MembersInv(c)
    PROVE  /\ c \in Members /\ c.index \in Nat /\ Len(c.buf) \in Nat /\ c.headerSize \in Nat
           /\ c.buf \in Seq(Char) /\ c.lines \in Seq(Piece) /\ c.chunks \in Seq(Piece)
           /\ c.contentLength \in Nat /\ c.chunkSize \in Nat /\ c.state \in State
           /\ c.index <= Len(c.buf) /\ c.headerSize <= c.index
           /\ LinesInv(c) /\ ChunksInv(c) /\ OpenInv(c)
BY DEF MembersInv, Members

\* Malformed input only changes the state.
LEMMA MalformKeeps ==
    ASSUME MembersInv(ctx), Malform
    PROVE  Keeps
<1>1. ctx.index \in ctx.index..Len(ctx.buf)
  <2>1. ctx.index \in Nat /\ Len(ctx.buf) \in Nat /\ ctx.index <= Len(ctx.buf)
    BY MembersFacts
  <2>2. QED
    BY <2>1
<1>2. MembersInv([ctx EXCEPT !.index = ctx.index, !.state = "bad"])
  BY <1>1, MovesOn
<1>3. ctx \in Members
  BY MembersFacts
<1>4. ctx' = [ctx EXCEPT !.index = ctx.index, !.state = "bad"] /\ ctx'.buf = ctx.buf
  BY <1>3 DEF Malform, Members
<1>5. QED
  BY <1>2, <1>4 DEF Keeps, nowIndex

\* A line that is not complete only moves the index.
LEMMA LineGoesOnKeeps ==
    ASSUME MembersInv(ctx), NEW state, LineGoesOn(state)
    PROVE  Keeps
<1>1. nowIndex \in ctx.index..Len(ctx.buf)
  <2>1. ctx.index \in Nat /\ Len(ctx.buf) \in Nat /\ ctx.index <= Len(ctx.buf)
    BY MembersFacts
  <2>2. QED
    BY <2>1 DEF nowIndex
<1>2. MembersInv([ctx EXCEPT !.index = nowIndex, !.state = ctx.state])
  BY <1>1, MovesOn
<1>3. ctx \in Members
  BY MembersFacts
<1>4. ctx' = [ctx EXCEPT !.index = nowIndex, !.state = ctx.state] /\ ctx'.buf = ctx.buf
  BY <1>3 DEF LineGoesOn, Members
<1>5. MembersInv(ctx')
  BY <1>2, <1>4
<1>6. Len(ctx'.buf) = nowIndex
  BY <1>4 DEF nowIndex
<1>7. QED
  BY <1>5, <1>6 DEF Keeps

\* The first line is opened, and it does not begin with a line feed.
LEMMA ReadStartKeeps ==
    ASSUME MembersInv(ctx), ReadStart
    PROVE  Keeps
<1>1. CASE Malform
  BY <1>1, MalformKeeps
<1>2. CASE /\ ctx.index = 0 /\ ctx.buf[1] # LF
           /\ ctx' = [ctx EXCEPT !.state = "header",
                                 !.lines = Append(@, [first |-> 0, length |-> Unknown])]
  <2> DEFINE line == [first |-> 0, length |-> Unknown]
  <2>1. PICK d : d = ctx'
    OBVIOUS
  <2>2. ctx.state = "start" /\ ctx.lines = <<>> /\ ctx.chunks = <<>>
    BY MembersFacts DEF ReadStart, Reads, LinesInv, ChunksInv
  <2>3. line \in Piece
    BY Widths DEF Piece
  <2>4. Append(ctx.lines, line) \in Seq(Piece)
    BY <2>3, MembersFacts, AppendProperties
  <2> HIDE DEF line
  <2>5. /\ d \in Members /\ d.buf = ctx.buf /\ d.index = ctx.index
        /\ d.headerSize = ctx.headerSize /\ d.chunks = ctx.chunks /\ d.state = "header"
        /\ d.lines = Append(ctx.lines, line)
    <3>1. ctx \in Members /\ d = [ctx EXCEPT !.state = "header", !.lines = Append(ctx.lines, line)]
      BY <1>2, <2>1, MembersFacts DEF line, Members
    <3>2. QED
      BY <2>4, <3>1 DEF Members, State
  <2>6. LinesInv(d) /\ OpenInv(d)
    <3>1. 0 \in 0..d.index /\ \A k \in 1..Len(ctx.lines) : Ended(d, ctx.lines[k])
      BY <2>2, <2>5, MembersFacts
    <3>2. d.buf # <<>> /\ d.buf[1] # LF
      <4>1. Len(ctx.buf) > 0 /\ Len(<<>>) = 0
        BY <1>2, MembersFacts DEF ReadStart, Reads, nowIndex
      <4>2. QED
        BY <1>2, <2>5, <4>1
    <3>3. d.lines = Append(ctx.lines, [first |-> 0, length |-> Unknown])
      BY <2>5 DEF line
    <3>4. d.state \in {"header", "chunkFooter"} /\ d \in Members /\ ctx.lines \in Seq(Piece)
      BY <2>5, MembersFacts
    <3>5. ~(0 > 0)
      OBVIOUS
    <3>6. QED
      BY <3>1, <3>2, <3>3, <3>4, <3>5, OpensLine
  <2>7. ChunksInv(d)
    BY <2>2, <2>5, MembersFacts, ChunksStay
  <2>8. QED
    BY <2>1, <2>5, <2>6, <2>7, MembersFacts DEF Keeps, MembersInv, nowIndex
<1>3. QED
  BY <1>1, <1>2 DEF ReadStart

\* The line feed at j completes the line.
LEMMA NextLineKeeps ==
    ASSUME MembersInv(ctx), NEW state \in {"header", "chunkFooter"}, NextLine(state)
    PROVE  Keeps
<1>1. PICK j : j = LineFeed
  OBVIOUS
<1>2. PICK d : d = ctx'
  OBVIOUS
<1> DEFINE line == [first |-> LastFirst, length |-> LengthAt(j)]
           next == [first |-> j, length |-> Unknown]
           lines == Append(Front(ctx.lines), line)
<1>3. ctx.state = state /\ ctx.lines # <<>>
  BY MembersFacts DEF NextLine, Reads, LinesInv
<1>4. LastFirst \in Nat
  <2>1. Last(ctx.lines) \in Piece
    BY <1>3, MembersFacts DEF Last
  <2>2. QED
    BY <2>1 DEF LastFirst, Piece
<1>5. j \in (ctx.index + 1)..nowIndex /\ LengthAt(j) > 0
  BY <1>1, MembersFacts, LineFeedIs DEF NextLine
<1>6. /\ j \in Nat /\ j \in 2..nowIndex /\ LengthAt(j) \in Nat /\ nowIndex \in Nat
      /\ LastFirst + LengthAt(j) + 2 = j
  BY <1>4, <1>5, MembersFacts DEF LengthAt, nowIndex
<1>7. line \in Piece /\ next \in Piece
  BY <1>4, <1>6, Widths DEF Piece
<1>8. /\ Front(ctx.lines) \in Seq(Piece) /\ Len(Front(ctx.lines)) = Len(ctx.lines) - 1
      /\ \A k \in 1..(Len(ctx.lines) - 1) : Front(ctx.lines)[k] = ctx.lines[k]
  BY <1>3, MembersFacts, FrontIs
<1>9. Front(ctx.lines) \o <<line>> = lines
  BY <1>7, <1>8, AppendIsConcat
<1>10. /\ lines \in Seq(Piece) /\ Len(lines) = Len(ctx.lines)
       /\ \A k \in 1..(Len(ctx.lines) - 1) : lines[k] = ctx.lines[k]
       /\ lines[Len(ctx.lines)] = line
  <2>1. PICK front \in Seq(Piece) : front = Front(ctx.lines)
    BY <1>8
  <2>2. PICK n \in Nat : n = Len(ctx.lines)
    BY MembersFacts
  <2>3. Len(front) = n - 1 /\ \A k \in 1..(n - 1) : front[k] = ctx.lines[k]
    BY <1>8, <2>1, <2>2
  <2>4. /\ lines \in Seq(Piece) /\ Len(lines) = Len(front) + 1
        /\ \A k \in 1..Len(front) : lines[k] = front[k]
        /\ lines[Len(front) + 1] = line
    BY <1>7, <2>1, AppendProperties
  <2>5. Len(front) + 1 = n
    BY <2>2, <2>3
  <2>6. QED
    BY <2>2, <2>3, <2>4, <2>5
<1>11. Append(lines, next) \in Seq(Piece)
  BY <1>7, <1>10, AppendProperties
<1>12. d = [Terminated(j) EXCEPT !.lines = Append(Front(@) \o <<line>>, next), !.index = j]
  BY <1>1, <1>2 DEF NextLine
<1> HIDE DEF lines
<1>13. /\ d \in Members /\ d.buf = Terminated(j).buf /\ d.index = j /\ d.lines = Append(lines, next)
       /\ d.headerSize = ctx.headerSize /\ d.chunks = ctx.chunks /\ d.state = state
  <2>1. /\ Terminated(j) \in Members /\ Terminated(j).lines = ctx.lines
        /\ Terminated(j).chunks = ctx.chunks /\ Terminated(j).headerSize = ctx.headerSize
        /\ Terminated(j).state = state
    BY <1>3, <1>6, MembersFacts, TerminatedIs
  <2>2. d = [Terminated(j) EXCEPT !.lines = Append(lines, next), !.index = j]
    BY <1>9, <1>12, <2>1
  <2> HIDE DEF next
  <2>3. QED
    BY <1>6, <1>11, <2>1, <2>2 DEF Members
<1>14. NulStays(ctx, d)
  <2>1. SUFFICES ASSUME NEW i \in 1..ctx.index, ctx.buf[i] = Nul PROVE d.buf[i] = Nul
    BY DEF NulStays
  <2>2. ctx.index \in Nat /\ ctx.index <= nowIndex /\ ctx \in Members
    BY MembersFacts DEF nowIndex
  <2>3. i \in 1..nowIndex /\ j \in 1..nowIndex
    BY <1>6, <2>2
  <2>4. Terminated(j).buf[i] = IF i \in {j - 1, j} THEN Nul ELSE ctx.buf[i]
    BY <2>2, <2>3, TerminatedIs
  <2>5. QED
    BY <1>13, <2>1, <2>4
<1>15. \A k \in 1..Len(lines) : Ended(d, lines[k])
  <2>1. ASSUME NEW k \in 1..(Len(ctx.lines) - 1) PROVE Ended(d, lines[k])
    <3>1. Ended(ctx, ctx.lines[k]) /\ ctx.lines[k] \in Piece /\ lines[k] = ctx.lines[k]
      BY <1>10, <2>1, MembersFacts, EndedLines
    <3>2. ctx.index <= d.index
      BY <1>5, <1>13, MembersFacts
    <3>3. QED
      BY <1>13, <1>14, <3>1, <3>2, MembersFacts, EndedStays
  <2>2. Ended(d, line)
    <3>1. j \in 1..nowIndex /\ j - 1 \in 1..nowIndex /\ d.buf[j - 1] = Nul
      BY <1>6, <1>13, MembersFacts, TerminatedIs
    <3>2. line.first + line.length + 1 = j - 1 /\ line.first + line.length + 2 = j
      BY <1>4, <1>6
    <3>3. QED
      BY <1>6, <1>13, <3>1, <3>2 DEF Ended
  <2>3. ASSUME NEW k \in 1..Len(lines)
        PROVE  k \in 1..(Len(ctx.lines) - 1) \/ k = Len(ctx.lines)
    BY <1>10, MembersFacts
  <2>4. QED
    BY <1>10, <2>1, <2>2, <2>3
<1>16. LinesInv(d) /\ OpenInv(d)
  <2>1. j \in 0..d.index /\ j > 0
    BY <1>6, <1>13
  <2>2. j \in 1..nowIndex /\ d.buf[j] = Nul
    BY <1>6, <1>13, MembersFacts, TerminatedIs
  <2>3. QED
    BY <1>3, <1>10, <1>13, <1>15, <2>1, <2>2, OpensLine
<1>17. ChunksInv(d)
  BY <1>3, <1>5, <1>13, MembersFacts, ChunksStay
<1>18. Len(d.buf) = nowIndex /\ d.index <= nowIndex /\ d.headerSize <= d.index
  BY <1>5, <1>6, <1>13, MembersFacts, TerminatedIs DEF nowIndex
<1>19. QED
  BY <1>2, <1>13, <1>16, <1>17, <1>18 DEF Keeps, MembersInv

\* The lines are complete in a state that reads none.
LEMMA NoneOpen ==
    ASSUME NEW c \in Members, \A k \in 1..Len(c.lines) : Ended(c, c.lines[k]),
           c.state \notin {"start", "header", "chunkFooter"}
    PROVE  LinesInv(c)
BY DEF LinesInv

\* The empty line at j is dropped, and the others are complete.
LEMMA ClosesLines ==
    ASSUME MembersInv(ctx), ctx.lines # <<>>, NEW j \in 2..nowIndex, ctx.index < j,
           NEW d \in Members, d.buf = Terminated(j).buf, d.index = j, d.lines = Front(ctx.lines)
    PROVE  \A k \in 1..Len(d.lines) : Ended(d, d.lines[k])
<1>1. /\ Len(Front(ctx.lines)) = Len(ctx.lines) - 1
      /\ \A k \in 1..(Len(ctx.lines) - 1) : Front(ctx.lines)[k] = ctx.lines[k]
  <2>1. ctx.lines \in Seq(Piece)
    BY MembersFacts
  <2>2. QED
    BY <2>1, FrontIs
<1>2. NulStays(ctx, d)
  BY MembersFacts, TerminatedIs DEF NulStays, nowIndex
<1>3. ASSUME NEW k \in 1..(Len(ctx.lines) - 1) PROVE Ended(d, ctx.lines[k])
  <2>1. Ended(ctx, ctx.lines[k]) /\ ctx.lines[k] \in Piece /\ ctx \in Members
    BY MembersFacts, EndedLines
  <2>2. ctx.index <= d.index
    BY MembersFacts
  <2>3. QED
    BY <1>2, <2>1, <2>2, EndedStays
<1>4. QED
  BY <1>1, <1>3

\* The headers are complete: their empty line is dropped and none is unfinished.
LEMMA EndHeaderKeeps ==
    ASSUME MembersInv(ctx), EndHeader
    PROVE  Keeps
<1>1. PICK j : j = LineFeed
  OBVIOUS
<1>2. PICK d : d = ctx'
  OBVIOUS
<1>3. PICK e : e = [Terminated(j) EXCEPT !.lines = Front(@), !.headerSize = j, !.index = j]
  OBVIOUS
<1>4. ctx.state = "header" /\ ctx.lines # <<>> /\ ctx.chunks = <<>>
  BY MembersFacts DEF EndHeader, Reads, LinesInv, ChunksInv
<1>5. j \in (ctx.index + 1)..nowIndex /\ LengthAt(j) = 0
  BY <1>1, MembersFacts, LineFeedIs DEF EndHeader
<1>6. j \in Nat /\ j \in 2..nowIndex /\ ctx.index < j /\ nowIndex \in Nat
  <2>1. Last(ctx.lines) \in Piece
    BY <1>4, MembersFacts DEF Last
  <2>2. LastFirst \in Nat
    BY <2>1 DEF LastFirst, Piece
  <2>3. QED
    BY <1>5, <2>2, MembersFacts DEF LengthAt, nowIndex
<1>7. Front(ctx.lines) \in Seq(Piece)
  BY <1>4, MembersFacts, FrontIs
<1>8. /\ e \in Members /\ e.buf = Terminated(j).buf /\ e.index = j /\ e.lines = Front(ctx.lines)
      /\ e.headerSize = j /\ e.chunks = <<>>
  <2>1. /\ Terminated(j) \in Members /\ Terminated(j).lines = ctx.lines
        /\ Terminated(j).chunks = ctx.chunks
    BY <1>6, MembersFacts, TerminatedIs
  <2>2. QED
    BY <1>3, <1>4, <1>6, <1>7, <2>1 DEF Members
<1>9. PICK f : f = Decoded(e)
  OBVIOUS
<1>10. /\ f \in Members /\ f.buf = e.buf /\ f.index = j /\ f.lines = e.lines
       /\ f.headerSize = j /\ f.chunks = <<>>
  BY <1>8, <1>9, DecodedSets DEF SamePlaces
<1>11. d = WithBodyState(f)
  BY <1>1, <1>2, <1>3, <1>9 DEF EndHeader
<1>12. /\ d \in Members /\ d.buf = f.buf /\ d.index = j /\ d.lines = f.lines
       /\ d.headerSize = j /\ d.chunks = <<>>
       /\ d.state \in {"chunkHeader", "body", "done"}
  <2>1. CASE f.chunked
    <3>1. d = [f EXCEPT !.state = "chunkHeader",
                        !.chunkSize = 0, !.sizeStart = FALSE, !.sizeDone = FALSE]
      BY <1>11, <2>1 DEF WithBodyState
    <3>2. QED
      BY <1>10, <3>1 DEF Members, State
  <2>2. CASE ~f.chunked
    <3>1. PICK q \in {"body", "done"} : q = IF f.contentLength > 0 THEN "body" ELSE "done"
      OBVIOUS
    <3>2. d = [f EXCEPT !.state = q]
      BY <1>11, <2>2, <3>1 DEF WithBodyState
    <3>3. QED
      BY <1>10, <3>1, <3>2 DEF Members, State
  <2>3. QED
    BY <2>1, <2>2
<1>13. LinesInv(d)
  <2>1. d.buf = Terminated(j).buf /\ d.lines = Front(ctx.lines)
    BY <1>8, <1>10, <1>12
  <2>2. \A k \in 1..Len(d.lines) : Ended(d, d.lines[k])
    BY <1>4, <1>6, <1>12, <2>1, ClosesLines
  <2>3. QED
    BY <1>12, <2>2, NoneOpen
<1>14. ChunksInv(d)
  BY <1>12 DEF ChunksInv
<1>15. Len(d.buf) = nowIndex /\ d.index <= nowIndex
  BY <1>6, <1>8, <1>10, <1>12, MembersFacts, TerminatedIs
<1>16. OpenInv(d)
  BY <1>6, <1>12 DEF OpenInv
<1>17. QED
  BY <1>2, <1>6, <1>12, <1>13, <1>14, <1>15, <1>16 DEF Keeps, MembersInv

\* The empty line after the footer is found.
LEMMA EndFooterKeeps ==
    ASSUME MembersInv(ctx), EndFooter
    PROVE  Keeps
<1>1. PICK j : j = LineFeed
  OBVIOUS
<1>2. PICK d : d = ctx'
  OBVIOUS
<1>3. ctx.state = "chunkFooter" /\ ctx.lines # <<>>
  BY MembersFacts DEF EndFooter, Reads, LinesInv
<1>4. j \in (ctx.index + 1)..nowIndex /\ LengthAt(j) = 0
  BY <1>1, MembersFacts, LineFeedIs DEF EndFooter
<1>5. j \in Nat /\ j \in 2..nowIndex /\ ctx.index < j /\ nowIndex \in Nat
  <2>1. Last(ctx.lines) \in Piece
    BY <1>3, MembersFacts DEF Last
  <2>2. LastFirst \in Nat
    BY <2>1 DEF LastFirst, Piece
  <2>3. QED
    BY <1>4, <2>2, MembersFacts DEF LengthAt, nowIndex
<1>6. Front(ctx.lines) \in Seq(Piece)
  BY <1>3, MembersFacts, FrontIs
<1>7. /\ d \in Members /\ d.buf = Terminated(j).buf /\ d.index = j /\ d.lines = Front(ctx.lines)
      /\ d.headerSize = ctx.headerSize /\ d.chunks = ctx.chunks /\ d.state = "done"
  <2>1. /\ Terminated(j) \in Members /\ Terminated(j).lines = ctx.lines
        /\ Terminated(j).chunks = ctx.chunks /\ Terminated(j).headerSize = ctx.headerSize
    BY <1>5, MembersFacts, TerminatedIs
  <2>2. d = [Terminated(j) EXCEPT !.lines = Front(@), !.index = j, !.state = "done"]
    BY <1>1, <1>2 DEF EndFooter
  <2>3. QED
    BY <1>5, <1>6, <2>1, <2>2 DEF Members, State
<1>8. LinesInv(d)
  <2>1. \A k \in 1..Len(d.lines) : Ended(d, d.lines[k])
    BY <1>3, <1>5, <1>7, ClosesLines
  <2>2. QED
    BY <1>7, <2>1, NoneOpen
<1>9. ChunksInv(d)
  BY <1>3, <1>5, <1>7, MembersFacts, ChunksStay
<1>10. Len(d.buf) = nowIndex /\ d.index <= nowIndex /\ d.headerSize <= d.index
  BY <1>5, <1>7, MembersFacts, TerminatedIs
<1>11. OpenInv(d)
  BY <1>7 DEF OpenInv
<1>12. QED
  BY <1>2, <1>7, <1>8, <1>9, <1>10, <1>11 DEF Keeps, MembersInv

\* A chunk, or a body, of n bytes from the index.
LEMMA AddsChunk ==
    ASSUME NEW c \in Members, ChunksInv(c), c.headerSize <= c.index, NEW d \in Members, NEW n \in Nat,
           d.chunks = Append(c.chunks, [first |-> c.index, length |-> n]),
           c.index <= d.index, d.headerSize = c.headerSize, d.state \notin {"start", "header"},
           n + 2 < Word => c.index + n <= d.index
    PROVE  ChunksInv(d)
<1> DEFINE chunk == [first |-> c.index, length |-> n]
<1>1. /\ c.chunks \in Seq(Piece) /\ c.index \in Nat /\ d.index \in Nat /\ c.headerSize \in Nat
  BY DEF Members
<1>2. chunk \in Piece
  BY <1>1 DEF Piece
<1>3. /\ Len(d.chunks) = Len(c.chunks) + 1 /\ Len(c.chunks) \in Nat
      /\ \A k \in 1..Len(c.chunks) : d.chunks[k] = c.chunks[k]
      /\ d.chunks[Len(c.chunks) + 1] = chunk
  BY <1>1, <1>2, AppendProperties
<1>4. ASSUME NEW k \in 1..Len(d.chunks)
      PROVE  /\ d.headerSize <= d.chunks[k].first /\ d.chunks[k].first <= d.index
             /\ d.chunks[k].length + 2 < Word =>
                   d.chunks[k].first + d.chunks[k].length <= d.index
  <2>1. CASE k \in 1..Len(c.chunks)
    <3>1. /\ c.headerSize <= c.chunks[k].first /\ c.chunks[k].first <= c.index
          /\ c.chunks[k].length + 2 < Word => c.chunks[k].first + c.chunks[k].length <= c.index
      BY <2>1 DEF ChunksInv
    <3>2. c.chunks[k] \in Piece
      BY <1>1, <2>1
    <3>3. c.chunks[k].first \in Nat /\ c.chunks[k].length \in Nat
      BY <3>2 DEF Piece
    <3>4. PICK f \in Nat, l \in Nat, u \in Nat, v \in Nat :
             f = c.chunks[k].first /\ l = c.chunks[k].length /\ u = c.index /\ v = d.index
      BY <1>1, <3>3
    <3>5. u <= v /\ f <= u /\ (l + 2 < Word => f + l <= u)
      BY <3>1, <3>4
    <3>6. f <= v /\ (l + 2 < Word => f + l <= v)
      BY <3>5
    <3>7. d.chunks[k] = c.chunks[k]
      BY <1>3, <2>1
    <3>8. QED
      BY <3>1, <3>4, <3>6, <3>7
  <2>2. CASE k = Len(c.chunks) + 1
    <3>1. d.chunks[k].first = c.index /\ d.chunks[k].length = n
      BY <1>3, <2>2
    <3>2. QED
      BY <1>1, <3>1
  <2>3. QED
    BY <1>3, <2>1, <2>2
<1>5. QED
  BY <1>4 DEF ChunksInv

\* The body is complete: one chunk that ends at the index.
LEMMA EndBodyKeeps ==
    ASSUME MembersInv(ctx), EndBody
    PROVE  Keeps
<1>1. PICK d : d = ctx'
  OBVIOUS
<1>2. PICK i \in Nat : i = ctx.index + ctx.contentLength
  BY MembersFacts
<1> DEFINE chunk == [first |-> ctx.index, length |-> ctx.contentLength]
<1>3. ctx.state = "body" /\ i \in ctx.index..nowIndex
  BY <1>2, MembersFacts DEF EndBody, Reads, nowIndex
<1>4. chunk \in Piece
  BY MembersFacts DEF Piece
<1>5. Append(ctx.chunks, chunk) \in Seq(Piece)
  BY <1>4, MembersFacts, AppendProperties
<1>6. d = [ctx EXCEPT !.chunks = Append(@, chunk), !.index = @ + ctx.contentLength,
                      !.state = "done"]
  BY <1>1 DEF EndBody
<1> HIDE DEF chunk
<1>7. /\ d \in Members /\ d.buf = ctx.buf /\ d.index = i /\ d.lines = ctx.lines
      /\ d.headerSize = ctx.headerSize /\ d.chunks = Append(ctx.chunks, chunk)
      /\ d.state = "done"
  <2>1. ctx \in Members
    BY MembersFacts
  <2>2. QED
    BY <1>2, <1>5, <1>6, <2>1 DEF Members, State
<1>8. LinesInv(d)
  <2>1. ctx.index <= d.index /\ NulStays(ctx, d)
    BY <1>3, <1>7, MembersFacts DEF NulStays
  <2>2. QED
    BY <1>3, <1>7, <2>1, MembersFacts, LinesStay
<1>9. ChunksInv(d)
  <2>1. ctx.index <= d.index /\ ctx.index + ctx.contentLength <= d.index
    BY <1>2, <1>3, <1>7, MembersFacts
  <2>2. QED
    BY <1>7, <2>1, MembersFacts, AddsChunk DEF chunk
<1>10. Len(d.buf) = nowIndex /\ d.index <= nowIndex /\ d.headerSize <= d.index
  BY <1>3, <1>7, MembersFacts DEF nowIndex
<1>11. OpenInv(d)
  BY <1>7 DEF OpenInv
<1>12. QED
  BY <1>1, <1>7, <1>8, <1>9, <1>10, <1>11 DEF Keeps, MembersInv

\* A chunk whose length wrapped moves the index too, but never past the data.
LEMMA EndChunkKeeps ==
    ASSUME MembersInv(ctx), EndChunk
    PROVE  Keeps
<1>1. PICK d : d = ctx'
  OBVIOUS
<1>2. ChunkLength \in Nat /\ (ctx.chunkSize + 2 < Word => ChunkLength = ctx.chunkSize + 2)
  <2>1. ctx.chunkSize + 2 \in Nat
    BY MembersFacts
  <2>2. QED
    BY <2>1, Widths DEF ChunkLength
<1>3. PICK i \in Nat : i = ctx.index + ChunkLength
  BY <1>2, MembersFacts
<1> DEFINE chunk == [first |-> ctx.index, length |-> ctx.chunkSize]
<1>4. ctx.state = "chunkBody" /\ i \in ctx.index..nowIndex
  BY <1>2, <1>3, MembersFacts DEF EndChunk, Reads, nowIndex
<1>5. chunk \in Piece
  BY MembersFacts DEF Piece
<1>6. Append(ctx.chunks, chunk) \in Seq(Piece)
  BY <1>5, MembersFacts, AppendProperties
<1>7. d = [ctx EXCEPT !.chunks = Append(@, chunk), !.index = @ + ChunkLength,
                      !.state = "chunkHeader",
                      !.chunkSize = 0, !.sizeStart = FALSE, !.sizeDone = FALSE]
  BY <1>1 DEF EndChunk
<1> HIDE DEF chunk
<1>8. /\ d \in Members /\ d.buf = ctx.buf /\ d.index = i /\ d.lines = ctx.lines
      /\ d.headerSize = ctx.headerSize /\ d.chunks = Append(ctx.chunks, chunk)
      /\ d.state = "chunkHeader"
  <2>1. ctx \in Members
    BY MembersFacts
  <2>2. QED
    BY <1>3, <1>6, <1>7, <2>1 DEF Members, State
<1>9. LinesInv(d)
  <2>1. ctx.index <= d.index /\ NulStays(ctx, d)
    BY <1>4, <1>8, MembersFacts DEF NulStays
  <2>2. QED
    BY <1>4, <1>8, <2>1, MembersFacts, LinesStay
<1>10. ChunksInv(d)
  <2>1. ctx.index <= d.index /\ (ctx.chunkSize + 2 < Word => ctx.index + ctx.chunkSize <= d.index)
    <3>1. PICK u \in Nat, n \in Nat, m \in Nat :
             u = ctx.index /\ n = ctx.chunkSize /\ m = ChunkLength
      BY <1>2, MembersFacts
    <3>2. i = u + m
      BY <1>3, <3>1
    <3>3. n + 2 < Word => m = n + 2
      BY <1>2, <3>1
    <3>4. u <= i /\ (m = n + 2 => u + n <= i)
      BY <3>2
    <3>5. QED
      BY <1>8, <3>1, <3>3, <3>4
  <2>2. QED
    BY <1>8, <2>1, MembersFacts, AddsChunk DEF chunk
<1>11. Len(d.buf) = nowIndex /\ d.index <= nowIndex /\ d.headerSize <= d.index
  BY <1>4, <1>8, MembersFacts DEF nowIndex
<1>12. OpenInv(d)
  <2>1. ctx.index > 0 /\ ctx.index <= d.index
    BY <1>4, <1>8, MembersFacts DEF OpenInv
  <2>2. d.index > 0
    BY <1>3, <1>8, <2>1, MembersFacts
  <2>3. QED
    BY <1>8, <2>2 DEF OpenInv
<1>13. QED
  BY <1>1, <1>8, <1>9, <1>10, <1>11, <1>12 DEF Keeps, MembersInv

\* A size that goes on in the next read.
LEMMA SizeGoesOnKeeps ==
    ASSUME MembersInv(ctx), SizeGoesOn
    PROVE  Keeps
<1>1. PICK d : d = ctx'
  OBVIOUS
<1>2. PICK bytes : bytes = SubSeq(ctx.buf, ctx.index + 1, nowIndex)
  OBVIOUS
<1>3. bytes \in Seq(Char)
  <2>1. /\ ctx.index + 1 \in Int /\ nowIndex \in Int
        /\ \A i \in (ctx.index + 1)..nowIndex : ctx.buf[i] \in Char
    BY MembersFacts DEF nowIndex
  <2>2. QED
    BY <1>2, <2>1, SubSeqProperties
<1>4. PICK f : f = Scanned(ctx, bytes)
  OBVIOUS
<1>5. /\ f \in Members /\ f.buf = ctx.buf /\ f.state = ctx.state /\ f.lines = ctx.lines
      /\ f.headerSize = ctx.headerSize /\ f.chunks = ctx.chunks
  BY <1>3, <1>4, MembersFacts, ScannedSets DEF SamePlaces
<1>6. d = [f EXCEPT !.index = nowIndex] /\ ctx.state = "chunkHeader"
  BY <1>1, <1>2, <1>4 DEF SizeGoesOn, Reads
<1>7. nowIndex \in Nat /\ ctx.index <= nowIndex /\ nowIndex = Len(ctx.buf)
  BY MembersFacts DEF nowIndex
<1>8. /\ d \in Members /\ d.buf = ctx.buf /\ d.index = nowIndex /\ d.lines = ctx.lines
      /\ d.headerSize = ctx.headerSize /\ d.chunks = ctx.chunks /\ d.state = ctx.state
  BY <1>5, <1>6, <1>7 DEF Members
<1>9. LinesInv(d)
  <2>1. ctx.index <= d.index /\ NulStays(ctx, d)
    BY <1>7, <1>8 DEF NulStays
  <2>2. QED
    BY <1>6, <1>8, <2>1, MembersFacts, LinesStay
<1>10. ChunksInv(d)
  BY <1>7, <1>8, MembersFacts, ChunksStay
<1>11. d.headerSize <= d.index
  BY <1>7, <1>8, MembersFacts
<1>12. OpenInv(d)
  <2>1. ctx.index > 0
    BY <1>6, MembersFacts DEF OpenInv
  <2>2. d.index > 0
    BY <1>7, <1>8, <2>1, MembersFacts
  <2>3. QED
    BY <1>6, <1>8, <2>2 DEF OpenInv
<1>13. QED
  BY <1>1, <1>7, <1>8, <1>9, <1>10, <1>11, <1>12 DEF Keeps, MembersInv

\* The size is complete: a chunk follows, or a line of the footer is opened.
LEMMA EndSizeKeeps ==
    ASSUME MembersInv(ctx), EndSize
    PROVE  Keeps
<1>1. PICK j : j = LineFeed
  OBVIOUS
<1>2. PICK d : d = ctx'
  OBVIOUS
<1>3. PICK e : e = Terminated(j)
  OBVIOUS
<1>4. PICK bytes : bytes = SubSeq(ctx.buf, ctx.index + 1, j - 1)
  OBVIOUS
<1>5. PICK f : f = Scanned(e, bytes)
  OBVIOUS
<1> DEFINE next == [first |-> j, length |-> Unknown]
<1>6. ctx.state = "chunkHeader" /\ j \in (ctx.index + 1)..nowIndex /\ nowIndex = Len(ctx.buf)
  BY <1>1, MembersFacts, LineFeedIs DEF EndSize, Reads, nowIndex
<1>7. j \in Nat /\ j \in 1..nowIndex /\ ctx.index < j /\ nowIndex \in Nat
  BY <1>6, MembersFacts
<1>8. bytes \in Seq(Char)
  <2>1. /\ ctx.index + 1 \in Int /\ j - 1 \in Int
        /\ \A i \in (ctx.index + 1)..(j - 1) : ctx.buf[i] \in Char
    BY <1>6, <1>7, MembersFacts
  <2>2. QED
    BY <1>4, <2>1, SubSeqProperties
<1>9. /\ f \in Members /\ f.buf = Terminated(j).buf /\ f.lines = ctx.lines
      /\ f.headerSize = ctx.headerSize /\ f.chunks = ctx.chunks
  <2>1. /\ e \in Members /\ e.lines = ctx.lines /\ e.chunks = ctx.chunks
        /\ e.headerSize = ctx.headerSize
    BY <1>3, <1>7, MembersFacts, TerminatedIs
  <2>2. f \in SamePlaces(e)
    BY <1>5, <1>8, <2>1, ScannedSets
  <2>3. QED
    BY <1>3, <2>1, <2>2 DEF SamePlaces
<1>10. next \in Piece
  BY <1>7, Widths DEF Piece
<1>11. Append(ctx.lines, next) \in Seq(Piece)
  BY <1>10, MembersFacts, AppendProperties
<1>12. d = IF f.chunkSize > 0
           THEN [f EXCEPT !.index = j, !.state = "chunkBody"]
           ELSE [f EXCEPT !.index = j, !.state = "chunkFooter", !.lines = Append(@, next)]
  BY <1>1, <1>2, <1>3, <1>4, <1>5 DEF EndSize
<1> HIDE DEF next
<1>13. /\ d \in Members /\ d.buf = Terminated(j).buf /\ d.index = j
       /\ d.headerSize = ctx.headerSize /\ d.chunks = ctx.chunks
       /\ \/ d.lines = ctx.lines /\ d.state = "chunkBody"
          \/ d.lines = Append(ctx.lines, next) /\ d.state = "chunkFooter"
  <2>1. CASE f.chunkSize > 0
    <3>1. d = [f EXCEPT !.index = j, !.state = "chunkBody"]
      BY <1>12, <2>1
    <3>2. QED
      BY <1>7, <1>9, <3>1 DEF Members, State
  <2>2. CASE ~(f.chunkSize > 0)
    <3>1. d = [f EXCEPT !.index = j, !.state = "chunkFooter", !.lines = Append(ctx.lines, next)]
      BY <1>9, <1>12, <2>2
    <3>2. QED
      BY <1>7, <1>9, <1>11, <3>1 DEF Members, State
  <2>3. QED
    BY <2>1, <2>2
<1>14. ctx.index <= d.index /\ NulStays(ctx, d)
  <2>1. \A i \in 1..ctx.index : i \in 1..nowIndex
    BY <1>6, <1>7, MembersFacts
  <2>2. \A i \in 1..nowIndex : d.buf[i] = IF i \in {j - 1, j} THEN Nul ELSE ctx.buf[i]
    BY <1>7, <1>13, MembersFacts, TerminatedIs
  <2>3. ASSUME NEW i \in 1..ctx.index, ctx.buf[i] = Nul PROVE d.buf[i] = Nul
    <3>1. i \in 1..nowIndex
      BY <2>1
    <3>2. QED
      BY <2>2, <2>3, <3>1
  <2>4. ctx.index <= d.index
    BY <1>7, <1>13, MembersFacts
  <2>5. QED
    BY <2>3, <2>4 DEF NulStays
<1>15. LinesInv(d) /\ OpenInv(d)
  <2>1. CASE d.lines = ctx.lines /\ d.state = "chunkBody"
    <3>1. LinesInv(d)
      BY <1>6, <1>13, <1>14, <2>1, MembersFacts, LinesStay
    <3>2. d.index > 0
      BY <1>7, <1>13
    <3>3. QED
      BY <2>1, <3>1, <3>2 DEF OpenInv
  <2>2. CASE d.lines = Append(ctx.lines, next) /\ d.state = "chunkFooter"
    <3>1. ASSUME NEW k \in 1..Len(ctx.lines) PROVE Ended(d, ctx.lines[k])
      <4>1. Ended(ctx, ctx.lines[k]) /\ ctx.lines[k] \in Piece /\ ctx \in Members
        BY <1>6, <3>1, MembersFacts, EndedLines
      <4>2. QED
        BY <1>13, <1>14, <4>1, EndedStays
    <3>2. j \in 0..d.index /\ j > 0
      BY <1>7, <1>13
    <3>3. j \in 1..nowIndex /\ d.buf[j] = Nul
      BY <1>7, <1>13, MembersFacts, TerminatedIs
    <3>4. d \in Members /\ ctx.lines \in Seq(Piece)
      BY <1>13, MembersFacts
    <3>5. d.lines = Append(ctx.lines, [first |-> j, length |-> Unknown])
      BY <2>2 DEF next
    <3>6. d.state = "chunkFooter"
      BY <2>2
    <3>7. j = 0 => d.buf # <<>> /\ d.buf[1] # LF
      BY <1>7
    <3>8. QED
      BY <3>1, <3>2, <3>3, <3>4, <3>5, <3>6, <3>7, OpensLine
  <2>3. QED
    BY <1>13, <2>1, <2>2
<1>16. ChunksInv(d)
  BY <1>13, <1>14, MembersFacts, ChunksStay
<1>17. Len(d.buf) = nowIndex /\ d.index <= nowIndex /\ d.headerSize <= d.index
  BY <1>7, <1>13, MembersFacts, TerminatedIs
<1>18. QED
  BY <1>2, <1>13, <1>15, <1>16, <1>17 DEF Keeps, MembersInv

-----------------------------------------------------------------------------
(* The invariant.                                                           *)

\* The limit is no smaller than the first size.
LEMMA LimitIs == Limit \in Nat /\ Initial <= Limit /\ Initial \in Nat \ {0} /\ Margin \in Nat \ {0}
BY BufferAssumption DEF Limit

\* NewContext with some bytes begins a request.
LEMMA NewContextInv ==
    ASSUME NEW bytes \in Seq(Char)
    PROVE  MembersInv([NewContext EXCEPT !.buf = bytes])
<1> DEFINE d == [NewContext EXCEPT !.buf = bytes]
<1>1. /\ d \in Members /\ d.buf = bytes /\ d.index = 0 /\ d.state = "start" /\ d.lines = <<>>
      /\ d.headerSize = 0 /\ d.chunks = <<>>
  <2>1. <<>> \in Seq(Piece)
    OBVIOUS
  <2>2. QED
    BY <2>1 DEF NewContext, Members, State
<1> HIDE DEF d
<1>2. LinesInv(d) /\ ChunksInv(d) /\ OpenInv(d)
  BY <1>1 DEF LinesInv, ChunksInv, OpenInv
<1>3. Len(bytes) \in Nat
  OBVIOUS
<1>4. MembersInv(d)
  BY <1>1, <1>2, <1>3 DEF MembersInv
<1>5. QED
  BY <1>4 DEF d

\* Before anything is received.
LEMMA ContextInitInv == ContextInit => ContextInv
<1> SUFFICES ASSUME ContextInit PROVE ContextInv
  OBVIOUS
<1>1. start \in Seq(STRING) /\ got \in Seq(STRING) /\ taken \in Seq(Members)
  BY BufferAssumption DEF ContextInit
<1>2. MembersInv(ctx)
  <2>1. <<>> \in Seq(Char) /\ NewContext = [NewContext EXCEPT !.buf = <<>>]
    BY DEF NewContext
  <2>2. MembersInv([NewContext EXCEPT !.buf = <<>>])
    BY <2>1, NewContextInv
  <2>3. QED
    BY <2>1, <2>2 DEF ContextInit
<1>3. nowIndex = 0
  BY DEF ContextInit, NewContext, nowIndex
<1>4. SizeInv
  BY <1>3, LimitIs DEF SizeInv, ContextInit
<1>5. QED
  BY <1>1, <1>2, <1>4 DEF ContextInv, ContextInit

\* A turn of analysis() does not touch what is around the context.
LEMMA TurnInv ==
    ASSUME ContextInv, Stay, Keeps
    PROVE  ContextInv'
<1>1. nowIndex' = nowIndex
  BY DEF Keeps, nowIndex
<1>2. SizeInv'
  BY <1>1 DEF SizeInv, Stay, ContextInv, Limit
<1>3. QED
  BY <1>2 DEF ContextInv, Stay, Keeps

\* Each turn of analysis().
LEMMA AnalysisInv == ContextInv /\ Analysis => ContextInv'
<1> SUFFICES ASSUME ContextInv, Analysis PROVE ContextInv'
  OBVIOUS
<1>1. MembersInv(ctx)
  BY DEF ContextInv
<1>2. CASE Decided \/ NeedsMore \/ BodyGoesOn \/ ChunkGoesOn
  <2>1. ctx' = ctx /\ taken' = taken /\ start' = start /\ got' = got /\ capacity' = capacity
        /\ stage' \in {"verdict", "reading"}
    BY <1>2 DEF Decided, NeedsMore, BodyGoesOn, ChunkGoesOn
  <2>2. nowIndex' = nowIndex
    BY <2>1 DEF nowIndex
  <2>3. QED
    BY <2>1, <2>2 DEF ContextInv, SizeInv
<1>3. CASE ReadStart
  <2>1. Keeps
    BY <1>1, <1>3, ReadStartKeeps
  <2>2. Stay
    BY <1>3 DEF ReadStart, Malform
  <2>3. QED
    BY <2>1, <2>2, TurnInv
<1>4. CASE \E state \in {"header", "chunkFooter"} : LineGoesOn(state) \/ NextLine(state)
  <2>1. PICK state \in {"header", "chunkFooter"} : LineGoesOn(state) \/ NextLine(state)
    BY <1>4
  <2>2. Keeps
    BY <1>1, <2>1, LineGoesOnKeeps, NextLineKeeps
  <2>3. Stay
    BY <2>1 DEF LineGoesOn, NextLine
  <2>4. QED
    BY <2>2, <2>3, TurnInv
<1>5. CASE \E state \in {"header", "chunkHeader", "chunkFooter"} : BareLineFeed(state)
  <2>1. Malform
    BY <1>5 DEF BareLineFeed
  <2>2. Keeps /\ Stay
    BY <1>1, <2>1, MalformKeeps DEF Malform
  <2>3. QED
    BY <2>2, TurnInv
<1>6. CASE EndHeader
  BY <1>1, <1>6, EndHeaderKeeps, TurnInv DEF EndHeader
<1>7. CASE EndBody
  BY <1>1, <1>7, EndBodyKeeps, TurnInv DEF EndBody
<1>8. CASE SizeGoesOn
  BY <1>1, <1>8, SizeGoesOnKeeps, TurnInv DEF SizeGoesOn
<1>9. CASE EndSize
  BY <1>1, <1>9, EndSizeKeeps, TurnInv DEF EndSize
<1>10. CASE EndChunk
  BY <1>1, <1>10, EndChunkKeeps, TurnInv DEF EndChunk
<1>11. CASE EndFooter
  BY <1>1, <1>11, EndFooterKeeps, TurnInv DEF EndFooter
<1>12. QED
  BY <1>2, <1>3, <1>4, <1>5, <1>6, <1>7, <1>8, <1>9, <1>10, <1>11 DEF Analysis

\* What is read fits behind what is there.
LEMMA ArrivingFits ==
    ASSUME start \in Seq(STRING), got \in Seq(STRING), NEW room, NEW input \in Arriving(room)
    PROVE  input \in Seq(STRING) /\ Len(input) \in 1..room
<1> DEFINE ahead == SubSeq(start, Len(got) + 1, Len(start))
<1>1. ahead \in Seq(STRING)
  <2>1. /\ Len(got) + 1 \in Int /\ Len(start) \in Int
        /\ \A i \in (Len(got) + 1)..Len(start) : start[i] \in STRING
    <3>1. Len(got) \in Nat /\ Len(start) \in Nat
      OBVIOUS
    <3>2. QED
      BY <3>1
  <2>2. QED
    BY <2>1, SubSeqProperties
<1> HIDE DEF ahead
<1>2. Len(input) \in 1..room
  BY DEF Arriving
<1>3. \/ \E k \in 1..Len(ahead) : input = SubSeq(ahead, 1, k)
      \/ \E more \in Seq(STRING) : input = ahead \o more
  <2>1. ASSUME NEW n \in Int, NEW more \in BoundedSeq(Byte, n) PROVE more \in Seq(STRING)
    <3>1. PICK m \in 0..n : more \in [1..m -> Byte]
      BY DEF BoundedSeq, SeqOf
    <3>2. m \in Nat
      OBVIOUS
    <3>3. Byte \subseteq STRING
      BY BufferAssumption
    <3>4. more \in [1..m -> STRING]
      BY <3>1, <3>3
    <3>5. QED
      BY <3>2, <3>4
  <2>2. (Len(start) + MaxMore - Len(got)) - Len(ahead) \in Int
    BY <1>1, BufferAssumption
  <2>3. input \in {SubSeq(ahead, 1, k) : k \in 1..Len(ahead)}
                 \cup {ahead \o more :
                          more \in BoundedSeq(Byte, (Len(start) + MaxMore - Len(got)) - Len(ahead))}
    BY DEF Arriving, ahead
  <2>4. QED
    BY <2>1, <2>2, <2>3
<1>4. CASE \E k \in 1..Len(ahead) : input = SubSeq(ahead, 1, k)
  <2>1. PICK k \in 1..Len(ahead) : input = SubSeq(ahead, 1, k)
    BY <1>4
  <2>2. \A i \in 1..k : ahead[i] \in STRING
    BY <1>1
  <2>3. QED
    BY <1>2, <2>1, <2>2, SubSeqProperties
<1>5. CASE \E more \in Seq(STRING) : input = ahead \o more
  BY <1>1, <1>2, <1>5, ConcatProperties
<1>6. QED
  BY <1>3, <1>4, <1>5

\* The size that prepareBuffer leaves: no smaller, within the limit, and without room
\* only at the limit.
LEMMA PreparedIs ==
    ASSUME SizeInv, nowIndex \in Nat
    PROVE  /\ Prepared \in Nat \ {0} /\ Prepared <= Limit /\ nowIndex <= Prepared
           /\ Prepared = nowIndex => nowIndex = Limit
<1>1. CASE capacity - nowIndex >= Margin
  BY <1>1, LimitIs DEF SizeInv, Prepared
<1>2. CASE ~(capacity - nowIndex >= Margin) /\ capacity * 2 > Limit
  BY <1>2, LimitIs DEF SizeInv, Prepared
<1>3. CASE ~(capacity - nowIndex >= Margin) /\ ~(capacity * 2 > Limit)
  BY <1>3, LimitIs DEF SizeInv, Prepared
<1>4. QED
  BY <1>1, <1>2, <1>3

\* A read: the data grows within the buffer, and nothing that is recorded moves.
LEMMA ReceiveInv == ContextInv /\ Receive => ContextInv'
<1> SUFFICES ASSUME ContextInv, Receive PROVE ContextInv'
  OBVIOUS
<1>1. /\ MembersInv(ctx) /\ SizeInv /\ nowIndex \in Nat /\ nowIndex = Len(ctx.buf)
      /\ start \in Seq(STRING) /\ got \in Seq(STRING)
  BY MembersFacts DEF ContextInv, nowIndex
<1>2. PICK input \in Arriving(Prepared - nowIndex) :
         got' = got \o input /\ ctx' = [ctx EXCEPT !.buf = @ \o input]
  BY DEF Receive
<1>3. input \in Seq(STRING) /\ Len(input) \in 1..(Prepared - nowIndex)
  BY <1>1, ArrivingFits
<1>4. input \in Seq(Char)
  BY <1>3, SeqMonotonic DEF Char
<1>5. PICK d : d = ctx'
  OBVIOUS
<1>6. /\ ctx.buf \o input \in Seq(Char) /\ Len(ctx.buf \o input) = nowIndex + Len(input)
      /\ \A i \in 1..nowIndex : (ctx.buf \o input)[i] = ctx.buf[i]
  BY <1>1, <1>4, MembersFacts, ConcatProperties
<1>7. /\ d \in Members /\ d.buf = ctx.buf \o input /\ d.index = ctx.index /\ d.lines = ctx.lines
      /\ d.headerSize = ctx.headerSize /\ d.chunks = ctx.chunks /\ d.state = ctx.state
  <2>1. ctx \in Members
    BY <1>1, MembersFacts
  <2>2. QED
    BY <1>2, <1>5, <1>6, <2>1 DEF Members
<1>8. LinesInv(d)
  <2>1. \A i \in 1..ctx.index : i \in 1..nowIndex
    BY <1>1, MembersFacts
  <2>2. ctx.index <= d.index /\ NulStays(ctx, d)
    BY <1>1, <1>6, <1>7, <2>1, MembersFacts DEF NulStays
  <2>3. QED
    BY <1>1, <1>7, <2>2, MembersFacts, LinesStay
<1>9. ChunksInv(d)
  <2>1. ctx \in Members /\ ChunksInv(ctx) /\ ctx.index <= d.index
    BY <1>1, <1>7, MembersFacts
  <2>2. QED
    BY <1>7, <2>1, ChunksStay
<1>10. Len(d.buf) = nowIndex + Len(input) /\ d.index <= Len(d.buf) /\ d.headerSize <= d.index
  BY <1>1, <1>3, <1>6, <1>7, MembersFacts
<1>11. MembersInv(ctx')
  <2>1. \A i \in 1..ctx.index : i \in 1..nowIndex
    BY <1>1, MembersFacts
  <2>2. ctx.index <= d.index /\ NulStays(ctx, d)
    BY <1>1, <1>6, <1>7, <2>1, MembersFacts DEF NulStays
  <2>3. ASSUME ctx.buf # <<>> PROVE d.buf # <<>> /\ d.buf[1] = ctx.buf[1]
    <3>1. 1 \in 1..nowIndex
      BY <1>1, <2>3, MembersFacts
    <3>2. QED
      BY <1>1, <1>3, <1>6, <1>7, <3>1
  <2>4. OpenInv(d)
    BY <1>1, <1>7, <2>2, <2>3, MembersFacts, OpenStays
  <2>5. QED
    BY <1>5, <1>7, <1>8, <1>9, <1>10, <2>4 DEF MembersInv
<1>12. SizeInv'
  <2>1. nowIndex' = nowIndex + Len(input)
    BY <1>5, <1>10 DEF nowIndex
  <2>2. capacity' = Prepared /\ stage' = "analysis"
    BY DEF Receive
  <2>3. /\ Prepared \in Nat \ {0} /\ Prepared <= Limit /\ nowIndex + Len(input) <= Prepared
    BY <1>1, <1>3, PreparedIs
  <2>4. QED
    BY <2>1, <2>2, <2>3 DEF SizeInv, Limit
<1>13. got' \in Seq(STRING)
  BY <1>1, <1>2, <1>3, ConcatProperties
<1>14. QED
  BY <1>11, <1>12, <1>13 DEF ContextInv, Receive

\* A read for which there is no room.
LEMMA RefuseInv == ContextInv /\ Refuse => ContextInv'
<1> SUFFICES ASSUME ContextInv, Refuse PROVE ContextInv'
  OBVIOUS
<1>1. SizeInv /\ nowIndex \in Nat
  BY MembersFacts DEF ContextInv, nowIndex
<1>2. /\ Prepared \in Nat \ {0} /\ Prepared <= Limit /\ nowIndex <= Prepared
      /\ nowIndex = Limit
  BY <1>1, PreparedIs DEF Refuse
<1>3. nowIndex' = nowIndex /\ capacity' = Prepared
  BY DEF Refuse, nowIndex
<1>4. SizeInv'
  BY <1>2, <1>3 DEF SizeInv, Limit
<1>5. QED
  BY <1>4 DEF ContextInv, Refuse

\* What is handed out has its lines and chunks in the data handed out with it.
LEMMA ReinitForNextInv == ContextInv /\ ReinitForNext => ContextInv'
<1> SUFFICES ASSUME ContextInv, ReinitForNext PROVE ContextInv'
  OBVIOUS
<1> DEFINE c == ctx
           former == [c EXCEPT !.buf = SubSeq(@, 1, c.index), !.chunkSize = 0,
                               !.sizeStart = FALSE, !.sizeDone = FALSE]
           rest == SubSeq(c.buf, c.index + 1, Len(c.buf))
<1>1. /\ MembersInv(c) /\ SizeInv /\ nowIndex \in Nat /\ nowIndex = Len(c.buf)
      /\ taken \in Seq(Members) /\ c.state = "done"
  BY MembersFacts DEF ContextInv, nowIndex, ReinitForNext
<1>2. /\ c \in Members /\ c.index \in Nat /\ c.index <= Len(c.buf) /\ c.buf \in Seq(Char)
      /\ Len(c.buf) \in Nat
  BY <1>1, MembersFacts
<1>3. /\ SubSeq(c.buf, 1, c.index) \in Seq(Char) /\ Len(SubSeq(c.buf, 1, c.index)) = c.index
      /\ \A i \in 1..c.index : SubSeq(c.buf, 1, c.index)[i] = c.buf[i]
  <2>1. \A i \in 1..c.index : c.buf[i] \in Char
    BY <1>2
  <2>2. QED
    BY <1>2, <2>1, SubSeqProperties
<1>4. rest \in Seq(Char) /\ Len(rest) <= nowIndex
  <2>1. \A i \in (c.index + 1)..Len(c.buf) : c.buf[i] \in Char
    BY <1>2
  <2>2. rest \in Seq(Char) /\ Len(rest) = IF c.index + 1 <= Len(c.buf) THEN Len(c.buf) - c.index ELSE 0
    BY <1>2, <2>1, SubSeqProperties
  <2>3. QED
    BY <1>1, <1>2, <2>2
<1>5. /\ taken' = Append(taken, former)
      /\ ctx' = [NewContext EXCEPT !.buf = rest]
  BY DEF ReinitForNext, Reinitialised, nowIndex
<1>6. MembersInv(former)
  <2>1. PICK d : d = former
    OBVIOUS
  <2> HIDE DEF c
  <2>2. /\ d \in Members /\ d.buf = SubSeq(c.buf, 1, c.index) /\ d.index = c.index
        /\ d.lines = c.lines /\ d.headerSize = c.headerSize /\ d.chunks = c.chunks
        /\ d.state = c.state
    BY <1>2, <1>3, <2>1 DEF Members
  <2>3. LinesInv(d)
    <3>1. c.index <= d.index /\ NulStays(c, d)
      BY <1>2, <1>3, <2>2 DEF NulStays
    <3>2. QED
      BY <1>1, <2>2, <3>1, MembersFacts, LinesStay
  <2>4. ChunksInv(d)
    BY <1>1, <1>2, <2>2, MembersFacts, ChunksStay
  <2>5. d.index <= Len(d.buf) /\ d.headerSize <= d.index
    BY <1>1, <1>2, <1>3, <2>2, MembersFacts
  <2>6. OpenInv(d)
    BY <1>1, <2>2 DEF OpenInv
  <2>7. QED
    BY <2>1, <2>2, <2>3, <2>4, <2>5, <2>6 DEF MembersInv
<1> HIDE DEF former, c
<1>7. MembersInv(ctx')
  BY <1>4, <1>5, NewContextInv
<1>8. /\ taken' \in Seq(Members)
      /\ \A k \in 1..Len(taken') : MembersInv(taken'[k])
  <2>1. former \in Members
    BY <1>6, MembersFacts
  <2>2. /\ Append(taken, former) \in Seq(Members)
        /\ Len(Append(taken, former)) = Len(taken) + 1
        /\ \A k \in 1..Len(taken) : Append(taken, former)[k] = taken[k]
        /\ Append(taken, former)[Len(taken) + 1] = former
    BY <1>1, <2>1, AppendProperties
  <2>3. \A k \in 1..Len(taken) : MembersInv(taken[k])
    BY DEF ContextInv
  <2>4. Len(taken) \in Nat
    BY <1>1
  <2>5. QED
    BY <1>5, <1>6, <2>2, <2>3, <2>4
<1>9. SizeInv'
  <2>1. nowIndex' = Len(rest)
    <3>1. ctx'.buf = rest
      BY <1>5 DEF NewContext
    <3>2. QED
      BY <3>1 DEF nowIndex
  <2>2. capacity' = capacity /\ stage' = "analysis"
    BY DEF ReinitForNext
  <2>3. Len(rest) <= capacity
    BY <1>1, <1>4 DEF SizeInv
  <2>4. QED
    BY <1>1, <2>1, <2>2, <2>3 DEF SizeInv, Limit
<1>10. QED
  BY <1>7, <1>8, <1>9 DEF ContextInv, ReinitForNext

\* Every step.
LEMMA ContextNextInv == ContextInv /\ [ContextNext]_contextVars => ContextInv'
<1> SUFFICES ASSUME ContextInv, [ContextNext]_contextVars PROVE ContextInv'
  OBVIOUS
<1>1. CASE CloseConnection \/ UNCHANGED contextVars
  <2>1. ctx' = ctx /\ taken' = taken /\ start' = start /\ got' = got /\ capacity' = capacity
        /\ stage' \in {"reading", stage}
    BY <1>1 DEF CloseConnection, contextVars
  <2>2. nowIndex' = nowIndex
    BY <2>1 DEF nowIndex
  <2>3. QED
    BY <2>1, <2>2 DEF ContextInv, SizeInv, Limit
<1>2. QED
  BY <1>1, AnalysisInv, ReceiveInv, RefuseInv, ReinitForNextInv DEF ContextNext

\* Whatever the input and wherever its reads stop: analysis() and reinitForNext keep
\* every line complete up to the one that is being read, that one open inside the
\* data, the chunks behind the headers, and the data inside the buffer.
THEOREM ParserInvariant == ContextSpec => []ContextInv
BY ContextInitInv, ContextNextInv, PTL DEF ContextSpec

\* Of one context.
LEMMA RecordedOne ==
    ASSUME NEW c, MembersInv(c), ~Wrapped(c)
    PROVE  IsRecorded(c)
<1>1. c.index \in 0..Len(c.buf) /\ c.headerSize \in 0..c.index
  BY MembersFacts
<1>2. ASSUME NEW k \in 1..Len(c.lines)
      PROVE  \/ /\ c.lines[k].first + c.lines[k].length + 2 <= c.index
                /\ c.buf[c.lines[k].first + c.lines[k].length + 1] = Nul
             \/ k = Len(c.lines) /\ c.lines[k].length = Unknown
                   /\ c.lines[k].first <= c.index /\ c.state \in {"header", "chunkFooter", "bad"}
  BY MembersFacts DEF LinesInv, Ended, Unfinished
<1>3. ASSUME NEW k \in 1..Len(c.chunks)
      PROVE  /\ c.chunks[k].first \in c.headerSize..c.index
             /\ c.chunks[k].first + c.chunks[k].length <= c.index
  <2>1. c.chunks[k] \in Piece
    BY MembersFacts
  <2>2. c.chunks[k].first \in Nat /\ c.chunks[k].length \in Nat
    BY <2>1 DEF Piece
  <2>3. c.chunks[k].length + 2 < Word
    BY <2>2, Widths DEF Wrapped
  <2>4. /\ c.headerSize <= c.chunks[k].first /\ c.chunks[k].first <= c.index
        /\ c.chunks[k].first + c.chunks[k].length <= c.index
    BY <2>3, MembersFacts DEF ChunksInv
  <2>5. QED
    BY <2>2, <2>4, MembersFacts
<1>4. QED
  BY <1>1, <1>2, <1>3 DEF IsRecorded

\* However the input is split and wherever analysis() stops, in the context and in
\* every one handed to a task the index, the lines with their terminators and the
\* chunks lie in the data received, unless the length of a chunk wrapped.
THEOREM RecordedBounded == ContextSpec => []RecordedInBounds
<1>1. ContextInv => RecordedInBounds
  <2> SUFFICES ASSUME ContextInv, NEW c \in {ctx} \cup ToSet(taken)
               PROVE  Wrapped(c) \/ IsRecorded(c)
    BY DEF RecordedInBounds
  <2>1. MembersInv(c)
    <3>1. CASE c = ctx
      BY <3>1 DEF ContextInv
    <3>2. CASE c \in ToSet(taken)
      <4>1. DOMAIN taken = 1..Len(taken)
        BY DEF ContextInv
      <4>2. PICK k \in 1..Len(taken) : c = taken[k]
        BY <3>2, <4>1 DEF ToSet
      <4>3. QED
        BY <4>2 DEF ContextInv
    <3>3. QED
      BY <3>1, <3>2
  <2>2. QED
    BY <2>1, RecordedOne
<1>2. QED
  BY <1>1, ParserInvariant, PTL

\* prepareBuffer refuses a read only when what it holds of one request is as large
\* as the limit, whatever the first size and the margin: doubling never gives up
\* early, and a buffer that is full below the limit grows.
THEOREM RefusedOnlyAtLimit == ContextSpec => []RefusedAtLimit
<1>1. ContextInv => RefusedAtLimit
  BY DEF ContextInv, SizeInv, RefusedAtLimit
<1>2. QED
  BY <1>1, ParserInvariant, PTL

\* What the code comments as "checked before" where it looks at the byte before a
\* line feed: that byte is never before the buffer, and the length of a line that
\* ends in CR LF is never below zero, even where the line begins after bytes that
\* have become terminators.
LineEndsInside ==
    \A state \in {"header", "chunkHeader", "chunkFooter"} :
        Reads(state) /\ LineFeed > 0 =>
            /\ LineFeed >= 2
            /\ state # "chunkHeader" /\ ~BareAt(LineFeed) => LengthAt(LineFeed) >= 0

\* It holds wherever the reads of the input stop: a first line does not begin with
\* a line feed, a later one has a terminator before it, which is no CR.
THEOREM LineEndsAreInside == ContextSpec => []LineEndsInside
<1>1. ContextInv => LineEndsInside
  <2> SUFFICES ASSUME ContextInv,
                      NEW state \in {"header", "chunkHeader", "chunkFooter"},
                      Reads(state), LineFeed > 0
               PROVE  /\ LineFeed >= 2
                      /\ state # "chunkHeader" /\ ~BareAt(LineFeed) => LengthAt(LineFeed) >= 0
    BY DEF LineEndsInside
  <2>1. PICK j : j = LineFeed
    OBVIOUS
  <2>2. MembersInv(ctx) /\ ctx.state = state
    BY DEF ContextInv, Reads
  <2>3. ctx.index \in Nat /\ nowIndex \in Nat
    BY <2>2, MembersFacts DEF nowIndex
  <2>4. j \in Nat /\ ctx.index + 1 <= j /\ ctx.buf[j] = LF
    BY <2>1, <2>2, <2>3, MembersFacts, LineFeedIs
  <2>5. CASE state = "chunkHeader"
    <3>1. ctx.index > 0
      BY <2>2, <2>5, MembersFacts DEF OpenInv
    <3>2. QED
      BY <2>1, <2>3, <2>4, <2>5, <3>1
  <2>6. CASE state \in {"header", "chunkFooter"}
    <3>1. ctx.lines \in Seq(Piece) /\ ctx.lines # <<>>
      BY <2>2, <2>6, MembersFacts DEF LinesInv
    <3>2. Last(ctx.lines) \in Piece
      BY <3>1 DEF Last
    <3>3. PICK f \in Nat : f = Last(ctx.lines).first
      BY <3>2 DEF Piece
    <3>4. f <= ctx.index /\ (f = 0 => ctx.buf[1] # LF) /\ (f > 0 => ctx.buf[f] = Nul)
      BY <2>2, <2>6, <3>3, MembersFacts DEF OpenInv
    <3>5. j >= 2
      BY <2>3, <2>4, <3>4
    <3>6. ASSUME ctx.buf[j - 1] = CR PROVE j - 2 >= f
      <4>1. SUFFICES ASSUME f > 0, j = f + 1 PROVE FALSE
        BY <2>3, <2>4, <3>4, <3>5
      <4>2. j - 1 = f
        BY <4>1
      <4>3. QED
        BY <3>4, <3>6, <4>1, <4>2 DEF Nul, CR
    <3>7. ~BareAt(j) => LengthAt(j) >= 0
      BY <2>4, <3>3, <3>6 DEF BareAt, LengthAt, LastFirst
    <3>8. QED
      BY <2>1, <3>5, <3>7
  <2>7. QED
    BY <2>5, <2>6
<1>2. QED
  BY <1>1, ParserInvariant, PTL

-----------------------------------------------------------------------------
(* What was read so far, and every input that begins with it.               *)

\* The lines of c from m + 1 to n, and the chunks together.
Slices(c, m, n) == [k \in 1..(n - m) |-> Slice(c, c.lines[m + k])]
Content(c) == FlattenSeq([k \in 1..Len(c.chunks) |-> Slice(c, c.chunks[k])])

NoFeed(t, i, j) == \A k \in i..j : t[k] # LF
NoStop(t, i, j) == \A k \in i..j : ~IsBare(t, i, k) /\ ~IsBlank(t, i, k)
FirstStop(t, i, j) == j \in i..Len(t) /\ (IsBare(t, i, j) \/ IsBlank(t, i, j)) /\ NoStop(t, i, j - 1)

\* From position p of the buffer on it holds the bytes of t from b + p.
Raw(c, t, b, p) == \A i \in (p + 1)..Len(c.buf) : c.buf[i] = t[b + i]

\* A block of lines that begins behind z: the lines after the first m are its complete
\* lines, and the one that is open.
OpenBlock(c, t, b, z, m) ==
    LET n == Len(c.lines)
        f == c.lines[n].first
    IN /\ m \in 0..(n - 1) /\ z \in 0..f /\ f <= c.index
       /\ f = z \/ t[b + f] = LF
       /\ NoFeed(t, b + f + 1, b + c.index) /\ NoStop(t, b + z + 1, b + c.index)
       /\ LinesOf(t, b + z + 1, b + f + 2) = Slices(c, m, n - 1)
       /\ Raw(c, t, b, f)

Fresh(c) == ~c.keepAlive /\ ~c.chunked /\ c.contentLength = 0 /\ c.chunks = <<>>

\* The headers are the first m lines.
HeadRead(c, t, b, m) ==
    LET lines == LinesOf(t, b + 1, b + c.headerSize) IN
    /\ m \in 0..Len(c.lines)
    /\ FirstStop(t, b + 1, b + c.headerSize) /\ ~IsBare(t, b + 1, b + c.headerSize)
    /\ lines = Slices(c, 0, m)
    /\ c.keepAlive = LastValue(lines, "keepAlive", FALSE)
    /\ c.chunked = LastValue(lines, "chunked", FALSE)
    /\ c.contentLength = LastValue(lines, "contentLength", 0)

\* The chunks that were read are those before p.
ChunksRead(c, t, b, p) ==
    /\ c.chunked
    /\ p \in c.headerSize..c.index
    /\ \A k \in 1..Len(c.chunks) : c.chunks[k].first + c.chunks[k].length + 2 <= p
    /\ ChunkedBody(t, b + c.headerSize + 1) = Behind(Content(c), ChunkedBody(t, b + p + 1))

\* The size line that begins at i ends at j and says n.
SizeLine(t, i, j, n) ==
    /\ j \in i..Len(t) /\ t[j] = LF /\ NoFeed(t, i, j - 1) /\ ~IsBare(t, i, j)
    /\ Number(SizeDigits(SubSeq(t, i, j - 1))) = n

\* What a part of a size line says: spaces, digits, anything else.
SizeReadAs(c, x, l, d) ==
    /\ l + d <= Len(x)
    /\ \A m \in 1..l : IsSpace(x[m])
    /\ \A m \in (l + 1)..(l + d) : IsDigit(x[m])
    /\ l + d < Len(x) => ~IsDigit(x[l + d + 1]) /\ (d = 0 => ~IsSpace(x[l + 1]))
    /\ c.sizeStart <=> d > 0
    /\ c.sizeDone <=> l + d < Len(x)
    /\ c.chunkSize = Number(SubSeq(x, l + 1, l + d)) % Word
SizeRead(c, x) == \E l, d \in 0..Len(x) : SizeReadAs(c, x, l, d)

\* What the context says of t, which begins with what it has received, from b on.
Parsed(c, t, b) ==
    /\ c.state = "start" => c.index = 0 /\ Fresh(c) /\ Raw(c, t, b, 0)
    /\ c.state = "header" => Fresh(c) /\ OpenBlock(c, t, b, 0, 0)
    /\ c.state = "body" =>
          /\ HeadRead(c, t, b, Len(c.lines)) /\ ~c.chunked /\ c.contentLength > 0
          /\ c.index = c.headerSize /\ c.chunks = <<>> /\ Raw(c, t, b, c.index)
    /\ c.state = "chunkHeader" =>
          \E p \in 0..c.index :
             /\ HeadRead(c, t, b, Len(c.lines)) /\ ChunksRead(c, t, b, p)
             /\ NoFeed(t, b + p + 1, b + c.index) /\ Raw(c, t, b, p) /\ c.buf[p] # CR
             /\ SizeRead(c, SubSeq(t, b + p + 1, b + c.index))
    /\ c.state = "chunkBody" =>
          \E p \in 0..c.index :
             /\ HeadRead(c, t, b, Len(c.lines)) /\ ChunksRead(c, t, b, p)
             /\ SizeLine(t, b + p + 1, b + c.index, c.chunkSize)
             /\ c.chunkSize > 0 /\ c.chunkSize + 2 < Word
             /\ Raw(c, t, b, c.index)
    /\ c.state = "chunkFooter" =>
          \E p, z \in 0..c.index, m \in 0..Len(c.lines) :
             /\ HeadRead(c, t, b, m) /\ ChunksRead(c, t, b, p)
             /\ SizeLine(t, b + p + 1, b + z, 0)
             /\ OpenBlock(c, t, b, z, m)
    /\ c.state = "done" =>
          /\ RequestAt(t, b + 1) = [is |-> "done", next |-> b + c.index + 1,
                                    request |-> RequestOf(c)]
          /\ \A k \in 1..Len(c.chunks) : c.chunks[k].first + c.chunks[k].length <= c.index
          /\ Raw(c, t, b, c.index)
    /\ c.state = "bad" => RequestAt(t, b + 1) = Bad

base == Len(got) - nowIndex

\* The requests in t are those of some contexts and those from b on.
InStep(t, contexts, b) ==
    LET all == Meaning(t)
        rest == MeaningFrom(t, b + 1)
    IN /\ all.then = rest.then
       /\ Len(all.requests) = Len(contexts) + Len(rest.requests)
       /\ \A k \in 1..Len(contexts) : all.requests[k] = RequestOf(contexts[k])
       /\ \A k \in 1..Len(rest.requests) : all.requests[Len(contexts) + k] = rest.requests[k]

\* Or the parser has passed what it reads in its own way.
Lost(t, contexts) ==
    LET all == Meaning(t) IN
    /\ all.then = "unspecified"
    /\ Len(all.requests) <= Len(contexts)
    /\ \A k \in 1..Len(all.requests) : all.requests[k] = RequestOf(contexts[k])

Begins(t, s) == Len(s) <= Len(t) /\ \A i \in 1..Len(s) : t[i] = s[i]

\* Of every input that begins with the bytes received.
SyntaxOf(t) ==
    Begins(t, got) => Lost(t, taken) \/ (InStep(t, taken, base) /\ Parsed(ctx, t, base))

\* More input is waited for only where what was received ends too early.
Short ==
    \/ ctx.state \in {"done", "bad"}
    \/ ctx.index = nowIndex
    \/ ctx.state = "body" /\ nowIndex - ctx.index < ctx.contentLength
    \/ ctx.state = "chunkBody" /\ nowIndex - ctx.index < ChunkLength

SyntaxInv ==
    /\ nowIndex <= Len(got)
    /\ stage # "analysis" => Short
    /\ \A t \in Seq(Char) : SyntaxOf(t)

-----------------------------------------------------------------------------
(* The lines of a block, one after the other.                               *)

\* The line feeds up to the next one.
LEMMA FeedsNext ==
    ASSUME NEW s, NEW i \in Nat, NEW f \in Nat, NEW j \in Nat, i <= f + 1, f < j, s[j] = LF,
           NoFeed(s, f + 1, j - 1)
    PROVE  /\ LineFeeds(s, i, j) = LineFeeds(s, i, f) \cup {j}
           /\ LineFeeds(s, i, f) \in SUBSET Nat /\ IsFiniteSet(LineFeeds(s, i, f))
           /\ \A e \in LineFeeds(s, i, f) : e < j
<1>1. LineFeeds(s, i, j) = LineFeeds(s, i, f) \cup {j}
  BY DEF LineFeeds, NoFeed
<1>2. IsFiniteSet(LineFeeds(s, i, f))
  <2>1. IsFiniteSet(i..f)
    BY FS_Interval
  <2>1a. LineFeeds(s, i, f) \in SUBSET (i..f)
    BY DEF LineFeeds
  <2>2. QED
    BY <2>1, <2>1a, FS_Subset
<1>3. QED
  BY <1>1, <1>2 DEF LineFeeds

\* The line feeds that were there keep their numbers.
LEMMA FeedAtSame ==
    ASSUME NEW F \in SUBSET Nat, IsFiniteSet(F), NEW j \in Nat, \A e \in F : e < j,
           NEW k \in 1..Cardinality(F)
    PROVE  FeedAt(F \cup {j}, k) = FeedAt(F, k)
<1>1. Cardinality(F) \in Nat /\ Cardinality(F \cup {j}) = Cardinality(F) + 1
  BY FS_CardinalityType, FS_AddElement, SMTT(30)
<1>2. {f \in F \cup {j} : f <= j} = F \cup {j}
  <2>1. \A f \in F \cup {j} : f <= j
    OBVIOUS
  <2>2. QED
    BY <2>1
<1>3. ASSUME NEW e \in F PROVE {f \in F \cup {j} : f <= e} = {f \in F : f <= e}
  OBVIOUS
<1> DEFINE Below(S, e) == Cardinality({f \in S : f <= e})
<1>4. \A e \in F : Below(F \cup {j}, e) = Below(F, e)
  BY <1>3
<1>4a. Below(F \cup {j}, j) # k
  BY <1>1, <1>2
<1> HIDE DEF Below
<1>4b. {e \in F \cup {j} : Below(F \cup {j}, e) = k} = {e \in F : Below(F, e) = k}
  BY <1>4, <1>4a
<1>5. QED
  BY <1>4b DEF FeedAt, Below

\* And the new one has the next.
LEMMA FeedAtLast ==
    ASSUME NEW F \in SUBSET Nat, IsFiniteSet(F), NEW j \in Nat, \A e \in F : e < j
    PROVE  FeedAt(F \cup {j}, Cardinality(F) + 1) = j
<1>1. Cardinality(F) \in Nat /\ Cardinality(F \cup {j}) = Cardinality(F) + 1
  BY FS_CardinalityType, FS_AddElement
<1>2. {f \in F \cup {j} : f <= j} = F \cup {j}
  <2>1. \A f \in F \cup {j} : f <= j
    OBVIOUS
  <2>2. QED
    BY <2>1
<1>3. ASSUME NEW e \in F
      PROVE  {f \in F \cup {j} : f <= e} \subseteq F
  OBVIOUS
<1>4. ASSUME NEW e \in F
      PROVE  Cardinality({f \in F \cup {j} : f <= e}) # Cardinality(F) + 1
  <2>1. Cardinality({f \in F \cup {j} : f <= e}) <= Cardinality(F)
    BY <1>3, FS_Subset
  <2>2. QED
    BY <1>1, <2>1
<1> DEFINE L == {e \in F \cup {j} : Cardinality({f \in F \cup {j} : f <= e}) = Cardinality(F) + 1}
<1>5. L = {j}
  BY <1>1, <1>2, <1>4
<1> HIDE DEF L
<1>6. Min(L) = j
  BY <1>5, MinIs
<1>7. QED
  BY <1>6 DEF FeedAt, L

\* The n lines whose line feeds are up to f, and the one with that at j.
LineAdded(s, i, f, j, n) ==
    /\ DOMAIN LinesOf(s, i, f + 2) = 1..n
    /\ LinesOf(s, i, j + 2) =
         [k \in 1..(n + 1) |-> IF k <= n THEN LinesOf(s, i, f + 2)[k]
                               ELSE SubSeq(s, f + 1, j - 2)]

\* A line more.
LEMMA LinesOfNext ==
    ASSUME NEW s, NEW i \in Nat \ {0}, NEW f \in Nat, NEW j \in Nat, f < j, s[j] = LF,
           i = f + 1 \/ (i <= f /\ s[f] = LF), NoFeed(s, f + 1, j - 1)
    PROVE  \E n \in Nat : LineAdded(s, i, f, j, n)
<1>1. PICK F : F = LineFeeds(s, i, f)
  OBVIOUS
<1>2. PICK G : G = LineFeeds(s, i, j)
  OBVIOUS
<1>3. G = F \cup {j} /\ F \in SUBSET Nat /\ IsFiniteSet(F) /\ \A e \in F : e < j
  <2>1. i <= f + 1
    OBVIOUS
  <2>2. QED
    BY <1>1, <1>2, <2>1, FeedsNext
<1>4. PICK n \in Nat : n = Cardinality(F)
  BY <1>3, FS_CardinalityType
<1>5. Cardinality(G) = n + 1
  BY <1>3, <1>4, FS_AddElement
<1>6. \A k \in 1..n : FeedAt(G, k) = FeedAt(F, k)
  BY <1>3, <1>4, FeedAtSame
<1>7. FeedAt(G, n + 1) = j
  BY <1>3, <1>4, FeedAtLast
<1>8. (f + 2) - 2 = f /\ (j + 2) - 2 = j
  OBVIOUS
<1> DEFINE From(H, k) == IF k = 1 THEN i ELSE FeedAt(H, k - 1) + 1
<1>9. LinesOf(s, i, f + 2) = [k \in 1..n |-> SubSeq(s, From(F, k), FeedAt(F, k) - 2)]
  BY <1>1, <1>4, <1>8 DEF LinesOf
<1>10. LinesOf(s, i, j + 2) = [k \in 1..(n + 1) |-> SubSeq(s, From(G, k), FeedAt(G, k) - 2)]
  BY <1>2, <1>5, <1>8 DEF LinesOf
<1>11. ASSUME NEW k \in 1..n PROVE From(G, k) = From(F, k)
  <2>1. k # 1 => k - 1 \in 1..n
    OBVIOUS
  <2>2. QED
    BY <1>6, <2>1
<1>12. From(G, n + 1) = f + 1
  <2>1. CASE n = 0
    <3>1. F = {}
      BY <1>3, <1>4, <2>1, FS_EmptySet
    <3>2. i = f + 1
      <4>1. SUFFICES ASSUME i <= f, s[f] = LF PROVE FALSE
        OBVIOUS
      <4>2. f \in F
        BY <1>1, <4>1 DEF LineFeeds
      <4>3. QED
        BY <3>1, <4>2
    <3>3. QED
      BY <2>1, <3>2
  <2>2. CASE n > 0
    <3>1. f \in F
      <4>1. SUFFICES ASSUME i = f + 1 PROVE FALSE
        BY <1>1 DEF LineFeeds
      <4>2. F = {}
        BY <1>1, <4>1 DEF LineFeeds
      <4>3. QED
        BY <1>4, <2>2, <4>2, FS_EmptySet
    <3> DEFINE E == F \ {f}
    <3>2. F = E \cup {f} /\ E \in SUBSET Nat /\ IsFiniteSet(E) /\ Cardinality(E) = n - 1
      BY <1>3, <1>4, <3>1, FS_RemoveElement
    <3>3. \A e \in E : e < f
      BY <1>1 DEF LineFeeds
    <3> HIDE DEF E
    <3>4. FeedAt(F, n) = f
      <4>1. Cardinality(E) + 1 = n
        BY <3>2
      <4>2. QED
        BY <3>2, <3>3, <4>1, FeedAtLast
    <3>5. n \in 1..n /\ (n + 1) - 1 = n /\ n + 1 # 1
      BY <2>2
    <3>6. QED
      BY <1>6, <3>4, <3>5
  <2>3. QED
    BY <2>1, <2>2
<1> HIDE DEF From
<1>13. \A k \in 1..(n + 1) : k \in 1..n \/ k = n + 1
  OBVIOUS
<1>14. ASSUME NEW k \in 1..(n + 1)
       PROVE  LinesOf(s, i, j + 2)[k] = IF k <= n THEN LinesOf(s, i, f + 2)[k]
                                        ELSE SubSeq(s, f + 1, j - 2)
  <2>0. LinesOf(s, i, j + 2)[k] = SubSeq(s, From(G, k), FeedAt(G, k) - 2)
    BY <1>10
  <2>1. CASE k \in 1..n
    <3>1. LinesOf(s, i, f + 2)[k] = SubSeq(s, From(F, k), FeedAt(F, k) - 2)
      BY <1>9, <2>1
    <3>2. From(G, k) = From(F, k) /\ FeedAt(G, k) = FeedAt(F, k)
      BY <1>6, <1>11, <2>1
    <3>3. k <= n
      BY <2>1
    <3>4. QED
      BY <2>0, <3>1, <3>2, <3>3, Zenon
  <2>2. CASE k = n + 1
    <3>1. From(G, k) = f + 1 /\ FeedAt(G, k) = j
      BY <1>7, <1>12, <2>2
    <3>2. ~(k <= n)
      BY <2>2
    <3>3. QED
      BY <2>0, <3>1, <3>2, Zenon
  <2>3. QED
    BY <1>13, <2>1, <2>2
<1>15. LinesOf(s, i, j + 2) =
                   [k \in 1..(n + 1) |-> IF k <= n THEN LinesOf(s, i, f + 2)[k]
                                         ELSE SubSeq(s, f + 1, j - 2)]
  BY <1>10, <1>14
<1>16. LineAdded(s, i, f, j, n)
  BY <1>9, <1>15 DEF LineAdded
<1>17. QED
  BY <1>16

\* None in an empty block.
LEMMA LinesOfNone ==
    ASSUME NEW s, NEW i \in Nat \ {0}
    PROVE  LinesOf(s, i, i + 1) = <<>>
<1>1. LineFeeds(s, i, (i + 1) - 2) = {}
  BY DEF LineFeeds
<1>2. LinesOf(s, i, i + 1) = [k \in 1..0 |-> SubSeq(s, 0, 0)]
  BY <1>1, FS_EmptySet DEF LinesOf
<1>3. QED
  BY <1>2

-----------------------------------------------------------------------------
(* Numbers in chunk sizes.                                                  *)

\* The digits of a sequence.
AreDigits(x) == \A k \in 1..Len(x) : IsDigit(x[k])

\* What each of them does to the number before it.
ReadsNumber(x) == [k \in 1..Len(x) |-> [m \in Nat |-> m * Radix + DigitValue[x[k]]]]

\* They can be read one by one.
LEMMA NumberChains ==
    ASSUME NEW x \in Seq(Char), AreDigits(x)
    PROVE  CanChain(Len(x), Nat, 0, ReadsNumber(x))
<1>1. ASSUME NEW k \in 1..Len(x), NEW m \in Nat PROVE m * Radix + DigitValue[x[k]] \in Nat
  <2>1. DigitValue[x[k]] \in Nat
    BY DEF AreDigits, IsDigit, DigitValue
  <2>2. m * Radix \in Nat
    BY Widths
  <2>3. QED
    BY <2>1, <2>2
<1>2. ReadsNumber(x) \in [1..Len(x) -> [Nat -> Nat]]
  BY <1>1 DEF ReadsNumber
<1>3. Len(x) \in Nat
  OBVIOUS
<1>4. QED
  BY <1>2, <1>3 DEF CanChain

\* A number is read digit by digit.
LEMMA NumberIs ==
    ASSUME NEW x \in Seq(Char), AreDigits(x)
    PROVE  \E h \in [0..Len(x) -> Nat] :
              IsChain(h, Len(x), 0, ReadsNumber(x)) /\ Number(x) = h[Len(x)]
<1> DEFINE n == Len(x)
           Step(m, v) == m * Radix + DigitValue[v]
           iter[s \in SUBSET (1..n)] ==
             IF s = {} THEN 0 ELSE Step(iter[s \ {Max(s)}], x[Max(s)])
           step == ReadsNumber(x)
<1>1. n \in Nat /\ DOMAIN x = 1..n
  OBVIOUS
<1>2. Number(x) = iter[1..n]
  BY <1>1 DEF Number, FoldLeft, MapThenFoldSet
<1>3. ASSUME NEW i \in 1..n, NEW m \in Nat PROVE step[i][m] = Step(m, x[i])
  BY DEF ReadsNumber
<1>4. CanChain(n, Nat, 0, step)
  BY NumberChains
<1> HIDE DEF n, step, Step
<1>5. PICK g \in [SUBSET (1..n) -> Nat] : IsMaxFold(g, n, 0, step)
  BY <1>4, MaxFoldExists DEF HasMaxFold
<1>6. ASSUME NEW s \in SUBSET (1..n)
      PROVE  g[s] = IF s = {} THEN 0 ELSE Step(g[s \ {Max(s)}], x[Max(s)])
  <2>1. CASE s = {}
    BY <1>5, <2>1 DEF IsMaxFold
  <2>2. CASE s # {}
    <3>1. Max(s) \in 1..n /\ s \ {Max(s)} \in SUBSET (1..n)
      BY <1>1, <2>2, MaxIn
    <3>2. g[s \ {Max(s)}] \in Nat
      BY <1>5, <3>1
    <3>3. QED
      BY <1>3, <1>5, <2>2, <3>1, <3>2 DEF IsMaxFold
  <2>3. QED
    BY <2>1, <2>2
<1>7. g = [s \in SUBSET (1..n) |-> IF s = {} THEN 0 ELSE Step(g[s \ {Max(s)}], x[Max(s)])]
  BY <1>5, <1>6
<1>8. iter = [s \in SUBSET (1..n) |->
                IF s = {} THEN 0 ELSE Step(iter[s \ {Max(s)}], x[Max(s)])]
  BY <1>7
<1> HIDE DEF iter
<1>9. PICK h \in [0..n -> Nat] : IsChain(h, n, 0, step)
  BY <1>4, ChainExists DEF HasChain
<1> DEFINE P == {k \in 0..n : iter[1..k] = h[k]}
<1>10. 0 \in P
  <2>1. 1..0 = {} /\ 0 \in 0..n
    BY <1>1
  <2>2. QED
    BY <1>8, <1>9, <2>1 DEF IsChain
<1>11. ASSUME NEW k \in 1..n, k - 1 \in P PROVE k \in P
  <2>1. k \in Nat \ {0} /\ 1..k \in SUBSET (1..n) /\ k \in 1..k /\ k \in 0..n /\ k - 1 \in 0..n
    BY <1>1
  <2>2. iter[1..k] = Step(iter[1..(k - 1)], x[k])
    BY <1>8, <2>1, MaxOfFirst
  <2>3. h[k] = Step(h[k - 1], x[k])
    BY <1>3, <1>9, <2>1 DEF IsChain
  <2>4. iter[1..k] = h[k]
    BY <1>11, <2>2, <2>3
  <2>5. QED
    BY <2>1, <2>4
<1> HIDE DEF P
<1>12. n \in P
  BY <1>1, <1>10, <1>11, InductTo DEF Inductive
<1>13. iter[1..n] = h[n]
  BY <1>12 DEF P
<1>14. QED
  BY <1>2, <1>9, <1>13 DEF n, step

\* It is a number, nothing for no digits, and grows by a digit.
LEMMA NumberGrows ==
    ASSUME NEW x \in Seq(Char), AreDigits(x)
    PROVE  /\ Number(x) \in Nat
           /\ x = <<>> => Number(x) = 0
           /\ \A v \in Char : IsDigit(v) =>
                 Number(Append(x, v)) = Number(x) * Radix + DigitValue[v]
<1>1. PICK n \in Nat : n = Len(x)
  OBVIOUS
<1>2. PICK h \in [0..n -> Nat] : IsChain(h, n, 0, ReadsNumber(x)) /\ Number(x) = h[n]
  BY <1>1, NumberIs
<1>3. n \in 0..n /\ h[n] \in Nat
  BY <1>1
<1>4. x = <<>> => Number(x) = 0
  BY <1>1, <1>2 DEF IsChain
<1>5. ASSUME NEW v \in Char, IsDigit(v)
      PROVE  Number(Append(x, v)) = Number(x) * Radix + DigitValue[v]
  <2>1. PICK y : y = Append(x, v)
    OBVIOUS
  <2>2. y \in Seq(Char) /\ Len(y) = n + 1 /\ y[n + 1] = v /\ \A k \in 1..n : y[k] = x[k]
    BY <1>1, <2>1, AppendProperties
  <2>3. AreDigits(y)
    <3>1. \A k \in 1..(n + 1) : k \in 1..n \/ k = n + 1
      OBVIOUS
    <3>2. QED
      BY <1>1, <1>5, <2>2, <3>1 DEF AreDigits
  <2>4. PICK q \in [0..(n + 1) -> Nat] :
           IsChain(q, n + 1, 0, ReadsNumber(y)) /\ Number(y) = q[n + 1]
    BY <2>2, <2>3, NumberIs
  <2>5. \A k \in 1..n : k \in 1..(n + 1)
    OBVIOUS
  <2>6. q[n] = h[n]
    <3>1. IsChain(q, n, 0, ReadsNumber(y))
      BY <2>4, <2>5 DEF IsChain
    <3>2. ASSUME NEW k \in 1..n, NEW m \in Nat PROVE ReadsNumber(x)[k][m] = ReadsNumber(y)[k][m]
      BY <1>1, <2>2, <2>5 DEF ReadsNumber
    <3>3. SameSteps(n, Nat, ReadsNumber(x), ReadsNumber(y))
      BY <3>2 DEF SameSteps
    <3>4. QED
      BY <1>2, <3>1, <3>3, ChainAgrees
  <2>7. q[n + 1] = ReadsNumber(y)[n + 1][q[n]]
    <3>1. n + 1 \in 1..(n + 1) /\ (n + 1) - 1 = n
      OBVIOUS
    <3>2. QED
      BY <2>4, <3>1 DEF IsChain
  <2>8. ReadsNumber(y)[n + 1][h[n]] = h[n] * Radix + DigitValue[v]
    <3>1. n + 1 \in 1..Len(y)
      BY <2>2
    <3>2. QED
      BY <1>3, <2>2, <3>1 DEF ReadsNumber
  <2>9. QED
    BY <1>2, <2>1, <2>4, <2>6, <2>7, <2>8
<1>6. QED
  BY <1>2, <1>3, <1>4, <1>5

\* What is taken for the size of a chunk are digits.
LEMMA SizeDigitsAre ==
    ASSUME NEW x \in Seq(Char)
    PROVE  SizeDigits(x) \in Seq(Char) /\ AreDigits(SizeDigits(x))
<1> DEFINE text == SubSeq(x, Cardinality(Leading(x)) + 1, Len(x))
           D == {k \in 1..Len(text) : \A m \in 1..k : IsDigit(text[m])}
<1>1. Cardinality(Leading(x)) \in Nat
  <2>1. Leading(x) \in SUBSET (1..Len(x)) /\ Len(x) \in Nat
    BY DEF Leading
  <2>2. DownClosed(Leading(x))
    BY DEF Leading, DownClosed
  <2>3. QED
    BY <2>1, <2>2, InitialSegment
<1>2. text \in Seq(Char)
  <2>1. \A i \in (Cardinality(Leading(x)) + 1)..Len(x) : x[i] \in Char
    BY <1>1
  <2>2. QED
    BY <1>1, <2>1, SubSeqProperties
<1>3. SizeDigits(x) = SubSeq(text, 1, Cardinality(D))
  BY DEF SizeDigits
<1> HIDE DEF text
<1>4. Len(text) \in Nat
  BY <1>2
<1>5. D = 1..Cardinality(D) /\ Cardinality(D) \in 0..Len(text)
  <2>1. D \in SUBSET (1..Len(text)) /\ DownClosed(D)
    BY <1>4 DEF DownClosed
  <2> HIDE DEF D
  <2>2. QED
    BY <1>4, <2>1, InitialSegment
<1>6. \A k \in D : IsDigit(text[k])
  BY <1>4
<1> HIDE DEF D
<1>7. PICK c \in 0..Len(text) : c = Cardinality(D)
  BY <1>5
<1>8. SubSeq(text, 1, c) \in Seq(Char) /\ Len(SubSeq(text, 1, c)) = c
      /\ \A k \in 1..c : SubSeq(text, 1, c)[k] = text[k]
  <2>1. c \in Nat /\ \A i \in 1..c : text[i] \in Char
    BY <1>2, <1>4
  <2>2. QED
    BY <2>1, SubSeqProperties
<1>9. AreDigits(SubSeq(text, 1, c))
  BY <1>5, <1>6, <1>7, <1>8 DEF AreDigits
<1>10. QED
  BY <1>3, <1>7, <1>8, <1>9

-----------------------------------------------------------------------------
(* Where blocks and lines end.                                              *)

\* The first line feed.
LEMMA FirstFeedIs ==
    ASSUME NEW s \in Seq(Char), NEW i \in Nat, NEW j \in i..Len(s), s[j] = LF, NoFeed(s, i, j - 1)
    PROVE  LineFeeds(s, i, Len(s)) # {} /\ FirstFeed(s, i) = j
<1>1. Len(s) \in Nat /\ j \in Nat
  OBVIOUS
<1>2. LineFeeds(s, i, Len(s)) \in SUBSET Int /\ j \in LineFeeds(s, i, Len(s))
  BY <1>1 DEF LineFeeds
<1>3. ASSUME NEW x \in LineFeeds(s, i, Len(s)) PROVE j <= x
  <2>1. x \in i..Len(s) /\ s[x] = LF
    BY DEF LineFeeds
  <2>2. x \notin i..(j - 1)
    BY <2>1 DEF NoFeed
  <2>3. QED
    BY <1>1, <2>1, <2>2
<1>4. QED
  BY <1>2, <1>3, MinIs DEF FirstFeed

\* The first stop.
LEMMA FirstStopIs ==
    ASSUME NEW s \in Seq(Char), NEW i \in Nat, NEW j, FirstStop(s, i, j)
    PROVE  Stops(s, i) # {} /\ Min(Stops(s, i)) = j
<1>1. Len(s) \in Nat /\ j \in Nat /\ j \in i..Len(s) /\ NoStop(s, i, j - 1)
  BY DEF FirstStop
<1>2. Stops(s, i) \in SUBSET Int /\ j \in Stops(s, i)
  BY <1>1 DEF Stops, FirstStop
<1>3. ASSUME NEW x \in Stops(s, i) PROVE j <= x
  <2>1. x \in i..Len(s) /\ (IsBare(s, i, x) \/ IsBlank(s, i, x))
    BY DEF Stops
  <2>2. x \notin i..(j - 1)
    BY <1>1, <2>1 DEF NoStop
  <2>3. QED
    BY <1>1, <2>1, <2>2
<1>4. QED
  BY <1>2, <1>3, MinIs

\* There are as many as there are, and the least is one of them.
LEMMA StopIn ==
    ASSUME NEW s \in Seq(Char), NEW i \in Nat, Stops(s, i) # {}
    PROVE  Min(Stops(s, i)) \in i..Len(s)
<1>1. Len(s) \in Nat
  OBVIOUS
<1>2. Stops(s, i) \in SUBSET Nat
  BY <1>1 DEF Stops
<1>3. PICK m \in Stops(s, i) : \A x \in Stops(s, i) : m <= x
  BY <1>2, LeastNat
<1>4. Min(Stops(s, i)) = m
  BY <1>2, <1>3, MinIs
<1>5. QED
  BY <1>3, <1>4 DEF Stops

\* The first line feed is in the sequence.
LEMMA FeedIn ==
    ASSUME NEW s \in Seq(Char), NEW i \in Nat, LineFeeds(s, i, Len(s)) # {}
    PROVE  FirstFeed(s, i) \in i..Len(s)
<1>1. Len(s) \in Nat
  OBVIOUS
<1>2. LineFeeds(s, i, Len(s)) \in SUBSET Nat
  BY <1>1 DEF LineFeeds
<1>3. PICK m \in LineFeeds(s, i, Len(s)) : \A x \in LineFeeds(s, i, Len(s)) : m <= x
  BY <1>2, LeastNat
<1>4. FirstFeed(s, i) = m
  BY <1>2, <1>3, MinIs DEF FirstFeed
<1>5. QED
  BY <1>3, <1>4 DEF LineFeeds

\* No stop without a line feed.
LEMMA NoFeedNoStop ==
    ASSUME NEW s, NEW i \in Int, NEW m \in Int, NEW j \in Int,
           NoFeed(s, m, j), NEW z, NoStop(s, z, m - 1)
    PROVE  NoStop(s, z, j)
<1>1. QED
  BY DEF NoFeed, NoStop, IsBare, IsBlank

-----------------------------------------------------------------------------
(* What a body is, and a request.                                           *)

\* What the body of a request can be.
WholeBody(content, trailer, next) ==
    [is |-> "done", content |-> content, trailer |-> trailer, next |-> next]
Trailers(s) == {LinesOf(s, i, j) : i \in Nat, j \in Nat}
Bodies(s) ==
    {More, Bad, Unspecified}
      \cup {WholeBody(q, l, m) : q \in Seq(Char), l \in Trailers(s), m \in 1..(Len(s) + 1)}

\* A complete one.
LEMMA WholeIsBody ==
    ASSUME NEW s, NEW q \in Seq(Char), NEW l \in Trailers(s), NEW m \in 1..(Len(s) + 1)
    PROVE  WholeBody(q, l, m) \in Bodies(s)
<1>1. WholeBody(q, l, m) \in
        {WholeBody(p, k, o) : p \in Seq(Char), k \in Trailers(s), o \in 1..(Len(s) + 1)}
  OBVIOUS
<1>2. QED
  BY <1>1 DEF Bodies

\* There are no others.
LEMMA BodyCases ==
    ASSUME NEW s, NEW r \in Bodies(s)
    PROVE  \/ r \in {More, Bad, Unspecified} /\ r.is # "done"
           \/ \E q \in Seq(Char), l \in Trailers(s), m \in 1..(Len(s) + 1) :
                 r = WholeBody(q, l, m) /\ r.is = "done"
BY DEF Bodies, More, Bad, Unspecified, WholeBody

\* Content before a body.
LEMMA BehindIs ==
    ASSUME NEW s, NEW r \in Bodies(s), NEW q \in Seq(Char)
    PROVE  /\ Behind(q, r) \in Bodies(s)
           /\ Behind(q, r).is = r.is
           /\ r.is # "done" => Behind(q, r) = r
           /\ r.is = "done" => /\ Behind(q, r) = WholeBody(q \o r.content, r.trailer, r.next)
                               /\ r.content \in Seq(Char)
                               /\ Behind(q, r).next = r.next
<1>1. CASE r.is # "done"
  BY <1>1 DEF Behind
<1>2. CASE r.is = "done"
  <2>1. PICK p \in Seq(Char), l \in Trailers(s), m \in 1..(Len(s) + 1) : r = WholeBody(p, l, m)
    BY <1>2, BodyCases
  <2>2. Behind(q, r) = WholeBody(q \o p, l, m)
    BY <2>1 DEF Behind, WholeBody
  <2>3. q \o p \in Seq(Char)
    BY ConcatProperties
  <2>4. Behind(q, r) \in Bodies(s)
    BY <2>2, <2>3, WholeIsBody
  <2>5. QED
    BY <1>2, <2>1, <2>2, <2>4 DEF WholeBody
<1>3. QED
  BY <1>1, <1>2

\* None, and some before some.
LEMMA BehindNothing ==
    ASSUME NEW s, NEW r \in Bodies(s)
    PROVE  Behind(<<>>, r) = r
<1>1. CASE r.is # "done"
  BY <1>1 DEF Behind
<1>2. CASE r.is = "done"
  <2>1. PICK p \in Seq(Char), l \in Trailers(s), m \in 1..(Len(s) + 1) : r = WholeBody(p, l, m)
    BY <1>2, BodyCases
  <2>2. Behind(<<>>, r) = WholeBody(<<>> \o p, l, m)
    BY <2>1 DEF Behind, WholeBody
  <2>3. <<>> \o p = p
    BY ConcatEmptySeq
  <2>4. QED
    BY <2>1, <2>2, <2>3
<1>3. QED
  BY <1>1, <1>2

\* Contents before a body come one before the other.
LEMMA BehindTwice ==
    ASSUME NEW s, NEW r \in Bodies(s), NEW q \in Seq(Char), NEW u \in Seq(Char)
    PROVE  Behind(u, Behind(q, r)) = Behind(u \o q, r)
<1>1. CASE r.is # "done"
  BY <1>1 DEF Behind
<1>2. CASE r.is = "done"
  <2>1. PICK p \in Seq(Char), l \in Trailers(s), m \in 1..(Len(s) + 1) : r = WholeBody(p, l, m)
    BY <1>2, BodyCases
  <2>2. Behind(q, r) = WholeBody(q \o p, l, m)
    BY <2>1 DEF Behind, WholeBody
  <2>3. Behind(u, WholeBody(q \o p, l, m)) = WholeBody(u \o (q \o p), l, m)
    BY DEF Behind, WholeBody
  <2>4. Behind(u \o q, r) = WholeBody((u \o q) \o p, l, m)
    BY <2>1 DEF Behind, WholeBody
  <2>5. (u \o q) \o p = u \o (q \o p)
    BY ConcatAssociative, SMTT(30)
  <2>6. QED
    BY <2>2, <2>3, <2>4, <2>5
<1>3. QED
  BY <1>1, <1>2

\* The size that is read where there is a line.
LEMMA SizeAtIs ==
    ASSUME NEW s \in Seq(Char), NEW i \in Nat \ {0}, LineFeeds(s, i, Len(s)) # {}
    PROVE  SizeAt(s, i) \in Nat
<1>1. PICK j \in i..Len(s) : j = FirstFeed(s, i)
  BY FeedIn
<1>2. SubSeq(s, i, j - 1) \in Seq(Char)
  <2>1. Len(s) \in Nat /\ j \in Nat
    OBVIOUS
  <2>2. \A k \in i..(j - 1) : s[k] \in Char
    BY <2>1
  <2>3. QED
    BY <2>1, <2>2, SubSeqProperties
<1>3. QED
  BY <1>1, <1>2, SizeDigitsAre, NumberGrows DEF SizeAt

\* A chunk is in the sequence, and what follows it is later.
LEMMA ChunkAtIs ==
    ASSUME NEW s \in Seq(Char), NEW i \in Nat \ {0}, HasChunk(s, i)
    PROVE  ChunkAt(s, i) \in Seq(Char) /\ ChunkEnd(s, i) \in (i + 1)..(Len(s) + 1)
<1>1. PICK j \in i..Len(s) : j = FirstFeed(s, i)
  BY FeedIn DEF HasChunk
<1>2. PICK m \in Nat : m = SizeAt(s, i)
  BY SizeAtIs DEF HasChunk
<1>3. Len(s) \in Nat /\ j \in Nat /\ j + m + 3 <= Len(s) + 1
  <2>1. Len(s) \in Nat /\ j \in Nat
    OBVIOUS
  <2>2. ChunkEnd(s, i) <= Len(s) + 1
    BY DEF HasChunk
  <2>3. ChunkEnd(s, i) = j + m + 3
    BY <1>1, <1>2 DEF ChunkEnd
  <2>4. QED
    BY <2>1, <2>2, <2>3
<1>4. SubSeq(s, j + 1, j + m) \in Seq(Char)
  <2>1. \A k \in (j + 1)..(j + m) : s[k] \in Char
    BY <1>3
  <2>2. QED
    BY <1>3, <2>1, SubSeqProperties
<1>5. ChunkAt(s, i) = SubSeq(s, j + 1, j + m) /\ ChunkEnd(s, i) = j + m + 3
  BY <1>1, <1>2 DEF ChunkAt, ChunkEnd
<1>6. j + m + 3 \in (i + 1)..(Len(s) + 1)
  <2>1. PICK l \in Nat : l = Len(s)
    BY <1>3
  <2>2. j \in Nat /\ i <= j
    BY <1>3
  <2>3. j + m + 3 <= l + 1
    BY <1>3, <2>1
  <2>4. j + m + 3 \in (i + 1)..(l + 1)
    BY <2>2, <2>3
  <2>5. QED
    BY <2>1, <2>4
<1>7. QED
  BY <1>4, <1>5, <1>6

\* And so is what follows the end of a body.
LEMMA BodyEndIs ==
    ASSUME NEW s \in Seq(Char), NEW i \in Nat \ {0}
    PROVE  /\ BodyEnd(s, i) \in Bodies(s)
           /\ BodyEnd(s, i).is = "done" => BodyEnd(s, i).next > i
<1>1. PICK j : j = FirstFeed(s, i)
  OBVIOUS
<1>2. PICK k : k = Min(Stops(s, j + 1))
  OBVIOUS
<1>3. CASE BodyEnd(s, i) \in {More, Bad, Unspecified}
  BY <1>3 DEF Bodies, More, Bad, Unspecified
<1>4. CASE BodyEnd(s, i) \notin {More, Bad, Unspecified}
  <2>1. /\ LineFeeds(s, i, Len(s)) # {} /\ Stops(s, j + 1) # {}
        /\ BodyEnd(s, i) = WholeBody(<<>>, LinesOf(s, j + 1, k), k + 1)
    BY <1>1, <1>2, <1>4 DEF BodyEnd, WholeBody
  <2>2. j \in i..Len(s) /\ Len(s) \in Nat
    BY <1>1, <2>1, FeedIn
  <2>3. j + 1 \in Nat
    BY <2>2
  <2>4. k \in (j + 1)..Len(s)
    BY <1>2, <2>1, <2>3, StopIn
  <2>5. k \in Nat /\ k + 1 \in 1..(Len(s) + 1) /\ k + 1 > i
    BY <2>2, <2>3, <2>4
  <2>6. LinesOf(s, j + 1, k) \in Trailers(s)
    BY <2>3, <2>5 DEF Trailers
  <2>7. <<>> \in Seq(Char)
    OBVIOUS
  <2>8. BodyEnd(s, i) \in Bodies(s)
    BY <2>1, <2>5, <2>6, <2>7, WholeIsBody
  <2>9. QED
    BY <2>1, <2>5, <2>8 DEF WholeBody
<1>5. QED
  BY <1>3, <1>4

\* A chunked body is its first chunk and the rest, or its end.
LEMMA ChunkedBodyIs ==
    ASSUME NEW s \in Seq(Char), NEW i \in 1..(Len(s) + 1)
    PROVE  /\ ChunkedBody(s, i) \in Bodies(s)
           /\ ChunkedBody(s, i) = IF HasChunk(s, i)
                                  THEN Behind(ChunkAt(s, i), ChunkedBody(s, ChunkEnd(s, i)))
                                  ELSE BodyEnd(s, i)
           /\ ChunkedBody(s, i).is = "done" => ChunkedBody(s, i).next > i
<1> DEFINE n == Len(s) + 1
           body[k \in 1..n] ==
             IF HasChunk(s, k) THEN Behind(ChunkAt(s, k), body[ChunkEnd(s, k)]) ELSE BodyEnd(s, k)
           last == {k \in 1..n : ~HasChunk(s, k)}
           end == [k \in last |-> BodyEnd(s, k)]
           step == [k \in (1..n) \ last |-> [r \in Bodies(s) |-> Behind(ChunkAt(s, k), r)]]
           next == [k \in (1..n) \ last |-> ChunkEnd(s, k)]
<1>1. \A k \in 1..n : ChunkedBody(s, k) = body[k]
  BY DEF ChunkedBody
<1>2. n \in Nat /\ \A k \in 1..n : k \in Nat \ {0}
  OBVIOUS
<1>3. ASSUME NEW k \in (1..n) \ last PROVE HasChunk(s, k)
  OBVIOUS
<1>4. last \in SUBSET (1..n)
  OBVIOUS
<1>5. end \in [last -> Bodies(s)]
  BY <1>2, BodyEndIs
<1>6. next \in [(1..n) \ last -> 1..n] /\ \A k \in (1..n) \ last : next[k] > k
  <2>1. ASSUME NEW k \in (1..n) \ last PROVE ChunkEnd(s, k) \in (k + 1)..n
    BY <1>2, <1>3, ChunkAtIs
  <2>2. QED
    BY <1>2, <2>1
<1>7. step \in [(1..n) \ last -> [Bodies(s) -> Bodies(s)]]
  <2>1. ASSUME NEW k \in (1..n) \ last, NEW r \in Bodies(s) PROVE Behind(ChunkAt(s, k), r) \in Bodies(s)
    BY <1>2, <1>3, ChunkAtIs, BehindIs
  <2>2. QED
    BY <2>1
<1>8. ASSUME NEW k \in 1..n
      PROVE  /\ k \in last <=> ~HasChunk(s, k)
             /\ k \in last => end[k] = BodyEnd(s, k)
             /\ k \notin last => next[k] = ChunkEnd(s, k)
  OBVIOUS
<1>9. ASSUME NEW k \in (1..n) \ last, NEW r \in Bodies(s)
      PROVE  step[k][r] = Behind(ChunkAt(s, k), r)
  OBVIOUS
<1> HIDE DEF n, last, end, step, next
<1>10. CanDescend(n, Bodies(s), last, end, step, next)
  BY <1>2, <1>4, <1>5, <1>6, <1>7 DEF CanDescend
<1>11. PICK g \in [1..n -> Bodies(s)] : IsDescent(g, n, last, end, step, next)
  BY <1>10, DescentExists DEF HasDescent
<1>12. ASSUME NEW k \in 1..n
       PROVE  g[k] = IF HasChunk(s, k) THEN Behind(ChunkAt(s, k), g[ChunkEnd(s, k)]) ELSE BodyEnd(s, k)
  <2>1. CASE HasChunk(s, k)
    <3>1. k \in (1..n) \ last /\ next[k] = ChunkEnd(s, k) /\ next[k] \in 1..n
      BY <1>6, <1>8, <2>1
    <3>2. g[k] = step[k][g[next[k]]] /\ g[next[k]] \in Bodies(s)
      BY <1>11, <3>1 DEF IsDescent
    <3>3. QED
      BY <1>9, <2>1, <3>1, <3>2
  <2>2. CASE ~HasChunk(s, k)
    BY <1>8, <1>11, <2>2 DEF IsDescent
  <2>3. QED
    BY <2>1, <2>2
<1>13. g = [k \in 1..n |->
              IF HasChunk(s, k) THEN Behind(ChunkAt(s, k), g[ChunkEnd(s, k)]) ELSE BodyEnd(s, k)]
  BY <1>11, <1>12
<1>14. body = [k \in 1..n |->
              IF HasChunk(s, k) THEN Behind(ChunkAt(s, k), body[ChunkEnd(s, k)]) ELSE BodyEnd(s, k)]
  BY <1>13
<1> HIDE DEF body
<1>15. ASSUME NEW k \in 1..n
       PROVE  body[k] = IF HasChunk(s, k) THEN Behind(ChunkAt(s, k), body[ChunkEnd(s, k)])
                        ELSE BodyEnd(s, k)
  BY <1>14
<1> DEFINE P == {k \in 1..n : body[k] \in Bodies(s) /\ (body[k].is = "done" => body[k].next > k)}
<1>16. ASSUME NEW k \in 1..n, \A m \in (k + 1)..n : m \in P PROVE k \in P
  <2>1. CASE HasChunk(s, k)
    <3>1. PICK m : m = ChunkEnd(s, k)
      OBVIOUS
    <3>2. k \in Nat \ {0} /\ k \in Nat
      BY <1>2
    <3>3. m \in (k + 1)..n /\ ChunkAt(s, k) \in Seq(Char)
      BY <2>1, <3>1, <3>2, ChunkAtIs DEF n
    <3>4. body[m] \in Bodies(s) /\ (body[m].is = "done" => body[m].next > m)
      BY <1>16, <3>3
    <3>5. body[k] = Behind(ChunkAt(s, k), body[m])
      BY <1>15, <2>1, <3>1
    <3>6. /\ body[k] \in Bodies(s) /\ body[k].is = body[m].is
          /\ body[m].is = "done" => body[k].next = body[m].next
      BY <3>3, <3>4, <3>5, BehindIs
    <3>7. body[k].is = "done" => body[k].next > k
      <4>1. SUFFICES ASSUME body[m].is = "done" PROVE body[k].next > k
        BY <3>6
      <4>2. PICK e : e = body[m].next
        OBVIOUS
      <4>3. e \in 1..(Len(s) + 1)
        BY <3>4, <4>1, <4>2, BodyCases DEF WholeBody
      <4>4. e > m /\ body[k].next = e /\ e \in Nat
        BY <1>2, <3>4, <3>6, <4>1, <4>2, <4>3 DEF n
      <4>5. QED
        BY <3>2, <3>3, <4>4
    <3>8. QED
      BY <3>6, <3>7
  <2>2. CASE ~HasChunk(s, k)
    <3>1. body[k] = BodyEnd(s, k) /\ k \in Nat \ {0}
      BY <1>2, <1>15, <2>2
    <3>2. QED
      BY <3>1, BodyEndIs
  <2>3. QED
    BY <2>1, <2>2
<1> HIDE DEF P
<1>17. \A k \in 1..n : k \in P
  BY <1>2, <1>16, InductDown DEF InductiveDown
<1>18. i \in 1..n
  BY DEF n
<1>19. body[i] \in Bodies(s) /\ (body[i].is = "done" => body[i].next > i)
  BY <1>17, <1>18 DEF P
<1>20. HasChunk(s, i) => ChunkEnd(s, i) \in 1..n
  BY <1>2, <1>18, ChunkAtIs DEF n
<1>21. QED
  BY <1>1, <1>15, <1>18, <1>19, <1>20

\* The lines of a block are a sequence.
LEMMA LinesOfIs ==
    ASSUME NEW s, NEW i \in Nat, NEW j \in Nat
    PROVE  \E n \in Nat : /\ Len(LinesOf(s, i, j)) = n /\ DOMAIN LinesOf(s, i, j) = 1..n
                          /\ LinesOf(s, i, j) \in Seq({LinesOf(s, i, j)[k] : k \in 1..n})
<1>1. PICK F : F = LineFeeds(s, i, j - 2)
  OBVIOUS
<1>2. IsFiniteSet(F)
  <2>1. IsFiniteSet(i..(j - 2))
    BY FS_Interval
  <2>2. F \in SUBSET (i..(j - 2))
    BY <1>1 DEF LineFeeds
  <2>3. QED
    BY <2>1, <2>2, FS_Subset
<1>3. PICK n \in Nat : n = Cardinality(F)
  BY <1>2, FS_CardinalityType
<1>4. PICK f : f = LinesOf(s, i, j)
  OBVIOUS
<1>5. DOMAIN f = 1..n /\ f = [k \in 1..n |-> f[k]]
  BY <1>1, <1>3, <1>4 DEF LinesOf
<1>6. Len(f) = n /\ f \in Seq({f[k] : k \in 1..n})
  BY <1>5, IsSequence
<1>7. \E l \in Nat : Len(f) = l /\ DOMAIN f = 1..l /\ f \in Seq({f[k] : k \in 1..l})
  BY <1>5, <1>6
<1>8. QED
  BY <1>4, <1>7

\* The length that headers give is a number.
LEMMA LengthIs ==
    ASSUME NEW lines, Len(lines) \in Nat
    PROVE  LastValue(lines, "contentLength", 0) \in Nat
<1> DEFINE I == {k \in 1..Len(lines) : IsHeader(lines[k]) /\ Field[lines[k][1]] = "contentLength"}
<1>1. LastValue(lines, "contentLength", 0) = IF I = {} THEN 0 ELSE Value[lines[Max(I)][1]]
  BY DEF LastValue
<1>2. I \in SUBSET (1..Len(lines))
  OBVIOUS
<1>3. \A k \in I : IsHeader(lines[k]) /\ Field[lines[k][1]] = "contentLength"
  OBVIOUS
<1> HIDE DEF I
<1>4. CASE I = {}
  BY <1>1, <1>4
<1>5. CASE I # {}
  <2>1. PICK v : v = lines[Max(I)][1]
    OBVIOUS
  <2>2. v \in DOMAIN Field /\ Field[v] = "contentLength"
    BY <1>2, <1>3, <1>5, <2>1, MaxIn DEF IsHeader
  <2>3. Value[v] \in Nat
    BY <2>2, Headers
  <2>4. QED
    BY <1>1, <1>5, <2>1, <2>3
<1>6. QED
  BY <1>4, <1>5

-----------------------------------------------------------------------------
(* Chunked bodies.                                                          *)

\* Without a line feed there is no size yet.
LEMMA NoSizeLine ==
    ASSUME NEW s \in Seq(Char), NEW i \in 1..(Len(s) + 1), NoFeed(s, i, Len(s))
    PROVE  ChunkedBody(s, i) = More
<1>1. LineFeeds(s, i, Len(s)) = {}
  BY DEF LineFeeds, NoFeed
<1>2. QED
  BY <1>1, ChunkedBodyIs DEF HasChunk, BodyEnd

\* A bare one is an error.
LEMMA BareSizeLine ==
    ASSUME NEW s \in Seq(Char), NEW i \in 1..(Len(s) + 1), NEW j \in i..Len(s), NoFeed(s, i, j - 1),
           IsBare(s, i, j)
    PROVE  ChunkedBody(s, i) = Bad
<1>1. i \in Nat
  OBVIOUS
<1>2. s[j] = LF
  BY DEF IsBare
<1>3. LineFeeds(s, i, Len(s)) # {} /\ FirstFeed(s, i) = j
  BY <1>1, <1>2, FirstFeedIs
<1>4. QED
  BY <1>3, ChunkedBodyIs DEF HasChunk, BodyEnd

\* A size line.
LEMMA SizeLineIs ==
    ASSUME NEW s \in Seq(Char), NEW i \in 1..(Len(s) + 1), NEW j, NEW m, SizeLine(s, i, j, m)
    PROVE  /\ j \in i..Len(s) /\ LineFeeds(s, i, Len(s)) # {} /\ FirstFeed(s, i) = j
           /\ SizeAt(s, i) = m /\ ~IsBare(s, i, FirstFeed(s, i)) /\ m \in Nat
<1>1. i \in Nat \ {0} /\ j \in i..Len(s) /\ s[j] = LF /\ NoFeed(s, i, j - 1) /\ ~IsBare(s, i, j)
  BY DEF SizeLine
<1>2. LineFeeds(s, i, Len(s)) # {} /\ FirstFeed(s, i) = j
  BY <1>1, FirstFeedIs
<1>3. SizeAt(s, i) = m
  BY <1>2 DEF SizeAt, SizeLine
<1>4. QED
  BY <1>1, <1>2, <1>3, SizeAtIs

\* The last one.
LEMMA LastSizeLine ==
    ASSUME NEW s \in Seq(Char), NEW i \in 1..(Len(s) + 1), NEW j, SizeLine(s, i, j, 0)
    PROVE  /\ NoStop(s, j + 1, Len(s)) => ChunkedBody(s, i) = More
           /\ \A k : FirstStop(s, j + 1, k) /\ IsBare(s, j + 1, k) => ChunkedBody(s, i) = Bad
           /\ \A k : FirstStop(s, j + 1, k) /\ ~IsBare(s, j + 1, k) =>
                 ChunkedBody(s, i) = WholeBody(<<>>, LinesOf(s, j + 1, k), k + 1)
<1>1. /\ j \in i..Len(s) /\ LineFeeds(s, i, Len(s)) # {} /\ FirstFeed(s, i) = j
      /\ SizeAt(s, i) = 0 /\ ~IsBare(s, i, FirstFeed(s, i))
  BY SizeLineIs
<1>2. ChunkedBody(s, i) = BodyEnd(s, i)
  BY <1>1, ChunkedBodyIs DEF HasChunk
<1>3. ASSUME NoStop(s, j + 1, Len(s)) PROVE ChunkedBody(s, i) = More
  <2>1. Stops(s, j + 1) = {}
    BY <1>3 DEF NoStop, Stops
  <2>2. QED
    BY <1>1, <1>2, <2>1 DEF BodyEnd
<1>4. j + 1 \in Nat
  BY <1>1
<1>5. ASSUME NEW k, FirstStop(s, j + 1, k)
      PROVE  ChunkedBody(s, i) = IF IsBare(s, j + 1, k) THEN Bad
                                 ELSE WholeBody(<<>>, LinesOf(s, j + 1, k), k + 1)
  <2>1. Stops(s, j + 1) # {} /\ Min(Stops(s, j + 1)) = k
    BY <1>4, <1>5, FirstStopIs
  <2>2. QED
    BY <1>1, <1>2, <2>1 DEF BodyEnd, WholeBody
<1>6. QED
  BY <1>3, <1>5

\* One before a chunk.
LEMMA ChunkSizeLine ==
    ASSUME NEW s \in Seq(Char), NEW i \in 1..(Len(s) + 1), NEW j, NEW m, SizeLine(s, i, j, m), m > 0
    PROVE  /\ m + 2 >= Word => ChunkedBody(s, i) = Unspecified
           /\ m + 2 < Word /\ j + m + 3 > Len(s) + 1 => ChunkedBody(s, i) = More
           /\ m + 2 < Word /\ j + m + 3 <= Len(s) + 1 =>
                 ChunkedBody(s, i) =
                    IF SubSeq(s, j + m + 1, j + m + 2) = <<CR, LF>>
                    THEN Behind(SubSeq(s, j + 1, j + m), ChunkedBody(s, j + m + 3))
                    ELSE Unspecified
<1>1. /\ j \in i..Len(s) /\ LineFeeds(s, i, Len(s)) # {} /\ FirstFeed(s, i) = j
      /\ SizeAt(s, i) = m /\ ~IsBare(s, i, FirstFeed(s, i)) /\ m \in Nat
  BY SizeLineIs
<1>2. ChunkEnd(s, i) = j + m + 3 /\ ChunkAt(s, i) = SubSeq(s, j + 1, j + m)
  BY <1>1 DEF ChunkEnd, ChunkAt
<1>3. (j + m + 3) - 2 = j + m + 1 /\ (j + m + 3) - 1 = j + m + 2 /\ Len(s) \in Nat /\ Word \in Nat
  BY <1>1, Widths
<1>4. HasChunk(s, i) <=> /\ m + 2 < Word /\ j + m + 3 <= Len(s) + 1
                         /\ SubSeq(s, j + m + 1, j + m + 2) = <<CR, LF>>
  BY <1>1, <1>2, <1>3 DEF HasChunk
<1>5. ~HasChunk(s, i) => ChunkedBody(s, i) = IF m + 2 < Word /\ j + m + 3 > Len(s) + 1 THEN More
                                             ELSE Unspecified
  <2>1. ~HasChunk(s, i) => ChunkedBody(s, i) = BodyEnd(s, i)
    BY ChunkedBodyIs
  <2>2. QED
    BY <1>1, <1>2, <2>1 DEF BodyEnd
<1>6. HasChunk(s, i) => ChunkedBody(s, i) = Behind(SubSeq(s, j + 1, j + m), ChunkedBody(s, j + m + 3))
  <2>1. HasChunk(s, i) => ChunkedBody(s, i) = Behind(ChunkAt(s, i), ChunkedBody(s, ChunkEnd(s, i)))
    BY ChunkedBodyIs
  <2>2. QED
    BY <1>2, <2>1
<1>7. m + 2 >= Word <=> ~(m + 2 < Word)
  BY <1>1, <1>3
<1>8. j + m + 3 > Len(s) + 1 <=> ~(j + m + 3 <= Len(s) + 1)
  BY <1>1, <1>3
<1>9. QED
  BY <1>4, <1>5, <1>6, <1>7, <1>8

-----------------------------------------------------------------------------
(* Requests.                                                                *)

\* What the headers of the block that ends at j say of the body.
BodyAfter(s, i, j) ==
    IF LastValue(LinesOf(s, i, j), "chunked", FALSE) THEN ChunkedBody(s, j + 1)
    ELSE PlainBody(s, j + 1, LastValue(LinesOf(s, i, j), "contentLength", 0))

\* And the request with that body.
RequestWith(s, i, j, body) ==
    [lines |-> LinesOf(s, i, j) \o body.trailer,
     keepAlive |-> LastValue(LinesOf(s, i, j), "keepAlive", FALSE),
     content |-> body.content]

\* What is at i, by the first place where its headers end, well or badly.
LEMMA RequestAtIs ==
    ASSUME NEW s \in Seq(Char), NEW i \in Nat
    PROVE  /\ NoStop(s, i, Len(s)) => RequestAt(s, i) = More
           /\ \A j : FirstStop(s, i, j) /\ IsBare(s, i, j) => RequestAt(s, i) = Bad
           /\ \A j : FirstStop(s, i, j) /\ ~IsBare(s, i, j) =>
                 RequestAt(s, i) =
                    IF BodyAfter(s, i, j).is # "done" THEN BodyAfter(s, i, j)
                    ELSE [is |-> "done", next |-> BodyAfter(s, i, j).next,
                          request |-> RequestWith(s, i, j, BodyAfter(s, i, j))]
<1>1. ASSUME NoStop(s, i, Len(s)) PROVE RequestAt(s, i) = More
  <2>1. Stops(s, i) = {}
    BY <1>1 DEF NoStop, Stops
  <2>2. QED
    BY <2>1 DEF RequestAt
<1>2. ASSUME NEW j, FirstStop(s, i, j)
      PROVE  RequestAt(s, i) =
               IF IsBare(s, i, j) THEN Bad
               ELSE IF BodyAfter(s, i, j).is # "done" THEN BodyAfter(s, i, j)
                    ELSE [is |-> "done", next |-> BodyAfter(s, i, j).next,
                          request |-> RequestWith(s, i, j, BodyAfter(s, i, j))]
  <2>1. Stops(s, i) # {} /\ Min(Stops(s, i)) = j
    BY <1>2, FirstStopIs
  <2>2. QED
    BY <2>1 DEF RequestAt, BodyAfter, RequestWith
<1>3. QED
  BY <1>1, <1>2

\* The next request is further on.
LEMMA NextIsLater ==
    ASSUME NEW s \in Seq(Char), NEW i \in 1..(Len(s) + 1), RequestAt(s, i).is = "done"
    PROVE  RequestAt(s, i).next \in (i + 1)..(Len(s) + 1)
<1>1. PICK j : j = Min(Stops(s, i))
  OBVIOUS
<1>2. PICK body : body = BodyAfter(s, i, j)
  OBVIOUS
<1>3. Stops(s, i) # {} /\ body.is = "done" /\ RequestAt(s, i).next = body.next
  BY <1>1, <1>2 DEF RequestAt, BodyAfter, More, Bad
<1>4. i \in Nat \ {0} /\ Len(s) \in Nat
  OBVIOUS
<1>5. j \in i..Len(s)
  BY <1>1, <1>3, <1>4, StopIn
<1>6. j \in Nat /\ j + 1 \in 1..(Len(s) + 1) /\ i <= j
  BY <1>4, <1>5
<1>7. CASE LastValue(LinesOf(s, i, j), "chunked", FALSE)
  <2>1. body = ChunkedBody(s, j + 1)
    BY <1>2, <1>7 DEF BodyAfter
  <2>2. body \in Bodies(s) /\ body.next > j + 1
    BY <1>3, <1>6, <2>1, ChunkedBodyIs
  <2>3. body.next \in 1..(Len(s) + 1)
    BY <1>3, <2>2, BodyCases DEF WholeBody
  <2>4. QED
    BY <1>3, <1>4, <1>6, <2>2, <2>3
<1>8. CASE ~LastValue(LinesOf(s, i, j), "chunked", FALSE)
  <2>1. PICK n : n = LastValue(LinesOf(s, i, j), "contentLength", 0)
    OBVIOUS
  <2>2. n \in Nat
    BY <1>4, <1>6, <2>1, LinesOfIs, LengthIs
  <2>3. body = PlainBody(s, j + 1, n)
    BY <1>2, <1>8, <2>1 DEF BodyAfter
  <2>4. ~(Len(s) - (j + 1) + 1 < n) /\ body.next = j + 1 + n
    BY <1>3, <2>3 DEF PlainBody, More
  <2>5. QED
    BY <1>3, <1>4, <1>6, <2>2, <2>4
<1>9. QED
  BY <1>7, <1>8

\* What the requests of an input, and what follows them, can be.
RequestsOf(s) == {RequestAt(s, k).request : k \in 1..(Len(s) + 1)}
Ends(s) == {RequestAt(s, k).is : k \in 1..(Len(s) + 1)}
Meanings(s) == [requests : Seq(RequestsOf(s)), then : Ends(s)]

\* One request more, before the others.
Before(r, m) == [m EXCEPT !.requests = <<r>> \o @]

\* It is a meaning again.
LEMMA BeforeIs ==
    ASSUME NEW s, NEW m \in Meanings(s), NEW r \in RequestsOf(s)
    PROVE  /\ Before(r, m) \in Meanings(s)
           /\ Before(r, m) = [requests |-> <<r>> \o m.requests, then |-> m.then]
<1>1. PICK q \in Seq(RequestsOf(s)), w \in Ends(s) : m = [requests |-> q, then |-> w]
  BY DEF Meanings
<1>2. PICK u : u = <<r>> \o q
  OBVIOUS
<1>3. Before(r, m) = [m EXCEPT !.requests = u]
  BY <1>1, <1>2 DEF Before
<1>4. [m EXCEPT !.requests = u] = [requests |-> u, then |-> w]
  BY <1>1
<1>5. u \in Seq(RequestsOf(s))
  <2>1. <<r>> \in Seq(RequestsOf(s))
    OBVIOUS
  <2>2. QED
    BY <1>2, <2>1, ConcatProperties
<1>6. [requests |-> u, then |-> w] \in Meanings(s)
  BY <1>5 DEF Meanings
<1>7. m.requests = q /\ m.then = w
  BY <1>1
<1>8. QED
  BY <1>2, <1>3, <1>4, <1>6, <1>7

\* The first request of an input, and the others; or what it is instead.
LEMMA MeaningIs ==
    ASSUME NEW s \in Seq(Char), NEW i \in 1..(Len(s) + 1)
    PROVE  /\ MeaningFrom(s, i) \in Meanings(s)
           /\ RequestAt(s, i).is # "done" =>
                 MeaningFrom(s, i) = [requests |-> <<>>, then |-> RequestAt(s, i).is]
           /\ RequestAt(s, i).is = "done" =>
                 MeaningFrom(s, i) = Before(RequestAt(s, i).request,
                                            MeaningFrom(s, RequestAt(s, i).next))
<1> DEFINE n == Len(s) + 1
           Ended0(k) == [requests |-> <<>>, then |-> RequestAt(s, k).is]
           from[k \in 1..n] ==
             IF RequestAt(s, k).is # "done" THEN Ended0(k)
             ELSE Before(RequestAt(s, k).request, from[RequestAt(s, k).next])
           last == {k \in 1..n : RequestAt(s, k).is # "done"}
           end == [k \in last |-> Ended0(k)]
           step == [k \in (1..n) \ last |-> [m \in Meanings(s) |-> Before(RequestAt(s, k).request, m)]]
           next == [k \in (1..n) \ last |-> RequestAt(s, k).next]
<1>1. \A k \in 1..n : MeaningFrom(s, k) = from[k]
  BY DEF MeaningFrom, Before
<1>2. n \in Nat
  OBVIOUS
<1>3. ASSUME NEW k \in (1..n) \ last PROVE RequestAt(s, k).is = "done"
  OBVIOUS
<1>4. last \in SUBSET (1..n)
  OBVIOUS
<1>5. ASSUME NEW k \in 1..n
      PROVE  RequestAt(s, k).request \in RequestsOf(s) /\ RequestAt(s, k).is \in Ends(s)
  BY DEF RequestsOf, Ends
<1>6. end \in [last -> Meanings(s)]
  <2>1. ASSUME NEW k \in last PROVE Ended0(k) \in Meanings(s)
    <3>1. RequestAt(s, k).is \in Ends(s) /\ <<>> \in Seq(RequestsOf(s))
      BY <1>4, <1>5
    <3>2. QED
      BY <3>1 DEF Meanings
  <2> HIDE DEF Ended0
  <2>2. QED
    BY <2>1
<1>7. next \in [(1..n) \ last -> 1..n] /\ \A k \in (1..n) \ last : next[k] > k
  <2>1. ASSUME NEW k \in (1..n) \ last PROVE RequestAt(s, k).next \in (k + 1)..n
    BY <1>3, NextIsLater
  <2>2. QED
    BY <1>2, <2>1
<1>8. step \in [(1..n) \ last -> [Meanings(s) -> Meanings(s)]]
  <2>1. ASSUME NEW k \in (1..n) \ last, NEW m \in Meanings(s)
        PROVE  Before(RequestAt(s, k).request, m) \in Meanings(s)
    BY <1>5, BeforeIs
  <2>2. QED
    BY <2>1
<1>9. ASSUME NEW k \in 1..n
      PROVE  /\ k \in last <=> RequestAt(s, k).is # "done"
             /\ k \in last => end[k] = Ended0(k)
             /\ k \notin last => next[k] = RequestAt(s, k).next
  OBVIOUS
<1>10. ASSUME NEW k \in (1..n) \ last, NEW m \in Meanings(s)
       PROVE  step[k][m] = Before(RequestAt(s, k).request, m)
  OBVIOUS
<1> HIDE DEF n, last, end, step, next, Ended0
<1>11. CanDescend(n, Meanings(s), last, end, step, next)
  BY <1>2, <1>4, <1>6, <1>7, <1>8 DEF CanDescend
<1>12. PICK g \in [1..n -> Meanings(s)] : IsDescent(g, n, last, end, step, next)
  BY <1>11, DescentExists DEF HasDescent
<1>13. ASSUME NEW k \in 1..n
       PROVE  g[k] = IF RequestAt(s, k).is # "done" THEN Ended0(k)
                     ELSE Before(RequestAt(s, k).request, g[RequestAt(s, k).next])
  <2>1. CASE RequestAt(s, k).is = "done"
    <3>1. k \in (1..n) \ last /\ next[k] = RequestAt(s, k).next /\ next[k] \in 1..n
      BY <1>7, <1>9, <2>1
    <3>2. g[k] = step[k][g[next[k]]] /\ g[next[k]] \in Meanings(s)
      BY <1>12, <3>1 DEF IsDescent
    <3>3. QED
      BY <1>10, <2>1, <3>1, <3>2
  <2>2. CASE RequestAt(s, k).is # "done"
    BY <1>9, <1>12, <2>2 DEF IsDescent
  <2>3. QED
    BY <2>1, <2>2
<1>14. g = [k \in 1..n |->
              IF RequestAt(s, k).is # "done" THEN Ended0(k)
              ELSE Before(RequestAt(s, k).request, g[RequestAt(s, k).next])]
  BY <1>12, <1>13
<1>15. from = [k \in 1..n |->
              IF RequestAt(s, k).is # "done" THEN Ended0(k)
              ELSE Before(RequestAt(s, k).request, from[RequestAt(s, k).next])]
  BY <1>14
<1> HIDE DEF from
<1>16. ASSUME NEW k \in 1..n
       PROVE  from[k] = IF RequestAt(s, k).is # "done" THEN Ended0(k)
                        ELSE Before(RequestAt(s, k).request, from[RequestAt(s, k).next])
  BY <1>15
<1> DEFINE P == {k \in 1..n : from[k] \in Meanings(s)}
<1>17. ASSUME NEW k \in 1..n, \A m \in (k + 1)..n : m \in P PROVE k \in P
  <2>1. CASE RequestAt(s, k).is = "done"
    <3>1. PICK m : m = RequestAt(s, k).next
      OBVIOUS
    <3>2. m \in (k + 1)..n
      BY <2>1, <3>1, NextIsLater DEF n
    <3>3. from[m] \in Meanings(s)
      BY <1>17, <3>2
    <3>4. from[k] = Before(RequestAt(s, k).request, from[m])
      BY <1>16, <2>1, <3>1
    <3>5. RequestAt(s, k).request \in RequestsOf(s)
      BY <1>5
    <3>6. from[k] \in Meanings(s)
      <4>1. PICK r \in RequestsOf(s), o \in Meanings(s) :
               r = RequestAt(s, k).request /\ o = from[m]
        BY <3>3, <3>5
      <4>2. Before(r, o) \in Meanings(s)
        BY BeforeIs
      <4>3. QED
        BY <3>4, <4>1, <4>2
    <3>7. QED
      BY <3>6
  <2>2. CASE RequestAt(s, k).is # "done"
    <3>1. k \in last /\ end[k] = Ended0(k)
      BY <1>9, <2>2
    <3>2. Ended0(k) \in Meanings(s)
      BY <1>6, <3>1
    <3>3. QED
      BY <1>16, <2>2, <3>2
  <2>3. QED
    BY <2>1, <2>2
<1> HIDE DEF P
<1>18. \A k \in 1..n : k \in P
  BY <1>2, <1>17, InductDown DEF InductiveDown
<1>19. i \in 1..n
  BY DEF n
<1>20. from[i] \in Meanings(s)
  BY <1>18, <1>19 DEF P
<1>21. RequestAt(s, i).is = "done" => RequestAt(s, i).next \in 1..n
  BY <1>2, <1>19, NextIsLater DEF n
<1>22. QED
  BY <1>1, <1>16, <1>19, <1>20, <1>21 DEF Ended0

-----------------------------------------------------------------------------
(* A chunk size, read in parts.                                             *)

\* A part of a sequence that one more byte is appended to.
LEMMA SubSeqAppend ==
    ASSUME NEW x \in Seq(Char), NEW v \in Char, NEW i \in 1..(Len(x) + 1), NEW j \in 0..Len(x)
    PROVE  /\ SubSeq(Append(x, v), i, j) = SubSeq(x, i, j)
           /\ SubSeq(Append(x, v), i, Len(x) + 1) = Append(SubSeq(x, i, Len(x)), v)
<1>1. PICK y : y = Append(x, v)
  OBVIOUS
<1>2. PICK n \in Nat : n = Len(x)
  OBVIOUS
<1>3. y \in Seq(Char) /\ Len(y) = n + 1 /\ y[n + 1] = v /\ \A k \in 1..n : y[k] = x[k]
  BY <1>1, <1>2, AppendProperties
<1>4. \A k \in 1..n : x[k] \in Char
  BY <1>2
<1>5. \A k \in 1..(n + 1) : y[k] \in Char
  BY <1>3
<1>6. SubSeq(y, i, j) = SubSeq(x, i, j)
  <2>1. \A k \in i..j : k \in 1..n /\ k \in 1..(n + 1)
    BY <1>2
  <2>2. i \in Int /\ j \in Int
    OBVIOUS
  <2>3. PICK z : z = SubSeq(x, i, j)
    OBVIOUS
  <2>4. PICK u : u = SubSeq(y, i, j)
    OBVIOUS
  <2>5. /\ z \in Seq(Char) /\ Len(z) = IF i <= j THEN j - i + 1 ELSE 0
        /\ \A k \in 1..(j - i + 1) : z[k] = x[i + k - 1]
    BY <1>4, <2>1, <2>2, <2>3, SubSeqProperties
  <2>6. /\ u \in Seq(Char) /\ Len(u) = IF i <= j THEN j - i + 1 ELSE 0
        /\ \A k \in 1..(j - i + 1) : u[k] = y[i + k - 1]
    BY <1>5, <2>1, <2>2, <2>4, SubSeqProperties, SMTT(30)
  <2>7. ASSUME NEW k \in 1..Len(z) PROVE z[k] = u[k]
    <3>1. k \in 1..(j - i + 1) /\ i + k - 1 \in 1..n
      BY <1>2, <2>5
    <3>2. QED
      BY <1>3, <2>5, <2>6, <3>1
  <2>8. z = u
    BY <2>5, <2>6, <2>7
  <2>9. QED
    BY <2>3, <2>4, <2>8
<1>7. SubSeq(y, i, n + 1) = Append(SubSeq(x, i, n), v)
  <2>1. i \in Int /\ n \in Int /\ n + 1 \in Int /\ i <= n + 1
    BY <1>2
  <2>2. (\A k \in i..n : k \in 1..n) /\ \A k \in i..(n + 1) : k \in 1..(n + 1)
    BY <1>2
  <2>3. PICK z : z = SubSeq(x, i, n)
    OBVIOUS
  <2>4. PICK u : u = SubSeq(y, i, n + 1)
    OBVIOUS
  <2>5. z \in Seq(Char) /\ Len(z) = n - i + 1 /\ \A k \in 1..(n - i + 1) : z[k] = x[i + k - 1]
    <3>1. /\ z \in Seq(Char) /\ Len(z) = IF i <= n THEN n - i + 1 ELSE 0
          /\ \A k \in 1..(n - i + 1) : z[k] = x[i + k - 1]
      BY <1>4, <2>1, <2>2, <2>3, SubSeqProperties
    <3>2. QED
      BY <2>1, <3>1
  <2>6. u \in Seq(Char) /\ Len(u) = n - i + 2 /\ \A k \in 1..(n - i + 2) : u[k] = y[i + k - 1]
    <3>1. /\ u \in Seq(Char) /\ Len(u) = IF i <= n + 1 THEN (n + 1) - i + 1 ELSE 0
          /\ \A k \in 1..((n + 1) - i + 1) : u[k] = y[i + k - 1]
      BY <1>5, <2>1, <2>2, <2>4, SubSeqProperties
    <3>2. (n + 1) - i + 1 = n - i + 2
      BY <2>1
    <3>3. QED
      BY <2>1, <3>1, <3>2
  <2>7. PICK w : w = Append(z, v)
    OBVIOUS
  <2>8. w \in Seq(Char) /\ Len(w) = Len(z) + 1 /\ w[Len(z) + 1] = v /\ \A k \in 1..Len(z) : w[k] = z[k]
    <3>1. z \in Seq(Char) /\ v \in Char
      BY <2>5
    <3>2. QED
      BY <2>7, <3>1, AppendProperties
  <2>9. ASSUME NEW k \in 1..Len(w) PROVE w[k] = u[k]
    <3>1. CASE k = Len(z) + 1
      <4>1. k = n - i + 2 /\ i + k - 1 = n + 1
        BY <2>1, <2>5, <3>1
      <4>2. k \in 1..(n - i + 2)
        BY <2>1, <4>1
      <4>3. QED
        BY <1>3, <2>6, <2>8, <3>1, <4>1, <4>2
    <3>2. CASE k \in 1..Len(z)
      <4>1. k \in 1..(n - i + 1) /\ k \in 1..(n - i + 2) /\ i + k - 1 \in 1..n
        BY <1>2, <2>1, <2>5, <3>2
      <4>2. QED
        BY <1>3, <2>5, <2>6, <2>8, <3>2, <4>1
    <3>3. QED
      BY <2>5, <2>8, <3>1, <3>2
  <2>10. Len(w) = Len(u)
    BY <2>1, <2>5, <2>6, <2>8
  <2>11. w = u
    BY <2>6, <2>8, <2>9, <2>10
  <2>12. QED
    BY <2>3, <2>4, <2>7, <2>11
<1>8. QED
  BY <1>1, <1>2, <1>6, <1>7

\* A digit read into a number cut to the width of size_t gives the cut of the number it extends.
LEMMA DigitStep ==
    ASSUME NEW a \in Nat, NEW q \in Nat
    PROVE  (a * Radix + q) % Word = ((a % Word) * Radix + q) % Word
<1>1. Word \in Nat \ {0} /\ Radix \in Nat
  BY Widths
<1>2. ASSUME NEW w \in Nat \ {0}, NEW n \in Nat
      PROVE  (a * n + q) % w = ((a % w) * n + q) % w
  BY ModStep, ZenonT(60)
<1>3. QED
  BY <1>1, <1>2

\* One more byte of the size line.
LEMMA SizeReadNext ==
    ASSUME NEW d \in Members, NEW x \in Seq(Char), NEW v \in Char, SizeRead(d, x)
    PROVE  SizeRead(SizeDecoder(d, v), Append(x, v))
<1>1. PICK l \in 0..Len(x), k \in 0..Len(x) : SizeReadAs(d, x, l, k)
  BY DEF SizeRead
<1>2. PICK y : y = Append(x, v)
  OBVIOUS
<1>3. PICK n \in Nat : n = Len(x)
  OBVIOUS
<1>4. y \in Seq(Char) /\ Len(y) = n + 1 /\ y[n + 1] = v /\ \A m \in 1..n : y[m] = x[m]
  BY <1>2, <1>3, AppendProperties
<1>5. PICK e : e = SizeDecoder(d, v)
  OBVIOUS
<1>6. d.chunkSize \in Nat /\ d.sizeStart \in BOOLEAN /\ d.sizeDone \in BOOLEAN
  BY DEF Members
<1>7. /\ l \in 0..n /\ k \in 0..n /\ l + k <= n
      /\ \A m \in 1..l : IsSpace(x[m])
      /\ \A m \in (l + 1)..(l + k) : IsDigit(x[m])
      /\ l + k < n => ~IsDigit(x[l + k + 1]) /\ (k = 0 => ~IsSpace(x[l + 1]))
      /\ d.sizeStart <=> k > 0
      /\ d.sizeDone <=> l + k < n
      /\ d.chunkSize = Number(SubSeq(x, l + 1, l + k)) % Word
  BY <1>1, <1>3 DEF SizeReadAs
<1>8. /\ l \in 0..(n + 1) /\ k \in 0..(n + 1) /\ l + k <= n + 1
      /\ \A m \in 1..l : IsSpace(y[m])
      /\ \A m \in (l + 1)..(l + k) : IsDigit(y[m])
      /\ l + k < n => ~IsDigit(y[l + k + 1]) /\ (k = 0 => ~IsSpace(y[l + 1]))
  <2>1. (\A m \in 1..l : m \in 1..n) /\ \A m \in (l + 1)..(l + k) : m \in 1..n
    BY <1>7
  <2>2. l + k < n => l + k + 1 \in 1..n /\ l + 1 \in 1..n
    BY <1>7
  <2>3. QED
    BY <1>4, <1>7, <2>1, <2>2
<1>9. SubSeq(y, l + 1, l + k) = SubSeq(x, l + 1, l + k)
  <2>1. l + 1 \in 1..(Len(x) + 1) /\ l + k \in 0..Len(x)
    BY <1>3, <1>7
  <2>2. QED
    BY <1>2, <2>1, SubSeqAppend
<1>10. CASE d.sizeDone
  <2>1. e = d
    BY <1>5, <1>10 DEF SizeDecoder
  <2>2. l + k < n /\ l + k < n + 1
    BY <1>7, <1>10
  <2>3. /\ e.sizeStart <=> k > 0
        /\ e.sizeDone
        /\ e.chunkSize = Number(SubSeq(y, l + 1, l + k)) % Word
    BY <1>7, <1>9, <1>10, <2>1
  <2>4. SizeReadAs(e, y, l, k)
    BY <1>4, <1>8, <2>2, <2>3 DEF SizeReadAs
  <2>5. QED
    BY <1>2, <1>4, <1>5, <1>8, <2>4 DEF SizeRead
<1>11. CASE ~d.sizeDone /\ IsDigit(v)
  <2>1. l + k = n
    BY <1>6, <1>7, <1>11
  <2>2. PICK z \in Seq(Char) :
           /\ z = SubSeq(x, l + 1, l + k) /\ Len(z) = k
           /\ \A m \in 1..k : z[m] = x[l + m]
    <3>1. \A m \in (l + 1)..(l + k) : x[m] \in Char
      BY <1>3, <1>7
    <3>2. PICK u : u = SubSeq(x, l + 1, l + k)
      OBVIOUS
    <3>3. /\ u \in Seq(Char) /\ Len(u) = IF l + 1 <= l + k THEN (l + k) - (l + 1) + 1 ELSE 0
          /\ \A m \in 1..((l + k) - (l + 1) + 1) : u[m] = x[(l + 1) + m - 1]
      <4>1. l + 1 \in Int /\ l + k \in Int
        OBVIOUS
      <4>2. QED
        BY <3>1, <3>2, <4>1, SubSeqProperties
    <3>4. (l + k) - (l + 1) + 1 = k /\ \A m \in 1..k : (l + 1) + m - 1 = l + m
      OBVIOUS
    <3>5. Len(u) = k
      BY <3>3, <3>4
    <3>6. \A m \in 1..k : u[m] = x[l + m]
      BY <3>3, <3>4
    <3>7. QED
      BY <3>2, <3>3, <3>5, <3>6
  <2>3. AreDigits(z)
    <3>1. Len(z) = k /\ \A m \in 1..k : z[m] = x[l + m] /\ l + m \in (l + 1)..(l + k)
      BY <1>7, <2>2
    <3>2. QED
      BY <1>7, <3>1 DEF AreDigits
  <2>4. Number(z) \in Nat /\ Number(Append(z, v)) = Number(z) * Radix + DigitValue[v]
    BY <1>11, <2>3, NumberGrows
  <2>5. SubSeq(y, l + 1, l + (k + 1)) = Append(z, v)
    <3>1. l + 1 \in 1..(Len(x) + 1) /\ l + k = Len(x) /\ l + (k + 1) = Len(x) + 1 /\ Len(x) \in 0..Len(x)
      BY <1>3, <1>7, <2>1
    <3>2. SubSeq(y, l + 1, Len(x) + 1) = Append(SubSeq(x, l + 1, Len(x)), v)
      BY <1>2, <3>1, SubSeqAppend
    <3>3. QED
      BY <2>2, <3>1, <3>2
  <2>6. DigitValue[v] \in Nat
    BY <1>11 DEF IsDigit, DigitValue
  <2>7. Number(Append(z, v)) % Word = (d.chunkSize * Radix + DigitValue[v]) % Word
    <3>1. Word \in Nat \ {0} /\ Radix \in Nat
      BY Widths
    <3>2. (Number(z) * Radix + DigitValue[v]) % Word = ((Number(z) % Word) * Radix + DigitValue[v]) % Word
      <4>1. PICK a \in Nat, q \in Nat : a = Number(z) /\ q = DigitValue[v]
        BY <2>4, <2>6
      <4>2. (a * Radix + q) % Word = ((a % Word) * Radix + q) % Word
        BY DigitStep
      <4>3. QED
        BY <4>1, <4>2
    <3>3. d.chunkSize = Number(z) % Word
      BY <1>7, <2>2
    <3>4. QED
      BY <2>4, <3>2, <3>3
  <2>8. e = [d EXCEPT !.chunkSize = (d.chunkSize * Radix + DigitValue[v]) % Word, !.sizeStart = TRUE]
    BY <1>5, <1>11 DEF SizeDecoder
  <2>9. e.chunkSize = (d.chunkSize * Radix + DigitValue[v]) % Word
        /\ e.sizeStart = TRUE /\ e.sizeDone = FALSE
    BY <1>6, <1>11, <2>8 DEF Members
  <2>10. SizeReadAs(e, y, l, k + 1)
    <3>1. \A m \in (l + 1)..(l + (k + 1)) : m \in (l + 1)..(l + k) \/ m = n + 1
      BY <1>7, <2>1
    <3>2. \A m \in (l + 1)..(l + (k + 1)) : IsDigit(y[m])
      BY <1>4, <1>8, <1>11, <3>1
    <3>3. l + (k + 1) = n + 1 /\ k + 1 > 0
      BY <1>7, <2>1
    <3>4. e.chunkSize = Number(SubSeq(y, l + 1, l + (k + 1))) % Word
      BY <2>5, <2>7, <2>9
    <3>5. QED
      BY <1>4, <1>8, <2>9, <3>2, <3>3, <3>4 DEF SizeReadAs
  <2>11. k + 1 \in 0..(n + 1)
    BY <1>7
  <2>12. QED
    BY <1>2, <1>4, <1>5, <1>8, <2>10, <2>11 DEF SizeRead
<1>12. CASE ~d.sizeDone /\ ~IsDigit(v)
  <2>1. l + k = n
    BY <1>6, <1>7, <1>12
  <2>2. e = [d EXCEPT !.sizeDone = d.sizeStart \/ ~IsSpace(v)]
    BY <1>5, <1>12 DEF SizeDecoder
  <2>3. e.chunkSize = d.chunkSize /\ e.sizeStart = d.sizeStart
        /\ e.sizeDone = (d.sizeStart \/ ~IsSpace(v))
    BY <2>2 DEF Members
  <2>4. CASE d.sizeStart \/ ~IsSpace(v)
    <3>1. ~IsDigit(y[l + k + 1]) /\ (k = 0 => ~IsSpace(y[l + 1]))
      <4>1. l + k + 1 = n + 1 /\ (k = 0 => l + 1 = n + 1)
        BY <2>1
      <4>2. y[n + 1] = v /\ ~IsDigit(v)
        BY <1>4, <1>12
      <4>3. k = 0 => ~d.sizeStart
        BY <1>7
      <4>4. QED
        BY <2>4, <4>1, <4>2, <4>3
    <3>2. l + k < n + 1
      BY <2>1
    <3>3. SizeReadAs(e, y, l, k)
      BY <1>4, <1>7, <1>8, <1>9, <2>3, <2>4, <3>1, <3>2 DEF SizeReadAs
    <3>4. QED
      BY <1>2, <1>4, <1>5, <1>8, <3>3 DEF SizeRead
  <2>5. CASE ~d.sizeStart /\ IsSpace(v)
    <3>1. k = 0 /\ l = n
      BY <1>6, <1>7, <2>1, <2>5
    <3>2. \A m \in 1..(n + 1) : IsSpace(y[m])
      <4>1. \A m \in 1..(n + 1) : m \in 1..n \/ m = n + 1
        OBVIOUS
      <4>2. QED
        BY <1>4, <1>8, <2>5, <3>1, <4>1
    <3>3. SubSeq(y, n + 2, n + 1) = SubSeq(x, n + 1, n)
      BY <1>3, <1>4
    <3>4. e.chunkSize = Number(SubSeq(y, (n + 1) + 1, (n + 1) + 0)) % Word
      <4>1. (n + 1) + 1 = n + 2 /\ (n + 1) + 0 = n + 1 /\ n + 0 = n
        OBVIOUS
      <4>2. QED
        BY <1>7, <2>3, <3>1, <3>3, <4>1
    <3>5. \A m \in ((n + 1) + 1)..((n + 1) + 0) : FALSE
      OBVIOUS
    <3>6. ~((n + 1) + 0 < n + 1) /\ (n + 1) + 0 <= n + 1
      OBVIOUS
    <3>7. e.sizeStart = FALSE /\ e.sizeDone = FALSE
      BY <1>6, <1>7, <2>3, <2>5, <3>1
    <3>8. SizeReadAs(e, y, n + 1, 0)
      BY <1>4, <3>2, <3>4, <3>5, <3>6, <3>7 DEF SizeReadAs
    <3>9. n + 1 \in 0..(n + 1) /\ 0 \in 0..(n + 1)
      OBVIOUS
    <3>10. QED
      BY <1>2, <1>4, <1>5, <3>8, <3>9 DEF SizeRead
  <2>6. QED
    BY <2>4, <2>5
<1>13. QED
  BY <1>6, <1>10, <1>11, <1>12

\* Nothing is read of a size line that has not begun.
LEMMA SizeReadNone ==
    ASSUME NEW d, d.chunkSize = 0, d.sizeStart = FALSE, d.sizeDone = FALSE
    PROVE  SizeRead(d, <<>>)
<1>1. Len(<<>>) = 0 /\ SubSeq(<<>>, 0 + 1, 0 + 0) = <<>>
  OBVIOUS
<1>2. <<>> \in Seq(Char) /\ AreDigits(<<>>)
  BY <1>1 DEF AreDigits
<1>3. Number(<<>>) = 0
  BY <1>2, NumberGrows
<1>4. 0 % Word = 0
  <2>1. Word \in Nat /\ Word >= 4
    BY Widths
  <2>2. QED
    BY <2>1
<1>5. SizeReadAs(d, <<>>, 0, 0)
  <2>1. 0 + 0 <= 0 /\ ~(0 + 0 < 0) /\ 1..0 = {} /\ (0 + 1)..(0 + 0) = {} /\ ~(0 > 0)
    OBVIOUS
  <2>2. d.chunkSize = Number(SubSeq(<<>>, 0 + 1, 0 + 0)) % Word
    BY <1>1, <1>3, <1>4
  <2>3. d.sizeStart <=> 0 > 0
    BY <2>1
  <2>4. d.sizeDone <=> 0 + 0 < 0
    BY <2>1
  <2>5. QED
    BY <1>1, <2>1, <2>2, <2>3, <2>4 DEF SizeReadAs
<1>6. QED
  BY <1>1, <1>5 DEF SizeRead

\* A part of a sequence, and one more.
LEMMA SubSeqNext ==
    ASSUME NEW w \in Seq(Char), NEW i \in Nat \ {0}, NEW j \in Nat, i <= j + 1, j + 1 <= Len(w)
    PROVE  /\ SubSeq(w, i, j) \in Seq(Char)
           /\ SubSeq(w, i, j + 1) = Append(SubSeq(w, i, j), w[j + 1])
<1>1. (\A k \in i..j : w[k] \in Char) /\ \A k \in i..(j + 1) : w[k] \in Char
  OBVIOUS
<1>2. PICK z : z = SubSeq(w, i, j)
  OBVIOUS
<1>3. PICK u : u = SubSeq(w, i, j + 1)
  OBVIOUS
<1>4. z \in Seq(Char) /\ Len(z) = j - i + 1 /\ \A k \in 1..(j - i + 1) : z[k] = w[i + k - 1]
  <2>1. /\ z \in Seq(Char) /\ Len(z) = IF i <= j THEN j - i + 1 ELSE 0
        /\ \A k \in 1..(j - i + 1) : z[k] = w[i + k - 1]
    BY <1>1, <1>2, SubSeqProperties
  <2>2. QED
    BY <2>1
<1>5. u \in Seq(Char) /\ Len(u) = j - i + 2 /\ \A k \in 1..(j - i + 2) : u[k] = w[i + k - 1]
  <2>1. /\ u \in Seq(Char) /\ Len(u) = IF i <= j + 1 THEN (j + 1) - i + 1 ELSE 0
        /\ \A k \in 1..((j + 1) - i + 1) : u[k] = w[i + k - 1]
    <3>1. i \in Int /\ j + 1 \in Int
      OBVIOUS
    <3>2. QED
      BY <1>1, <1>3, <3>1, SubSeqProperties
  <2>2. (j + 1) - i + 1 = j - i + 2
    OBVIOUS
  <2>3. QED
    BY <2>1, <2>2
<1>6. PICK q : q = Append(z, w[j + 1])
  OBVIOUS
<1>7. /\ q \in Seq(Char) /\ Len(q) = Len(z) + 1 /\ q[Len(z) + 1] = w[j + 1]
      /\ \A k \in 1..Len(z) : q[k] = z[k]
  <2>1. z \in Seq(Char) /\ w[j + 1] \in Char
    BY <1>4
  <2>2. QED
    BY <1>6, <2>1, AppendProperties
<1>8. ASSUME NEW k \in 1..Len(q) PROVE q[k] = u[k]
  <2>1. CASE k = Len(z) + 1
    <3>1. k = j - i + 2 /\ i + k - 1 = j + 1 /\ k \in 1..(j - i + 2)
      BY <1>4, <2>1
    <3>2. QED
      BY <1>5, <1>7, <2>1, <3>1
  <2>2. CASE k \in 1..Len(z)
    <3>1. k \in 1..(j - i + 1) /\ k \in 1..(j - i + 2)
      BY <1>4, <2>2
    <3>2. QED
      BY <1>4, <1>5, <1>7, <2>2, <3>1
  <2>3. QED
    BY <1>4, <1>7, <2>1, <2>2
<1>9. Len(q) = Len(u)
  BY <1>4, <1>5, <1>7
<1>10. q = u
  BY <1>5, <1>7, <1>8, <1>9
<1>11. QED
  BY <1>2, <1>3, <1>4, <1>6, <1>10

\* What was read of a size line, and then some more bytes of it.
LEMMA ScannedReads ==
    ASSUME NEW c \in Members, NEW bytes \in Seq(Char), NEW w \in Seq(Char),
           NEW i \in Nat \ {0}, NEW m \in Nat, i <= m + 1, m + Len(bytes) <= Len(w),
           \A k \in 1..Len(bytes) : bytes[k] = w[m + k],
           SizeRead(c, SubSeq(w, i, m))
    PROVE  SizeRead(Scanned(c, bytes), SubSeq(w, i, m + Len(bytes)))
<1>1. PICK n \in Nat : n = Len(bytes)
  OBVIOUS
<1>2. PICK h \in [0..n -> SamePlaces(c)] : ScannedBy(h, c, bytes) /\ Scanned(c, bytes) = h[n]
  BY <1>1, ScannedChain
<1> DEFINE P == {k \in 0..n : SizeRead(h[k], SubSeq(w, i, m + k))}
<1>3. 0 \in P
  <2>1. m + 0 = m /\ 0 \in 0..n
    OBVIOUS
  <2>2. h[0] = c
    BY <1>2 DEF ScannedBy
  <2>3. QED
    BY <2>1, <2>2
<1>4. ASSUME NEW k \in 1..n, k - 1 \in P PROVE k \in P
  <2>1. PICK j \in Nat : j = m + (k - 1)
    OBVIOUS
  <2>2. j + 1 = m + k /\ i <= j + 1 /\ j + 1 <= Len(w) /\ k \in 0..n /\ k - 1 \in 0..n
    BY <1>1, <2>1
  <2>3. /\ SubSeq(w, i, j) \in Seq(Char)
        /\ SubSeq(w, i, j + 1) = Append(SubSeq(w, i, j), w[j + 1])
    BY <2>2, SubSeqNext
  <2>4. SizeRead(h[k - 1], SubSeq(w, i, j))
    BY <1>4, <2>1
  <2>5. h[k - 1] \in Members
    BY <1>2, <2>2 DEF SamePlaces
  <2>6. w[j + 1] \in Char
    BY <2>2
  <2>7. SizeRead(SizeDecoder(h[k - 1], w[j + 1]), SubSeq(w, i, j + 1))
    BY <2>3, <2>4, <2>5, <2>6, SizeReadNext
  <2>8. h[k] = SizeDecoder(h[k - 1], w[j + 1])
    BY <1>1, <1>2, <2>2 DEF ScannedBy
  <2>9. QED
    BY <2>2, <2>7, <2>8
<1> HIDE DEF P
<1>5. n \in P
  BY <1>3, <1>4, InductTo DEF Inductive
<1>6. QED
  BY <1>1, <1>2, <1>5 DEF P

\* What was read of a size line is its size.
LEMMA SizeReadSays ==
    ASSUME NEW c, NEW x \in Seq(Char), SizeRead(c, x)
    PROVE  c.chunkSize = Number(SizeDigits(x)) % Word
<1>1. PICK l \in 0..Len(x), d \in 0..Len(x) : SizeReadAs(c, x, l, d)
  BY DEF SizeRead
<1>2. PICK n \in Nat : n = Len(x)
  OBVIOUS
<1>3. /\ l \in 0..n /\ d \in 0..n /\ l + d <= n
      /\ \A m \in 1..l : IsSpace(x[m])
      /\ \A m \in (l + 1)..(l + d) : IsDigit(x[m])
      /\ l + d < n => ~IsDigit(x[l + d + 1]) /\ (d = 0 => ~IsSpace(x[l + 1]))
      /\ c.chunkSize = Number(SubSeq(x, l + 1, l + d)) % Word
  BY <1>1, <1>2 DEF SizeReadAs
<1>4. l < n => ~IsSpace(x[l + 1])
  <2>1. CASE d = 0
    BY <1>3, <2>1
  <2>2. CASE d > 0
    <3>1. IsDigit(x[l + 1])
      <4>1. l + 1 \in (l + 1)..(l + d)
        BY <1>3, <2>2
      <4>2. QED
        BY <1>3, <4>1
    <3>2. x[l + 1] \in {"0", "1", "2", "3"}
      BY <3>1 DEF IsDigit, DigitValue
    <3>3. QED
      BY <3>2 DEF IsSpace, CR, LF
  <2>3. QED
    BY <1>3, <2>1, <2>2
<1>5. Leading(x) = 1..l
  <2>1. ASSUME NEW k \in 1..n, \A m \in 1..k : IsSpace(x[m]) PROVE k \in 1..l
    <3>1. SUFFICES ASSUME l < k PROVE FALSE
      BY <1>3
    <3>2. l + 1 \in 1..k
      BY <1>3, <3>1
    <3>3. QED
      BY <1>3, <1>4, <2>1, <3>1, <3>2
  <2>2. ASSUME NEW k \in 1..l PROVE k \in 1..n /\ \A m \in 1..k : IsSpace(x[m])
    <3>1. \A m \in 1..k : m \in 1..l
      BY <2>2
    <3>2. QED
      BY <1>3, <3>1
  <2>3. QED
    BY <1>2, <2>1, <2>2 DEF Leading
<1>6. Cardinality(Leading(x)) = l
  <2>1. Cardinality(1..l) = l
    <3>1. Cardinality(1..l) = IF 1 > l THEN 0 ELSE l - 1 + 1
      BY FS_Interval
    <3>2. QED
      BY <3>1
  <2>2. QED
    BY <1>5, <2>1
<1>7. PICK y : y = SubSeq(x, l + 1, n)
  OBVIOUS
<1>8. y \in Seq(Char) /\ Len(y) = n - l /\ \A k \in 1..(n - l) : y[k] = x[l + k]
  <2>1. \A k \in (l + 1)..n : x[k] \in Char
    BY <1>2, <1>3
  <2>2. /\ y \in Seq(Char) /\ Len(y) = IF l + 1 <= n THEN n - (l + 1) + 1 ELSE 0
        /\ \A k \in 1..(n - (l + 1) + 1) : y[k] = x[(l + 1) + k - 1]
    <3>1. l + 1 \in Int /\ n \in Int
      OBVIOUS
    <3>2. QED
      BY <1>7, <2>1, <3>1, SubSeqProperties
  <2>3. n - (l + 1) + 1 = n - l /\ \A k \in 1..(n - l) : (l + 1) + k - 1 = l + k
    BY <1>3
  <2>4. Len(y) = n - l
    BY <1>3, <2>2, <2>3
  <2>5. \A k \in 1..(n - l) : y[k] = x[l + k]
    BY <2>2, <2>3
  <2>6. QED
    BY <2>2, <2>4, <2>5
<1> DEFINE D == {k \in 1..Len(y) : \A m \in 1..k : IsDigit(y[m])}
<1>9. D = 1..d
  <2>1. ASSUME NEW k \in 1..(n - l), \A m \in 1..k : IsDigit(y[m]) PROVE k \in 1..d
    <3>1. SUFFICES ASSUME d < k PROVE FALSE
      BY <1>3
    <3>2. d + 1 \in 1..k /\ d + 1 \in 1..(n - l) /\ l + d < n /\ l + (d + 1) = l + d + 1
      BY <1>3, <3>1
    <3>3. QED
      BY <1>3, <1>8, <2>1, <3>2
  <2>2. ASSUME NEW k \in 1..d PROVE k \in 1..(n - l) /\ \A m \in 1..k : IsDigit(y[m])
    <3>1. \A m \in 1..k : m \in 1..(n - l) /\ l + m \in (l + 1)..(l + d)
      BY <1>3, <2>2
    <3>2. k \in 1..(n - l)
      BY <1>3
    <3>3. QED
      BY <1>3, <1>8, <3>1, <3>2
  <2>3. QED
    BY <1>8, <2>1, <2>2
<1> HIDE DEF D
<1>10. Cardinality(D) = d
  <2>1. Cardinality(1..d) = IF 1 > d THEN 0 ELSE d - 1 + 1
    BY FS_Interval
  <2>2. QED
    BY <1>9, <2>1
<1>11. SizeDigits(x) = SubSeq(y, 1, d)
  BY <1>2, <1>6, <1>7, <1>10 DEF SizeDigits, D
<1>12. SubSeq(y, 1, d) = SubSeq(x, l + 1, l + d)
  <2>1. PICK u : u = SubSeq(y, 1, d)
    OBVIOUS
  <2>2. PICK z : z = SubSeq(x, l + 1, l + d)
    OBVIOUS
  <2>3. u \in Seq(Char) /\ Len(u) = d /\ \A k \in 1..d : u[k] = x[l + k]
    <3>1. \A k \in 1..d : k \in 1..(n - l) /\ k \in 1..Len(y) /\ y[k] \in Char
      BY <1>3, <1>8
    <3>2. /\ u \in Seq(Char) /\ Len(u) = IF 1 <= d THEN d - 1 + 1 ELSE 0
          /\ \A k \in 1..(d - 1 + 1) : u[k] = y[1 + k - 1]
      BY <2>1, <3>1, SubSeqProperties
    <3>3. d - 1 + 1 = d /\ \A k \in 1..d : 1 + k - 1 = k
      OBVIOUS
    <3>4. Len(u) = d
      BY <3>2, <3>3
    <3>5. \A k \in 1..d : u[k] = x[l + k]
      BY <1>8, <3>1, <3>2, <3>3
    <3>6. QED
      BY <3>2, <3>4, <3>5
  <2>4. z \in Seq(Char) /\ Len(z) = d /\ \A k \in 1..d : z[k] = x[l + k]
    <3>1. \A k \in (l + 1)..(l + d) : x[k] \in Char
      BY <1>2, <1>3
    <3>2. /\ z \in Seq(Char) /\ Len(z) = IF l + 1 <= l + d THEN (l + d) - (l + 1) + 1 ELSE 0
          /\ \A k \in 1..((l + d) - (l + 1) + 1) : z[k] = x[(l + 1) + k - 1]
      <4>1. l + 1 \in Int /\ l + d \in Int
        OBVIOUS
      <4>2. QED
        BY <2>2, <3>1, <4>1, SubSeqProperties
    <3>3. (l + d) - (l + 1) + 1 = d /\ \A k \in 1..d : (l + 1) + k - 1 = l + k
      OBVIOUS
    <3>4. Len(z) = d
      BY <3>2, <3>3
    <3>5. \A k \in 1..d : z[k] = x[l + k]
      BY <3>2, <3>3
    <3>6. QED
      BY <3>2, <3>4, <3>5
  <2>5. u = z
    BY <2>3, <2>4
  <2>6. QED
    BY <2>1, <2>2, <2>5
<1>13. QED
  BY <1>3, <1>11, <1>12

-----------------------------------------------------------------------------
(* What kvDecoder makes of the lines.                                       *)

\* The lines up to k that set a field.
Setting(lines, field, k) == {i \in 1..k : IsHeader(lines[i]) /\ Field[lines[i][1]] = field}

\* kvDecoder keeps the value of the last line that sets a field.
LEMMA DecodedSays ==
    ASSUME NEW c \in Members, NEW field \in {"keepAlive", "chunked", "contentLength"}
    PROVE  Decoded(c)[field] = LastValue(Slices(c, 0, Len(c.lines)), field, c[field])
<1> DEFINE F == {"keepAlive", "chunked", "contentLength"}
<1>1. PICK n \in Nat : n = Len(c.lines)
  BY DEF Members
<1>2. PICK lines : lines = Slices(c, 0, n)
  OBVIOUS
<1>3. Len(lines) = n /\ \A k \in 1..n : lines[k] = Slice(c, c.lines[k])
  <2>1. n - 0 = n /\ \A k \in 1..n : 0 + k = k
    OBVIOUS
  <2>2. lines = [k \in 1..n |-> Slice(c, c.lines[k])]
    BY <1>2, <2>1 DEF Slices
  <2>3. QED
    BY <2>2
<1>4. PICK h \in [0..n -> SamePlaces(c)] : DecodedBy(h, c) /\ Decoded(c) = h[n]
  BY <1>1, DecodedChain
<1> DEFINE LastOf(k) == IF Setting(lines, field, k) = {} THEN c[field]
                        ELSE Value[lines[Max(Setting(lines, field, k))][1]]
           P == {k \in 0..n : h[k][field] = LastOf(k)}
<1>5. 0 \in P
  <2>1. 1..0 = {} /\ 0 \in 0..n
    OBVIOUS
  <2>2. Setting(lines, field, 0) = {}
    BY <2>1 DEF Setting
  <2>3. QED
    BY <1>4, <2>1, <2>2 DEF DecodedBy
<1>6. ASSUME NEW k \in 1..n, k - 1 \in P PROVE k \in P
  <2>1. k \in 0..n /\ k - 1 \in 0..n
    OBVIOUS
  <2>2. PICK e : e = h[k - 1]
    OBVIOUS
  <2>3. e \in Members
    BY <1>4, <2>1, <2>2 DEF SamePlaces
  <2>4. h[k] = KvDecoder(e, c, c.lines[k]) /\ lines[k] = Slice(c, c.lines[k])
    BY <1>1, <1>3, <1>4, <2>2 DEF DecodedBy
  <2>5. PICK name : name = lines[k][1]
    OBVIOUS
  <2>6. \A i \in 1..k : i \in 1..(k - 1) \/ i = k
    OBVIOUS
  <2>7. \A i \in 1..(k - 1) : i \in 1..k
    OBVIOUS
  <2>8. e[field] = LastOf(k - 1)
    BY <1>6, <2>2
  <2>9. k \in 1..k /\ k \in Nat
    OBVIOUS
  <2> HIDE DEF LastOf
  <2>10. CASE IsHeader(lines[k]) /\ Field[name] = field
    <3>1. k \in Setting(lines, field, k)
      BY <2>5, <2>9, <2>10 DEF Setting
    <3>2. Max(Setting(lines, field, k)) = k
      <4>1. Setting(lines, field, k) \in SUBSET (1..k)
        BY DEF Setting
      <4>2. /\ Max(Setting(lines, field, k)) \in 1..k
            /\ k <= Max(Setting(lines, field, k))
        BY <2>9, <3>1, <4>1, MaxIn
      <4>3. QED
        BY <4>2
    <3>3. LastOf(k) = Value[name]
      BY <2>5, <3>1, <3>2 DEF LastOf
    <3>4. h[k] = [e EXCEPT ![field] = Value[name]]
      BY <2>4, <2>5, <2>10 DEF KvDecoder
    <3>5. h[k][field] = Value[name]
      BY <2>3, <3>4 DEF Members
    <3>6. QED
      BY <2>1, <3>3, <3>5
  <2>11. CASE ~(IsHeader(lines[k]) /\ Field[name] = field)
    <3>1. Setting(lines, field, k) = Setting(lines, field, k - 1)
      BY <2>5, <2>6, <2>7, <2>11 DEF Setting
    <3>2. LastOf(k) = LastOf(k - 1)
      BY <3>1 DEF LastOf
    <3>3. h[k][field] = e[field]
      <4>1. CASE IsHeader(lines[k])
        <5>1. h[k] = [e EXCEPT ![Field[name]] = Value[name]]
          BY <2>4, <2>5, <4>1 DEF KvDecoder
        <5>2. Field[name] # field
          BY <2>11, <4>1
        <5>3. QED
          BY <2>3, <5>1, <5>2 DEF Members
      <4>2. CASE ~IsHeader(lines[k])
        BY <2>4, <4>2 DEF KvDecoder
      <4>3. QED
        BY <4>1, <4>2
    <3>4. QED
      BY <2>1, <2>8, <3>2, <3>3
  <2>12. QED
    BY <2>10, <2>11
<1> HIDE DEF P
<1>7. n \in P
  BY <1>5, <1>6, InductTo DEF Inductive
<1>8. h[n][field] = LastOf(n)
  BY <1>7 DEF P
<1>9. LastOf(n) = LastValue(lines, field, c[field])
  BY <1>3 DEF LastValue, Setting
<1>10. QED
  BY <1>1, <1>2, <1>4, <1>8, <1>9

\* For a context whose headers were not read yet.
LEMMA DecodedHeaders ==
    ASSUME NEW c \in Members, Fresh(c), NEW lines, lines = Slices(c, 0, Len(c.lines))
    PROVE  /\ Decoded(c).keepAlive = LastValue(lines, "keepAlive", FALSE)
           /\ Decoded(c).chunked = LastValue(lines, "chunked", FALSE)
           /\ Decoded(c).contentLength = LastValue(lines, "contentLength", 0)
<1>1. c.keepAlive = FALSE /\ c.chunked = FALSE /\ c.contentLength = 0
  BY DEF Fresh, Members
<1>2. Decoded(c)["keepAlive"] = LastValue(lines, "keepAlive", c["keepAlive"])
  BY DecodedSays
<1>3. Decoded(c)["chunked"] = LastValue(lines, "chunked", c["chunked"])
  BY DecodedSays
<1>4. Decoded(c)["contentLength"] = LastValue(lines, "contentLength", c["contentLength"])
  BY DecodedSays
<1>5. QED
  BY <1>1, <1>2, <1>3, <1>4

-----------------------------------------------------------------------------
(* Lines and chunks stay where they are.                                    *)

\* The first k bytes are the same.
Agree(c, d, k) == k <= Len(c.buf) /\ k <= Len(d.buf) /\ \A i \in 1..k : c.buf[i] = d.buf[i]

\* A line or a chunk in them is the same.
LEMMA SliceSame ==
    ASSUME NEW c \in Members, NEW d \in Members, NEW k \in Int, Agree(c, d, k),
           NEW part \in Piece, part.first + part.length <= k
    PROVE  Slice(c, part) = Slice(d, part) /\ Slice(c, part) \in Seq(Char)
<1>1. part.first \in Nat /\ part.length \in Nat
  BY DEF Piece
<1>2. PICK i \in Nat, n \in Nat : i = part.first /\ n = part.length
  BY <1>1
<1>3. c.buf \in Seq(Char) /\ d.buf \in Seq(Char)
  BY DEF Members
<1>4. \A m \in (i + 1)..(i + n) : m \in 1..Len(c.buf) /\ c.buf[m] \in Char /\ c.buf[m] = d.buf[m]
  <2>1. \A m \in (i + 1)..(i + n) : m \in 1..k /\ m \in 1..Len(c.buf)
    <3>1. PICK o \in Nat : o = Len(c.buf)
      BY <1>3
    <3>2. k <= o
      BY <3>1 DEF Agree
    <3>3. i + n <= k
      BY <1>2
    <3>4. \A m \in (i + 1)..(i + n) : m \in 1..k /\ m \in 1..o
      BY <3>2, <3>3
    <3>5. QED
      BY <3>1, <3>4
  <2>2. QED
    BY <1>3, <2>1 DEF Agree
<1>5. PICK e \in Int, f \in Int : e = i + 1 /\ f = i + n /\ f - e + 1 = n
  OBVIOUS
<1>6. PICK q, u : q = SubSeq(c.buf, e, f) /\ u = SubSeq(d.buf, e, f)
  OBVIOUS
<1>7. \A m \in e..f : c.buf[m] \in Char /\ d.buf[m] \in Char /\ c.buf[m] = d.buf[m]
  BY <1>4, <1>5
<1>8. /\ q \in Seq(Char) /\ Len(q) = IF e <= f THEN f - e + 1 ELSE 0
      /\ \A m \in 1..(f - e + 1) : q[m] = c.buf[e + m - 1]
  BY <1>6, <1>7, SubSeqProperties
<1>9. /\ u \in Seq(Char) /\ Len(u) = IF e <= f THEN f - e + 1 ELSE 0
      /\ \A m \in 1..(f - e + 1) : u[m] = d.buf[e + m - 1]
  BY <1>6, <1>7, SubSeqProperties
<1>10. ASSUME NEW m \in 1..Len(q) PROVE q[m] = u[m]
  <2>1. m \in 1..(f - e + 1) /\ e + m - 1 \in e..f
    BY <1>5, <1>8
  <2>2. QED
    BY <1>7, <1>8, <1>9, <2>1
<1>11. q = u
  BY <1>8, <1>9, <1>10
<1>12. QED
  BY <1>2, <1>5, <1>6, <1>8, <1>11 DEF Slice

\* The lines from m + 1 to n are the same, and lie in the first k bytes.
SameLines(c, d, m, n, k) ==
    \A i \in 1..(n - m) :
        /\ c.lines[m + i] = d.lines[m + i] /\ c.lines[m + i] \in Piece
        /\ c.lines[m + i].first + c.lines[m + i].length <= k

\* So are their texts.
LEMMA SlicesSame ==
    ASSUME NEW c \in Members, NEW d \in Members, NEW k \in Int, Agree(c, d, k),
           NEW m, NEW n, SameLines(c, d, m, n, k)
    PROVE  Slices(c, m, n) = Slices(d, m, n)
<1>1. ASSUME NEW i \in 1..(n - m) PROVE Slice(c, c.lines[m + i]) = Slice(d, d.lines[m + i])
  BY SliceSame DEF SameLines
<1>2. QED
  BY <1>1 DEF Slices

\* The chunks lie in the first k bytes.
ChunksIn(c, k) == \A i \in 1..Len(c.chunks) : c.chunks[i].first + c.chunks[i].length <= k

\* The content is the same if those bytes are.
LEMMA ContentSame ==
    ASSUME NEW c \in Members, NEW d \in Members, NEW k \in Int, Agree(c, d, k),
           ChunksIn(c, k), c.chunks = d.chunks
    PROVE  Content(c) = Content(d)
<1>1. ASSUME NEW i \in 1..Len(c.chunks) PROVE Slice(c, c.chunks[i]) = Slice(d, d.chunks[i])
  <2>1. c.chunks[i] \in Piece
    BY DEF Members
  <2>2. QED
    BY <2>1, SliceSame DEF ChunksIn
<1>2. [i \in 1..Len(c.chunks) |-> Slice(c, c.chunks[i])]
       = [i \in 1..Len(d.chunks) |-> Slice(d, d.chunks[i])]
  BY <1>1
<1>3. QED
  BY <1>2 DEF Content

\* What the chunks hold is a sequence of bytes, and one more chunk adds to it.
LEMMA ContentNext ==
    ASSUME NEW c \in Members, NEW d \in Members, NEW k \in Int, Agree(c, d, k), ChunksIn(c, k),
           NEW part \in Piece, part.first + part.length <= Len(d.buf),
           d.chunks = Append(c.chunks, part)
    PROVE  /\ Content(c) \in Seq(Char) /\ Slice(d, part) \in Seq(Char)
           /\ Content(d) = Content(c) \o Slice(d, part)
<1>1. PICK n \in Nat : n = Len(c.chunks)
  BY DEF Members
<1>2. c.chunks \in Seq(Piece)
  BY DEF Members
<1>3. /\ Len(d.chunks) = n + 1 /\ d.chunks[n + 1] = part
      /\ \A i \in 1..n : d.chunks[i] = c.chunks[i]
  BY <1>1, <1>2, AppendProperties
<1>4. ASSUME NEW i \in 1..n
      PROVE Slice(c, c.chunks[i]) = Slice(d, d.chunks[i]) /\ Slice(c, c.chunks[i]) \in Seq(Char)
  <2>1. c.chunks[i] \in Piece
    BY <1>1, <1>2
  <2>2. QED
    BY <1>1, <1>3, <2>1, SliceSame DEF ChunksIn
<1>5. Slice(d, part) \in Seq(Char)
  <2>1. Len(d.buf) \in Int
    BY DEF Members
  <2>2. Agree(d, d, Len(d.buf))
    BY <2>1 DEF Agree
  <2>3. QED
    BY <2>1, <2>2, SliceSame
<1>6. PICK q : q = [i \in 1..n |-> Slice(c, c.chunks[i])]
  OBVIOUS
<1>7. PICK e : e = Slice(d, part)
  OBVIOUS
<1>8. q \in Seq(Seq(Char)) /\ Len(q) = n
  <2>1. \A i \in 1..n : q[i] \in Seq(Char)
    BY <1>4, <1>6
  <2>2. q \in [1..n -> Seq(Char)]
    BY <1>6, <2>1
  <2>3. q \in Seq(Seq(Char))
    BY <2>2, SeqDef
  <2>4. QED
    BY <2>2, <2>3, LenProperties
<1>9. [i \in 1..(n + 1) |-> Slice(d, d.chunks[i])] = Append(q, e)
  <2>1. PICK u : u = Append(q, e)
    OBVIOUS
  <2>2. u \in Seq(Seq(Char)) /\ Len(u) = n + 1 /\ u[n + 1] = e /\ \A i \in 1..n : u[i] = q[i]
    <3>1. e \in Seq(Char) /\ q \in Seq(Seq(Char))
      BY <1>5, <1>7, <1>8
    <3>2. QED
      BY <1>8, <2>1, <3>1, AppendProperties
  <2>3. u = [i \in 1..(n + 1) |-> u[i]]
    BY <2>2
  <2>4. ASSUME NEW i \in 1..(n + 1) PROVE u[i] = Slice(d, d.chunks[i])
    <3>1. i \in 1..n \/ i = n + 1
      OBVIOUS
    <3>2. QED
      BY <1>3, <1>4, <1>6, <1>7, <2>2, <3>1
  <2>5. QED
    BY <2>1, <2>3, <2>4
<1>10. Content(c) = FlattenSeq(q) /\ Content(d) = FlattenSeq(Append(q, e))
  BY <1>1, <1>3, <1>6, <1>9 DEF Content
<1>11. FlattenSeq(q) \in Seq(Char) /\ FlattenSeq(Append(q, e)) = FlattenSeq(q) \o e
  <2>1. e \in Seq(Char)
    BY <1>5, <1>7
  <2>2. QED
    BY <1>8, <2>1, FlattenAppend
<1>12. QED
  BY <1>5, <1>7, <1>10, <1>11

\* Without chunks there is no content.
LEMMA ContentNone ==
    ASSUME NEW c, c.chunks = <<>>
    PROVE  Content(c) = <<>>
<1>1. 1..Len(c.chunks) = {}
  OBVIOUS
<1>2. [k \in 1..Len(c.chunks) |-> Slice(c, c.chunks[k])] = <<>>
  BY <1>1
<1>3. QED
  BY <1>2, FlattenEmpty DEF Content

\* A request is what the lines and the chunks say.
LEMMA RequestIs ==
    ASSUME NEW c \in Members
    PROVE  RequestOf(c) = [lines |-> Slices(c, 0, Len(c.lines)), keepAlive |-> c.keepAlive,
                           content |-> Content(c)]
<1>1. Len(c.lines) - 0 = Len(c.lines) /\ \A k \in 1..Len(c.lines) : 0 + k = k
  BY DEF Members
<1>2. Slices(c, 0, Len(c.lines)) = [k \in 1..Len(c.lines) |-> Slice(c, c.lines[k])]
  BY <1>1 DEF Slices
<1>3. QED
  BY <1>2 DEF RequestOf, Content

-----------------------------------------------------------------------------
(* Line feeds.                                                              *)

\* The line feed that is found is the first.
LEMMA LineFeedFirst ==
    ASSUME ctx \in Members
    PROVE  /\ LineFeed = 0 => \A i \in (ctx.index + 1)..nowIndex : ctx.buf[i] # LF
           /\ LineFeed # 0 =>
                 /\ LineFeed \in (ctx.index + 1)..nowIndex /\ ctx.buf[LineFeed] = LF
                 /\ \A i \in (ctx.index + 1)..(LineFeed - 1) : ctx.buf[i] # LF
<1> DEFINE I == {i \in (ctx.index + 1)..nowIndex : ctx.buf[i] = LF}
<1>1. ctx.index \in Nat /\ nowIndex \in Nat
  BY DEF Members, nowIndex
<1>2. LineFeed = IF I # {} THEN Min(I) ELSE 0
  BY DEF LineFeed, SelectInSubSeq
<1>3. I \in SUBSET Nat /\ \A i \in I : i \in (ctx.index + 1)..nowIndex /\ ctx.buf[i] = LF
  BY <1>1
<1>4. \A i \in (ctx.index + 1)..nowIndex : ctx.buf[i] = LF => i \in I
  OBVIOUS
<1> HIDE DEF I
<1>5. CASE I = {}
  BY <1>1, <1>2, <1>4, <1>5
<1>6. CASE I # {}
  <2>1. PICK m \in I : \A y \in I : m <= y
    BY <1>3, <1>6, LeastNat
  <2>2. LineFeed = m
    <3>1. I \in SUBSET Int /\ m \in I
      BY <1>3
    <3>2. Min(I) = m
      BY <2>1, <3>1, MinIs
    <3>3. QED
      BY <1>2, <1>6, <3>2
  <2>3. m \in (ctx.index + 1)..nowIndex /\ ctx.buf[m] = LF
    BY <1>3
  <2>4. ASSUME NEW i \in (ctx.index + 1)..(m - 1) PROVE ctx.buf[i] # LF
    <3>1. i \in (ctx.index + 1)..nowIndex /\ ~(m <= i)
      BY <1>1, <2>3
    <3>2. QED
      BY <1>4, <2>1, <3>1
  <2>5. QED
    BY <1>1, <2>2, <2>3, <2>4
<1>7. QED
  BY <1>5, <1>6

\* And so in the input, where the buffer still holds it.
LEMMA RawFeeds ==
    ASSUME MembersInv(ctx), NEW t, NEW b \in Nat, NEW p \in 0..ctx.index, Raw(ctx, t, b, p)
    PROVE  /\ LineFeed = 0 => NoFeed(t, b + ctx.index + 1, b + nowIndex)
           /\ LineFeed # 0 => /\ LineFeed \in (ctx.index + 1)..nowIndex /\ t[b + LineFeed] = LF
                              /\ NoFeed(t, b + ctx.index + 1, b + LineFeed - 1)
<1>1. PICK n \in Nat : n = ctx.index
  BY MembersFacts
<1>2. PICK u \in Nat : u = nowIndex
  BY MembersFacts DEF nowIndex
<1>3. \A i \in (p + 1)..u : ctx.buf[i] = t[b + i]
  BY <1>2 DEF Raw, nowIndex
<1>4. ASSUME NEW v \in Int, v <= u, \A i \in (n + 1)..v : ctx.buf[i] # LF
      PROVE  NoFeed(t, b + n + 1, b + v)
  <2>1. SUFFICES ASSUME NEW k \in (b + n + 1)..(b + v) PROVE t[k] # LF
    BY DEF NoFeed
  <2>2. PICK i \in (n + 1)..v : k = b + i
    <3>1. k - b \in (n + 1)..v /\ k = b + (k - b)
      OBVIOUS
    <3>2. QED
      BY <3>1
  <2>3. i \in (p + 1)..u
    BY <1>1, <1>4
  <2>4. QED
    BY <1>3, <1>4, <2>2, <2>3
<1>5. ctx \in Members
  BY MembersFacts
<1>6. CASE LineFeed = 0
  <2>1. \A i \in (n + 1)..u : ctx.buf[i] # LF
    BY <1>1, <1>2, <1>5, <1>6, LineFeedFirst
  <2>2. QED
    BY <1>1, <1>2, <1>4, <1>6, <2>1
<1>7. CASE LineFeed # 0
  <2>1. PICK j : j = LineFeed
    OBVIOUS
  <2>2. /\ j \in (n + 1)..u /\ ctx.buf[j] = LF
        /\ \A i \in (n + 1)..(j - 1) : ctx.buf[i] # LF
    BY <1>1, <1>2, <1>5, <1>7, <2>1, LineFeedFirst
  <2>3. j - 1 \in Int /\ j - 1 <= u /\ j \in (p + 1)..u
    BY <1>1, <2>2
  <2>4. NoFeed(t, b + n + 1, b + (j - 1))
    BY <1>4, <2>2, <2>3
  <2>5. t[b + j] = LF
    BY <1>3, <2>2, <2>3
  <2>6. b + (j - 1) = b + j - 1
    BY <2>2
  <2>7. QED
    BY <1>1, <1>2, <1>7, <2>1, <2>2, <2>4, <2>5, <2>6
<1>8. QED
  BY <1>6, <1>7

\* Two stretches without a line feed.
LEMMA NoFeedJoins ==
    ASSUME NEW t, NEW i \in Int, NEW m \in Int, NEW j \in Int,
           NoFeed(t, i, m - 1), NoFeed(t, m, j)
    PROVE  NoFeed(t, i, j)
<1>1. \A k \in i..j : k \in i..(m - 1) \/ k \in m..j
  OBVIOUS
<1>2. QED
  BY <1>1 DEF NoFeed

-----------------------------------------------------------------------------
(* What was read of a request stays read.                                   *)

\* The complete lines stay.
LEMMA EndedSame ==
    ASSUME NEW c, MembersInv(c), NEW d, NEW m \in Nat, NEW n \in Nat, n <= Len(c.lines),
           n < Len(c.lines) \/ c.state \notin {"header", "chunkFooter", "bad"},
           \A k \in 1..n : d.lines[k] = c.lines[k]
    PROVE  SameLines(c, d, m, n, c.index - 2)
<1>1. c \in Members /\ c.lines \in Seq(Piece) /\ c.index \in Nat
  BY MembersFacts
<1>2. PICK u \in Nat : u = c.index
  BY <1>1
<1>3. ASSUME NEW k \in 1..n
      PROVE  c.lines[k] \in Piece /\ c.lines[k].first + c.lines[k].length <= u - 2
  <2>1. k \in 1..Len(c.lines) /\ (n < Len(c.lines) => k \in 1..(Len(c.lines) - 1))
    BY <1>1
  <2>2. Ended(c, c.lines[k])
    BY <1>1, <2>1, MembersFacts, EndedLines
  <2>3. c.lines[k] \in Piece
    BY <1>1, <2>1
  <2>4. c.lines[k].first \in Nat /\ c.lines[k].length \in Nat
    BY <2>3 DEF Piece
  <2>5. c.lines[k].first + c.lines[k].length + 2 <= u
    BY <1>2, <2>2 DEF Ended
  <2>6. QED
    BY <2>3, <2>4, <2>5
<1>4. ASSUME NEW i \in 1..(n - m) PROVE m + i \in 1..n
  OBVIOUS
<1>5. QED
  BY <1>2, <1>3, <1>4 DEF SameLines

\* The headers stay.
LEMMA HeadSame ==
    ASSUME NEW c, MembersInv(c), NEW d \in Members, Agree(c, d, c.index - 2),
           NEW t, NEW b, NEW m, HeadRead(c, t, b, m),
           m < Len(c.lines) \/ c.state \notin {"header", "chunkFooter", "bad"},
           m <= Len(d.lines), \A k \in 1..m : d.lines[k] = c.lines[k],
           d.headerSize = c.headerSize, d.keepAlive = c.keepAlive, d.chunked = c.chunked,
           d.contentLength = c.contentLength
    PROVE  HeadRead(d, t, b, m)
<1>1. c \in Members /\ c.index - 2 \in Int /\ Len(c.lines) \in Nat /\ Len(d.lines) \in Nat
  BY MembersFacts DEF Members
<1>2. m \in Nat /\ m <= Len(c.lines) /\ m \in 0..Len(d.lines)
  BY <1>1 DEF HeadRead
<1>3. SameLines(c, d, 0, m, c.index - 2)
  BY <1>2, EndedSame
<1>4. Slices(c, 0, m) = Slices(d, 0, m)
  BY <1>1, <1>3, SlicesSame
<1>5. QED
  BY <1>2, <1>4 DEF HeadRead

\* The chunks stay.
LEMMA ChunksSame ==
    ASSUME NEW c, MembersInv(c), NEW d \in Members, Agree(c, d, c.index - 2),
           NEW t, NEW b, NEW p, ChunksRead(c, t, b, p), c.index <= d.index,
           d.chunks = c.chunks, d.headerSize = c.headerSize, d.chunked = c.chunked
    PROVE  ChunksRead(d, t, b, p)
<1>1. c \in Members /\ c.index \in Nat /\ c.headerSize \in Nat
      /\ c.chunks \in Seq(Piece) /\ d.index \in Nat
  BY MembersFacts DEF Members
<1>2. p \in Nat /\ c.headerSize <= p /\ p <= c.index /\ p \in d.headerSize..d.index
  BY <1>1 DEF ChunksRead
<1>3. ChunksIn(c, c.index - 2)
  <2>1. SUFFICES ASSUME NEW k \in 1..Len(c.chunks)
                 PROVE  c.chunks[k].first + c.chunks[k].length <= c.index - 2
    BY DEF ChunksIn
  <2>2. c.chunks[k] \in Piece
    BY <1>1
  <2>3. c.chunks[k].first \in Nat /\ c.chunks[k].length \in Nat
    BY <2>2 DEF Piece
  <2>4. c.chunks[k].first + c.chunks[k].length + 2 <= p
    BY DEF ChunksRead
  <2>5. PICK f \in Nat, l \in Nat, u \in Nat :
           f = c.chunks[k].first /\ l = c.chunks[k].length /\ u = c.index
    BY <1>1, <2>3
  <2>6. f + l + 2 <= p /\ p <= u /\ p \in Nat
    BY <1>2, <2>4, <2>5
  <2>7. f + l <= u - 2
    BY <2>6
  <2>8. QED
    BY <2>5, <2>7
<1>4. Content(c) = Content(d)
  <2>1. c.index - 2 \in Int
    BY <1>1
  <2>2. QED
    BY <1>1, <1>3, <2>1, ContentSame
<1>5. QED
  BY <1>2, <1>4 DEF ChunksRead

\* What the chunks hold is a sequence of bytes.
LEMMA ContentIs ==
    ASSUME NEW c \in Members, NEW k \in Int, k <= Len(c.buf), ChunksIn(c, k)
    PROVE  Content(c) \in Seq(Char)
<1>1. PICK n \in Nat : n = Len(c.chunks)
  BY DEF Members
<1>2. c.chunks \in Seq(Piece) /\ Len(c.buf) \in Nat
  BY DEF Members
<1>3. Agree(c, c, k)
  BY <1>2 DEF Agree
<1>4. ASSUME NEW i \in 1..n PROVE Slice(c, c.chunks[i]) \in Seq(Char)
  <2>1. c.chunks[i] \in Piece
    BY <1>1, <1>2
  <2>2. QED
    BY <1>1, <1>3, <2>1, SliceSame DEF ChunksIn
<1>5. PICK q : q = [i \in 1..n |-> Slice(c, c.chunks[i])]
  OBVIOUS
<1>6. q \in Seq(Seq(Char))
  <2>1. \A i \in 1..n : q[i] \in Seq(Char)
    BY <1>4, <1>5
  <2>2. q \in [1..n -> Seq(Char)]
    BY <1>5, <2>1
  <2>3. QED
    BY <2>2, SeqDef
<1>7. FlattenSeq(q) \in Seq(Char)
  <2>1. <<>> \in Seq(Char)
    OBVIOUS
  <2>2. QED
    BY <1>6, <2>1, FlattenAppend
<1>8. QED
  BY <1>1, <1>5, <1>7 DEF Content

\* What the input has behind the headers of c.
BodyOf(c, t, b) ==
    IF c.chunked THEN ChunkedBody(t, b + c.headerSize + 1)
    ELSE PlainBody(t, b + c.headerSize + 1, c.contentLength)

\* A request with the headers of c.
WholeRequest(c, lines, content, next) ==
    [is |-> "done", next |-> next,
     request |-> [lines |-> lines, keepAlive |-> c.keepAlive, content |-> content]]

\* And what the input has from b on, if r is behind the headers.
HeadedBy(c, m, r) ==
    IF r.is # "done" THEN r
    ELSE WholeRequest(c, Slices(c, 0, m) \o r.trailer, r.content, r.next)

\* The headers that were read are those of the request.
LEMMA HeadSays ==
    ASSUME NEW c, c.headerSize \in Nat, NEW t \in Seq(Char), NEW b \in Nat, NEW m,
           HeadRead(c, t, b, m)
    PROVE  RequestAt(t, b + 1) = HeadedBy(c, m, BodyOf(c, t, b))
<1>11. PICK r : r = BodyOf(c, t, b)
  OBVIOUS
<1>1. PICK j \in Nat : j = b + c.headerSize
  OBVIOUS
<1>2. /\ FirstStop(t, b + 1, j) /\ ~IsBare(t, b + 1, j)
      /\ LinesOf(t, b + 1, j) = Slices(c, 0, m)
      /\ c.keepAlive = LastValue(LinesOf(t, b + 1, j), "keepAlive", FALSE)
      /\ c.chunked = LastValue(LinesOf(t, b + 1, j), "chunked", FALSE)
      /\ c.contentLength = LastValue(LinesOf(t, b + 1, j), "contentLength", 0)
  BY <1>1 DEF HeadRead
<1>3. BodyAfter(t, b + 1, j) = r
  BY <1>1, <1>2, <1>11 DEF BodyAfter, BodyOf
<1>4. RequestAt(t, b + 1) = IF r.is # "done" THEN r
                            ELSE [is |-> "done", next |-> r.next,
                                  request |-> RequestWith(t, b + 1, j, r)]
  <2>1. b + 1 \in Nat
    OBVIOUS
  <2>2. \A i : FirstStop(t, b + 1, i) /\ ~IsBare(t, b + 1, i) =>
                 RequestAt(t, b + 1) =
                    IF BodyAfter(t, b + 1, i).is # "done" THEN BodyAfter(t, b + 1, i)
                    ELSE [is |-> "done", next |-> BodyAfter(t, b + 1, i).next,
                          request |-> RequestWith(t, b + 1, i, BodyAfter(t, b + 1, i))]
    BY <2>1, RequestAtIs
  <2>3. QED
    BY <1>2, <1>3, <2>2
<1>5. RequestWith(t, b + 1, j, r) = [lines |-> Slices(c, 0, m) \o r.trailer,
                                     keepAlive |-> c.keepAlive, content |-> r.content]
  BY <1>2 DEF RequestWith
<1>6. QED
  BY <1>4, <1>5, <1>11 DEF HeadedBy, WholeRequest

\* The chunks that were read come before the rest of the body.
LEMMA ChunksSay ==
    ASSUME NEW c, MembersInv(c), NEW t \in Seq(Char), NEW b \in Nat, b + Len(c.buf) <= Len(t),
           NEW m, HeadRead(c, t, b, m), NEW p, ChunksRead(c, t, b, p),
           NEW r, r = ChunkedBody(t, b + p + 1)
    PROVE  /\ r \in Bodies(t) /\ Content(c) \in Seq(Char)
           /\ r.is # "done" => RequestAt(t, b + 1) = r
           /\ r.is = "done" =>
                 RequestAt(t, b + 1) =
                    WholeRequest(c, Slices(c, 0, m) \o r.trailer, Content(c) \o r.content, r.next)
<1>1. /\ c \in Members /\ c.index \in Nat /\ c.headerSize \in Nat /\ Len(c.buf) \in Nat
      /\ c.index <= Len(c.buf) /\ c.chunks \in Seq(Piece)
  BY MembersFacts
<1>2. p \in Nat /\ p <= c.index /\ c.chunked
  BY <1>1 DEF ChunksRead
<1>11. ChunkedBody(t, b + c.headerSize + 1) = Behind(Content(c), r)
  BY DEF ChunksRead
<1>3. Content(c) \in Seq(Char)
  <2>1. ChunksIn(c, c.index)
    <3>1. SUFFICES ASSUME NEW k \in 1..Len(c.chunks)
                   PROVE  c.chunks[k].first + c.chunks[k].length <= c.index
      BY DEF ChunksIn
    <3>2. c.chunks[k] \in Piece
      BY <1>1
    <3>3. c.chunks[k].first \in Nat /\ c.chunks[k].length \in Nat
      BY <3>2 DEF Piece
    <3>4. c.chunks[k].first + c.chunks[k].length + 2 <= p
      BY DEF ChunksRead
    <3>5. PICK f \in Nat, l \in Nat, u \in Nat :
             f = c.chunks[k].first /\ l = c.chunks[k].length /\ u = c.index
      BY <1>1, <3>3
    <3>6. f + l + 2 <= p /\ p <= u /\ p \in Nat
      BY <1>2, <3>4, <3>5
    <3>7. f + l <= u
      BY <3>6
    <3>8. QED
      BY <3>5, <3>7
  <2>2. QED
    BY <1>1, <2>1, ContentIs
<1>4. r \in Bodies(t)
  <2>1. b + p + 1 \in 1..(Len(t) + 1)
    BY <1>1, <1>2
  <2>2. QED
    BY <2>1, ChunkedBodyIs
<1>5. PICK w : w = Behind(Content(c), r)
  OBVIOUS
<1>6. /\ w.is = r.is
      /\ r.is # "done" => w = r
      /\ r.is = "done" => w = WholeBody(Content(c) \o r.content, r.trailer, r.next)
  BY <1>3, <1>4, <1>5, BehindIs
<1>7. RequestAt(t, b + 1) = HeadedBy(c, m, w)
  <2>1. BodyOf(c, t, b) = w
    BY <1>2, <1>5, <1>11 DEF BodyOf
  <2>2. c.headerSize \in Nat
    BY <1>1
  <2>3. QED
    BY <2>1, <2>2, HeadSays
<1>8. RequestAt(t, b + 1) = IF w.is # "done" THEN w
         ELSE WholeRequest(c, Slices(c, 0, m) \o w.trailer, w.content, w.next)
  BY <1>7 DEF HeadedBy
<1>9. r.is = "done" => w.next = r.next /\ w.trailer = r.trailer /\ w.content = Content(c) \o r.content
  BY <1>6 DEF WholeBody
<1>10. QED
  BY <1>3, <1>4, <1>6, <1>8, <1>9

\* A part of the buffer that still holds the input.
LEMMA SubSeqSame ==
    ASSUME NEW x \in Seq(Char), NEW y \in Seq(Char), NEW b \in Nat, NEW i \in Nat, NEW j \in Nat,
           i <= j, j <= Len(x), b + j <= Len(y), \A k \in (i + 1)..j : x[k] = y[b + k]
    PROVE  /\ SubSeq(x, i + 1, j) = SubSeq(y, b + i + 1, b + j)
           /\ SubSeq(x, i + 1, j) \in Seq(Char) /\ Len(SubSeq(x, i + 1, j)) = j - i
           /\ \A k \in 1..(j - i) : SubSeq(x, i + 1, j)[k] = x[i + k]
<1>1. PICK q : q = SubSeq(x, i + 1, j)
  OBVIOUS
<1>2. PICK u : u = SubSeq(y, b + i + 1, b + j)
  OBVIOUS
<1>3. (\A k \in (i + 1)..j : x[k] \in Char) /\ \A k \in (b + i + 1)..(b + j) : y[k] \in Char
  OBVIOUS
<1>4. i + 1 \in Int /\ b + i + 1 \in Int /\ b + j \in Int
  OBVIOUS
<1>5. q \in Seq(Char) /\ Len(q) = j - i /\ \A k \in 1..(j - i) : q[k] = x[i + k]
  <2>1. /\ q \in Seq(Char) /\ Len(q) = IF i + 1 <= j THEN j - (i + 1) + 1 ELSE 0
        /\ \A k \in 1..(j - (i + 1) + 1) : q[k] = x[(i + 1) + k - 1]
    BY <1>1, <1>3, <1>4, SubSeqProperties
  <2>2. j - (i + 1) + 1 = j - i /\ \A k \in 1..(j - i) : (i + 1) + k - 1 = i + k
    OBVIOUS
  <2>3. Len(q) = j - i
    BY <2>1, <2>2
  <2>4. \A k \in 1..(j - i) : q[k] = x[i + k]
    BY <2>1, <2>2
  <2>5. QED
    BY <2>1, <2>3, <2>4
<1>6. u \in Seq(Char) /\ Len(u) = j - i /\ \A k \in 1..(j - i) : u[k] = y[b + (i + k)]
  <2>1. /\ u \in Seq(Char)
        /\ Len(u) = IF b + i + 1 <= b + j THEN (b + j) - (b + i + 1) + 1 ELSE 0
        /\ \A k \in 1..((b + j) - (b + i + 1) + 1) : u[k] = y[(b + i + 1) + k - 1]
    BY <1>2, <1>3, <1>4, SubSeqProperties
  <2>2. /\ (b + j) - (b + i + 1) + 1 = j - i
        /\ \A k \in 1..(j - i) : (b + i + 1) + k - 1 = b + (i + k)
    OBVIOUS
  <2>3. Len(u) = j - i
    BY <2>1, <2>2
  <2>4. \A k \in 1..(j - i) : u[k] = y[b + (i + k)]
    BY <2>1, <2>2
  <2>5. QED
    BY <2>1, <2>3, <2>4
<1>7. ASSUME NEW k \in 1..(j - i) PROVE q[k] = u[k]
  <2>1. i + k \in (i + 1)..j
    OBVIOUS
  <2>2. QED
    BY <1>5, <1>6, <2>1
<1>8. q = u
  BY <1>5, <1>6, <1>7
<1>9. QED
  BY <1>1, <1>2, <1>5, <1>8

-----------------------------------------------------------------------------
(* A block of lines.                                                        *)

\* What is known where a line feed is found.
LEMMA OpenIs ==
    ASSUME MembersInv(ctx), ctx.state \in {"header", "chunkFooter"}, NEW t, NEW b \in Nat,
           NEW z, NEW m, OpenBlock(ctx, t, b, z, m)
    PROVE  \E f, n \in Nat :
              /\ n = Len(ctx.lines) /\ n > 0 /\ f = ctx.lines[n].first /\ f = LastFirst
              /\ m \in 0..(n - 1) /\ z \in 0..f /\ f <= ctx.index
              /\ f = z \/ t[b + f] = LF
              /\ NoFeed(t, b + f + 1, b + ctx.index) /\ NoStop(t, b + z + 1, b + ctx.index)
              /\ LinesOf(t, b + z + 1, b + f + 2) = Slices(ctx, m, n - 1)
              /\ Raw(ctx, t, b, f)
<1>1. PICK n \in Nat : n = Len(ctx.lines)
  BY MembersFacts
<1>2. n > 0
  BY <1>1, MembersFacts DEF LinesInv
<1>3. ctx.lines[n] \in Piece
  BY <1>1, <1>2, MembersFacts
<1>4. PICK f \in Nat : f = ctx.lines[n].first
  BY <1>3 DEF Piece
<1>5. f = LastFirst
  BY <1>1, <1>4 DEF LastFirst, Last
<1>6. /\ m \in 0..(n - 1) /\ z \in 0..f /\ f <= ctx.index
      /\ f = z \/ t[b + f] = LF
      /\ NoFeed(t, b + f + 1, b + ctx.index) /\ NoStop(t, b + z + 1, b + ctx.index)
      /\ LinesOf(t, b + z + 1, b + f + 2) = Slices(ctx, m, n - 1)
      /\ Raw(ctx, t, b, f)
  BY <1>1, <1>4 DEF OpenBlock
<1>7. QED
  BY <1>1, <1>2, <1>4, <1>5, <1>6

\* Up to the line feed nothing ends the block.
LEMMA OpenFeeds ==
    ASSUME MembersInv(ctx), NEW t, NEW b \in Nat, NEW z \in Nat, NEW f \in Nat, z <= f,
           f <= ctx.index, NoFeed(t, b + f + 1, b + ctx.index),
           NoStop(t, b + z + 1, b + ctx.index), Raw(ctx, t, b, f)
    PROVE  /\ LineFeed = 0 => /\ NoFeed(t, b + f + 1, b + nowIndex)
                              /\ NoStop(t, b + z + 1, b + nowIndex)
           /\ LineFeed # 0 => /\ LineFeed \in (ctx.index + 1)..nowIndex /\ t[b + LineFeed] = LF
                              /\ NoFeed(t, b + f + 1, b + LineFeed - 1)
                              /\ NoStop(t, b + z + 1, b + LineFeed - 1)
<1>1. PICK u \in Nat : u = ctx.index
  BY MembersFacts
<1>2. PICK w \in Nat : w = nowIndex
  BY MembersFacts DEF nowIndex
<1>3. f \in 0..ctx.index
  BY <1>1
<1>4. ASSUME NEW j \in Int, NoFeed(t, b + u + 1, j)
      PROVE  NoFeed(t, b + f + 1, j) /\ NoStop(t, b + z + 1, j)
  <2>1. b + f + 1 \in Int /\ b + u + 1 \in Int /\ (b + u + 1) - 1 = b + u /\ b + z + 1 \in Int
    OBVIOUS
  <2>2. NoFeed(t, b + f + 1, (b + u + 1) - 1) /\ NoStop(t, b + z + 1, (b + u + 1) - 1)
    BY <1>1, <2>1
  <2>3. NoFeed(t, b + f + 1, j)
    BY <1>4, <2>1, <2>2, NoFeedJoins
  <2>4. NoStop(t, b + z + 1, j)
    BY <1>4, <2>1, <2>2, NoFeedNoStop
  <2>5. QED
    BY <2>3, <2>4
<1>5. CASE LineFeed = 0
  <2>1. NoFeed(t, b + u + 1, b + w) /\ b + w \in Int
    BY <1>1, <1>2, <1>3, <1>5, RawFeeds
  <2>2. NoFeed(t, b + f + 1, b + w) /\ NoStop(t, b + z + 1, b + w)
    BY <1>4, <2>1
  <2>3. QED
    BY <1>2, <1>5, <2>2
<1>6. CASE LineFeed # 0
  <2>1. PICK j : j = LineFeed
    OBVIOUS
  <2>2. j \in (u + 1)..w /\ t[b + j] = LF /\ NoFeed(t, b + u + 1, b + j - 1)
    BY <1>1, <1>2, <1>3, <1>6, <2>1, RawFeeds
  <2>3. b + j - 1 \in Int
    BY <2>2
  <2>4. NoFeed(t, b + f + 1, b + j - 1) /\ NoStop(t, b + z + 1, b + j - 1)
    BY <1>4, <2>2, <2>3
  <2>5. QED
    BY <1>1, <1>2, <1>6, <2>1, <2>2, <2>4
<1>7. QED
  BY <1>5, <1>6

\* Without one the block goes on.
LEMMA OpenGoesOn ==
    ASSUME MembersInv(ctx), ctx.state \in {"header", "chunkFooter"}, NEW t, NEW b \in Nat,
           NEW z, NEW m, OpenBlock(ctx, t, b, z, m), LineFeed = 0,
           NEW d, d.buf = ctx.buf, d.lines = ctx.lines, d.index = nowIndex
    PROVE  OpenBlock(d, t, b, z, m)
<1>1. PICK f \in Nat, n \in Nat :
              /\ n = Len(ctx.lines) /\ n > 0 /\ f = ctx.lines[n].first
              /\ m \in 0..(n - 1) /\ z \in 0..f /\ f <= ctx.index
              /\ f = z \/ t[b + f] = LF
              /\ NoFeed(t, b + f + 1, b + ctx.index) /\ NoStop(t, b + z + 1, b + ctx.index)
              /\ LinesOf(t, b + z + 1, b + f + 2) = Slices(ctx, m, n - 1)
              /\ Raw(ctx, t, b, f)
  BY OpenIs
<1>2. NoFeed(t, b + f + 1, b + nowIndex) /\ NoStop(t, b + z + 1, b + nowIndex)
  <2>1. z \in Nat /\ z <= f /\ f <= ctx.index
    BY <1>1
  <2>2. QED
    BY <1>1, <2>1, OpenFeeds
<1>3. Slices(ctx, m, n - 1) = Slices(d, m, n - 1)
  BY DEF Slices, Slice
<1>4. f <= nowIndex
  <2>1. ctx.index \in Nat /\ nowIndex \in Nat /\ ctx.index <= nowIndex
    BY MembersFacts DEF nowIndex
  <2>2. f <= ctx.index
    BY <1>1
  <2>3. QED
    BY <2>1, <2>2
<1>5. Raw(d, t, b, f)
  BY <1>1 DEF Raw
<1>6. QED
  BY <1>1, <1>2, <1>3, <1>4, <1>5 DEF OpenBlock

\* A bare one ends it badly.
LEMMA OpenBare ==
    ASSUME MembersInv(ctx), ctx.state \in {"header", "chunkFooter"}, NEW t \in Seq(Char),
           NEW b \in Nat, b + nowIndex <= Len(t), NEW z, NEW m, OpenBlock(ctx, t, b, z, m),
           NEW j, j = LineFeed, j > 0, BareAt(j)
    PROVE  /\ FirstStop(t, b + z + 1, b + j) /\ IsBare(t, b + z + 1, b + j)
           /\ z \in Nat
<1>1. PICK f \in Nat :
              /\ z \in 0..f /\ f <= ctx.index
              /\ f = z \/ t[b + f] = LF
              /\ NoFeed(t, b + f + 1, b + ctx.index) /\ NoStop(t, b + z + 1, b + ctx.index)
              /\ Raw(ctx, t, b, f)
  BY OpenIs
<1>2. z \in Nat /\ z <= f
  BY <1>1
<1>3. PICK u \in Nat : u = ctx.index
  BY MembersFacts
<1>4. PICK w \in Nat : w = nowIndex
  BY MembersFacts DEF nowIndex
<1>5. /\ j \in (u + 1)..w /\ t[b + j] = LF
      /\ NoStop(t, b + z + 1, b + j - 1)
  <2>1. LineFeed # 0
    OBVIOUS
  <2>2. f <= ctx.index /\ z <= f /\ z \in Nat
    BY <1>1, <1>2
  <2>3. /\ LineFeed \in (ctx.index + 1)..nowIndex /\ t[b + LineFeed] = LF
        /\ NoStop(t, b + z + 1, b + LineFeed - 1)
    BY <1>1, <2>1, <2>2, OpenFeeds
  <2>4. QED
    BY <1>3, <1>4, <2>3
<1>6. j \in Nat /\ f < j
  <2>1. f <= u
    BY <1>1, <1>3
  <2>2. j \in (u + 1)..w
    BY <1>5
  <2>3. QED
    BY <2>1, <2>2
<1>7. IsBare(t, b + z + 1, b + j)
  <2>1. CASE j - 1 > f
    <3>1. j - 1 \in (f + 1)..Len(ctx.buf)
      BY <1>4, <1>5, <1>6, <2>1 DEF nowIndex
    <3>2. ctx.buf[j - 1] = t[b + (j - 1)]
      BY <1>1, <3>1 DEF Raw
    <3>3. b + (j - 1) = (b + j) - 1
      BY <1>6
    <3>4. t[(b + j) - 1] # CR
      BY <3>2, <3>3 DEF BareAt
    <3>5. QED
      BY <1>5, <3>4 DEF IsBare
  <2>2. CASE j - 1 = f
    <3>1. CASE f = z
      <4>1. b + j = b + z + 1
        BY <1>6, <2>2, <3>1
      <4>2. QED
        BY <1>5, <4>1 DEF IsBare
    <3>2. CASE t[b + f] = LF
      <4>1. b + f = (b + j) - 1
        BY <1>6, <2>2
      <4>2. t[(b + j) - 1] # CR
        BY <3>2, <4>1 DEF LF, CR
      <4>3. QED
        BY <1>5, <4>2 DEF IsBare
    <3>3. QED
      BY <1>1, <3>1, <3>2
  <2>3. QED
    BY <1>6, <2>1, <2>2
<1>8. b + j \in (b + z + 1)..Len(t) /\ b + j - 1 = (b + j) - 1
  BY <1>2, <1>4, <1>5, <1>6
<1>9. QED
  BY <1>2, <1>5, <1>7, <1>8 DEF FirstStop

\* The CR LF of an empty line ends it well.
LEMMA OpenEnds ==
    ASSUME MembersInv(ctx), ctx.state \in {"header", "chunkFooter"}, NEW t \in Seq(Char),
           NEW b \in Nat, b + nowIndex <= Len(t), NEW z, NEW m, OpenBlock(ctx, t, b, z, m),
           NEW j, j = LineFeed, j > 0, ~BareAt(j), LengthAt(j) = 0
    PROVE  /\ FirstStop(t, b + z + 1, b + j) /\ ~IsBare(t, b + z + 1, b + j)
           /\ LinesOf(t, b + z + 1, b + j) = Slices(ctx, m, Len(ctx.lines) - 1)
           /\ m \in 0..(Len(ctx.lines) - 1) /\ z \in Nat
           /\ j \in (ctx.index + 1)..nowIndex /\ j >= 2
           /\ Raw(ctx, t, b, j)
<1>1. PICK f \in Nat, n \in Nat :
              /\ n = Len(ctx.lines) /\ n > 0 /\ f = LastFirst
              /\ m \in 0..(n - 1) /\ z \in 0..f /\ f <= ctx.index
              /\ f = z \/ t[b + f] = LF
              /\ NoFeed(t, b + f + 1, b + ctx.index) /\ NoStop(t, b + z + 1, b + ctx.index)
              /\ LinesOf(t, b + z + 1, b + f + 2) = Slices(ctx, m, n - 1)
              /\ Raw(ctx, t, b, f)
  BY OpenIs
<1>2. z \in Nat /\ z <= f
  BY <1>1
<1>3. PICK u \in Nat : u = ctx.index
  BY MembersFacts
<1>4. PICK w \in Nat : w = nowIndex
  BY MembersFacts DEF nowIndex
<1>5. /\ j \in (u + 1)..w /\ t[b + j] = LF
      /\ NoStop(t, b + z + 1, b + j - 1)
  <2>1. LineFeed # 0
    OBVIOUS
  <2>2. f <= ctx.index /\ z <= f /\ z \in Nat
    BY <1>1, <1>2
  <2>3. /\ LineFeed \in (ctx.index + 1)..nowIndex /\ t[b + LineFeed] = LF
        /\ NoStop(t, b + z + 1, b + LineFeed - 1)
    BY <1>1, <2>1, <2>2, OpenFeeds
  <2>4. QED
    BY <1>3, <1>4, <2>3
<1>6. j \in Nat /\ j = f + 2
  BY <1>1, <1>5 DEF LengthAt
<1>7. t[(b + j) - 1] = CR
  <2>1. j - 1 \in (f + 1)..Len(ctx.buf)
    BY <1>4, <1>5, <1>6 DEF nowIndex
  <2>2. ctx.buf[j - 1] = t[b + (j - 1)]
    BY <1>1, <2>1 DEF Raw
  <2>3. b + (j - 1) = (b + j) - 1
    BY <1>6
  <2>4. QED
    BY <2>2, <2>3 DEF BareAt
<1>8. ~IsBare(t, b + z + 1, b + j)
  <2>1. b + j # b + z + 1
    BY <1>2, <1>6
  <2>2. QED
    BY <1>7, <2>1 DEF IsBare
<1>9. IsBlank(t, b + z + 1, b + j)
  <2>1. CASE f = z
    <3>1. (b + j) - 1 = b + z + 1
      BY <1>6, <2>1
    <3>2. QED
      BY <1>5, <1>8, <3>1 DEF IsBlank
  <2>2. CASE t[b + f] = LF
    <3>1. b + f = (b + j) - 2
      BY <1>6
    <3>2. QED
      BY <1>5, <1>8, <2>2, <3>1 DEF IsBlank
  <2>3. QED
    BY <1>1, <2>1, <2>2
<1>10. b + j \in (b + z + 1)..Len(t) /\ b + j - 1 = (b + j) - 1 /\ b + f + 2 = b + j
  BY <1>2, <1>4, <1>5, <1>6
<1>11. FirstStop(t, b + z + 1, b + j)
  BY <1>5, <1>9, <1>10 DEF FirstStop
<1>12. Raw(ctx, t, b, j)
  <2>1. \A i \in (j + 1)..Len(ctx.buf) : i \in (f + 1)..Len(ctx.buf)
    BY <1>4, <1>6 DEF nowIndex
  <2>2. QED
    BY <1>1, <2>1 DEF Raw
<1>13. QED
  BY <1>1, <1>2, <1>3, <1>4, <1>5, <1>6, <1>8, <1>10, <1>11, <1>12

-----------------------------------------------------------------------------
(* What the steps do to the members.                                        *)

\* The CR LF that become terminators are behind what was read.
LEMMA TerminatedSame ==
    ASSUME MembersInv(ctx), NEW j \in (ctx.index + 1)..nowIndex, NEW d \in Members,
           d.buf = Terminated(j).buf
    PROVE  /\ Len(d.buf) = nowIndex /\ d.buf[j] = Nul
           /\ Agree(ctx, d, j - 2) /\ Agree(ctx, d, ctx.index - 2)
           /\ \A i \in (j + 1)..nowIndex : d.buf[i] = ctx.buf[i]
<1>1. PICK w \in Nat : w = nowIndex /\ w = Len(ctx.buf)
  BY MembersFacts DEF nowIndex
<1>2. PICK u \in Nat : u = ctx.index
  BY MembersFacts
<1>3. j \in 1..nowIndex /\ j \in Nat /\ u < j /\ j <= w
  BY <1>1, <1>2
<1>4. ctx \in Members
  BY MembersFacts
<1>5. Len(d.buf) = w /\ \A i \in 1..w : d.buf[i] = IF i \in {j - 1, j} THEN Nul ELSE ctx.buf[i]
  BY <1>1, <1>3, <1>4, TerminatedIs
<1>6. d.buf[j] = Nul
  BY <1>1, <1>3, <1>5
<1>7. \A i \in 1..(j - 2) : i \in 1..w /\ i \notin {j - 1, j}
  BY <1>3
<1>8. \A i \in (j + 1)..w : i \in 1..w /\ i \notin {j - 1, j}
  BY <1>3
<1>9. Agree(ctx, d, j - 2)
  BY <1>1, <1>3, <1>5, <1>7 DEF Agree
<1>10. \A i \in 1..(u - 2) : i \in 1..(j - 2)
  BY <1>3
<1>11. Agree(ctx, d, u - 2)
  BY <1>1, <1>3, <1>5, <1>7, <1>10 DEF Agree
<1>12. QED
  BY <1>1, <1>2, <1>5, <1>6, <1>8, <1>9, <1>11

\* The rest of the members is not touched.
LEMMA TerminatedKeeps ==
    ASSUME NEW j
    PROVE  /\ Terminated(j).keepAlive = ctx.keepAlive /\ Terminated(j).chunked = ctx.chunked
           /\ Terminated(j).contentLength = ctx.contentLength
           /\ Terminated(j).sizeStart = ctx.sizeStart /\ Terminated(j).sizeDone = ctx.sizeDone
           /\ Terminated(j).chunkSize = ctx.chunkSize
BY DEF Terminated

\* NextLine, on the members.
LEMMA NextLineDoes ==
    ASSUME MembersInv(ctx), NEW state \in {"header", "chunkFooter"}, NextLine(state)
    PROVE  \E j, n \in Nat :
              /\ j = LineFeed /\ j \in (ctx.index + 1)..nowIndex /\ ~BareAt(j) /\ LengthAt(j) > 0
              /\ n = Len(ctx.lines) /\ n > 0
              /\ ctx.state = state /\ ctx'.state = state
              /\ ctx' \in Members /\ ctx'.buf = Terminated(j).buf /\ ctx'.index = j
              /\ ctx'.headerSize = ctx.headerSize /\ ctx'.chunks = ctx.chunks
              /\ ctx'.keepAlive = ctx.keepAlive /\ ctx'.chunked = ctx.chunked
              /\ ctx'.contentLength = ctx.contentLength
              /\ Len(ctx'.lines) = n + 1 /\ \A k \in 1..(n - 1) : ctx'.lines[k] = ctx.lines[k]
              /\ ctx'.lines[n] = [first |-> LastFirst, length |-> LengthAt(j)]
              /\ ctx'.lines[n + 1] = [first |-> j, length |-> Unknown]
<1>1. PICK d : d = ctx'
  OBVIOUS
<1>2. ctx.state = state /\ ctx.lines # <<>> /\ ctx \in Members /\ ctx.lines \in Seq(Piece)
  BY MembersFacts DEF NextLine, Reads, LinesInv
<1>3. PICK j : j = LineFeed
  OBVIOUS
<1>4. /\ j \in (ctx.index + 1)..nowIndex /\ j # 0 /\ ~BareAt(j) /\ LengthAt(j) > 0
  BY <1>2, <1>3, MembersFacts, LineFeedIs DEF NextLine
<1>5. PICK n \in Nat : n = Len(ctx.lines) /\ n > 0
  BY <1>2
<1>6. LastFirst \in Nat
  <2>1. Last(ctx.lines) \in Piece
    BY <1>2 DEF Last
  <2>2. QED
    BY <2>1 DEF LastFirst, Piece
<1>7. ctx.index \in Nat /\ nowIndex \in Nat
  BY MembersFacts DEF nowIndex
<1>8. j \in Nat /\ j \in 1..nowIndex /\ LengthAt(j) \in Nat
  BY <1>4, <1>6, <1>7 DEF LengthAt
<1>9. PICK line \in Piece : line = [first |-> LastFirst, length |-> LengthAt(j)]
  BY <1>6, <1>8 DEF Piece
<1>10. PICK next \in Piece : next = [first |-> j, length |-> Unknown]
  BY <1>8, Widths DEF Piece
<1>11. /\ Front(ctx.lines) \in Seq(Piece) /\ Len(Front(ctx.lines)) = n - 1
       /\ \A k \in 1..(n - 1) : Front(ctx.lines)[k] = ctx.lines[k]
  BY <1>2, <1>5, FrontIs
<1>12. PICK lines : lines = Append(Front(ctx.lines), line)
  OBVIOUS
<1>13. lines = Front(ctx.lines) \o <<line>>
  BY <1>11, <1>12, AppendIsConcat
<1>14. /\ lines \in Seq(Piece) /\ Len(lines) = n /\ lines[n] = line
       /\ \A k \in 1..(n - 1) : lines[k] = ctx.lines[k]
  <2>1. (n - 1) + 1 = n
    BY <1>5
  <2>2. QED
    BY <1>11, <1>12, <2>1, AppendProperties
<1>15. PICK all : all = Append(lines, next)
  OBVIOUS
<1>16. /\ all \in Seq(Piece) /\ Len(all) = n + 1 /\ all[n + 1] = next
       /\ \A k \in 1..n : all[k] = lines[k]
  BY <1>14, <1>15, AppendProperties
<1>17. /\ Terminated(j) \in Members /\ Terminated(j).lines = ctx.lines
       /\ Terminated(j).chunks = ctx.chunks /\ Terminated(j).headerSize = ctx.headerSize
       /\ Terminated(j).state = state
  BY <1>2, <1>8, TerminatedIs
<1>18. d = [Terminated(j) EXCEPT !.lines = all, !.index = j]
  <2>1. d = [Terminated(j) EXCEPT
               !.lines = Append(Front(@) \o <<[first |-> LastFirst, length |-> LengthAt(j)]>>,
                                [first |-> j, length |-> Unknown]),
               !.index = j]
    BY <1>1, <1>3 DEF NextLine
  <2>2. QED
    BY <1>9, <1>10, <1>13, <1>15, <1>17, <2>1
<1>19. PICK e \in Members : e = Terminated(j)
  BY <1>17
<1>20. /\ d \in Members /\ d.buf = e.buf /\ d.index = j /\ d.lines = all /\ d.state = e.state
       /\ d.headerSize = e.headerSize /\ d.chunks = e.chunks /\ d.keepAlive = e.keepAlive
       /\ d.chunked = e.chunked /\ d.contentLength = e.contentLength
  BY <1>8, <1>16, <1>18, <1>19 DEF Members
<1>21. /\ e.keepAlive = ctx.keepAlive /\ e.chunked = ctx.chunked
       /\ e.contentLength = ctx.contentLength
  BY <1>19, TerminatedKeeps
<1>22. \A k \in 1..(n - 1) : d.lines[k] = ctx.lines[k]
  <2>1. \A k \in 1..(n - 1) : k \in 1..n
    OBVIOUS
  <2>2. QED
    BY <1>14, <1>16, <1>20, <2>1
<1>23. d.lines[n] = line /\ d.lines[n + 1] = next /\ Len(d.lines) = n + 1
  BY <1>5, <1>14, <1>16, <1>20
<1>24. /\ d.state = state /\ d.headerSize = ctx.headerSize /\ d.chunks = ctx.chunks
       /\ d.keepAlive = ctx.keepAlive /\ d.chunked = ctx.chunked
       /\ d.contentLength = ctx.contentLength /\ d.buf = Terminated(j).buf
  BY <1>17, <1>19, <1>20, <1>21
<1>25. QED
  BY <1>1, <1>2, <1>3, <1>4, <1>5, <1>8, <1>9, <1>10, <1>20, <1>22, <1>23, <1>24

\* A complete line joins the block.
LEMMA OpenNext ==
    ASSUME MembersInv(ctx), NEW state \in {"header", "chunkFooter"}, NextLine(state),
           NEW t \in Seq(Char), NEW b \in Nat, b + nowIndex <= Len(t), NEW z, NEW m,
           OpenBlock(ctx, t, b, z, m)
    PROVE  OpenBlock(ctx', t, b, z, m)
<1>1. PICK d : d = ctx'
  OBVIOUS
<1>2. PICK j \in Nat, n \in Nat :
              /\ j = LineFeed /\ j \in (ctx.index + 1)..nowIndex /\ ~BareAt(j) /\ LengthAt(j) > 0
              /\ n = Len(ctx.lines) /\ n > 0
              /\ ctx.state = state
              /\ d \in Members /\ d.buf = Terminated(j).buf /\ d.index = j
              /\ Len(d.lines) = n + 1 /\ \A k \in 1..(n - 1) : d.lines[k] = ctx.lines[k]
              /\ d.lines[n] = [first |-> LastFirst, length |-> LengthAt(j)]
              /\ d.lines[n + 1] = [first |-> j, length |-> Unknown]
  BY <1>1, NextLineDoes, ZenonT(30)
<1>3. PICK f \in Nat :
              /\ f = LastFirst
              /\ m \in 0..(n - 1) /\ z \in 0..f /\ f <= ctx.index
              /\ f = z \/ t[b + f] = LF
              /\ NoFeed(t, b + f + 1, b + ctx.index) /\ NoStop(t, b + z + 1, b + ctx.index)
              /\ LinesOf(t, b + z + 1, b + f + 2) = Slices(ctx, m, n - 1)
              /\ Raw(ctx, t, b, f)
  <2>1. ctx.state \in {"header", "chunkFooter"} /\ n = Len(ctx.lines)
    BY <1>2
  <2>2. PICK f, o :
              /\ f \in Nat /\ o = Len(ctx.lines) /\ f = LastFirst
              /\ m \in 0..(o - 1) /\ z \in 0..f /\ f <= ctx.index
              /\ f = z \/ t[b + f] = LF
              /\ NoFeed(t, b + f + 1, b + ctx.index) /\ NoStop(t, b + z + 1, b + ctx.index)
              /\ LinesOf(t, b + z + 1, b + f + 2) = Slices(ctx, m, o - 1)
              /\ Raw(ctx, t, b, f)
    BY <2>1, OpenIs
  <2>3. QED
    BY <2>1, <2>2
<1>4. PICK u \in Nat : u = ctx.index
  BY MembersFacts
<1>5. PICK w \in Nat : w = nowIndex /\ w = Len(ctx.buf)
  BY MembersFacts DEF nowIndex
<1>6. z \in Nat /\ z <= f /\ f <= u /\ j \in (u + 1)..w /\ m \in Nat /\ m <= n - 1
  <2>1. z \in 0..f /\ m \in 0..(n - 1) /\ f <= ctx.index
    BY <1>3
  <2>2. f <= u
    BY <1>4, <2>1
  <2>3. j \in (ctx.index + 1)..nowIndex
    BY <1>2
  <2>4. j \in (u + 1)..w
    BY <1>4, <1>5, <2>3
  <2>5. z \in Nat /\ z <= f /\ m \in Nat /\ m <= n - 1
    BY <2>1
  <2>6. QED
    BY <2>2, <2>4, <2>5
<1>7. /\ t[b + j] = LF /\ NoFeed(t, b + f + 1, b + j - 1) /\ NoStop(t, b + z + 1, b + j - 1)
  <2>1. j = LineFeed /\ j # 0
    <3>1. j \in (u + 1)..w
      BY <1>6
    <3>2. j # 0
      BY <3>1
    <3>3. QED
      BY <1>2, <3>2
  <2>2. z \in Nat /\ z <= f /\ f <= ctx.index
    BY <1>3, <1>6
  <2>3. /\ NoFeed(t, b + f + 1, b + ctx.index) /\ NoStop(t, b + z + 1, b + ctx.index)
        /\ Raw(ctx, t, b, f)
    BY <1>3
  <2>4. LineFeed # 0 => /\ t[b + LineFeed] = LF /\ NoFeed(t, b + f + 1, b + LineFeed - 1)
                        /\ NoStop(t, b + z + 1, b + LineFeed - 1)
    BY <2>2, <2>3, OpenFeeds
  <2>5. QED
    BY <2>1, <2>4
<1>8. j - 2 - f > 0 /\ j - 2 > f
  BY <1>2, <1>3 DEF LengthAt
<1>9. t[(b + j) - 1] = CR
  <2>1. j - 1 \in (f + 1)..Len(ctx.buf)
    BY <1>5, <1>6, <1>8
  <2>2. ctx.buf[j - 1] = t[b + (j - 1)]
    BY <1>3, <2>1 DEF Raw
  <2>3. b + (j - 1) = (b + j) - 1
    OBVIOUS
  <2>4. QED
    BY <1>2, <2>2, <2>3 DEF BareAt
<1>10. NoStop(t, b + z + 1, b + j)
  <2>1. ~IsBare(t, b + z + 1, b + j)
    <3>1. b + j # b + z + 1
      BY <1>6, <1>8
    <3>2. QED
      BY <1>9, <3>1 DEF IsBare
  <2>2. ~IsBlank(t, b + z + 1, b + j)
    <3>1. (b + j) - 1 # b + z + 1
      BY <1>6, <1>8
    <3>2. (b + j) - 2 \in (b + f + 1)..(b + j - 1)
      BY <1>6, <1>8
    <3>3. t[(b + j) - 2] # LF
      BY <1>7, <3>2 DEF NoFeed
    <3>4. QED
      BY <3>1, <3>3 DEF IsBlank
  <2>3. \A k \in (b + z + 1)..(b + j) : k \in (b + z + 1)..(b + j - 1) \/ k = b + j
    BY <1>6
  <2>4. QED
    BY <1>7, <2>1, <2>2, <2>3 DEF NoStop
<1>11. /\ Len(d.buf) = w /\ Agree(ctx, d, j - 2) /\ Agree(ctx, d, u - 2)
       /\ \A i \in (j + 1)..w : d.buf[i] = ctx.buf[i]
  BY <1>2, <1>4, <1>5, TerminatedSame
<1>12. Raw(d, t, b, j)
  <2>1. \A i \in (j + 1)..w : i \in (f + 1)..Len(ctx.buf)
    BY <1>5, <1>6
  <2>2. QED
    BY <1>3, <1>11, <2>1 DEF Raw
<1>13. NoFeed(t, b + j + 1, b + j)
  BY DEF NoFeed
<1>14. LinesOf(t, b + z + 1, b + j + 2) = Slices(d, m, n)
  <2>1. PICK v \in Nat :
           /\ DOMAIN LinesOf(t, b + z + 1, b + f + 2) = 1..v
           /\ LinesOf(t, b + z + 1, b + j + 2) =
                [k \in 1..(v + 1) |-> IF k <= v THEN LinesOf(t, b + z + 1, b + f + 2)[k]
                                      ELSE SubSeq(t, b + f + 1, b + j - 2)]
    <3>1. /\ b + z + 1 \in Nat \ {0} /\ b + f \in Nat /\ b + j \in Nat /\ b + f < b + j
          /\ b + z + 1 = (b + f) + 1 \/ (b + z + 1 <= b + f /\ t[b + f] = LF)
      BY <1>3, <1>6
    <3>2. NoFeed(t, (b + f) + 1, (b + j) - 1)
      <4>1. (b + f) + 1 = b + f + 1 /\ (b + j) - 1 = b + j - 1
        OBVIOUS
      <4>2. QED
        BY <1>7, <4>1
    <3>3. (b + f) + 2 = b + f + 2 /\ (b + j) + 2 = b + j + 2 /\ (b + j) - 2 = b + j - 2
      OBVIOUS
    <3>4. PICK i \in Nat \ {0}, o \in Nat, q \in Nat : i = b + z + 1 /\ o = b + f /\ q = b + j
      BY <3>1
    <3>5. /\ o < q /\ t[q] = LF /\ NoFeed(t, o + 1, q - 1)
          /\ i = o + 1 \/ (i <= o /\ t[o] = LF)
      BY <1>7, <3>1, <3>2, <3>4
    <3>6. PICK v \in Nat : LineAdded(t, i, o, q, v)
      BY <3>5, LinesOfNext
    <3>7. /\ DOMAIN LinesOf(t, i, o + 2) = 1..v
          /\ LinesOf(t, i, q + 2) =
                [k \in 1..(v + 1) |-> IF k <= v THEN LinesOf(t, i, o + 2)[k]
                                      ELSE SubSeq(t, o + 1, q - 2)]
      BY <3>6 DEF LineAdded
    <3>8. QED
      BY <3>3, <3>4, <3>7
  <2>2. v = n - 1 - m
    <3>1. DOMAIN Slices(ctx, m, n - 1) = 1..(n - 1 - m)
      BY DEF Slices
    <3>2. 1..v = 1..(n - 1 - m)
      BY <1>3, <2>1, <3>1
    <3>3. PICK o \in Nat : o = n - 1 - m
      BY <1>6
    <3>4. 1..v = 1..o
      BY <3>2, <3>3
    <3>5. v = o
      <4>1. v \in 1..v \/ v = 0
        OBVIOUS
      <4>2. o \in 1..o \/ o = 0
        OBVIOUS
      <4>3. QED
        BY <3>4, <4>1, <4>2
    <3>6. QED
      BY <3>3, <3>5
  <2>3. v + 1 = n - m /\ m + (v + 1) = n
    BY <1>6, <2>2
  <2>4. ASSUME NEW k \in 1..v PROVE Slices(ctx, m, n - 1)[k] = Slice(d, d.lines[m + k])
    <3>1. SameLines(ctx, d, m, n - 1, u - 2)
      <4>1. n - 1 \in Nat /\ n - 1 < Len(ctx.lines) /\ n - 1 <= Len(ctx.lines)
        BY <1>2
      <4>2. QED
        BY <1>2, <1>4, <1>6, <4>1, EndedSame
    <3>2. Slices(ctx, m, n - 1) = Slices(d, m, n - 1)
      <4>1. u - 2 \in Int /\ ctx \in Members
        BY MembersFacts
      <4>2. QED
        BY <1>2, <1>11, <3>1, <4>1, SlicesSame
    <3>3. k \in 1..(n - 1 - m)
      BY <2>2
    <3>4. QED
      BY <3>2, <3>3 DEF Slices
  <2>5. Slice(d, d.lines[n]) = SubSeq(t, b + f + 1, b + j - 2)
    <3>1. Slice(d, d.lines[n]) = SubSeq(d.buf, f + 1, f + (j - 2 - f))
      BY <1>2, <1>3 DEF Slice, LengthAt
    <3>2. f + (j - 2 - f) = j - 2
      OBVIOUS
    <3>3. ASSUME NEW k \in (f + 1)..(j - 2) PROVE d.buf[k] = t[b + k]
      <4>1. k \in 1..(j - 2) /\ k \in (f + 1)..Len(ctx.buf)
        BY <1>5, <1>6
      <4>2. QED
        BY <1>3, <1>11, <4>1 DEF Agree, Raw
    <3>4. d.buf \in Seq(Char)
      BY <1>2 DEF Members
    <3>5. j - 2 \in Nat /\ f <= j - 2 /\ j - 2 <= Len(d.buf) /\ b + (j - 2) <= Len(t)
      <4>1. j <= w /\ f < j - 2 /\ Len(d.buf) = w
        BY <1>6, <1>8, <1>11
      <4>2. b + w <= Len(t) /\ Len(t) \in Nat
        BY <1>5
      <4>3. QED
        BY <4>1, <4>2
    <3>6. SubSeq(d.buf, f + 1, j - 2) = SubSeq(t, b + f + 1, b + (j - 2))
      <4>1. PICK g \in Nat, y \in Seq(Char) : g = j - 2 /\ y = d.buf
        BY <3>4, <3>5
      <4>2. f <= g /\ g <= Len(y) /\ b + g <= Len(t) /\ \A k \in (f + 1)..g : y[k] = t[b + k]
        BY <3>3, <3>5, <4>1
      <4>3. SubSeq(y, f + 1, g) = SubSeq(t, b + f + 1, b + g)
        BY <4>2, SubSeqSame
      <4>4. QED
        BY <4>1, <4>3
    <3>7. b + (j - 2) = b + j - 2
      OBVIOUS
    <3>8. QED
      BY <3>1, <3>2, <3>6, <3>7
  <2>6. Slices(d, m, n) = [k \in 1..(v + 1) |-> Slice(d, d.lines[m + k])]
    BY <2>3 DEF Slices
  <2>7. ASSUME NEW k \in 1..(v + 1)
        PROVE  Slice(d, d.lines[m + k]) =
                  IF k <= v THEN LinesOf(t, b + z + 1, b + f + 2)[k]
                  ELSE SubSeq(t, b + f + 1, b + j - 2)
    <3>1. CASE k <= v
      BY <1>3, <2>4, <3>1
    <3>2. CASE ~(k <= v)
      <4>1. k = v + 1
        BY <3>2
      <4>2. QED
        BY <2>3, <2>5, <3>2, <4>1
    <3>3. QED
      BY <3>1, <3>2
  <2>8. QED
    BY <2>1, <2>6, <2>7
<1>15. (n + 1) - 1 = n /\ m \in 0..n /\ z \in 0..j
  BY <1>6
<1>16. OpenBlock(d, t, b, z, m)
  <2>1. Len(d.lines) = n + 1 /\ d.lines[n + 1].first = j /\ d.index = j /\ j <= j
    BY <1>2
  <2>2. QED
    BY <1>7, <1>10, <1>12, <1>13, <1>14, <1>15, <2>1 DEF OpenBlock
<1>17. QED
  BY <1>1, <1>16

-----------------------------------------------------------------------------
(* What each step says of the input: the context goes on with it, or it is  *)
(* one that the parser reads in its own way.                                *)

\* The context has read of t what it says.
ReadsOf(t, b) ==
    /\ t \in Seq(Char) /\ b \in Nat /\ b + nowIndex <= Len(t)
    /\ MembersInv(ctx) /\ Parsed(ctx, t, b)

\* After the step it does so again, or t is read in another way than it is meant.
GoesOnWith(t, b) == RequestAt(t, b + 1) = Unspecified \/ Parsed(ctx', t, b)

\* Malformed input.
LEMMA MalformParsed ==
    ASSUME MembersInv(ctx), Malform, NEW t, NEW b, RequestAt(t, b + 1) = Bad
    PROVE  GoesOnWith(t, b)
<1>1. PICK d : d = ctx'
  OBVIOUS
<1>2. d.state = "bad"
  BY <1>1, MembersFacts DEF Malform, Members
<1>3. Parsed(d, t, b)
  BY <1>2 DEF Parsed
<1>4. QED
  BY <1>1, <1>3 DEF GoesOnWith

\* The first line begins.
LEMMA ReadStartParsed ==
    ASSUME NEW t, NEW b, ReadsOf(t, b), ReadStart
    PROVE  GoesOnWith(t, b)
<1>1. t \in Seq(Char) /\ b \in Nat /\ b + nowIndex <= Len(t) /\ MembersInv(ctx)
  BY DEF ReadsOf
<1>2. ctx.state = "start" /\ ctx.index = 0 /\ Fresh(ctx) /\ Raw(ctx, t, b, 0)
  BY DEF ReadsOf, Parsed, ReadStart, Reads
<1>3. nowIndex \in Nat /\ nowIndex > 0 /\ nowIndex = Len(ctx.buf)
  BY <1>1, <1>2, MembersFacts DEF ReadStart, Reads, nowIndex
<1>4. ctx.buf[1] = t[b + 1]
  <2>1. 1 \in (0 + 1)..Len(ctx.buf)
    BY <1>3
  <2>2. QED
    BY <1>2, <2>1 DEF Raw
<1>5. CASE ctx.buf[1] = LF
  <2>1. IsBare(t, b + 1, b + 1)
    BY <1>4, <1>5 DEF IsBare
  <2>2. FirstStop(t, b + 1, b + 1)
    <3>1. b + 1 \in (b + 1)..Len(t)
      BY <1>1, <1>3
    <3>2. NoStop(t, b + 1, (b + 1) - 1)
      BY <1>1 DEF NoStop
    <3>3. QED
      BY <2>1, <3>1, <3>2 DEF FirstStop
  <2>3. RequestAt(t, b + 1) = Bad
    <3>1. b + 1 \in Nat
      BY <1>1
    <3>2. QED
      BY <1>1, <2>1, <2>2, <3>1, RequestAtIs
  <2>4. Malform
    BY <1>5 DEF ReadStart
  <2>5. QED
    BY <1>1, <2>3, <2>4, MalformParsed
<1>6. CASE ctx.buf[1] # LF
  <2>1. PICK d : d = ctx'
    OBVIOUS
  <2>2. d = [ctx EXCEPT !.state = "header",
                        !.lines = Append(@, [first |-> 0, length |-> Unknown])]
    BY <1>2, <1>6, <2>1 DEF ReadStart
  <2>3. PICK line \in Piece : line = [first |-> 0, length |-> Unknown]
    BY Widths DEF Piece
  <2>4. ctx \in Members /\ ctx.lines = <<>>
    BY <1>1, <1>2, MembersFacts DEF LinesInv
  <2>5. /\ d.state = "header" /\ d.index = 0 /\ d.buf = ctx.buf /\ d.chunks = ctx.chunks
        /\ d.keepAlive = ctx.keepAlive /\ d.chunked = ctx.chunked
        /\ d.contentLength = ctx.contentLength /\ d.lines = <<line>>
    BY <1>2, <2>2, <2>3, <2>4 DEF Members
  <2>6. Fresh(d)
    BY <1>2, <2>5 DEF Fresh
  <2>7. OpenBlock(d, t, b, 0, 0)
    <3>1. Len(d.lines) = 1 /\ d.lines[1].first = 0
      BY <2>3, <2>5
    <3>2. 0 \in 0..(1 - 1) /\ 0 \in 0..0 /\ 0 <= 0
      OBVIOUS
    <3>3. NoFeed(t, b + 0 + 1, b + 0) /\ NoStop(t, b + 0 + 1, b + 0)
      BY <1>1 DEF NoFeed, NoStop
    <3>4. LinesOf(t, b + 0 + 1, b + 0 + 2) = Slices(d, 0, 1 - 1)
      <4>1. PICK i \in Nat \ {0} : i = b + 1 /\ i = b + 0 + 1 /\ b + 0 + 2 = i + 1
        BY <1>1
      <4>2. LinesOf(t, i, i + 1) = <<>>
        BY LinesOfNone
      <4>3. Slices(d, 0, 1 - 1) = <<>>
        <5>1. 1..((1 - 1) - 0) = {}
          OBVIOUS
        <5>2. QED
          BY <5>1 DEF Slices
      <4>4. QED
        BY <4>1, <4>2, <4>3
    <3>5. Raw(d, t, b, 0)
      BY <1>2, <2>5 DEF Raw
    <3>6. QED
      BY <2>5, <3>1, <3>2, <3>3, <3>4, <3>5 DEF OpenBlock
  <2>8. Parsed(d, t, b)
    BY <2>5, <2>6, <2>7 DEF Parsed
  <2>9. QED
    BY <2>1, <2>8 DEF GoesOnWith
<1>7. QED
  BY <1>5, <1>6

\* The footer of a chunked body.
FooterRead(c, t, b, p, z, m) ==
    /\ HeadRead(c, t, b, m) /\ ChunksRead(c, t, b, p)
    /\ SizeLine(t, b + p + 1, b + z, 0) /\ OpenBlock(c, t, b, z, m)

\* It is what Parsed says in that state.
LEMMA FooterParsed ==
    ASSUME NEW c, NEW t, NEW b, c.state = "chunkFooter"
    PROVE  Parsed(c, t, b) <=> \E p, z \in 0..c.index, m \in 0..Len(c.lines) :
                                  FooterRead(c, t, b, p, z, m)
BY DEF Parsed, FooterRead

\* A line goes on in the next read.
LEMMA LineGoesOnParsed ==
    ASSUME NEW t, NEW b, ReadsOf(t, b), NEW state \in {"header", "chunkFooter"},
           LineGoesOn(state)
    PROVE  GoesOnWith(t, b)
<1>1. t \in Seq(Char) /\ b \in Nat /\ b + nowIndex <= Len(t) /\ MembersInv(ctx)
  BY DEF ReadsOf
<1>2. PICK d : d = ctx'
  OBVIOUS
<1>3. ctx.state = state /\ LineFeed = 0 /\ Parsed(ctx, t, b) /\ ctx \in Members
  BY <1>1, MembersFacts DEF ReadsOf, LineGoesOn, Reads
<1>4. /\ d.state = state /\ d.index = nowIndex /\ d.buf = ctx.buf /\ d.chunks = ctx.chunks
      /\ d.lines = ctx.lines /\ d.headerSize = ctx.headerSize
      /\ d.keepAlive = ctx.keepAlive /\ d.chunked = ctx.chunked
      /\ d.contentLength = ctx.contentLength
  BY <1>2, <1>3 DEF LineGoesOn, Members
<1>5. d \in Members
  BY <1>1, <1>2, LineGoesOnKeeps, MembersFacts DEF Keeps
<1>6. CASE state = "header"
  <2>1. Fresh(ctx) /\ OpenBlock(ctx, t, b, 0, 0)
    BY <1>3, <1>6 DEF Parsed
  <2>2. OpenBlock(d, t, b, 0, 0)
    BY <1>1, <1>3, <1>4, <2>1, OpenGoesOn
  <2>3. Fresh(d)
    BY <1>4, <2>1 DEF Fresh
  <2>4. Parsed(d, t, b)
    BY <1>4, <1>6, <2>2, <2>3 DEF Parsed
  <2>5. QED
    BY <1>2, <2>4 DEF GoesOnWith
<1>7. CASE state = "chunkFooter"
  <2>1. PICK p \in 0..ctx.index, z \in 0..ctx.index, m \in 0..Len(ctx.lines) :
           FooterRead(ctx, t, b, p, z, m)
    BY <1>3, <1>7, FooterParsed
  <2>2. OpenBlock(d, t, b, z, m)
    BY <1>1, <1>3, <1>4, <2>1, OpenGoesOn DEF FooterRead
  <2>3. PICK n \in Nat : n = Len(ctx.lines) /\ m \in 0..(n - 1)
    BY <1>1, <1>3, <2>1, OpenIs DEF FooterRead
  <2>4. Agree(ctx, d, ctx.index - 2)
    BY <1>1, <1>4, MembersFacts DEF Agree
  <2>5. m < Len(ctx.lines) /\ m <= Len(d.lines)
    BY <1>4, <2>3
  <2>6. HeadRead(d, t, b, m)
    BY <1>1, <1>4, <1>5, <2>1, <2>4, <2>5, HeadSame DEF FooterRead
  <2>7. ctx.index <= d.index
    <3>1. ctx.index <= nowIndex
      BY <1>1, MembersFacts DEF nowIndex
    <3>2. QED
      BY <1>4, <3>1
  <2>8. ChunksRead(d, t, b, p)
    BY <1>1, <1>4, <1>5, <2>1, <2>4, <2>7, ChunksSame DEF FooterRead
  <2>9. FooterRead(d, t, b, p, z, m)
    BY <2>1, <2>2, <2>6, <2>8 DEF FooterRead
  <2>10. p \in 0..d.index /\ z \in 0..d.index /\ m \in 0..Len(d.lines)
    BY <1>1, <1>4, <2>7, MembersFacts, SMTT(30) DEF nowIndex
  <2>11. Parsed(d, t, b)
    BY <1>4, <1>7, <2>9, <2>10, FooterParsed
  <2>12. QED
    BY <1>2, <2>11 DEF GoesOnWith
<1>8. QED
  BY <1>6, <1>7

\* A line is complete.
LEMMA NextLineParsed ==
    ASSUME NEW t, NEW b, ReadsOf(t, b), NEW state \in {"header", "chunkFooter"},
           NextLine(state)
    PROVE  GoesOnWith(t, b)
<1>1. t \in Seq(Char) /\ b \in Nat /\ b + nowIndex <= Len(t) /\ MembersInv(ctx)
  BY DEF ReadsOf
<1>2. PICK d : d = ctx'
  OBVIOUS
<1>3. ctx.state = state /\ Parsed(ctx, t, b) /\ ctx \in Members
  BY <1>1, MembersFacts DEF ReadsOf, NextLine, Reads
<1>4. PICK j \in Nat, n \in Nat :
              /\ j \in (ctx.index + 1)..nowIndex
              /\ n = Len(ctx.lines) /\ n > 0
              /\ d.state = state
              /\ d \in Members /\ d.buf = Terminated(j).buf /\ d.index = j
              /\ d.headerSize = ctx.headerSize /\ d.chunks = ctx.chunks
              /\ d.keepAlive = ctx.keepAlive /\ d.chunked = ctx.chunked
              /\ d.contentLength = ctx.contentLength
              /\ Len(d.lines) = n + 1 /\ \A k \in 1..(n - 1) : d.lines[k] = ctx.lines[k]
  BY <1>1, <1>2, NextLineDoes
<1>5. CASE state = "header"
  <2>1. Fresh(ctx) /\ OpenBlock(ctx, t, b, 0, 0)
    BY <1>3, <1>5 DEF Parsed
  <2>2. OpenBlock(d, t, b, 0, 0)
    BY <1>1, <1>2, <2>1, OpenNext
  <2>3. Fresh(d)
    BY <1>4, <2>1 DEF Fresh
  <2>4. Parsed(d, t, b)
    BY <1>4, <1>5, <2>2, <2>3 DEF Parsed
  <2>5. QED
    BY <1>2, <2>4 DEF GoesOnWith
<1>6. CASE state = "chunkFooter"
  <2>1. PICK p \in 0..ctx.index, z \in 0..ctx.index, m \in 0..Len(ctx.lines) :
           FooterRead(ctx, t, b, p, z, m)
    BY <1>3, <1>6, FooterParsed
  <2>2. OpenBlock(d, t, b, z, m)
    BY <1>1, <1>2, <2>1, OpenNext DEF FooterRead
  <2>3. m \in 0..(n - 1)
    BY <1>1, <1>3, <1>4, <1>6, <2>1, OpenIs DEF FooterRead
  <2>4. Agree(ctx, d, ctx.index - 2)
    BY <1>1, <1>4, TerminatedSame
  <2>5. m < Len(ctx.lines) /\ m <= Len(d.lines) /\ \A k \in 1..m : d.lines[k] = ctx.lines[k]
    <3>1. \A k \in 1..m : k \in 1..(n - 1)
      BY <2>3
    <3>2. QED
      BY <1>4, <2>3, <3>1
  <2>6. HeadRead(d, t, b, m)
    BY <1>1, <1>4, <2>1, <2>4, <2>5, HeadSame DEF FooterRead
  <2>7. ctx.index <= d.index /\ ctx.index \in Nat
    BY <1>1, <1>4, MembersFacts
  <2>8. ChunksRead(d, t, b, p)
    BY <1>1, <1>4, <2>1, <2>4, <2>7, ChunksSame DEF FooterRead
  <2>9. FooterRead(d, t, b, p, z, m)
    BY <2>1, <2>2, <2>6, <2>8 DEF FooterRead
  <2>10. p \in 0..d.index /\ z \in 0..d.index /\ m \in 0..Len(d.lines)
    BY <1>4, <2>3, <2>7
  <2>11. Parsed(d, t, b)
    BY <1>4, <1>6, <2>9, <2>10, FooterParsed
  <2>12. QED
    BY <1>2, <2>11 DEF GoesOnWith
<1>7. QED
  BY <1>5, <1>6

\* A line feed without a CR.
LEMMA BareLineFeedParsed ==
    ASSUME NEW t, NEW b, ReadsOf(t, b), NEW state \in {"header", "chunkHeader", "chunkFooter"},
           BareLineFeed(state)
    PROVE  GoesOnWith(t, b)
<1>1. t \in Seq(Char) /\ b \in Nat /\ b + nowIndex <= Len(t) /\ MembersInv(ctx)
  BY DEF ReadsOf
<1>2. ctx.state = state /\ Parsed(ctx, t, b) /\ ctx \in Members /\ Malform
  BY <1>1, MembersFacts DEF ReadsOf, BareLineFeed, Reads
<1>3. PICK j : j = LineFeed /\ j > 0 /\ BareAt(j)
  BY DEF BareLineFeed
<1>4. PICK w \in Nat : w = nowIndex /\ w = Len(ctx.buf) /\ ctx.index <= w /\ ctx.index \in Nat
  BY <1>1, MembersFacts DEF nowIndex
<1>5. CASE state = "header"
  <2>1. OpenBlock(ctx, t, b, 0, 0)
    BY <1>2, <1>5 DEF Parsed
  <2>2. FirstStop(t, b + 0 + 1, b + j) /\ IsBare(t, b + 0 + 1, b + j)
    BY <1>1, <1>2, <1>3, <1>5, <2>1, OpenBare
  <2>3. PICK i \in Nat : i = b + 0 + 1 /\ i = b + 1
    BY <1>1
  <2>4. RequestAt(t, i) = Bad
    BY <1>1, <2>2, <2>3, RequestAtIs
  <2>5. QED
    BY <1>1, <1>2, <2>3, <2>4, MalformParsed
<1>6. CASE state = "chunkFooter"
  <2>1. PICK p \in 0..ctx.index, z \in 0..ctx.index, m \in 0..Len(ctx.lines) :
           FooterRead(ctx, t, b, p, z, m)
    BY <1>2, <1>6, FooterParsed
  <2>2. FirstStop(t, b + z + 1, b + j) /\ IsBare(t, b + z + 1, b + j)
    BY <1>1, <1>2, <1>3, <1>6, <2>1, OpenBare DEF FooterRead
  <2>3. PICK i \in 1..(Len(t) + 1) : i = b + p + 1
    BY <1>1, <1>4
  <2>4. ChunkedBody(t, i) = Bad
    <3>1. SizeLine(t, i, b + z, 0)
      BY <2>1, <2>3 DEF FooterRead
    <3>2. \A k : FirstStop(t, (b + z) + 1, k) /\ IsBare(t, (b + z) + 1, k) => ChunkedBody(t, i) = Bad
      BY <1>1, <3>1, LastSizeLine
    <3>3. (b + z) + 1 = b + z + 1
      BY <1>1
    <3>4. QED
      BY <2>2, <3>2, <3>3
  <2>5. Bad.is # "done"
    BY DEF Bad
  <2>6. HeadRead(ctx, t, b, m) /\ ChunksRead(ctx, t, b, p) /\ b + Len(ctx.buf) <= Len(t)
    BY <1>1, <2>1 DEF FooterRead, nowIndex
  <2>7. PICK r : r = ChunkedBody(t, b + p + 1)
    OBVIOUS
  <2>8. RequestAt(t, b + 1) = r
    BY <1>1, <2>3, <2>4, <2>5, <2>6, <2>7, ChunksSay
  <2>9. QED
    BY <1>1, <1>2, <2>3, <2>4, <2>7, <2>8, MalformParsed
<1>7. CASE state = "chunkHeader"
  <2>1. PICK p \in 0..ctx.index :
             /\ HeadRead(ctx, t, b, Len(ctx.lines)) /\ ChunksRead(ctx, t, b, p)
             /\ NoFeed(t, b + p + 1, b + ctx.index) /\ Raw(ctx, t, b, p)
    BY <1>2, <1>7 DEF Parsed
  <2>2. /\ j \in (ctx.index + 1)..w /\ t[b + j] = LF
        /\ NoFeed(t, b + ctx.index + 1, b + j - 1)
    BY <1>1, <1>3, <1>4, <2>1, RawFeeds
  <2>3. PICK u \in Nat : u = ctx.index /\ p \in Nat /\ p <= u /\ u < j /\ j \in Nat /\ j <= w
    BY <1>4, <2>2
  <2>4. NoFeed(t, b + p + 1, b + j - 1)
    <3>1. /\ b + p + 1 \in Int /\ b + u + 1 \in Int /\ b + j - 1 \in Int
          /\ (b + u + 1) - 1 = b + u
      BY <1>1, <2>3
    <3>2. NoFeed(t, b + p + 1, (b + u + 1) - 1) /\ NoFeed(t, b + u + 1, b + j - 1)
      BY <2>1, <2>2, <2>3, <3>1
    <3>3. QED
      BY <3>1, <3>2, NoFeedJoins
  <2>5. IsBare(t, b + p + 1, b + j)
    <3>1. CASE j - 1 = p
      <4>1. b + j = b + p + 1
        BY <1>1, <2>3, <3>1
      <4>2. QED
        BY <2>2, <4>1 DEF IsBare
    <3>2. CASE j - 1 > p
      <4>1. j - 1 \in (p + 1)..Len(ctx.buf)
        BY <1>4, <2>3, <3>2
      <4>2. ctx.buf[j - 1] = t[b + (j - 1)]
        BY <2>1, <4>1 DEF Raw
      <4>3. b + (j - 1) = (b + j) - 1
        BY <1>1, <2>3
      <4>4. t[(b + j) - 1] # CR
        BY <1>3, <4>2, <4>3 DEF BareAt
      <4>5. QED
        BY <2>2, <4>4 DEF IsBare
    <3>3. QED
      BY <2>3, <3>1, <3>2
  <2>6. PICK i \in 1..(Len(t) + 1) : i = b + p + 1
    BY <1>1, <1>4
  <2>7. ChunkedBody(t, i) = Bad
    <3>1. b + j \in i..Len(t)
      BY <1>1, <1>4, <2>3, <2>6
    <3>2. NoFeed(t, i, (b + j) - 1) /\ IsBare(t, i, b + j)
      <4>1. (b + j) - 1 = b + j - 1
        BY <1>1, <2>3
      <4>2. QED
        BY <2>4, <2>5, <2>6, <4>1
    <3>3. QED
      BY <1>1, <3>1, <3>2, BareSizeLine
  <2>8. Bad.is # "done"
    BY DEF Bad
  <2>9. b + Len(ctx.buf) <= Len(t)
    BY <1>1 DEF nowIndex
  <2>10. PICK r : r = ChunkedBody(t, b + p + 1)
    OBVIOUS
  <2>11. RequestAt(t, b + 1) = r
    BY <1>1, <2>1, <2>6, <2>7, <2>8, <2>9, <2>10, ChunksSay
  <2>12. QED
    BY <1>1, <1>2, <2>6, <2>7, <2>10, <2>11, MalformParsed
<1>8. QED
  BY <1>5, <1>6, <1>7

\* EndHeader, on the members.
LEMMA EndHeaderDoes ==
    ASSUME MembersInv(ctx), EndHeader
    PROVE  \E j, n \in Nat, e \in Members :
              /\ j = LineFeed /\ j \in (ctx.index + 1)..nowIndex /\ ~BareAt(j) /\ LengthAt(j) = 0
              /\ ctx.state = "header" /\ n = Len(ctx.lines) - 1
              /\ e.buf = Terminated(j).buf /\ Len(e.lines) = n
              /\ \A k \in 1..n : e.lines[k] = ctx.lines[k]
              /\ e.keepAlive = ctx.keepAlive /\ e.chunked = ctx.chunked
              /\ e.contentLength = ctx.contentLength /\ e.chunks = ctx.chunks
              /\ Decoded(e) \in Members
              /\ ctx' \in Members /\ ctx'.buf = e.buf /\ ctx'.index = j /\ ctx'.lines = e.lines
              /\ ctx'.headerSize = j /\ ctx'.chunks = e.chunks
              /\ ctx'.keepAlive = Decoded(e).keepAlive /\ ctx'.chunked = Decoded(e).chunked
              /\ ctx'.contentLength = Decoded(e).contentLength
              /\ ctx'.chunked => /\ ctx'.state = "chunkHeader" /\ ctx'.chunkSize = 0
                                 /\ ctx'.sizeStart = FALSE /\ ctx'.sizeDone = FALSE
              /\ ~ctx'.chunked =>
                    ctx'.state = IF ctx'.contentLength > 0 THEN "body" ELSE "done"
<1>1. PICK d : d = ctx'
  OBVIOUS
<1>2. ctx.state = "header" /\ ctx.lines # <<>> /\ ctx \in Members /\ ctx.lines \in Seq(Piece)
  BY MembersFacts DEF EndHeader, Reads, LinesInv
<1>3. PICK j : j = LineFeed
  OBVIOUS
<1>4. /\ j \in (ctx.index + 1)..nowIndex /\ ~BareAt(j) /\ LengthAt(j) = 0
  BY <1>2, <1>3, LineFeedIs DEF EndHeader
<1>5. j \in Nat /\ j \in 1..nowIndex
  <2>1. ctx.index \in Nat /\ nowIndex \in Nat
    BY MembersFacts DEF nowIndex
  <2>2. QED
    BY <1>4, <2>1
<1>6. PICK n \in Nat : n = Len(ctx.lines) - 1
  <2>1. PICK k \in Nat : k = Len(ctx.lines) /\ k > 0
    BY <1>2
  <2>2. k - 1 \in Nat /\ k - 1 = Len(ctx.lines) - 1
    BY <2>1
  <2>3. QED
    BY <2>2
<1>7. PICK front : front = Front(ctx.lines)
  OBVIOUS
<1>8. front \in Seq(Piece) /\ Len(front) = n /\ \A k \in 1..n : front[k] = ctx.lines[k]
  BY <1>2, <1>6, <1>7, FrontIs
<1>9. PICK x \in Members : x = Terminated(j) /\ x.lines = ctx.lines /\ x.chunks = ctx.chunks
  BY <1>2, <1>5, TerminatedIs
<1>10. /\ x.keepAlive = ctx.keepAlive /\ x.chunked = ctx.chunked
       /\ x.contentLength = ctx.contentLength
  BY <1>9, TerminatedKeeps
<1>11. PICK e : e = [x EXCEPT !.lines = front, !.headerSize = j, !.index = j]
  OBVIOUS
<1>12. e = [Terminated(j) EXCEPT !.lines = Front(@), !.headerSize = j, !.index = j]
  BY <1>7, <1>9, <1>11
<1>13. /\ e \in Members /\ e.buf = x.buf /\ e.lines = front /\ e.headerSize = j /\ e.index = j
       /\ e.keepAlive = x.keepAlive /\ e.chunked = x.chunked
       /\ e.contentLength = x.contentLength /\ e.chunks = x.chunks
  BY <1>5, <1>8, <1>11 DEF Members
<1>14. PICK f : f = Decoded(e)
  OBVIOUS
<1>15. /\ f \in Members /\ f.buf = e.buf /\ f.index = j /\ f.lines = e.lines
       /\ f.headerSize = j /\ f.chunks = e.chunks
  BY <1>13, <1>14, DecodedSets DEF SamePlaces
<1>16. d = WithBodyState(f)
  BY <1>1, <1>3, <1>12, <1>14 DEF EndHeader
<1>17. /\ d \in Members /\ d.buf = f.buf /\ d.index = j /\ d.lines = f.lines
       /\ d.headerSize = j /\ d.chunks = f.chunks
       /\ d.keepAlive = f.keepAlive /\ d.chunked = f.chunked
       /\ d.contentLength = f.contentLength
       /\ f.chunked => /\ d.state = "chunkHeader" /\ d.chunkSize = 0
                       /\ d.sizeStart = FALSE /\ d.sizeDone = FALSE
       /\ ~f.chunked => d.state = IF f.contentLength > 0 THEN "body" ELSE "done"
  <2>1. CASE f.chunked
    <3>1. d = [f EXCEPT !.state = "chunkHeader",
                        !.chunkSize = 0, !.sizeStart = FALSE, !.sizeDone = FALSE]
      BY <1>16, <2>1 DEF WithBodyState
    <3>2. QED
      BY <1>15, <2>1, <3>1 DEF Members, State
  <2>2. CASE ~f.chunked
    <3>1. PICK q \in {"body", "done"} : q = IF f.contentLength > 0 THEN "body" ELSE "done"
      OBVIOUS
    <3>2. d = [f EXCEPT !.state = q]
      BY <1>16, <2>2, <3>1 DEF WithBodyState
    <3>3. QED
      BY <1>15, <2>2, <3>1, <3>2 DEF Members, State
  <2>3. QED
    BY <2>1, <2>2
<1>18. /\ e.buf = Terminated(j).buf /\ Len(e.lines) = n /\ \A k \in 1..n : e.lines[k] = ctx.lines[k]
       /\ e.keepAlive = ctx.keepAlive /\ e.chunked = ctx.chunked
       /\ e.contentLength = ctx.contentLength /\ e.chunks = ctx.chunks
  BY <1>8, <1>9, <1>10, <1>13
<1>19. /\ Decoded(e) \in Members /\ d.buf = e.buf /\ d.lines = e.lines /\ d.chunks = e.chunks
       /\ d.keepAlive = Decoded(e).keepAlive /\ d.chunked = Decoded(e).chunked
       /\ d.contentLength = Decoded(e).contentLength
  BY <1>14, <1>15, <1>17
<1>20. /\ d.chunked => /\ d.state = "chunkHeader" /\ d.chunkSize = 0
                       /\ d.sizeStart = FALSE /\ d.sizeDone = FALSE
       /\ ~d.chunked => d.state = IF d.contentLength > 0 THEN "body" ELSE "done"
  BY <1>17
<1>21. e \in Members /\ d \in Members /\ d.index = j /\ d.headerSize = j
  BY <1>13, <1>17
<1>22. QED
  BY <1>1, <1>2, <1>3, <1>4, <1>5, <1>6, <1>18, <1>19, <1>20, <1>21

\* The lines of a context in two parts.
LEMMA SlicesJoin ==
    ASSUME NEW c, NEW m \in Nat, NEW n \in Nat, m <= n
    PROVE  Slices(c, 0, m) \o Slices(c, m, n) = Slices(c, 0, n) /\ Slices(c, n, n) = <<>>
<1>1. PICK x, y, z : x = Slices(c, 0, m) /\ y = Slices(c, m, n) /\ z = Slices(c, 0, n)
  OBVIOUS
<1>2. /\ x = [k \in 1..m |-> Slice(c, c.lines[0 + k])]
      /\ y = [k \in 1..(n - m) |-> Slice(c, c.lines[m + k])]
      /\ z = [k \in 1..n |-> Slice(c, c.lines[0 + k])]
  <2>1. m - 0 = m /\ n - 0 = n
    OBVIOUS
  <2>2. QED
    BY <1>1, <2>1 DEF Slices
<1>3. PICK T : T = {Slice(c, c.lines[k]) : k \in Nat}
  OBVIOUS
<1>4. x \in Seq(T) /\ Len(x) = m
  <2>1. \A k \in 1..m : Slice(c, c.lines[0 + k]) \in T
    BY <1>3
  <2>2. x \in [1..m -> T]
    BY <1>2, <2>1
  <2>3. QED
    BY <2>2, SeqDef, LenProperties
<1>5. y \in Seq(T) /\ Len(y) = n - m
  <2>1. \A k \in 1..(n - m) : Slice(c, c.lines[m + k]) \in T
    BY <1>3
  <2>2. PICK l \in Nat : l = n - m
    OBVIOUS
  <2>3. y \in [1..l -> T]
    BY <1>2, <2>1, <2>2
  <2>4. QED
    BY <2>2, <2>3, SeqDef, LenProperties
<1>6. z \in Seq(T) /\ Len(z) = n
  <2>1. \A k \in 1..n : Slice(c, c.lines[0 + k]) \in T
    BY <1>3
  <2>2. z \in [1..n -> T]
    BY <1>2, <2>1
  <2>3. QED
    BY <2>2, SeqDef, LenProperties
<1>7. x \o y = z
  <2>1. PICK u : u = x \o y
    OBVIOUS
  <2>2. u \in Seq(T) /\ Len(u) = n
    BY <1>4, <1>5, <2>1, ConcatProperties
  <2>3. ASSUME NEW k \in 1..n PROVE u[k] = z[k]
    <3>1. CASE k <= m
      <4>1. u[k] = x[k]
        BY <1>4, <1>5, <2>1, <3>1, ConcatProperties
      <4>2. QED
        BY <1>2, <3>1, <4>1
    <3>2. CASE k > m
      <4>1. PICK i \in 1..(n - m) : i = k - m /\ m + i = 0 + k
        BY <3>2
      <4>2. u[k] = y[i]
        BY <1>4, <1>5, <2>1, <3>2, <4>1, ConcatProperties
      <4>3. QED
        BY <1>2, <4>1, <4>2
    <3>3. QED
      BY <3>1, <3>2
  <2>4. QED
    BY <1>6, <2>1, <2>2, <2>3, SeqEqual
<1>8. Slices(c, n, n) = <<>>
  <2>1. 1..(n - n) = {}
    OBVIOUS
  <2>2. QED
    BY <2>1 DEF Slices
<1>9. QED
  BY <1>1, <1>7, <1>8

\* A request that is complete.
LEMMA DoneParsed ==
    ASSUME NEW c \in Members, NEW t, NEW b \in Nat, c.state = "done",
           RequestAt(t, b + 1) =
              WholeRequest(c, Slices(c, 0, Len(c.lines)), Content(c), b + c.index + 1),
           ChunksIn(c, c.index), Raw(c, t, b, c.index)
    PROVE  Parsed(c, t, b)
<1>1. RequestAt(t, b + 1) = [is |-> "done", next |-> b + c.index + 1, request |-> RequestOf(c)]
  BY RequestIs DEF WholeRequest
<1>2. QED
  BY <1>1 DEF Parsed, ChunksIn

\* What is behind a terminated line feed is what was received.
LEMMA RawBehind ==
    ASSUME MembersInv(ctx), NEW t, NEW b, NEW j \in (ctx.index + 1)..nowIndex, NEW p \in 0..j,
           NEW d \in Members, d.buf = Terminated(j).buf, Raw(ctx, t, b, p)
    PROVE  Raw(d, t, b, j)
<1>1. /\ ctx.index \in Nat /\ nowIndex \in Nat /\ nowIndex = Len(ctx.buf)
      /\ Len(d.buf) = nowIndex /\ \A i \in (j + 1)..nowIndex : d.buf[i] = ctx.buf[i]
  BY MembersFacts, TerminatedSame DEF nowIndex
<1>2. SUFFICES ASSUME NEW i \in (j + 1)..Len(d.buf)
               PROVE  d.buf[i] = t[b + i]
  BY DEF Raw
<1>3. i \in (p + 1)..Len(ctx.buf) /\ i \in (j + 1)..nowIndex
  BY <1>1
<1>4. QED
  BY <1>1, <1>3 DEF Raw

\* The headers are read.
LEMMA HeaderEnds ==
    ASSUME NEW t, NEW b, ReadsOf(t, b), EndHeader
    PROVE  /\ HeadRead(ctx', t, b, Len(ctx'.lines)) /\ ctx' \in Members
           /\ ctx'.headerSize = ctx'.index /\ ctx'.chunks = <<>>
           /\ ctx'.index \in 1..nowIndex /\ Len(ctx'.buf) = nowIndex
           /\ ctx'.buf[ctx'.index] = Nul /\ Raw(ctx', t, b, ctx'.index)
<1>1. t \in Seq(Char) /\ b \in Nat /\ b + nowIndex <= Len(t) /\ MembersInv(ctx)
  BY DEF ReadsOf
<1>2. PICK d : d = ctx'
  OBVIOUS
<1>3. PICK j \in Nat, n \in Nat, e \in Members :
              /\ j = LineFeed /\ j \in (ctx.index + 1)..nowIndex /\ ~BareAt(j) /\ LengthAt(j) = 0
              /\ ctx.state = "header" /\ n = Len(ctx.lines) - 1
              /\ e.buf = Terminated(j).buf /\ Len(e.lines) = n
              /\ \A k \in 1..n : e.lines[k] = ctx.lines[k]
              /\ e.keepAlive = ctx.keepAlive /\ e.chunked = ctx.chunked
              /\ e.contentLength = ctx.contentLength /\ e.chunks = ctx.chunks
              /\ d \in Members /\ d.buf = e.buf /\ d.index = j /\ d.lines = e.lines
              /\ d.headerSize = j /\ d.chunks = e.chunks
              /\ d.keepAlive = Decoded(e).keepAlive /\ d.chunked = Decoded(e).chunked
              /\ d.contentLength = Decoded(e).contentLength
  BY <1>1, <1>2, EndHeaderDoes, ZenonT(30)
<1>4. Parsed(ctx, t, b)
  BY DEF ReadsOf
<1>5. Fresh(ctx) /\ OpenBlock(ctx, t, b, 0, 0)
  BY <1>3, <1>4 DEF Parsed
<1>6. ctx \in Members /\ ctx.index \in Nat /\ nowIndex \in Nat /\ Len(ctx.lines) \in Nat
  BY <1>1, MembersFacts DEF nowIndex
<1>7. j > 0
  BY <1>3, <1>6
<1>8. /\ FirstStop(t, b + 1, b + j) /\ ~IsBare(t, b + 1, b + j)
      /\ LinesOf(t, b + 1, b + j) = Slices(ctx, 0, n)
      /\ Raw(ctx, t, b, j)
  <2>1. PICK i \in Nat : i = b + 1 /\ i = b + 0 + 1
    BY <1>1
  <2>2. /\ FirstStop(t, b + 0 + 1, b + j) /\ ~IsBare(t, b + 0 + 1, b + j)
        /\ LinesOf(t, b + 0 + 1, b + j) = Slices(ctx, 0, Len(ctx.lines) - 1)
        /\ Raw(ctx, t, b, j)
    BY <1>1, <1>3, <1>5, <1>7, OpenEnds
  <2>3. QED
    BY <1>3, <2>1, <2>2
<1>9. Slices(ctx, 0, n) = Slices(e, 0, n)
  <2>1. Agree(ctx, e, ctx.index - 2)
    BY <1>1, <1>3, TerminatedSame
  <2>2. SameLines(ctx, e, 0, n, ctx.index - 2)
    <3>1. n < Len(ctx.lines) /\ n <= Len(ctx.lines)
      BY <1>3, <1>6
    <3>2. MembersInv(ctx) /\ 0 \in Nat /\ n \in Nat /\ \A k \in 1..n : e.lines[k] = ctx.lines[k]
      BY <1>1, <1>3
    <3>3. QED
      BY <3>1, <3>2, EndedSame
  <2>3. QED
    BY <1>3, <1>6, <2>1, <2>2, SlicesSame
<1>10. Slices(e, 0, n) = Slices(d, 0, n)
  BY <1>3 DEF Slices, Slice
<1>11. PICK lines : lines = LinesOf(t, b + 1, b + j)
  OBVIOUS
<1>12. Fresh(e)
  BY <1>3, <1>5 DEF Fresh
<1>13. /\ Decoded(e).keepAlive = LastValue(lines, "keepAlive", FALSE)
       /\ Decoded(e).chunked = LastValue(lines, "chunked", FALSE)
       /\ Decoded(e).contentLength = LastValue(lines, "contentLength", 0)
  <2>1. lines = Slices(e, 0, Len(e.lines))
    BY <1>3, <1>8, <1>9, <1>11
  <2>2. QED
    BY <1>3, <1>12, <2>1, DecodedHeaders
<1>14. n \in 0..Len(d.lines)
  BY <1>3
<1>15. HeadRead(d, t, b, n)
  BY <1>3, <1>8, <1>9, <1>10, <1>11, <1>13, <1>14 DEF HeadRead
<1>16. Len(d.buf) = nowIndex /\ d.buf[j] = Nul
  BY <1>1, <1>3, TerminatedSame
<1>17. Raw(d, t, b, j)
  <2>1. j \in 0..j
    BY <1>3
  <2>2. d.buf = Terminated(j).buf
    BY <1>3
  <2>3. QED
    BY <1>1, <1>3, <1>8, <2>1, <2>2, RawBehind
<1>18. d.chunks = <<>>
  BY <1>3, <1>5 DEF Fresh
<1>19. j \in 1..nowIndex /\ Len(d.lines) = n
  BY <1>3, <1>6
<1>20. QED
  BY <1>2, <1>3, <1>15, <1>16, <1>17, <1>18, <1>19

\* The headers are read, and the body begins.
LEMMA EndHeaderParsed ==
    ASSUME NEW t, NEW b, ReadsOf(t, b), EndHeader
    PROVE  GoesOnWith(t, b)
<1>1. t \in Seq(Char) /\ b \in Nat /\ b + nowIndex <= Len(t) /\ MembersInv(ctx)
  BY DEF ReadsOf
<1>2. PICK d : d = ctx'
  OBVIOUS
<1>3. PICK j : j = d.index
  OBVIOUS
<1>4. /\ HeadRead(d, t, b, Len(d.lines)) /\ d \in Members
      /\ d.headerSize = j /\ d.chunks = <<>> /\ d.index = j
      /\ j \in 1..nowIndex /\ Len(d.buf) = nowIndex
      /\ d.buf[j] = Nul /\ Raw(d, t, b, j)
  BY <1>2, <1>3, HeaderEnds
<1>5. /\ d.chunked => /\ d.state = "chunkHeader" /\ d.chunkSize = 0
                      /\ d.sizeStart = FALSE /\ d.sizeDone = FALSE
      /\ ~d.chunked => d.state = IF d.contentLength > 0 THEN "body" ELSE "done"
  BY <1>1, <1>2, EndHeaderDoes
<1>6. /\ nowIndex \in Nat /\ j \in Nat /\ d.contentLength \in Nat /\ d.chunked \in BOOLEAN
      /\ Len(d.lines) \in Nat
  <2>1. nowIndex \in Nat
    BY <1>1, MembersFacts DEF nowIndex
  <2>2. j \in Nat
    BY <1>4, <2>1
  <2>3. QED
    BY <1>4, <2>1, <2>2 DEF Members
<1>7. PICK i \in 1..(Len(t) + 1) : i = b + j + 1
  BY <1>1, <1>4, <1>6
<1>8. CASE d.chunked
  <2>1. ChunksRead(d, t, b, j)
    <3>1. j \in d.headerSize..d.index
      BY <1>4, <1>6
    <3>2. \A k \in 1..Len(d.chunks) : d.chunks[k].first + d.chunks[k].length + 2 <= j
      BY <1>4
    <3>3. PICK r : r = ChunkedBody(t, i)
      OBVIOUS
    <3>4. r = Behind(Content(d), r)
      <4>1. Content(d) = <<>>
        BY <1>4, ContentNone
      <4>2. r \in Bodies(t)
        BY <1>1, <3>3, ChunkedBodyIs
      <4>3. QED
        BY <4>1, <4>2, BehindNothing
    <3>5. ChunkedBody(t, b + d.headerSize + 1) = r /\ ChunkedBody(t, b + j + 1) = r
      BY <1>4, <1>7, <3>3
    <3>6. QED
      BY <1>8, <3>1, <3>2, <3>4, <3>5 DEF ChunksRead
  <2>2. NoFeed(t, b + j + 1, b + d.index)
    <3>1. (b + j + 1)..(b + d.index) = {}
      BY <1>1, <1>4, <1>6
    <3>2. QED
      BY <3>1 DEF NoFeed
  <2>3. d.buf[j] # CR
    BY <1>4 DEF Nul, CR
  <2>4. SizeRead(d, SubSeq(t, b + j + 1, b + d.index))
    <3>1. SubSeq(t, b + j + 1, b + d.index) = <<>>
      <4>1. PICK k \in Nat : k = b + j /\ b + j + 1 = k + 1 /\ b + d.index = k
        BY <1>1, <1>4, <1>6
      <4>2. SubSeq(t, k + 1, k) = <<>>
        BY <1>1, <4>1, SubSeqProperties, EmptySeq
      <4>3. QED
        BY <4>1, <4>2
    <3>2. QED
      BY <1>5, <1>8, <3>1, SizeReadNone
  <2>5. j \in 0..d.index
    BY <1>4, <1>6
  <2>6. Parsed(d, t, b)
    BY <1>4, <1>5, <1>8, <2>1, <2>2, <2>3, <2>4, <2>5 DEF Parsed
  <2>7. QED
    BY <1>2, <2>6 DEF GoesOnWith
<1>9. CASE ~d.chunked /\ d.contentLength > 0
  <2>1. d.state = "body"
    BY <1>5, <1>9
  <2>2. Parsed(d, t, b)
    BY <1>4, <1>9, <2>1 DEF Parsed
  <2>3. QED
    BY <1>2, <2>2 DEF GoesOnWith
<1>10. CASE ~d.chunked /\ ~(d.contentLength > 0)
  <2>1. d.state = "done" /\ d.contentLength = 0
    BY <1>5, <1>6, <1>10
  <2>2. PlainBody(t, i, 0) = WholeBody(<<>>, <<>>, i)
    <3>1. ~(Len(t) - i + 1 < 0) /\ i + 0 = i
      BY <1>1
    <3>2. SubSeq(t, i, i + 0 - 1) = <<>>
      BY <1>1, SubSeqProperties, EmptySeq
    <3>3. QED
      BY <3>1, <3>2 DEF PlainBody, WholeBody
  <2>3. PICK r : r = PlainBody(t, i, 0)
    OBVIOUS
  <2>4. r.is = "done" /\ r.content = <<>> /\ r.trailer = <<>> /\ r.next = i
    BY <2>2, <2>3 DEF WholeBody
  <2>5. BodyOf(d, t, b) = r
    BY <1>4, <1>7, <1>10, <2>1, <2>3 DEF BodyOf
  <2>6. PICK n \in Nat : n = Len(d.lines)
    BY <1>6
  <2>7. RequestAt(t, b + 1) = WholeRequest(d, Slices(d, 0, n) \o <<>>, <<>>, i)
    <3>1. RequestAt(t, b + 1) = HeadedBy(d, n, r)
      BY <1>1, <1>4, <1>6, <2>5, <2>6, HeadSays
    <3>2. QED
      BY <2>4, <3>1 DEF HeadedBy
  <2>8. Slices(d, 0, n) \o <<>> = Slices(d, 0, n)
    BY <2>6, SlicesJoin
  <2>9. Content(d) = <<>>
    BY <1>4, ContentNone
  <2>10. RequestAt(t, b + 1) = WholeRequest(d, Slices(d, 0, Len(d.lines)), Content(d), b + d.index + 1)
    BY <1>4, <1>7, <2>6, <2>7, <2>8, <2>9
  <2>11. ChunksIn(d, d.index)
    BY <1>4 DEF ChunksIn
  <2>12. Parsed(d, t, b)
    BY <1>1, <1>4, <2>1, <2>10, <2>11, DoneParsed
  <2>13. QED
    BY <1>2, <2>12 DEF GoesOnWith
<1>11. QED
  BY <1>6, <1>8, <1>9, <1>10

\* A size line leaves what the headers said.
LEMMA ScannedKeeps ==
    ASSUME NEW c \in Members, NEW bytes \in Seq(Char), NEW f, f = Scanned(c, bytes)
    PROVE  /\ f.keepAlive = c.keepAlive /\ f.chunked = c.chunked
           /\ f.contentLength = c.contentLength
<1>1. PICK n \in Nat : n = Len(bytes)
  OBVIOUS
<1>2. PICK h \in [0..n -> SamePlaces(c)] : ScannedBy(h, c, bytes) /\ Scanned(c, bytes) = h[n]
  BY <1>1, ScannedChain
<1> DEFINE P == {k \in 0..n : /\ h[k].keepAlive = c.keepAlive /\ h[k].chunked = c.chunked
                              /\ h[k].contentLength = c.contentLength}
<1>3. 0 \in P
  BY <1>2 DEF ScannedBy
<1>4. ASSUME NEW k \in 1..n, k - 1 \in P PROVE k \in P
  <2>1. PICK d : d = h[k - 1]
    OBVIOUS
  <2>2. d \in Members /\ k \in 0..n
    BY <1>2, <2>1 DEF SamePlaces
  <2>3. PICK v : v = bytes[k]
    OBVIOUS
  <2>4. h[k] = SizeDecoder(d, v)
    BY <1>1, <1>2, <2>1, <2>3 DEF ScannedBy
  <2>5. /\ SizeDecoder(d, v).keepAlive = d.keepAlive /\ SizeDecoder(d, v).chunked = d.chunked
        /\ SizeDecoder(d, v).contentLength = d.contentLength
    BY <2>2 DEF SizeDecoder, Members
  <2>6. QED
    BY <1>4, <2>1, <2>2, <2>4, <2>5
<1> HIDE DEF P
<1>5. n \in P
  BY <1>3, <1>4, InductTo DEF Inductive
<1>6. QED
  BY <1>2, <1>5 DEF P

\* The body is complete.
LEMMA EndBodyParsed ==
    ASSUME NEW t, NEW b, ReadsOf(t, b), EndBody
    PROVE  GoesOnWith(t, b)
<1>1. t \in Seq(Char) /\ b \in Nat /\ b + nowIndex <= Len(t) /\ MembersInv(ctx)
  BY DEF ReadsOf
<1>2. PICK d : d = ctx'
  OBVIOUS
<1>3. ctx.state = "body" /\ Parsed(ctx, t, b) /\ ctx \in Members
  BY <1>1, MembersFacts DEF ReadsOf, EndBody, Reads
<1>4. /\ HeadRead(ctx, t, b, Len(ctx.lines)) /\ ~ctx.chunked /\ ctx.contentLength > 0
      /\ ctx.index = ctx.headerSize /\ ctx.chunks = <<>> /\ Raw(ctx, t, b, ctx.index)
  BY <1>3 DEF Parsed
<1>5. PICK u \in Nat, n \in Nat, w \in Nat, m \in Nat :
         /\ u = ctx.index /\ n = ctx.contentLength /\ w = nowIndex /\ w = Len(ctx.buf)
         /\ m = Len(ctx.lines)
  <2>1. /\ ctx.index \in Nat /\ ctx.contentLength \in Nat /\ Len(ctx.buf) \in Nat
        /\ ctx.lines \in Seq(Piece)
    BY <1>1, MembersFacts
  <2>2. nowIndex = Len(ctx.buf)
    BY DEF nowIndex
  <2>3. Len(ctx.lines) \in Nat
    BY <2>1
  <2>4. QED
    BY <2>1, <2>2, <2>3
<1>27. PICK l \in Nat : l = Len(t) /\ b + w <= l
  BY <1>1, <1>5
<1>28. PICK x \in Nat : x = u + n
  BY <1>5
<1>29. b \in Nat
  BY <1>1
<1>6. n > 0 /\ u + n <= w
  <2>1. nowIndex - ctx.index >= ctx.contentLength
    BY DEF EndBody
  <2>2. QED
    BY <1>4, <1>5, <2>1
<1>7. PICK part \in Piece : part = [first |-> u, length |-> n]
  BY <1>5 DEF Piece
<1>8. Append(ctx.chunks, part) \in Seq(Piece)
  BY <1>1, MembersFacts, AppendProperties
<1>9. d = [ctx EXCEPT !.chunks = Append(ctx.chunks, part), !.index = x, !.state = "done"]
  BY <1>2, <1>3, <1>5, <1>7, <1>28 DEF EndBody, Members
<1>10. /\ d \in Members /\ d.buf = ctx.buf /\ d.index = x /\ d.lines = ctx.lines
       /\ d.headerSize = ctx.headerSize /\ d.chunks = Append(ctx.chunks, part)
       /\ d.state = "done" /\ d.keepAlive = ctx.keepAlive /\ d.chunked = ctx.chunked
       /\ d.contentLength = ctx.contentLength
  BY <1>3, <1>8, <1>9 DEF Members, State
<1>11. HeadRead(d, t, b, m)
  <2>1. Agree(ctx, d, ctx.index - 2)
    BY <1>1, <1>10, MembersFacts DEF Agree
  <2>2. m <= Len(d.lines) /\ \A k \in 1..m : d.lines[k] = ctx.lines[k]
    BY <1>5, <1>10
  <2>3. ctx.state \notin {"header", "chunkFooter", "bad"}
    BY <1>3
  <2>4. QED
    BY <1>1, <1>4, <1>5, <1>10, <2>1, <2>2, <2>3, HeadSame
<1>12. PICK i \in Nat : i = b + u + 1
  BY <1>1, <1>5
<1>13. PICK s : s = SubSeq(t, i, b + (u + n))
  OBVIOUS
<1>14. s = Slice(d, part) /\ s \in Seq(Char)
  <2>1. u <= u + n /\ u + n <= Len(ctx.buf) /\ b + (u + n) <= Len(t)
    BY <1>5, <1>6, <1>27, <1>29, SMTT(30)
  <2>2. \A k \in (u + 1)..(u + n) : ctx.buf[k] = t[b + k]
    BY <1>4, <1>5, <1>6 DEF Raw
  <2>3. ctx.buf \in Seq(Char) /\ u + n \in Nat
    BY <1>1, <1>5, MembersFacts
  <2>4. /\ SubSeq(ctx.buf, u + 1, u + n) = SubSeq(t, b + u + 1, b + (u + n))
        /\ SubSeq(ctx.buf, u + 1, u + n) \in Seq(Char)
    BY <1>1, <2>1, <2>2, <2>3, SubSeqSame
  <2>5. QED
    BY <1>7, <1>10, <1>12, <1>13, <2>4 DEF Slice
<1>15. Content(d) = s
  <2>1. Agree(ctx, d, 0) /\ ChunksIn(ctx, 0)
    BY <1>1, <1>4, <1>10, MembersFacts DEF Agree, ChunksIn
  <2>2. part.first + part.length <= Len(d.buf)
    BY <1>5, <1>6, <1>7, <1>10, <1>28
  <2>3. Content(d) = Content(ctx) \o Slice(d, part)
    BY <1>3, <1>10, <2>1, <2>2, ContentNext
  <2>4. Content(ctx) = <<>>
    BY <1>4, ContentNone
  <2>5. <<>> \o s = s
    BY <1>14, ConcatEmptySeq
  <2>6. QED
    BY <1>14, <2>3, <2>4, <2>5
<1>16. PICK r : r = PlainBody(t, i, n)
  OBVIOUS
<1>17. r.is = "done" /\ r.content = s /\ r.trailer = <<>> /\ r.next = i + n
  <2>1. ~(Len(t) - i + 1 < n) /\ i + n - 1 = b + (u + n)
    BY <1>6, <1>12, <1>27, <1>29
  <2>2. QED
    BY <1>13, <1>16, <2>1 DEF PlainBody
<1>18. BodyOf(d, t, b) = r
  BY <1>4, <1>5, <1>10, <1>12, <1>16 DEF BodyOf
<1>19. RequestAt(t, b + 1) = WholeRequest(d, Slices(d, 0, m) \o <<>>, s, i + n)
  <2>1. RequestAt(t, b + 1) = HeadedBy(d, m, r)
    <3>1. d.headerSize \in Nat
      BY <1>10 DEF Members
    <3>2. QED
      BY <1>1, <1>11, <1>18, <3>1, HeadSays
  <2>2. QED
    BY <1>17, <2>1 DEF HeadedBy
<1>20. Slices(d, 0, m) \o <<>> = Slices(d, 0, m)
  BY <1>5, SlicesJoin
<1>21. i + n = b + d.index + 1 /\ m = Len(d.lines)
  <2>1. i + n = b + x + 1
    BY <1>12, <1>28, <1>29
  <2>2. QED
    BY <1>5, <1>10, <2>1
<1>22. RequestAt(t, b + 1) = WholeRequest(d, Slices(d, 0, Len(d.lines)), Content(d), b + d.index + 1)
  BY <1>15, <1>19, <1>20, <1>21
<1>23. ChunksIn(d, d.index)
  <2>1. d.chunks = <<part>>
    BY <1>4, <1>10
  <2>2. part.first + part.length <= d.index
    BY <1>5, <1>7, <1>10, <1>28
  <2>3. QED
    BY <2>1, <2>2 DEF ChunksIn
<1>24. Raw(d, t, b, d.index)
  BY <1>4, <1>5, <1>10, <1>28 DEF Raw
<1>25. Parsed(d, t, b)
  BY <1>1, <1>10, <1>22, <1>23, <1>24, DoneParsed
<1>26. QED
  BY <1>2, <1>25 DEF GoesOnWith

\* A chunk is complete.
LEMMA EndChunkParsed ==
    ASSUME NEW t, NEW b, ReadsOf(t, b), EndChunk
    PROVE  GoesOnWith(t, b)
<1>1. t \in Seq(Char) /\ b \in Nat /\ b + nowIndex <= Len(t) /\ MembersInv(ctx)
  BY DEF ReadsOf
<1>2. PICK d : d = ctx'
  OBVIOUS
<1>3. ctx.state = "chunkBody" /\ Parsed(ctx, t, b) /\ ctx \in Members
  BY <1>1, MembersFacts DEF ReadsOf, EndChunk, Reads
<1>4. PICK p \in 0..ctx.index :
             /\ HeadRead(ctx, t, b, Len(ctx.lines)) /\ ChunksRead(ctx, t, b, p)
             /\ SizeLine(t, b + p + 1, b + ctx.index, ctx.chunkSize)
             /\ ctx.chunkSize > 0 /\ ctx.chunkSize + 2 < Word
             /\ Raw(ctx, t, b, ctx.index)
  BY <1>3 DEF Parsed
<1>5. PICK u \in Nat, n \in Nat, w \in Nat, m \in Nat :
         /\ u = ctx.index /\ n = ctx.chunkSize /\ w = nowIndex /\ w = Len(ctx.buf)
         /\ m = Len(ctx.lines)
  BY <1>1, MembersFacts DEF nowIndex
<1>24. PICK l \in Nat : l = Len(t) /\ b + w <= l
  BY <1>1, <1>5
<1>25. b \in Nat
  BY <1>1
<1>6. ChunkLength = n + 2
  <2>1. ctx.chunkSize + 2 \in Nat /\ ctx.chunkSize + 2 < Word
    BY <1>4, <1>5
  <2>2. ChunkLength = ctx.chunkSize + 2
    BY <2>1, Widths DEF ChunkLength
  <2>3. QED
    BY <1>5, <2>2
<1>7. PICK x \in Nat : x = u + (n + 2)
  BY <1>5
<1>8. n > 0 /\ x <= w /\ p \in Nat /\ p <= u
  <2>1. nowIndex - ctx.index >= ChunkLength
    BY DEF EndChunk
  <2>2. QED
    BY <1>4, <1>5, <1>6, <1>7, <2>1
<1>26. PICK y \in Nat : y = u + n /\ y <= w /\ u <= y /\ b + y <= l
  <2>1. PICK y \in Nat : y = u + n
    BY <1>5
  <2>2. y + 2 = x
    BY <1>7, <2>1
  <2>3. QED
    BY <1>8, <1>24, <1>25, <2>1, <2>2
<1>9. PICK part \in Piece : part = [first |-> u, length |-> n]
  BY <1>5 DEF Piece
<1>10. Append(ctx.chunks, part) \in Seq(Piece)
  BY <1>1, MembersFacts, AppendProperties
<1>11. d = [ctx EXCEPT !.chunks = Append(ctx.chunks, part), !.index = x, !.state = "chunkHeader",
                       !.chunkSize = 0, !.sizeStart = FALSE, !.sizeDone = FALSE]
  BY <1>2, <1>3, <1>5, <1>6, <1>7, <1>9 DEF EndChunk, Members
<1>12. /\ d \in Members /\ d.buf = ctx.buf /\ d.index = x /\ d.lines = ctx.lines
       /\ d.headerSize = ctx.headerSize /\ d.chunks = Append(ctx.chunks, part)
       /\ d.state = "chunkHeader" /\ d.keepAlive = ctx.keepAlive /\ d.chunked = ctx.chunked
       /\ d.contentLength = ctx.contentLength
       /\ d.chunkSize = 0 /\ d.sizeStart = FALSE /\ d.sizeDone = FALSE
  BY <1>3, <1>10, <1>11 DEF Members, State
<1>13. HeadRead(d, t, b, m)
  <2>1. Agree(ctx, d, ctx.index - 2)
    BY <1>1, <1>12, MembersFacts DEF Agree
  <2>2. m <= Len(d.lines) /\ \A k \in 1..m : d.lines[k] = ctx.lines[k]
    BY <1>5, <1>12
  <2>3. ctx.state \notin {"header", "chunkFooter", "bad"}
    BY <1>3
  <2>4. QED
    BY <1>1, <1>4, <1>5, <1>12, <2>1, <2>2, <2>3, HeadSame
<1>14. PICK i \in 1..(Len(t) + 1) : i = b + p + 1
  BY <1>8, <1>24, <1>25, <1>7
<1>15. PICK j \in Nat : j = b + u
  BY <1>1, <1>5
<1>16. PICK s : s = SubSeq(t, j + 1, j + n)
  OBVIOUS
<1>17. s = Slice(d, part) /\ s \in Seq(Char)
  <2>1. u <= u + n /\ u + n <= Len(ctx.buf) /\ b + (u + n) <= Len(t)
    BY <1>5, <1>24, <1>26
  <2>2. \A k \in (u + 1)..(u + n) : ctx.buf[k] = t[b + k]
    <3>1. \A k \in (u + 1)..w : ctx.buf[k] = t[b + k]
      BY <1>4, <1>5 DEF Raw
    <3>2. u + n <= w
      BY <1>26
    <3>3. \A k \in (u + 1)..(u + n) : k \in (u + 1)..w
      BY <3>2
    <3>4. QED
      BY <3>1, <3>3
  <2>3. ctx.buf \in Seq(Char) /\ u + n \in Nat
    BY <1>1, <1>5, MembersFacts
  <2>4. /\ SubSeq(ctx.buf, u + 1, u + n) = SubSeq(t, b + u + 1, b + (u + n))
        /\ SubSeq(ctx.buf, u + 1, u + n) \in Seq(Char)
    BY <1>1, <2>1, <2>2, <2>3, SubSeqSame
  <2>5. b + u + 1 = j + 1 /\ b + (u + n) = j + n
    BY <1>1, <1>5, <1>15
  <2>6. QED
    BY <1>9, <1>12, <1>16, <2>4, <2>5 DEF Slice
<1>18. PICK k \in 1..(Len(t) + 1) : k = b + x + 1 /\ k = j + n + 3
  BY <1>7, <1>8, <1>15, <1>24, <1>25
<1>19. PICK r : r = ChunkedBody(t, k)
  OBVIOUS
<1>20. ChunkedBody(t, i) = IF SubSeq(t, j + n + 1, j + n + 2) = <<CR, LF>>
                           THEN Behind(s, r) ELSE Unspecified
  <2>1. SizeLine(t, i, j, n)
    BY <1>4, <1>5, <1>14, <1>15
  <2>2. n + 2 < Word /\ j + n + 3 <= Len(t) + 1
    BY <1>4, <1>5, <1>18
  <2>3. QED
    BY <1>1, <1>8, <1>16, <1>18, <1>19, <2>1, <2>2, ChunkSizeLine
<1>21. CASE SubSeq(t, j + n + 1, j + n + 2) # <<CR, LF>>
  <2>1. PICK q : q = ChunkedBody(t, b + p + 1)
    OBVIOUS
  <2>2. q = Unspecified /\ q.is # "done"
    BY <1>14, <1>20, <1>21, <2>1 DEF Unspecified
  <2>3. b + Len(ctx.buf) <= Len(t)
    BY <1>1 DEF nowIndex
  <2>4. RequestAt(t, b + 1) = q
    BY <1>1, <1>4, <2>1, <2>2, <2>3, ChunksSay
  <2>5. QED
    BY <2>2, <2>4 DEF GoesOnWith
<1>22. CASE SubSeq(t, j + n + 1, j + n + 2) = <<CR, LF>>
  <2>1. \A a \in 1..Len(ctx.chunks) : ctx.chunks[a].first + ctx.chunks[a].length + 2 <= p
    BY <1>4 DEF ChunksRead
  <2>2. \A a \in 1..Len(ctx.chunks) : /\ ctx.chunks[a].first \in Nat /\ ctx.chunks[a].length \in Nat
    <3>1. ctx.chunks \in Seq(Piece)
      BY <1>1, MembersFacts
    <3>2. \A a \in 1..Len(ctx.chunks) : ctx.chunks[a] \in Piece
      BY <3>1
    <3>3. QED
      BY <3>2 DEF Piece
  <2>3. Content(d) = Content(ctx) \o s /\ Content(ctx) \in Seq(Char)
    <3>1. Agree(ctx, d, p)
      <4>1. p <= w /\ Len(ctx.buf) = w /\ d.buf = ctx.buf
        <5>1. u <= w
          BY <1>26
        <5>2. p \in Nat /\ p <= u
          BY <1>8
        <5>3. p <= w
          BY <5>1, <5>2
        <5>4. QED
          BY <1>5, <1>12, <5>3
      <4>2. QED
        BY <4>1 DEF Agree
    <3>2. ChunksIn(ctx, p)
      <4>1. SUFFICES ASSUME NEW a \in 1..Len(ctx.chunks)
                     PROVE  ctx.chunks[a].first + ctx.chunks[a].length <= p
        BY DEF ChunksIn
      <4>2. PICK f \in Nat, o \in Nat : f = ctx.chunks[a].first /\ o = ctx.chunks[a].length
        BY <2>2
      <4>3. f + o + 2 <= p /\ p \in Nat
        BY <1>8, <2>1, <4>2
      <4>4. f + o <= p
        BY <4>3
      <4>5. QED
        BY <4>2, <4>4
    <3>3. part.first + part.length <= Len(d.buf)
      <4>1. part.first + part.length = u + n /\ u + n <= w /\ Len(d.buf) = w
        BY <1>5, <1>9, <1>12, <1>26
      <4>2. QED
        BY <4>1
    <3>4. p \in Int
      BY <1>8
    <3>5. QED
      BY <1>3, <1>12, <1>17, <3>1, <3>2, <3>3, <3>4, ContentNext
  <2>4. r \in Bodies(t)
    BY <1>1, <1>19, ChunkedBodyIs
  <2>5. ChunkedBody(t, b + d.headerSize + 1) = Behind(Content(d), ChunkedBody(t, b + x + 1))
    <3>1. ChunkedBody(t, b + ctx.headerSize + 1) = Behind(Content(ctx), ChunkedBody(t, b + p + 1))
      BY <1>4 DEF ChunksRead
    <3>2. ChunkedBody(t, b + p + 1) = Behind(s, r)
      BY <1>14, <1>20, <1>22
    <3>3. Behind(Content(ctx), Behind(s, r)) = Behind(Content(ctx) \o s, r)
      BY <1>17, <2>3, <2>4, BehindTwice
    <3>4. QED
      BY <1>12, <1>18, <1>19, <2>3, <3>1, <3>2, <3>3
  <2>6. ChunksRead(d, t, b, x)
    <3>1. d.chunked
      BY <1>4, <1>12 DEF ChunksRead
    <3>2. x \in d.headerSize..d.index
      <4>1. ctx.headerSize \in Nat /\ ctx.headerSize <= u
        BY <1>1, <1>5, MembersFacts
      <4>2. QED
        BY <1>7, <1>12, <4>1
    <3>3. ASSUME NEW a \in 1..Len(d.chunks)
          PROVE  d.chunks[a].first + d.chunks[a].length + 2 <= x
      <4>1. ctx.chunks \in Seq(Piece)
        BY <1>1, MembersFacts
      <4>2. CASE a \in 1..Len(ctx.chunks)
        <5>1. d.chunks[a] = ctx.chunks[a]
          BY <1>12, <4>1, <4>2, AppendProperties
        <5>2. ctx.chunks[a].first + ctx.chunks[a].length + 2 <= p
          BY <2>1, <4>2
        <5>3. ctx.chunks[a].first \in Nat /\ ctx.chunks[a].length \in Nat
          BY <2>2, <4>2
        <5>4. PICK f \in Nat, o \in Nat : f = ctx.chunks[a].first /\ o = ctx.chunks[a].length
          BY <5>3
        <5>5. f + o + 2 <= p /\ p \in Nat /\ p <= u
          BY <1>8, <5>2, <5>4
        <5>6. u <= x
          BY <1>7
        <5>7. f + o + 2 <= x
          BY <5>5, <5>6
        <5>8. QED
          BY <5>1, <5>4, <5>7
      <4>3. CASE a \notin 1..Len(ctx.chunks)
        <5>1. d.chunks[a] = part
          BY <1>12, <4>1, <4>3, AppendProperties
        <5>2. QED
          BY <1>7, <1>9, <5>1
      <4>4. QED
        BY <4>2, <4>3
    <3>4. QED
      BY <2>5, <3>1, <3>2, <3>3 DEF ChunksRead
  <2>7. NoFeed(t, b + x + 1, b + d.index)
    <3>1. (b + x + 1)..(b + d.index) = {}
      BY <1>1, <1>12
    <3>2. QED
      BY <3>1 DEF NoFeed
  <2>8. Raw(d, t, b, x)
    <3>1. \A a \in (x + 1)..Len(ctx.buf) : a \in (ctx.index + 1)..Len(ctx.buf)
      <4>1. u <= x
        BY <1>7
      <4>2. \A a \in (x + 1)..w : a \in (u + 1)..w
        BY <4>1
      <4>3. QED
        BY <1>5, <4>2
    <3>2. QED
      BY <1>4, <1>12, <3>1 DEF Raw
  <2>9. d.buf[x] # CR
    <3>1. d.buf[x] = t[b + x]
      <4>1. x \in (ctx.index + 1)..Len(ctx.buf)
        <5>1. x <= w
          BY <1>8
        <5>2. x \in (u + 1)..w
          BY <1>7, <5>1
        <5>3. QED
          BY <1>5, <5>2
      <4>2. QED
        BY <1>4, <1>12, <4>1 DEF Raw
    <3>2. PICK q : q = SubSeq(t, j + n + 1, j + n + 2)
      OBVIOUS
    <3>3. q[2] = t[b + x]
      <4>1. /\ j + n + 1 \in 1..Len(t) /\ j + n + 2 \in 1..Len(t)
        BY <1>18
      <4>2. \A a \in (j + n + 1)..(j + n + 2) : t[a] \in Char
        BY <1>1, <4>1
      <4>3. /\ (j + n + 2) - (j + n + 1) + 1 = 2 /\ (j + n + 1) + 2 - 1 = b + x
        BY <1>7, <1>15, <1>25
      <4>4. q[2] = t[(j + n + 1) + 2 - 1]
        BY <3>2, <4>1, <4>2, <4>3, SubSeqProperties
      <4>5. QED
        BY <4>3, <4>4
    <3>4. q[2] = LF
      <4>1. q = <<CR, LF>>
        BY <1>22, <3>2
      <4>2. QED
        BY <4>1
    <3>5. QED
      BY <3>1, <3>3, <3>4 DEF CR, LF
  <2>10. SizeRead(d, SubSeq(t, b + x + 1, b + d.index))
    <3>1. SubSeq(t, b + x + 1, b + d.index) = <<>>
      <4>1. PICK a \in Nat : a = b + x /\ b + x + 1 = a + 1 /\ b + d.index = a
        BY <1>1, <1>12
      <4>2. SubSeq(t, a + 1, a) = <<>>
        BY <1>1, <4>1, SubSeqProperties, EmptySeq
      <4>3. QED
        BY <4>1, <4>2
    <3>2. QED
      BY <1>12, <3>1, SizeReadNone
  <2>11. x \in 0..d.index /\ m = Len(d.lines)
    BY <1>5, <1>12
  <2>12. Parsed(d, t, b)
    BY <1>12, <1>13, <2>6, <2>7, <2>8, <2>9, <2>10, <2>11 DEF Parsed
  <2>13. QED
    BY <1>2, <2>12 DEF GoesOnWith
<1>23. QED
  BY <1>21, <1>22

\* The size depends on three members.
LEMMA SizeReadSame ==
    ASSUME NEW c, NEW d, d.chunkSize = c.chunkSize, d.sizeStart = c.sizeStart,
           d.sizeDone = c.sizeDone, NEW x, SizeRead(c, x)
    PROVE  SizeRead(d, x)
BY DEF SizeRead, SizeReadAs

\* The bytes of a size line, as the parser hands them on.
LEMMA SizeBytes ==
    ASSUME MembersInv(ctx), NEW t \in Seq(Char), NEW b \in Nat, b + nowIndex <= Len(t),
           NEW p \in 0..ctx.index, Raw(ctx, t, b, p), NEW j \in ctx.index..nowIndex,
           NEW c \in Members, SizeRead(c, SubSeq(t, b + p + 1, b + ctx.index)),
           NEW bytes, bytes = SubSeq(ctx.buf, ctx.index + 1, j)
    PROVE  bytes \in Seq(Char) /\ SizeRead(Scanned(c, bytes), SubSeq(t, b + p + 1, b + j))
<1>1. PICK u \in Nat, w \in Nat : u = ctx.index /\ w = nowIndex /\ w = Len(ctx.buf)
  BY MembersFacts DEF nowIndex
<1>2. j \in Nat /\ u <= j /\ j <= w /\ p \in Nat /\ p <= u
  BY <1>1
<1>3. PICK l \in Nat : l = Len(t) /\ b + j <= l
  <2>1. PICK l \in Nat : l = Len(t) /\ b + w <= l
    <3>1. Len(t) \in Nat
      OBVIOUS
    <3>2. b + w <= Len(t)
      BY <1>1
    <3>3. QED
      BY <3>1, <3>2
  <2>2. QED
    BY <1>2, <2>1
<1>4. ctx.buf \in Seq(Char)
  BY MembersFacts
<1>5. /\ bytes \in Seq(Char) /\ Len(bytes) = j - u
      /\ \A k \in 1..(j - u) : bytes[k] = ctx.buf[u + k]
  <2>1. \A k \in (u + 1)..j : k \in (p + 1)..Len(ctx.buf)
    <3>1. \A k \in (u + 1)..j : k \in (p + 1)..w
      BY <1>2
    <3>2. QED
      BY <1>1, <3>1
  <2>2. \A k \in (u + 1)..j : ctx.buf[k] = t[b + k]
    BY <2>1 DEF Raw
  <2>3. u <= j /\ j <= Len(ctx.buf) /\ b + j <= Len(t)
    BY <1>1, <1>2, <1>3
  <2>4. bytes = SubSeq(ctx.buf, u + 1, j)
    BY <1>1
  <2>5. j \in Nat
    BY <1>2
  <2>6. /\ SubSeq(ctx.buf, u + 1, j) \in Seq(Char) /\ Len(SubSeq(ctx.buf, u + 1, j)) = j - u
        /\ \A k \in 1..(j - u) : SubSeq(ctx.buf, u + 1, j)[k] = ctx.buf[u + k]
    BY <1>4, <2>2, <2>3, <2>5, SubSeqSame
  <2>7. QED
    BY <2>4, <2>6
<1>6. PICK i \in Nat \ {0} : i = b + p + 1
  BY <1>2
<1>7. PICK m \in Nat : m = b + u
  BY <1>1
<1>8. \A k \in 1..Len(bytes) : bytes[k] = t[m + k]
  <2>1. SUFFICES ASSUME NEW k \in 1..(j - u) PROVE ctx.buf[u + k] = t[m + k]
    BY <1>5
  <2>2. PICK a \in (p + 1)..Len(ctx.buf) : a = u + k
    <3>1. PICK a \in Nat : a = u + k
      OBVIOUS
    <3>2. p + 1 <= a /\ a <= j
      BY <1>2, <3>1
    <3>3. a <= Len(ctx.buf) /\ Len(ctx.buf) \in Nat
      BY <1>1, <1>2, <3>2
    <3>4. QED
      BY <1>2, <3>1, <3>2, <3>3
  <2>3. b + a = m + k
    BY <1>7, <2>2
  <2>4. QED
    BY <2>2, <2>3 DEF Raw
<1>9. i <= m + 1 /\ m + Len(bytes) = b + j /\ m + Len(bytes) <= Len(t)
  <2>1. i <= m + 1
    BY <1>2, <1>6, <1>7
  <2>2. m + Len(bytes) = b + j
    <3>1. m + (j - u) = b + j
      BY <1>2, <1>7
    <3>2. QED
      BY <1>5, <3>1
  <2>3. QED
    BY <1>3, <2>1, <2>2
<1>10. SizeRead(c, SubSeq(t, i, m))
  BY <1>1, <1>6, <1>7
<1>11. SizeRead(Scanned(c, bytes), SubSeq(t, i, m + Len(bytes)))
  BY <1>5, <1>8, <1>9, <1>10, ScannedReads
<1>12. QED
  BY <1>5, <1>6, <1>9, <1>11

\* A size line goes on in the next read.
LEMMA SizeGoesOnParsed ==
    ASSUME NEW t, NEW b, ReadsOf(t, b), SizeGoesOn
    PROVE  GoesOnWith(t, b)
<1>1. t \in Seq(Char) /\ b \in Nat /\ b + nowIndex <= Len(t) /\ MembersInv(ctx)
  BY DEF ReadsOf
<1>2. PICK d : d = ctx'
  OBVIOUS
<1>3. ctx.state = "chunkHeader" /\ LineFeed = 0 /\ Parsed(ctx, t, b) /\ ctx \in Members
  BY <1>1, MembersFacts DEF ReadsOf, SizeGoesOn, Reads
<1>4. PICK p \in 0..ctx.index :
             /\ HeadRead(ctx, t, b, Len(ctx.lines)) /\ ChunksRead(ctx, t, b, p)
             /\ NoFeed(t, b + p + 1, b + ctx.index) /\ Raw(ctx, t, b, p) /\ ctx.buf[p] # CR
             /\ SizeRead(ctx, SubSeq(t, b + p + 1, b + ctx.index))
  BY <1>3 DEF Parsed
<1>5. PICK u \in Nat, w \in Nat : u = ctx.index /\ w = nowIndex /\ w = Len(ctx.buf) /\ u <= w
  BY <1>1, MembersFacts DEF nowIndex
<1>6. PICK bytes : bytes = SubSeq(ctx.buf, ctx.index + 1, nowIndex)
  OBVIOUS
<1>7. PICK f : f = Scanned(ctx, bytes)
  OBVIOUS
<1>8. bytes \in Seq(Char) /\ SizeRead(f, SubSeq(t, b + p + 1, b + w))
  <2>1. w \in ctx.index..nowIndex
    BY <1>5
  <2>2. QED
    <3>1. w = nowIndex /\ ctx \in Members /\ MembersInv(ctx) /\ b \in Nat /\ t \in Seq(Char)
      BY <1>1, <1>3, <1>5
    <3>2. w \in ctx.index..nowIndex /\ b + nowIndex <= Len(t)
      BY <1>1, <2>1
    <3>3. bytes = SubSeq(ctx.buf, ctx.index + 1, w)
      BY <1>6, <3>1
    <3>4. Raw(ctx, t, b, p) /\ SizeRead(ctx, SubSeq(t, b + p + 1, b + ctx.index))
      BY <1>4
    <3>5. bytes \in Seq(Char) /\ SizeRead(Scanned(ctx, bytes), SubSeq(t, b + p + 1, b + w))
      BY <3>1, <3>2, <3>3, <3>4, SizeBytes
    <3>6. QED
      BY <1>7, <3>5
<1>9. /\ f \in Members /\ f.buf = ctx.buf /\ f.state = ctx.state /\ f.lines = ctx.lines
      /\ f.headerSize = ctx.headerSize /\ f.chunks = ctx.chunks
  BY <1>3, <1>7, <1>8, ScannedSets DEF SamePlaces
<1>10. /\ f.keepAlive = ctx.keepAlive /\ f.chunked = ctx.chunked
       /\ f.contentLength = ctx.contentLength
  BY <1>3, <1>7, <1>8, ScannedKeeps
<1>11. d = [f EXCEPT !.index = w]
  BY <1>2, <1>5, <1>6, <1>7 DEF SizeGoesOn
<1>12. /\ d \in Members /\ d.buf = f.buf /\ d.index = w /\ d.lines = f.lines /\ d.state = f.state
       /\ d.headerSize = f.headerSize /\ d.chunks = f.chunks
       /\ d.keepAlive = f.keepAlive /\ d.chunked = f.chunked
       /\ d.contentLength = f.contentLength /\ d.chunkSize = f.chunkSize
       /\ d.sizeStart = f.sizeStart /\ d.sizeDone = f.sizeDone
  BY <1>9, <1>11 DEF Members
<1>13. Agree(ctx, d, ctx.index - 2)
  <2>1. d.buf = ctx.buf
    BY <1>9, <1>12
  <2>2. QED
    BY <1>5, <2>1 DEF Agree
<1>14. HeadRead(d, t, b, Len(d.lines))
  <2>1. d.lines = ctx.lines /\ ctx.state \notin {"header", "chunkFooter", "bad"}
    BY <1>3, <1>9, <1>12
  <2>2. PICK m \in Nat : m = Len(ctx.lines)
    BY <1>3 DEF Members
  <2>3. /\ m <= Len(d.lines) /\ \A k \in 1..m : d.lines[k] = ctx.lines[k]
    BY <2>1, <2>2
  <2>4. HeadRead(d, t, b, m)
    BY <1>1, <1>4, <1>9, <1>10, <1>12, <1>13, <2>1, <2>2, <2>3, HeadSame
  <2>5. QED
    BY <2>1, <2>2, <2>4
<1>15. ChunksRead(d, t, b, p)
  <2>1. ctx.index <= d.index
    BY <1>5, <1>12
  <2>2. QED
    BY <1>1, <1>4, <1>9, <1>10, <1>12, <1>13, <2>1, ChunksSame
<1>16. NoFeed(t, b + p + 1, b + w)
  <2>1. NoFeed(t, b + u + 1, b + w)
    BY <1>1, <1>3, <1>4, <1>5, RawFeeds
  <2>2. p \in Nat
    BY <1>5
  <2>3. /\ b + p + 1 \in Int /\ b + u + 1 \in Int /\ b + w \in Int /\ (b + u + 1) - 1 = b + u
    BY <1>1, <2>2
  <2>4. NoFeed(t, b + p + 1, (b + u + 1) - 1)
    BY <1>4, <1>5, <2>3
  <2>5. QED
    BY <2>1, <2>3, <2>4, NoFeedJoins
<1>17. Raw(d, t, b, p) /\ d.buf[p] # CR
  BY <1>4, <1>9, <1>12 DEF Raw
<1>18. SizeRead(d, SubSeq(t, b + p + 1, b + d.index))
  BY <1>8, <1>12, SizeReadSame
<1>19. p \in 0..d.index
  BY <1>5, <1>12
<1>20. d.state = "chunkHeader"
  BY <1>3, <1>9, <1>12
<1>21. Parsed(d, t, b)
  BY <1>12, <1>14, <1>15, <1>16, <1>17, <1>18, <1>19, <1>20 DEF Parsed
<1>22. QED
  BY <1>2, <1>21 DEF GoesOnWith

\* EndSize, on the members.
LEMMA EndSizeDoes ==
    ASSUME MembersInv(ctx), EndSize
    PROVE  \E j \in Nat, f \in Members :
              /\ j = LineFeed /\ j \in (ctx.index + 1)..nowIndex /\ ~BareAt(j)
              /\ ctx.state = "chunkHeader"
              /\ Terminated(j) \in Members
              /\ f = Scanned(Terminated(j), SubSeq(ctx.buf, ctx.index + 1, j - 1))
              /\ ctx' \in Members /\ ctx'.buf = Terminated(j).buf /\ ctx'.index = j
              /\ ctx'.headerSize = ctx.headerSize /\ ctx'.chunks = ctx.chunks
              /\ ctx'.keepAlive = ctx.keepAlive /\ ctx'.chunked = ctx.chunked
              /\ ctx'.contentLength = ctx.contentLength
              /\ f.chunkSize > 0 => /\ ctx'.state = "chunkBody" /\ ctx'.lines = ctx.lines
                                    /\ ctx'.chunkSize = f.chunkSize
              /\ ~(f.chunkSize > 0) => /\ ctx'.state = "chunkFooter"
                                       /\ ctx'.lines = Append(ctx.lines, [first |-> j, length |-> Unknown])
<1>1. PICK j : j = LineFeed
  OBVIOUS
<1>2. PICK d : d = ctx'
  OBVIOUS
<1>3. PICK e : e = Terminated(j)
  OBVIOUS
<1>4. PICK bytes : bytes = SubSeq(ctx.buf, ctx.index + 1, j - 1)
  OBVIOUS
<1>5. PICK f : f = Scanned(e, bytes)
  OBVIOUS
<1>6. /\ ctx.state = "chunkHeader" /\ j \in (ctx.index + 1)..nowIndex /\ nowIndex = Len(ctx.buf)
      /\ ~BareAt(j)
  BY <1>1, MembersFacts, LineFeedIs DEF EndSize, Reads, nowIndex
<1>7. j \in Nat /\ j \in 1..nowIndex /\ ctx.index < j /\ nowIndex \in Nat
  BY <1>6, MembersFacts
<1>8. bytes \in Seq(Char)
  <2>1. /\ ctx.index + 1 \in Int /\ j - 1 \in Int
        /\ \A i \in (ctx.index + 1)..(j - 1) : ctx.buf[i] \in Char
    BY <1>6, <1>7, MembersFacts
  <2>2. QED
    BY <1>4, <2>1, SubSeqProperties
<1>9. /\ e \in Members /\ e.lines = ctx.lines /\ e.chunks = ctx.chunks
      /\ e.headerSize = ctx.headerSize
      /\ e.keepAlive = ctx.keepAlive /\ e.chunked = ctx.chunked
      /\ e.contentLength = ctx.contentLength
  <2>1. /\ e \in Members /\ e.lines = ctx.lines /\ e.chunks = ctx.chunks
        /\ e.headerSize = ctx.headerSize
    BY <1>3, <1>7, MembersFacts, TerminatedIs
  <2>2. QED
    BY <1>3, <2>1, TerminatedKeeps
<1>10. /\ f \in Members /\ f.buf = e.buf /\ f.lines = e.lines
       /\ f.headerSize = e.headerSize /\ f.chunks = e.chunks
       /\ f.keepAlive = e.keepAlive /\ f.chunked = e.chunked
       /\ f.contentLength = e.contentLength
  <2>1. f \in SamePlaces(e)
    BY <1>5, <1>8, <1>9, ScannedSets
  <2>2. f.keepAlive = e.keepAlive /\ f.chunked = e.chunked /\ f.contentLength = e.contentLength
    BY <1>5, <1>8, <1>9, ScannedKeeps
  <2>3. QED
    BY <2>1, <2>2 DEF SamePlaces
<1>11. PICK next \in Piece : next = [first |-> j, length |-> Unknown]
  BY <1>7, Widths DEF Piece
<1>12. Append(f.lines, next) \in Seq(Piece)
  <2>1. f.lines \in Seq(Piece)
    BY <1>10 DEF Members
  <2>2. QED
    BY <2>1, AppendProperties
<1>13. d = IF f.chunkSize > 0
           THEN [f EXCEPT !.index = j, !.state = "chunkBody"]
           ELSE [f EXCEPT !.index = j, !.state = "chunkFooter", !.lines = Append(@, next)]
  BY <1>1, <1>2, <1>3, <1>4, <1>5, <1>11 DEF EndSize
<1>14. /\ d \in Members /\ d.buf = f.buf /\ d.index = j
       /\ d.headerSize = f.headerSize /\ d.chunks = f.chunks
       /\ d.keepAlive = f.keepAlive /\ d.chunked = f.chunked
       /\ d.contentLength = f.contentLength
       /\ f.chunkSize > 0 => /\ d.state = "chunkBody" /\ d.lines = f.lines
                             /\ d.chunkSize = f.chunkSize
       /\ ~(f.chunkSize > 0) => d.state = "chunkFooter" /\ d.lines = Append(f.lines, next)
  <2>1. CASE f.chunkSize > 0
    <3>1. d = [f EXCEPT !.index = j, !.state = "chunkBody"]
      BY <1>13, <2>1
    <3>2. QED
      BY <1>7, <1>10, <2>1, <3>1 DEF Members, State
  <2>2. CASE ~(f.chunkSize > 0)
    <3>1. PICK lines \in Seq(Piece) : lines = Append(f.lines, next)
      BY <1>12
    <3>2. d = [f EXCEPT !.index = j, !.state = "chunkFooter", !.lines = lines]
      BY <1>10, <1>13, <2>2, <3>1
    <3>3. QED
      BY <1>7, <1>10, <2>2, <3>1, <3>2 DEF Members, State
  <2>3. QED
    BY <2>1, <2>2
<1>15. /\ d.buf = Terminated(j).buf /\ d.headerSize = ctx.headerSize /\ d.chunks = ctx.chunks
       /\ d.keepAlive = ctx.keepAlive /\ d.chunked = ctx.chunked
       /\ d.contentLength = ctx.contentLength
       /\ f.chunkSize > 0 => /\ d.state = "chunkBody" /\ d.lines = ctx.lines
                             /\ d.chunkSize = f.chunkSize
       /\ ~(f.chunkSize > 0) => /\ d.state = "chunkFooter"
                                /\ d.lines = Append(ctx.lines, [first |-> j, length |-> Unknown])
  BY <1>3, <1>9, <1>10, <1>11, <1>14
<1>16. f = Scanned(Terminated(j), SubSeq(ctx.buf, ctx.index + 1, j - 1)) /\ Terminated(j) \in Members
  BY <1>3, <1>4, <1>5, <1>9
<1>17. f \in Members /\ d \in Members /\ d.index = j /\ j \in Nat
  BY <1>7, <1>10, <1>14
<1>18. QED
  BY <1>1, <1>2, <1>6, <1>15, <1>16, <1>17

\* The line that says a size is a size line of the input.
LEMMA SizeLineFound ==
    ASSUME NEW t, NEW b, ReadsOf(t, b), NEW p \in 0..ctx.index, Raw(ctx, t, b, p),
           ctx.buf[p] # CR, NoFeed(t, b + p + 1, b + ctx.index),
           NEW j, j = LineFeed, j \in (ctx.index + 1)..nowIndex, ~BareAt(j),
           NEW n, n = Number(SizeDigits(SubSeq(t, b + p + 1, b + j - 1)))
    PROVE  SizeLine(t, b + p + 1, b + j, n)
<1>1. t \in Seq(Char) /\ b \in Nat /\ b + nowIndex <= Len(t) /\ MembersInv(ctx)
  BY DEF ReadsOf
<1>2. PICK u \in Nat, w \in Nat : u = ctx.index /\ w = nowIndex /\ w = Len(ctx.buf) /\ u <= w
  BY <1>1, MembersFacts DEF nowIndex
<1>3. j \in Nat /\ p \in Nat /\ p <= u /\ u < j /\ j <= w /\ j > 0
  BY <1>2
<1>4. t[b + j] = LF /\ NoFeed(t, b + u + 1, b + j - 1)
  <2>1. LineFeed # 0
    BY <1>3
  <2>2. QED
    BY <1>1, <1>2, <2>1, RawFeeds
<1>5. b \in Nat
  BY <1>1
<1>6. NoFeed(t, b + p + 1, (b + j) - 1)
  <2>1. /\ b + p + 1 \in Int /\ b + u + 1 \in Int /\ (b + j) - 1 \in Int
        /\ (b + u + 1) - 1 = b + u /\ (b + j) - 1 = b + j - 1
    BY <1>3, <1>5
  <2>2. NoFeed(t, b + p + 1, (b + u + 1) - 1) /\ NoFeed(t, b + u + 1, (b + j) - 1)
    BY <1>2, <1>4, <2>1
  <2>3. QED
    BY <2>1, <2>2, NoFeedJoins
<1>7. p # j - 1
  <2>1. SUFFICES ASSUME p = j - 1 PROVE FALSE
    OBVIOUS
  <2>2. ctx.buf[j - 1] = CR
    BY DEF BareAt
  <2>3. QED
    BY <2>1, <2>2
<1>8. t[(b + j) - 1] = CR
  <2>1. j - 1 \in (p + 1)..Len(ctx.buf)
    BY <1>2, <1>3, <1>7
  <2>2. ctx.buf[j - 1] = t[b + (j - 1)]
    BY <2>1 DEF Raw
  <2>3. b + (j - 1) = (b + j) - 1
    BY <1>3, <1>5
  <2>4. ctx.buf[j - 1] = CR
    BY DEF BareAt
  <2>5. QED
    BY <2>2, <2>3, <2>4
<1>9. ~IsBare(t, b + p + 1, b + j)
  <2>1. b + j # b + p + 1
    BY <1>3, <1>5, <1>7
  <2>2. QED
    BY <1>8, <2>1 DEF IsBare
<1>10. b + j \in (b + p + 1)..Len(t)
  <2>1. PICK l \in Nat : l = Len(t) /\ b + w <= l
    BY <1>1, <1>2
  <2>2. QED
    BY <1>3, <1>5, <2>1
<1>11. n = Number(SizeDigits(SubSeq(t, b + p + 1, (b + j) - 1)))
  <2>1. (b + j) - 1 = b + j - 1
    BY <1>3, <1>5
  <2>2. QED
    BY <2>1
<1>12. QED
  BY <1>4, <1>6, <1>9, <1>10, <1>11 DEF SizeLine

\* A size line is complete.
LEMMA EndSizeParsed ==
    ASSUME NEW t, NEW b, ReadsOf(t, b), EndSize
    PROVE  GoesOnWith(t, b)
<1>1. t \in Seq(Char) /\ b \in Nat /\ b + nowIndex <= Len(t) /\ MembersInv(ctx)
  BY DEF ReadsOf
<1>2. PICK d : d = ctx'
  OBVIOUS
<1>3. PICK j \in Nat, f \in Members :
              /\ j = LineFeed /\ j \in (ctx.index + 1)..nowIndex /\ ~BareAt(j)
              /\ ctx.state = "chunkHeader"
              /\ Terminated(j) \in Members
              /\ f = Scanned(Terminated(j), SubSeq(ctx.buf, ctx.index + 1, j - 1))
              /\ d \in Members /\ d.buf = Terminated(j).buf /\ d.index = j
              /\ d.headerSize = ctx.headerSize /\ d.chunks = ctx.chunks
              /\ d.keepAlive = ctx.keepAlive /\ d.chunked = ctx.chunked
              /\ d.contentLength = ctx.contentLength
              /\ f.chunkSize > 0 => /\ d.state = "chunkBody" /\ d.lines = ctx.lines
                                    /\ d.chunkSize = f.chunkSize
              /\ ~(f.chunkSize > 0) => /\ d.state = "chunkFooter"
                                       /\ d.lines = Append(ctx.lines, [first |-> j, length |-> Unknown])
  BY <1>1, <1>2, EndSizeDoes
<1>4. Parsed(ctx, t, b) /\ ctx \in Members
  BY <1>1, MembersFacts DEF ReadsOf
<1>5. PICK p \in 0..ctx.index :
             /\ HeadRead(ctx, t, b, Len(ctx.lines)) /\ ChunksRead(ctx, t, b, p)
             /\ NoFeed(t, b + p + 1, b + ctx.index) /\ Raw(ctx, t, b, p) /\ ctx.buf[p] # CR
             /\ SizeRead(ctx, SubSeq(t, b + p + 1, b + ctx.index))
  BY <1>3, <1>4 DEF Parsed
<1>6. PICK u \in Nat, w \in Nat, m \in Nat :
         /\ u = ctx.index /\ w = nowIndex /\ w = Len(ctx.buf) /\ u <= w
         /\ m = Len(ctx.lines)
  BY <1>1, MembersFacts DEF nowIndex
<1>7. u < j /\ j <= w /\ p \in Nat /\ p <= u
  BY <1>3, <1>6
<1>8. PICK x : x = SubSeq(t, b + p + 1, b + j - 1)
  OBVIOUS
<1>9. PICK n : n = Number(SizeDigits(x))
  OBVIOUS
<1>10. x \in Seq(Char)
  <2>1. PICK l \in Nat : l = Len(t) /\ b + w <= l
    BY <1>1, <1>6
  <2>2. PICK i \in Nat \ {0}, a \in Nat : i = b + p + 1 /\ a = b + j - 1 /\ a <= l
    BY <1>1, <1>7, <2>1
  <2>3. \A k \in i..a : t[k] \in Char
    BY <1>1, <2>1, <2>2
  <2>4. x = SubSeq(t, i, a)
    BY <1>8, <2>2
  <2>5. QED
    BY <2>2, <2>3, <2>4, SubSeqProperties
<1>11. n \in Nat /\ f.chunkSize = n % Word
  <2>1. SizeDigits(x) \in Seq(Char) /\ AreDigits(SizeDigits(x))
    BY <1>10, SizeDigitsAre
  <2>2. n \in Nat
    BY <1>9, <2>1, NumberGrows
  <2>3. PICK i \in ctx.index..nowIndex : i = j - 1
    BY <1>3, <1>6, <1>7
  <2>4. PICK e \in Members : e = Terminated(j)
    BY <1>3
  <2>5. SizeRead(e, SubSeq(t, b + p + 1, b + ctx.index))
    <3>1. e.chunkSize = ctx.chunkSize /\ e.sizeStart = ctx.sizeStart /\ e.sizeDone = ctx.sizeDone
      BY <2>4, TerminatedKeeps
    <3>2. QED
      BY <1>5, <3>1, SizeReadSame
  <2>6. PICK bytes : bytes = SubSeq(ctx.buf, ctx.index + 1, i)
    OBVIOUS
  <2>7. SizeRead(Scanned(e, bytes), SubSeq(t, b + p + 1, b + i))
    BY <1>1, <1>5, <2>3, <2>5, <2>6, SizeBytes
  <2>8. f = Scanned(e, bytes)
    BY <1>3, <2>3, <2>4, <2>6
  <2>9. x = SubSeq(t, b + p + 1, b + i)
    <3>1. b + i = b + j - 1
      BY <1>1, <1>3, <2>3
    <3>2. QED
      BY <1>8, <3>1
  <2>10. SizeRead(f, x)
    BY <2>7, <2>8, <2>9
  <2>11. f.chunkSize = Number(SizeDigits(x)) % Word
    BY <1>10, <2>10, SizeReadSays
  <2>12. QED
    BY <1>9, <2>2, <2>11
<1>12. SizeLine(t, b + p + 1, b + j, n)
  BY <1>3, <1>5, <1>8, <1>9, SizeLineFound
<1>13. Agree(ctx, d, ctx.index - 2) /\ Len(d.buf) = w
  BY <1>1, <1>3, <1>6, TerminatedSame
<1>14. ChunksRead(d, t, b, p)
  <2>1. ctx.index <= d.index
    BY <1>3, <1>6, <1>7
  <2>2. QED
    BY <1>1, <1>3, <1>5, <1>13, <2>1, ChunksSame
<1>15. ASSUME m <= Len(d.lines), \A k \in 1..m : d.lines[k] = ctx.lines[k]
       PROVE  HeadRead(d, t, b, m)
  <2>1. ctx.state \notin {"header", "chunkFooter", "bad"}
    BY <1>3
  <2>2. HeadRead(ctx, t, b, m)
    BY <1>5, <1>6
  <2>3. /\ d \in Members /\ d.headerSize = ctx.headerSize
        /\ d.keepAlive = ctx.keepAlive /\ d.chunked = ctx.chunked
        /\ d.contentLength = ctx.contentLength
    BY <1>3
  <2>4. QED
    BY <1>1, <1>13, <1>15, <2>1, <2>2, <2>3, HeadSame
<1>16. Raw(d, t, b, j)
  <2>1. p \in 0..j
    BY <1>7
  <2>2. QED
    BY <1>1, <1>3, <1>5, <2>1, RawBehind
<1>17. CASE n > 0 /\ n + 2 < Word
  <2>1. n % Word = n
    BY <1>11, <1>17, Widths
  <2>2. d.state = "chunkBody" /\ d.lines = ctx.lines /\ d.chunkSize = n
    BY <1>3, <1>11, <1>17, <2>1
  <2>3. HeadRead(d, t, b, Len(d.lines))
    <3>1. m <= Len(d.lines) /\ \A k \in 1..m : d.lines[k] = ctx.lines[k]
      BY <1>6, <2>2
    <3>2. QED
      BY <1>6, <1>15, <2>2, <3>1
  <2>4. p \in 0..d.index
    BY <1>3, <1>7
  <2>5. SizeLine(t, b + p + 1, b + d.index, d.chunkSize) /\ Raw(d, t, b, d.index)
    BY <1>3, <1>12, <1>16, <2>2
  <2>6. d.chunkSize > 0 /\ d.chunkSize + 2 < Word
    BY <1>17, <2>2
  <2>7. Parsed(d, t, b)
    BY <1>14, <2>2, <2>3, <2>4, <2>5, <2>6 DEF Parsed
  <2>8. QED
    BY <1>2, <2>7 DEF GoesOnWith
<1>18. CASE n > 0 /\ ~(n + 2 < Word)
  <2>1. PICK i \in 1..(Len(t) + 1) : i = b + p + 1
    <3>1. PICK l \in Nat : l = Len(t) /\ b + w <= l
      BY <1>1, <1>6
    <3>2. QED
      BY <1>1, <1>7, <3>1
  <2>2. PICK r : r = ChunkedBody(t, b + p + 1)
    OBVIOUS
  <2>3. r = Unspecified
    <3>1. SizeLine(t, i, b + j, n) /\ n > 0 /\ n + 2 >= Word
      BY <1>11, <1>12, <1>18, <2>1, Widths
    <3>2. ChunkedBody(t, i) = Unspecified
      BY <1>1, <3>1, ChunkSizeLine
    <3>3. QED
      BY <2>1, <2>2, <3>2
  <2>4. r.is # "done"
    BY <2>3 DEF Unspecified
  <2>5. b + Len(ctx.buf) <= Len(t)
    BY <1>1 DEF nowIndex
  <2>6. RequestAt(t, b + 1) = r
    BY <1>1, <1>5, <2>2, <2>4, <2>5, ChunksSay
  <2>7. QED
    BY <2>3, <2>6 DEF GoesOnWith
<1>19. CASE n = 0
  <2>1. n % Word = 0
    BY <1>19, Widths
  <2>2. PICK line \in Piece : line = [first |-> j, length |-> Unknown]
    BY <1>3, Widths DEF Piece
  <2>3. d.state = "chunkFooter" /\ d.lines = Append(ctx.lines, line)
    BY <1>3, <1>11, <2>1, <2>2
  <2>4. /\ Len(d.lines) = m + 1 /\ d.lines[m + 1] = line
        /\ \A k \in 1..m : d.lines[k] = ctx.lines[k]
    <3>1. ctx.lines \in Seq(Piece)
      BY <1>1, MembersFacts
    <3>2. QED
      BY <1>6, <2>2, <2>3, <3>1, AppendProperties
  <2>5. HeadRead(d, t, b, m)
    <3>1. m <= Len(d.lines)
      BY <1>6, <2>4
    <3>2. QED
      BY <1>15, <2>4, <3>1
  <2>6. SizeLine(t, b + p + 1, b + j, 0)
    BY <1>12, <1>19
  <2>7. OpenBlock(d, t, b, j, m)
    <3>1. d.lines[Len(d.lines)].first = j /\ d.index = j
      BY <1>3, <2>2, <2>4
    <3>2. m \in 0..((m + 1) - 1) /\ j \in 0..j /\ j <= j
      BY <1>3, <1>6
    <3>3. NoFeed(t, b + j + 1, b + j) /\ NoStop(t, b + j + 1, b + j)
      BY <1>1, <1>3 DEF NoFeed, NoStop
    <3>4. LinesOf(t, b + j + 1, b + j + 2) = Slices(d, m, (m + 1) - 1)
      <4>1. PICK i \in Nat \ {0} : i = b + j + 1 /\ b + j + 2 = i + 1
        BY <1>1, <1>3
      <4>2. LinesOf(t, i, i + 1) = <<>>
        BY LinesOfNone
      <4>3. Slices(d, m, m) = <<>> /\ (m + 1) - 1 = m
        <5>1. m \in Nat /\ m <= m /\ (m + 1) - 1 = m
          BY <1>6
        <5>2. Slices(d, m, m) = <<>>
          BY <5>1, SlicesJoin
        <5>3. QED
          BY <5>1, <5>2
      <4>4. QED
        BY <4>1, <4>2, <4>3
    <3>5. QED
      BY <1>16, <2>4, <3>1, <3>2, <3>3, <3>4 DEF OpenBlock
  <2>8. FooterRead(d, t, b, p, j, m)
    BY <1>14, <2>5, <2>6, <2>7 DEF FooterRead
  <2>9. p \in 0..d.index /\ j \in 0..d.index /\ m \in 0..Len(d.lines)
    BY <1>3, <1>6, <1>7, <2>4
  <2>10. Parsed(d, t, b)
    BY <2>3, <2>8, <2>9, FooterParsed
  <2>11. QED
    BY <1>2, <2>10 DEF GoesOnWith
<1>20. QED
  BY <1>11, <1>17, <1>18, <1>19

\* A piece with a CR LF behind it that ends by p ends before p.
LEMMA EndsBefore ==
    ASSUME NEW x \in Nat, NEW y \in Nat, NEW p \in Nat, NEW u \in Nat, x + y + 2 <= p, p <= u
    PROVE  x + y <= u - 2 /\ x + y <= u
OBVIOUS

\* EndFooter, on the members.
LEMMA EndFooterDoes ==
    ASSUME MembersInv(ctx), EndFooter
    PROVE  \E j, n \in Nat :
              /\ j = LineFeed /\ j \in (ctx.index + 1)..nowIndex /\ ~BareAt(j) /\ LengthAt(j) = 0
              /\ ctx.state = "chunkFooter" /\ n = Len(ctx.lines) - 1
              /\ ctx' \in Members /\ ctx'.buf = Terminated(j).buf /\ ctx'.index = j
              /\ ctx'.state = "done" /\ Len(ctx'.lines) = n
              /\ \A k \in 1..n : ctx'.lines[k] = ctx.lines[k]
              /\ ctx'.chunks = ctx.chunks /\ ctx'.keepAlive = ctx.keepAlive
<1>1. PICK d : d = ctx'
  OBVIOUS
<1>2. ctx.state = "chunkFooter" /\ ctx.lines # <<>> /\ ctx \in Members /\ ctx.lines \in Seq(Piece)
  BY MembersFacts DEF EndFooter, Reads, LinesInv
<1>3. PICK j : j = LineFeed
  OBVIOUS
<1>4. /\ j \in (ctx.index + 1)..nowIndex /\ ~BareAt(j) /\ LengthAt(j) = 0
  BY <1>2, <1>3, LineFeedIs DEF EndFooter
<1>5. j \in Nat /\ j \in 1..nowIndex
  <2>1. ctx.index \in Nat /\ nowIndex \in Nat
    BY MembersFacts DEF nowIndex
  <2>2. QED
    BY <1>4, <2>1
<1>6. PICK n \in Nat : n = Len(ctx.lines) - 1
  <2>1. PICK k \in Nat : k = Len(ctx.lines) /\ k > 0
    BY <1>2
  <2>2. k - 1 \in Nat /\ k - 1 = Len(ctx.lines) - 1
    BY <2>1
  <2>3. QED
    BY <2>2
<1>7. PICK front : front = Front(ctx.lines)
  OBVIOUS
<1>8. front \in Seq(Piece) /\ Len(front) = n /\ \A k \in 1..n : front[k] = ctx.lines[k]
  BY <1>2, <1>6, <1>7, FrontIs
<1>9. PICK x \in Members : x = Terminated(j) /\ x.lines = ctx.lines /\ x.chunks = ctx.chunks
  BY <1>2, <1>5, TerminatedIs
<1>10. x.keepAlive = ctx.keepAlive
  BY <1>9, TerminatedKeeps
<1>11. d = [x EXCEPT !.lines = front, !.index = j, !.state = "done"]
  BY <1>1, <1>3, <1>7, <1>9 DEF EndFooter
<1>12. /\ d \in Members /\ d.buf = x.buf /\ d.lines = front /\ d.index = j
       /\ d.keepAlive = x.keepAlive /\ d.chunks = x.chunks /\ d.state = "done"
  BY <1>5, <1>8, <1>11 DEF Members, State
<1>13. /\ d.buf = Terminated(j).buf /\ Len(d.lines) = n
       /\ \A k \in 1..n : d.lines[k] = ctx.lines[k]
       /\ d.chunks = ctx.chunks /\ d.keepAlive = ctx.keepAlive
  BY <1>8, <1>9, <1>10, <1>12
<1>14. d \in Members /\ d.index = j /\ d.state = "done"
  BY <1>12
<1>15. QED
  BY <1>1, <1>2, <1>3, <1>4, <1>5, <1>6, <1>13, <1>14

\* The empty line after the footer.
LEMMA EndFooterParsed ==
    ASSUME NEW t, NEW b, ReadsOf(t, b), EndFooter
    PROVE  GoesOnWith(t, b)
<1>1. t \in Seq(Char) /\ b \in Nat /\ b + nowIndex <= Len(t) /\ MembersInv(ctx)
  BY DEF ReadsOf
<1>2. PICK d : d = ctx'
  OBVIOUS
<1>3. PICK j \in Nat, n \in Nat :
              /\ j = LineFeed /\ j \in (ctx.index + 1)..nowIndex /\ ~BareAt(j) /\ LengthAt(j) = 0
              /\ ctx.state = "chunkFooter" /\ n = Len(ctx.lines) - 1
              /\ d \in Members /\ d.buf = Terminated(j).buf /\ d.index = j
              /\ d.state = "done" /\ Len(d.lines) = n
              /\ \A k \in 1..n : d.lines[k] = ctx.lines[k]
              /\ d.chunks = ctx.chunks /\ d.keepAlive = ctx.keepAlive
  BY <1>1, <1>2, EndFooterDoes
<1>4. Parsed(ctx, t, b) /\ ctx \in Members
  BY <1>1, MembersFacts DEF ReadsOf
<1>5. PICK p \in 0..ctx.index, z \in 0..ctx.index, m \in 0..Len(ctx.lines) :
           FooterRead(ctx, t, b, p, z, m)
  BY <1>3, <1>4, FooterParsed
<1>6. PICK u \in Nat, w \in Nat : u = ctx.index /\ w = nowIndex /\ w = Len(ctx.buf) /\ u <= w
  BY <1>1, MembersFacts DEF nowIndex
<1>7. u < j /\ j <= w /\ p \in Nat /\ p <= u /\ j > 0 /\ z \in Nat /\ m \in Nat
  BY <1>3, <1>6
<1>8. OpenBlock(ctx, t, b, z, m)
  BY <1>5 DEF FooterRead
<1>9. /\ FirstStop(t, b + z + 1, b + j) /\ ~IsBare(t, b + z + 1, b + j)
      /\ LinesOf(t, b + z + 1, b + j) = Slices(ctx, m, n)
      /\ m \in 0..n
      /\ Raw(ctx, t, b, j)
  <2>1. /\ FirstStop(t, b + z + 1, b + j) /\ ~IsBare(t, b + z + 1, b + j)
        /\ LinesOf(t, b + z + 1, b + j) = Slices(ctx, m, Len(ctx.lines) - 1)
        /\ m \in 0..(Len(ctx.lines) - 1)
        /\ Raw(ctx, t, b, j)
    BY <1>1, <1>3, <1>7, <1>8, OpenEnds
  <2>2. QED
    BY <1>3, <2>1
<1>10. PICK i \in 1..(Len(t) + 1) : i = b + p + 1
  <2>1. PICK l \in Nat : l = Len(t) /\ b + w <= l
    BY <1>1, <1>6
  <2>2. QED
    BY <1>1, <1>6, <1>7, <2>1
<1>11. PICK r : r = ChunkedBody(t, b + p + 1)
  OBVIOUS
<1>12. r = WholeBody(<<>>, Slices(ctx, m, n), b + j + 1)
  <2>1. SizeLine(t, i, b + z, 0)
    BY <1>5, <1>10 DEF FooterRead
  <2>2. \A k : FirstStop(t, (b + z) + 1, k) /\ ~IsBare(t, (b + z) + 1, k) =>
                  ChunkedBody(t, i) = WholeBody(<<>>, LinesOf(t, (b + z) + 1, k), k + 1)
    BY <1>1, <2>1, LastSizeLine
  <2>3. PICK a : a = b + z + 1 /\ a = (b + z) + 1
    BY <1>1, <1>7
  <2>4. ChunkedBody(t, i) = WholeBody(<<>>, LinesOf(t, a, b + j), (b + j) + 1)
    BY <1>9, <2>2, <2>3
  <2>5. (b + j) + 1 = b + j + 1
    BY <1>1
  <2>6. QED
    BY <1>9, <1>10, <1>11, <2>3, <2>4, <2>5
<1>13. r.is = "done" /\ r.trailer = Slices(ctx, m, n) /\ r.content = <<>> /\ r.next = b + j + 1
  BY <1>12 DEF WholeBody
<1>14. /\ Content(ctx) \in Seq(Char)
       /\ RequestAt(t, b + 1) =
             WholeRequest(ctx, Slices(ctx, 0, m) \o Slices(ctx, m, n), Content(ctx) \o <<>>, b + j + 1)
  <2>1. HeadRead(ctx, t, b, m) /\ ChunksRead(ctx, t, b, p) /\ b + Len(ctx.buf) <= Len(t)
    BY <1>1, <1>5 DEF FooterRead, nowIndex
  <2>2. /\ Content(ctx) \in Seq(Char)
        /\ RequestAt(t, b + 1) =
              WholeRequest(ctx, Slices(ctx, 0, m) \o r.trailer, Content(ctx) \o r.content, r.next)
    <3>1. t \in Seq(Char) /\ b \in Nat /\ MembersInv(ctx)
      BY <1>1
    <3>2. /\ Content(ctx) \in Seq(Char)
          /\ r.is = "done" => RequestAt(t, b + 1) =
                WholeRequest(ctx, Slices(ctx, 0, m) \o r.trailer, Content(ctx) \o r.content, r.next)
      BY <1>11, <2>1, <3>1, ChunksSay
    <3>3. QED
      BY <1>13, <3>2
  <2>3. QED
    BY <1>13, <2>2
<1>15. Slices(ctx, 0, m) \o Slices(ctx, m, n) = Slices(ctx, 0, n)
  <2>1. m \in Nat /\ n \in Nat /\ m <= n
    BY <1>3, <1>7, <1>9
  <2>2. QED
    BY <2>1, SlicesJoin
<1>16. Content(ctx) \o <<>> = Content(ctx)
  BY <1>14, ConcatEmptySeq
<1>17. Agree(ctx, d, ctx.index - 2) /\ ctx.index - 2 \in Int
  <2>1. /\ j \in (ctx.index + 1)..nowIndex /\ d \in Members /\ d.buf = Terminated(j).buf
        /\ MembersInv(ctx)
    BY <1>1, <1>3
  <2>2. Agree(ctx, d, ctx.index - 2)
    BY <2>1, TerminatedSame
  <2>3. ctx.index - 2 \in Int
    BY <1>6
  <2>4. QED
    BY <2>2, <2>3
<1>18. Slices(ctx, 0, n) = Slices(d, 0, n)
  <2>1. SameLines(ctx, d, 0, n, ctx.index - 2)
    <3>1. n < Len(ctx.lines) /\ n <= Len(ctx.lines)
      <4>1. n = Len(ctx.lines) - 1
        BY <1>3
      <4>2. Len(ctx.lines) \in Nat
        BY <1>4 DEF Members
      <4>3. QED
        BY <4>1, <4>2
    <3>2. MembersInv(ctx) /\ 0 \in Nat /\ n \in Nat /\ \A k \in 1..n : d.lines[k] = ctx.lines[k]
      BY <1>1, <1>3
    <3>3. QED
      BY <3>1, <3>2, EndedSame
  <2>2. QED
    BY <1>3, <1>4, <1>17, <2>1, SlicesSame
<1>19. \A a \in 1..Len(ctx.chunks) :
          /\ ctx.chunks[a].first \in Nat /\ ctx.chunks[a].length \in Nat
          /\ ctx.chunks[a].first + ctx.chunks[a].length + 2 <= p
  <2>1. ctx.chunks \in Seq(Piece)
    BY <1>1, MembersFacts
  <2>2. \A a \in 1..Len(ctx.chunks) : ctx.chunks[a] \in Piece
    BY <2>1
  <2>3. \A a \in 1..Len(ctx.chunks) : ctx.chunks[a].first + ctx.chunks[a].length + 2 <= p
    BY <1>5 DEF FooterRead, ChunksRead
  <2>4. QED
    BY <2>2, <2>3 DEF Piece
<1>20. Content(ctx) = Content(d)
  <2>1. ChunksIn(ctx, ctx.index - 2)
    <3>1. SUFFICES ASSUME NEW a \in 1..Len(ctx.chunks)
                   PROVE  ctx.chunks[a].first + ctx.chunks[a].length <= ctx.index - 2
      BY DEF ChunksIn
    <3>2. PICK x \in Nat, y \in Nat : x = ctx.chunks[a].first /\ y = ctx.chunks[a].length
      BY <1>19
    <3>3. x + y + 2 <= p
      BY <1>19, <3>2
    <3>4. p \in Nat /\ p <= u
      BY <1>7
    <3>5. x + y <= u - 2
      BY <3>3, <3>4, EndsBefore
    <3>6. QED
      BY <1>6, <3>2, <3>5
  <2>2. QED
    BY <1>3, <1>4, <1>17, <2>1, ContentSame
<1>21. ChunksIn(d, d.index)
  <2>1. SUFFICES ASSUME NEW a \in 1..Len(ctx.chunks)
                 PROVE  ctx.chunks[a].first + ctx.chunks[a].length <= j
    BY <1>3 DEF ChunksIn
  <2>2. PICK x \in Nat, y \in Nat : x = ctx.chunks[a].first /\ y = ctx.chunks[a].length
    BY <1>19
  <2>3. x + y + 2 <= p
    BY <1>19, <2>2
  <2>4. p \in Nat /\ p <= j
    BY <1>7
  <2>5. x + y <= j
    BY <2>3, <2>4, EndsBefore
  <2>6. QED
    BY <2>2, <2>5
<1>22. Raw(d, t, b, j)
  <2>1. j \in 0..j
    BY <1>3
  <2>2. QED
    BY <1>1, <1>3, <1>9, <2>1, RawBehind
<1>23. RequestAt(t, b + 1) = WholeRequest(d, Slices(d, 0, Len(d.lines)), Content(d), b + d.index + 1)
  <2>1. RequestAt(t, b + 1) = WholeRequest(ctx, Slices(ctx, 0, n), Content(ctx), b + j + 1)
    BY <1>14, <1>15, <1>16
  <2>2. WholeRequest(ctx, Slices(ctx, 0, n), Content(ctx), b + j + 1) =
        WholeRequest(d, Slices(ctx, 0, n), Content(ctx), b + j + 1)
    BY <1>3 DEF WholeRequest
  <2>3. QED
    BY <1>3, <1>18, <1>20, <2>1, <2>2
<1>24. Parsed(d, t, b)
  BY <1>1, <1>3, <1>21, <1>22, <1>23, DoneParsed
<1>25. QED
  BY <1>2, <1>24 DEF GoesOnWith

-----------------------------------------------------------------------------
(* The invariant.                                                           *)

\* A turn of analysis() that changes the context.
Turn ==
    \/ ReadStart
    \/ \E state \in {"header", "chunkFooter"} : LineGoesOn(state) \/ NextLine(state)
    \/ \E state \in {"header", "chunkHeader", "chunkFooter"} : BareLineFeed(state)
    \/ EndHeader \/ EndBody \/ SizeGoesOn \/ EndSize \/ EndChunk \/ EndFooter

\* And one that changes the stage.
Turned == Decided \/ NeedsMore \/ BodyGoesOn \/ ChunkGoesOn

\* There are no other steps in analysis().
LEMMA Turns == Analysis => (Turn /\ Stay) \/ (Turned /\ UNCHANGED <<got, ctx, taken>>)
BY DEF Analysis, Turn, Turned, Decided, NeedsMore, BodyGoesOn, ChunkGoesOn, ReadStart, LineGoesOn,
       NextLine, BareLineFeed, EndHeader, EndBody, SizeGoesOn, EndSize, EndChunk, EndFooter,
       Stay, Malform

\* Every turn goes on with the input.
LEMMA TurnParsed ==
    ASSUME NEW t, NEW b, ReadsOf(t, b), Turn
    PROVE  GoesOnWith(t, b)
<1>1. CASE ReadStart
  BY <1>1, ReadStartParsed
<1>2. CASE \E state \in {"header", "chunkFooter"} : LineGoesOn(state) \/ NextLine(state)
  BY <1>2, LineGoesOnParsed, NextLineParsed
<1>3. CASE \E state \in {"header", "chunkHeader", "chunkFooter"} : BareLineFeed(state)
  BY <1>3, BareLineFeedParsed
<1>4. CASE EndHeader \/ EndBody
  BY <1>4, EndHeaderParsed, EndBodyParsed
<1>5. CASE SizeGoesOn \/ EndSize
  BY <1>5, SizeGoesOnParsed, EndSizeParsed
<1>6. CASE EndChunk \/ EndFooter
  BY <1>6, EndChunkParsed, EndFooterParsed
<1>7. QED
  BY <1>1, <1>2, <1>3, <1>4, <1>5, <1>6 DEF Turn

\* And leaves the data that was received where it is.
LEMMA TurnKeeps ==
    ASSUME MembersInv(ctx), Turn
    PROVE  Keeps
<1>1. CASE ReadStart
  BY <1>1, ReadStartKeeps
<1>2. CASE \E state \in {"header", "chunkFooter"} : LineGoesOn(state) \/ NextLine(state)
  BY <1>2, LineGoesOnKeeps, NextLineKeeps
<1>3. CASE \E state \in {"header", "chunkHeader", "chunkFooter"} : BareLineFeed(state)
  BY <1>3, MalformKeeps DEF BareLineFeed
<1>4. CASE EndHeader \/ EndBody
  BY <1>4, EndHeaderKeeps, EndBodyKeeps
<1>5. CASE SizeGoesOn \/ EndSize
  BY <1>5, SizeGoesOnKeeps, EndSizeKeeps
<1>6. CASE EndChunk \/ EndFooter
  BY <1>6, EndChunkKeeps, EndFooterKeeps
<1>7. QED
  BY <1>1, <1>2, <1>3, <1>4, <1>5, <1>6 DEF Turn

\* Where the input from b on is not a request, its requests are those before b.
LEMMA InStepEnds ==
    ASSUME NEW t \in Seq(Char), NEW b \in Nat, b <= Len(t), NEW q, Len(q) \in Nat, InStep(t, q, b),
           RequestAt(t, b + 1).is # "done"
    PROVE  /\ Meaning(t).then = RequestAt(t, b + 1).is
           /\ Len(Meaning(t).requests) = Len(q)
           /\ \A k \in 1..Len(q) : Meaning(t).requests[k] = RequestOf(q[k])
<1>1. b + 1 \in 1..(Len(t) + 1)
  OBVIOUS
<1>2. PICK rest : rest = MeaningFrom(t, b + 1)
  OBVIOUS
<1>3. rest = [requests |-> <<>>, then |-> RequestAt(t, b + 1).is]
  BY <1>1, <1>2, MeaningIs
<1>4. rest.then = RequestAt(t, b + 1).is /\ Len(rest.requests) = 0
  BY <1>3
<1>5. PICK all : all = Meaning(t)
  OBVIOUS
<1>6. /\ all.then = rest.then /\ Len(all.requests) = Len(q) + Len(rest.requests)
      /\ \A k \in 1..Len(q) : all.requests[k] = RequestOf(q[k])
  BY <1>2, <1>5 DEF InStep
<1>7. QED
  BY <1>4, <1>5, <1>6

\* There the parser and the protocol part.
LEMMA PartsHere ==
    ASSUME NEW t \in Seq(Char), NEW b \in Nat, b <= Len(t), NEW q, Len(q) \in Nat, InStep(t, q, b),
           RequestAt(t, b + 1) = Unspecified
    PROVE  Lost(t, q)
<1>1. RequestAt(t, b + 1).is = "unspecified"
  BY DEF Unspecified
<1>2. PICK all : all = Meaning(t)
  OBVIOUS
<1>3. /\ all.then = "unspecified" /\ Len(all.requests) = Len(q)
      /\ \A k \in 1..Len(q) : all.requests[k] = RequestOf(q[k])
  BY <1>1, <1>2, InStepEnds
<1>4. QED
  BY <1>2, <1>3 DEF Lost

\* Lengths of the context's data.
LEMMA BaseIs ==
    ASSUME ContextInv, nowIndex <= Len(got)
    PROVE  /\ base \in Nat /\ base + nowIndex = Len(got) /\ nowIndex \in Nat /\ Len(got) \in Nat
           /\ Len(taken) \in Nat
<1>1. MembersInv(ctx) /\ got \in Seq(STRING) /\ taken \in Seq(Members)
  BY DEF ContextInv
<1>2. nowIndex \in Nat
  BY <1>1, MembersFacts DEF nowIndex
<1>3. PICK l \in Nat : l = Len(got)
  BY <1>1
<1>4. QED
  BY <1>1, <1>2, <1>3 DEF base

\* A turn of analysis() keeps what is known of every input.
LEMMA TurnSyntax == ContextInv /\ SyntaxInv /\ Analysis => SyntaxInv'
<1> SUFFICES ASSUME ContextInv, SyntaxInv, Analysis
             PROVE  SyntaxInv'
  OBVIOUS
<1>1. MembersInv(ctx) /\ nowIndex <= Len(got)
  BY DEF ContextInv, SyntaxInv
<1>2. PICK b \in Nat : b = base /\ b + nowIndex = Len(got)
  BY <1>1, BaseIs
<1>3. nowIndex \in Nat /\ Len(got) \in Nat /\ Len(taken) \in Nat
  BY <1>1, BaseIs
<1>4. CASE Turn /\ Stay
  <2>1. stage = "analysis"
    BY <1>4 DEF Turn, ReadStart, LineGoesOn, NextLine, BareLineFeed, EndHeader, EndBody,
                SizeGoesOn, EndSize, EndChunk, EndFooter, Reads
  <2>2. got' = got /\ taken' = taken /\ stage' = "analysis"
    BY <1>4, <2>1 DEF Stay
  <2>3. nowIndex' = nowIndex
    BY <1>1, <1>4, TurnKeeps DEF Keeps, nowIndex
  <2>4. base' = b
    BY <1>2, <2>2, <2>3 DEF base
  <2>5. ASSUME NEW t \in Seq(Char) PROVE SyntaxOf(t)'
    <3>1. SUFFICES ASSUME Begins(t, got)
                   PROVE  Lost(t, taken) \/ (InStep(t, taken, b) /\ Parsed(ctx', t, b))
      BY <2>2, <2>4 DEF SyntaxOf
    <3>2. Lost(t, taken) \/ (InStep(t, taken, b) /\ Parsed(ctx, t, b))
      BY <1>2, <3>1 DEF SyntaxInv, SyntaxOf
    <3>3. CASE InStep(t, taken, b) /\ Parsed(ctx, t, b)
      <4>1. Len(got) <= Len(t) /\ b <= Len(t)
        BY <1>2, <1>3, <3>1 DEF Begins
      <4>2. ReadsOf(t, b)
        BY <1>1, <1>2, <3>3, <4>1 DEF ReadsOf
      <4>3. GoesOnWith(t, b)
        BY <1>4, <4>2, TurnParsed
      <4>4. CASE RequestAt(t, b + 1) = Unspecified
        BY <1>3, <3>3, <4>1, <4>4, PartsHere
      <4>5. QED
        BY <3>3, <4>3, <4>4 DEF GoesOnWith
    <3>4. QED
      BY <3>2, <3>3
  <2>6. (nowIndex <= Len(got))'
    BY <1>1, <2>2, <2>3
  <2>7. QED
    BY <2>2, <2>5, <2>6 DEF SyntaxInv
<1>5. CASE Turned /\ UNCHANGED <<got, ctx, taken>>
  <2>1. nowIndex' = nowIndex /\ base' = base
    BY <1>5 DEF nowIndex, base
  <2>2. \A t \in Seq(Char) : SyntaxOf(t)'
    BY <1>5, <2>1 DEF SyntaxInv, SyntaxOf
  <2>3. Short
    <3>1. ctx.index <= nowIndex /\ ctx.index \in Nat
      BY <1>1, MembersFacts DEF nowIndex
    <3>2. QED
      BY <1>3, <1>5, <3>1 DEF Turned, Decided, NeedsMore, BodyGoesOn, ChunkGoesOn, Reads, Short
  <2>4. Short'
    BY <1>5, <2>1, <2>3 DEF Short, ChunkLength
  <2>5. QED
    BY <1>1, <1>5, <2>1, <2>2, <2>4 DEF SyntaxInv
<1>6. QED
  BY <1>4, <1>5, Turns

\* What a context has read is the same in another with the same data up to the index.
LEMMA RequestSame ==
    ASSUME NEW c, MembersInv(c), NEW d \in Members, c.state = "done", Agree(c, d, c.index - 2),
           Agree(c, d, c.index), ChunksIn(c, c.index), d.lines = c.lines, d.chunks = c.chunks,
           d.keepAlive = c.keepAlive
    PROVE  RequestOf(c) = RequestOf(d)
<1>1. c \in Members /\ c.index \in Nat /\ c.index - 2 \in Int /\ c.index \in Int
  BY MembersFacts
<1>2. PICK n \in Nat : n = Len(c.lines)
  BY <1>1 DEF Members
<1>3. Slices(c, 0, n) = Slices(d, 0, n)
  <2>1. SameLines(c, d, 0, n, c.index - 2)
    <3>1. /\ n <= Len(c.lines) /\ c.state \notin {"header", "chunkFooter", "bad"}
          /\ \A k \in 1..n : d.lines[k] = c.lines[k]
      BY <1>2
    <3>2. QED
      BY <1>2, <3>1, EndedSame
  <2>2. QED
    BY <1>1, <2>1, SlicesSame
<1>4. Content(c) = Content(d)
  BY <1>1, ContentSame
<1>5. RequestOf(c) = [lines |-> Slices(c, 0, n), keepAlive |-> c.keepAlive, content |-> Content(c)]
  BY <1>1, <1>2, RequestIs
<1>6. RequestOf(d) = [lines |-> Slices(d, 0, n), keepAlive |-> d.keepAlive, content |-> Content(d)]
  BY <1>2, RequestIs
<1>7. QED
  BY <1>3, <1>4, <1>5, <1>6

\* The context after a read, the data of which is that of t.
ReceivedFrom(d, t, b) ==
    /\ Agree(ctx, d, nowIndex) /\ nowIndex <= Len(d.buf)
    /\ \A i \in (nowIndex + 1)..Len(d.buf) : d.buf[i] = t[b + i]
    /\ d.index = ctx.index /\ d.state = ctx.state /\ d.lines = ctx.lines
    /\ d.headerSize = ctx.headerSize /\ d.chunks = ctx.chunks
    /\ d.keepAlive = ctx.keepAlive /\ d.chunked = ctx.chunked
    /\ d.contentLength = ctx.contentLength /\ d.chunkSize = ctx.chunkSize
    /\ d.sizeStart = ctx.sizeStart /\ d.sizeDone = ctx.sizeDone

\* It says of t what it did.
LEMMA MoreParsed ==
    ASSUME MembersInv(ctx), NEW t, NEW b \in Nat, Parsed(ctx, t, b),
           NEW d \in Members, ReceivedFrom(d, t, b)
    PROVE  Parsed(d, t, b)
<1>1. PICK u \in Nat, w \in Nat, n \in Nat :
         /\ u = ctx.index /\ w = nowIndex /\ w = Len(ctx.buf) /\ u <= w /\ n = Len(ctx.lines)
  BY MembersFacts DEF nowIndex
<1>2. /\ ctx \in Members /\ ctx.headerSize \in Nat /\ ctx.headerSize <= u
  BY <1>1, MembersFacts
<1>3. /\ Agree(ctx, d, w) /\ w <= Len(d.buf)
      /\ \A i \in (w + 1)..Len(d.buf) : d.buf[i] = t[b + i]
      /\ d.index = u /\ d.state = ctx.state /\ d.lines = ctx.lines
      /\ d.headerSize = ctx.headerSize /\ d.chunks = ctx.chunks
      /\ d.keepAlive = ctx.keepAlive /\ d.chunked = ctx.chunked
      /\ d.contentLength = ctx.contentLength /\ d.chunkSize = ctx.chunkSize
      /\ d.sizeStart = ctx.sizeStart /\ d.sizeDone = ctx.sizeDone
  BY <1>1 DEF ReceivedFrom
<1>4. Agree(ctx, d, ctx.index - 2) /\ Agree(ctx, d, ctx.index)
  <2>1. \A i \in 1..w : ctx.buf[i] = d.buf[i]
    BY <1>3 DEF Agree
  <2>2. PICK l \in Nat : l = Len(d.buf) /\ w <= l
    BY <1>3 DEF Members
  <2>3. u - 2 <= w /\ u - 2 <= l /\ u <= l /\ \A i \in 1..(u - 2) : i \in 1..w
    BY <1>1, <2>2
  <2>4. \A i \in 1..u : i \in 1..w
    BY <1>1
  <2>5. QED
    BY <1>1, <2>1, <2>2, <2>3, <2>4 DEF Agree
<1>5. ASSUME NEW p \in Nat, Raw(ctx, t, b, p) PROVE Raw(d, t, b, p)
  <2>1. SUFFICES ASSUME NEW i \in (p + 1)..Len(d.buf) PROVE d.buf[i] = t[b + i]
    BY DEF Raw
  <2>2. CASE i <= w
    <3>1. i \in (p + 1)..Len(ctx.buf) /\ i \in 1..w
      BY <1>1, <2>2
    <3>2. d.buf[i] = ctx.buf[i] /\ ctx.buf[i] = t[b + i]
      BY <1>3, <1>5, <3>1 DEF Agree, Raw
    <3>3. QED
      BY <3>2
  <2>3. CASE i > w
    <3>1. i \in (w + 1)..Len(d.buf)
      BY <1>1, <2>3
    <3>2. QED
      BY <1>3, <3>1
  <2>4. QED
    BY <1>1, <2>2, <2>3
<1>6. ASSUME NEW m, HeadRead(ctx, t, b, m),
             m < Len(ctx.lines) \/ ctx.state \notin {"header", "chunkFooter", "bad"}
      PROVE  HeadRead(d, t, b, m)
  <2>1. m \in 0..n
    BY <1>1, <1>6 DEF HeadRead
  <2>2. m <= Len(d.lines) /\ \A k \in 1..m : d.lines[k] = ctx.lines[k]
    BY <1>1, <1>3, <2>1
  <2>3. QED
    BY <1>3, <1>4, <1>6, <2>2, HeadSame
<1>7. ASSUME NEW p, ChunksRead(ctx, t, b, p) PROVE ChunksRead(d, t, b, p)
  <2>1. ctx.index <= d.index
    BY <1>1, <1>3
  <2>2. QED
    BY <1>3, <1>4, <1>7, <2>1, ChunksSame
<1>8. ASSUME NEW z, NEW m, OpenBlock(ctx, t, b, z, m), ctx.state \in {"header", "chunkFooter"}
      PROVE  OpenBlock(d, t, b, z, m) /\ m < Len(ctx.lines)
  <2>1. PICK f \in Nat, o \in Nat :
              /\ o = Len(ctx.lines) /\ o > 0 /\ f = ctx.lines[o].first
              /\ m \in 0..(o - 1) /\ z \in 0..f /\ f <= ctx.index
              /\ f = z \/ t[b + f] = LF
              /\ NoFeed(t, b + f + 1, b + ctx.index) /\ NoStop(t, b + z + 1, b + ctx.index)
              /\ LinesOf(t, b + z + 1, b + f + 2) = Slices(ctx, m, o - 1)
              /\ Raw(ctx, t, b, f)
    BY <1>8, OpenIs
  <2>2. PICK k \in Nat : k = o - 1 /\ m \in 0..k /\ m \in Nat
    <3>1. o > 0 /\ m \in 0..(o - 1)
      BY <2>1
    <3>2. o - 1 \in Nat
      BY <3>1
    <3>3. QED
      BY <3>1, <3>2
  <2>3. SameLines(ctx, d, m, k, ctx.index - 2)
    <3>1. k < Len(ctx.lines) /\ k <= Len(ctx.lines)
      <4>1. o = Len(ctx.lines) /\ o \in Nat /\ k = o - 1
        BY <2>1, <2>2
      <4>2. QED
        BY <4>1
    <3>2. \A i \in 1..k : d.lines[i] = ctx.lines[i]
      <4>1. d.lines = ctx.lines
        BY <1>3
      <4>2. QED
        BY <4>1
    <3>3. QED
      BY <2>2, <3>1, <3>2, EndedSame
  <2>4. Slices(ctx, m, k) = Slices(d, m, k)
    <3>1. ctx.index - 2 \in Int
      BY <1>1
    <3>2. QED
      BY <1>2, <1>4, <2>3, <3>1, SlicesSame
  <2>5. Raw(d, t, b, f)
    BY <1>5, <2>1
  <2>6. OpenBlock(d, t, b, z, m)
    BY <1>1, <1>3, <2>1, <2>2, <2>4, <2>5 DEF OpenBlock
  <2>7. QED
    BY <2>1, <2>6
<1>9. CASE ctx.state = "start"
  <2>1. u = 0 /\ Fresh(ctx) /\ Raw(ctx, t, b, 0)
    BY <1>1, <1>9 DEF Parsed
  <2>2. Fresh(d) /\ Raw(d, t, b, 0)
    BY <1>3, <1>5, <2>1 DEF Fresh
  <2>3. QED
    BY <1>3, <1>9, <2>1, <2>2 DEF Parsed
<1>10. CASE ctx.state = "header"
  <2>1. Fresh(ctx) /\ OpenBlock(ctx, t, b, 0, 0)
    BY <1>10 DEF Parsed
  <2>2. Fresh(d) /\ OpenBlock(d, t, b, 0, 0)
    BY <1>3, <1>8, <1>10, <2>1 DEF Fresh
  <2>3. QED
    BY <1>3, <1>10, <2>2 DEF Parsed
<1>11. CASE ctx.state = "body"
  <2>1. /\ HeadRead(ctx, t, b, n) /\ ~ctx.chunked /\ ctx.contentLength > 0
        /\ u = ctx.headerSize /\ ctx.chunks = <<>> /\ Raw(ctx, t, b, u)
    BY <1>1, <1>11 DEF Parsed
  <2>2. HeadRead(d, t, b, n) /\ Raw(d, t, b, u)
    BY <1>5, <1>6, <1>11, <2>1
  <2>3. n = Len(d.lines) /\ ~d.chunked /\ d.contentLength > 0 /\ d.index = d.headerSize
        /\ d.chunks = <<>>
    BY <1>1, <1>3, <2>1
  <2>4. QED
    BY <1>3, <1>11, <2>2, <2>3 DEF Parsed
<1>12. CASE ctx.state = "chunkHeader"
  <2>1. PICK p \in 0..ctx.index :
             /\ HeadRead(ctx, t, b, Len(ctx.lines)) /\ ChunksRead(ctx, t, b, p)
             /\ NoFeed(t, b + p + 1, b + ctx.index) /\ Raw(ctx, t, b, p) /\ ctx.buf[p] # CR
             /\ SizeRead(ctx, SubSeq(t, b + p + 1, b + ctx.index))
    BY <1>12 DEF Parsed
  <2>2. p \in Nat /\ p <= u
    BY <1>1, <2>1
  <2>3. HeadRead(d, t, b, Len(d.lines)) /\ ChunksRead(d, t, b, p) /\ Raw(d, t, b, p)
    BY <1>3, <1>5, <1>6, <1>7, <1>12, <2>1, <2>2
  <2>4. d.buf[p] # CR
    <3>1. ctx.headerSize > 0
      <4>1. b + ctx.headerSize \in (b + 1)..Len(t)
        BY <2>1 DEF HeadRead, FirstStop
      <4>2. b + 1 <= b + ctx.headerSize
        BY <1>2, <4>1
      <4>3. QED
        BY <1>2, <4>2
    <3>2. p >= ctx.headerSize
      BY <1>1, <1>2, <2>1 DEF ChunksRead
    <3>3. p \in 1..w
      BY <1>1, <1>2, <2>2, <3>1, <3>2
    <3>4. QED
      BY <1>3, <2>1, <3>3 DEF Agree
  <2>5. SizeRead(d, SubSeq(t, b + p + 1, b + d.index)) /\ NoFeed(t, b + p + 1, b + d.index)
    BY <1>1, <1>3, <2>1, SizeReadSame
  <2>6. p \in 0..d.index
    BY <1>1, <1>3
  <2>7. QED
    BY <1>3, <1>12, <2>3, <2>4, <2>5, <2>6 DEF Parsed
<1>13. CASE ctx.state = "chunkBody"
  <2>1. PICK p \in 0..ctx.index :
             /\ HeadRead(ctx, t, b, Len(ctx.lines)) /\ ChunksRead(ctx, t, b, p)
             /\ SizeLine(t, b + p + 1, b + ctx.index, ctx.chunkSize)
             /\ ctx.chunkSize > 0 /\ ctx.chunkSize + 2 < Word
             /\ Raw(ctx, t, b, ctx.index)
    BY <1>13 DEF Parsed
  <2>2. HeadRead(d, t, b, Len(d.lines)) /\ ChunksRead(d, t, b, p) /\ Raw(d, t, b, d.index)
    BY <1>1, <1>3, <1>5, <1>6, <1>7, <1>13, <2>1
  <2>3. /\ SizeLine(t, b + p + 1, b + d.index, d.chunkSize)
        /\ d.chunkSize > 0 /\ d.chunkSize + 2 < Word /\ p \in 0..d.index
    BY <1>1, <1>3, <2>1
  <2>4. QED
    BY <1>3, <1>13, <2>2, <2>3 DEF Parsed
<1>14. CASE ctx.state = "chunkFooter"
  <2>1. PICK p \in 0..ctx.index, z \in 0..ctx.index, m \in 0..Len(ctx.lines) :
           FooterRead(ctx, t, b, p, z, m)
    BY <1>14, FooterParsed
  <2>2. OpenBlock(d, t, b, z, m) /\ m < Len(ctx.lines)
    BY <1>8, <1>14, <2>1 DEF FooterRead
  <2>3. HeadRead(d, t, b, m) /\ ChunksRead(d, t, b, p)
    BY <1>6, <1>7, <2>1, <2>2 DEF FooterRead
  <2>4. FooterRead(d, t, b, p, z, m)
    BY <2>1, <2>2, <2>3 DEF FooterRead
  <2>5. p \in 0..d.index /\ z \in 0..d.index /\ m \in 0..Len(d.lines)
    BY <1>1, <1>3
  <2>6. QED
    BY <1>3, <1>14, <2>4, <2>5, FooterParsed
<1>15. CASE ctx.state = "done"
  <2>1. /\ RequestAt(t, b + 1) = [is |-> "done", next |-> b + ctx.index + 1,
                                  request |-> RequestOf(ctx)]
        /\ ChunksIn(ctx, ctx.index) /\ Raw(ctx, t, b, ctx.index)
    BY <1>15 DEF Parsed, ChunksIn
  <2>2. RequestOf(ctx) = RequestOf(d)
    BY <1>3, <1>4, <1>15, <2>1, RequestSame
  <2>3. Raw(d, t, b, d.index)
    BY <1>1, <1>3, <1>5, <2>1
  <2>4. ChunksIn(d, d.index)
    BY <1>1, <1>3, <2>1 DEF ChunksIn
  <2>5. RequestAt(t, b + 1) = [is |-> "done", next |-> b + d.index + 1, request |-> RequestOf(d)]
    BY <1>1, <1>3, <2>1, <2>2
  <2>6. QED
    BY <1>3, <1>15, <2>3, <2>4, <2>5 DEF Parsed, ChunksIn
<1>16. CASE ctx.state = "bad"
  BY <1>3, <1>16 DEF Parsed
<1>17. QED
  <2>1. ctx.state \in State
    BY MembersFacts
  <2>2. QED
    BY <1>9, <1>10, <1>11, <1>12, <1>13, <1>14, <1>15, <1>16, <2>1 DEF State

\* What begins with more begins with less, and goes on with what is added.
LEMMA BeginsMore ==
    ASSUME NEW s \in Seq(STRING), NEW input \in Seq(STRING), NEW t \in Seq(Char),
           Begins(t, s \o input)
    PROVE  /\ Begins(t, s)
           /\ \A k \in 1..Len(input) : t[Len(s) + k] = input[k]
<1>1. PICK m \in Nat, n \in Nat, l \in Nat : m = Len(s) /\ n = Len(input) /\ l = Len(t)
  OBVIOUS
<1>2. PICK q : q = s \o input
  OBVIOUS
<1>3. /\ Len(q) = m + n /\ \A k \in 1..m : q[k] = s[k]
      /\ \A k \in (m + 1)..(m + n) : q[k] = input[k - m]
  BY <1>1, <1>2, ConcatProperties
<1>4. m + n <= l /\ \A k \in 1..(m + n) : t[k] = q[k]
  BY <1>1, <1>2, <1>3 DEF Begins
<1>5. m <= l
  BY <1>4
<1>6. ASSUME NEW k \in 1..m PROVE t[k] = s[k]
  <2>1. k \in 1..(m + n)
    OBVIOUS
  <2>2. QED
    BY <1>3, <1>4, <2>1
<1>7. ASSUME NEW k \in 1..n PROVE t[m + k] = input[k]
  <2>1. PICK i \in (m + 1)..(m + n) : i = m + k /\ i - m = k /\ i \in 1..(m + n)
    OBVIOUS
  <2>2. QED
    BY <1>3, <1>4, <2>1
<1>8. QED
  BY <1>1, <1>5, <1>6, <1>7 DEF Begins

\* A read keeps what is known of every input, and there is one input less to know of.
LEMMA ReceiveSyntax == ContextInv /\ SyntaxInv /\ Receive => SyntaxInv'
<1> SUFFICES ASSUME ContextInv, SyntaxInv, Receive
             PROVE  SyntaxInv'
  OBVIOUS
<1>1. /\ MembersInv(ctx) /\ SizeInv /\ nowIndex <= Len(got)
      /\ start \in Seq(STRING) /\ got \in Seq(STRING)
  BY DEF ContextInv, SyntaxInv
<1>2. PICK b \in Nat : b = base /\ b + nowIndex = Len(got)
  BY <1>1, BaseIs
<1>3. PICK w \in Nat : w = nowIndex /\ w = Len(ctx.buf)
  BY <1>1, MembersFacts DEF nowIndex
<1>4. PICK input \in Arriving(Prepared - nowIndex) :
         got' = got \o input /\ ctx' = [ctx EXCEPT !.buf = @ \o input]
  BY DEF Receive
<1>5. input \in Seq(STRING)
  BY <1>1, ArrivingFits
<1>6. input \in Seq(Char)
  BY <1>5, SeqMonotonic DEF Char
<1>7. PICK n \in Nat : n = Len(input)
  BY <1>5
<1>8. PICK buf : buf = ctx.buf \o input
  OBVIOUS
<1>9. /\ buf \in Seq(Char) /\ Len(buf) = w + n
      /\ \A i \in 1..w : buf[i] = ctx.buf[i]
      /\ \A i \in (w + 1)..(w + n) : buf[i] = input[i - w]
  BY <1>1, <1>3, <1>6, <1>7, <1>8, MembersFacts, ConcatProperties
<1>10. PICK d : d = ctx'
  OBVIOUS
<1>11. /\ d \in Members /\ d.buf = buf
       /\ d.index = ctx.index /\ d.state = ctx.state /\ d.lines = ctx.lines
       /\ d.headerSize = ctx.headerSize /\ d.chunks = ctx.chunks
       /\ d.keepAlive = ctx.keepAlive /\ d.chunked = ctx.chunked
       /\ d.contentLength = ctx.contentLength /\ d.chunkSize = ctx.chunkSize
       /\ d.sizeStart = ctx.sizeStart /\ d.sizeDone = ctx.sizeDone
  <2>1. ctx \in Members /\ d = [ctx EXCEPT !.buf = buf]
    BY <1>1, <1>4, <1>8, <1>10, MembersFacts
  <2>2. QED
    BY <1>9, <2>1 DEF Members
<1>12. nowIndex' = w + n /\ Len(got') = Len(got) + n
  <2>1. Len(got \o input) = Len(got) + n
    BY <1>1, <1>5, <1>7, ConcatProperties
  <2>2. QED
    BY <1>4, <1>9, <1>10, <1>11, <2>1 DEF nowIndex
<1>13. base' = b
  <2>1. PICK l \in Nat : l = Len(got) /\ b + w = l
    BY <1>1, <1>2, <1>3
  <2>2. (l + n) - (w + n) = b
    BY <2>1
  <2>3. QED
    BY <1>12, <2>1, <2>2 DEF base
<1>14. ASSUME NEW t \in Seq(Char) PROVE SyntaxOf(t)'
  <2>1. taken' = taken /\ ctx' = d
    BY <1>10 DEF Receive
  <2>2. SUFFICES ASSUME Begins(t, got \o input)
                 PROVE  Lost(t, taken) \/ (InStep(t, taken, b) /\ Parsed(d, t, b))
    BY <1>4, <1>13, <2>1 DEF SyntaxOf
  <2>3. Begins(t, got) /\ \A k \in 1..n : t[Len(got) + k] = input[k]
    BY <1>1, <1>5, <1>7, <2>2, BeginsMore
  <2>4. Lost(t, taken) \/ (InStep(t, taken, b) /\ Parsed(ctx, t, b))
    BY <1>2, <2>3 DEF SyntaxInv, SyntaxOf
  <2>5. ReceivedFrom(d, t, b)
    <3>1. Agree(ctx, d, w)
      <4>1. w <= w + n
        OBVIOUS
      <4>2. QED
        BY <1>3, <1>9, <1>11, <4>1 DEF Agree
    <3>2. ASSUME NEW i \in (w + 1)..(w + n) PROVE buf[i] = t[b + i]
      <4>1. PICK k \in 1..n : k = i - w /\ b + i = (b + w) + k
        OBVIOUS
      <4>2. t[b + i] = input[k]
        BY <1>2, <1>3, <2>3, <4>1
      <4>3. QED
        BY <1>9, <4>1, <4>2
    <3>3. w <= Len(d.buf)
      BY <1>9, <1>11
    <3>4. QED
      BY <1>3, <1>9, <1>11, <3>1, <3>2, <3>3 DEF ReceivedFrom
  <2>6. CASE Parsed(ctx, t, b)
    BY <1>1, <1>11, <2>4, <2>5, <2>6, MoreParsed
  <2>7. QED
    BY <2>4, <2>6
<1>15. (nowIndex <= Len(got))'
  <2>1. PICK l \in Nat : l = Len(got) /\ w <= l
    BY <1>1, <1>3
  <2>2. w + n <= l + n
    BY <2>1
  <2>3. QED
    BY <1>12, <2>1, <2>2
<1>16. stage' = "analysis"
  BY DEF Receive
<1>17. QED
  BY <1>14, <1>15, <1>16 DEF SyntaxInv

\* A step of message() that leaves the data and the context alone.
LEMMA IdleSyntax ==
    SyntaxInv /\ (Refuse \/ CloseConnection \/ UNCHANGED contextVars) => SyntaxInv'
<1> SUFFICES ASSUME SyntaxInv, Refuse \/ CloseConnection \/ UNCHANGED contextVars
             PROVE  SyntaxInv'
  OBVIOUS
<1>1. got' = got /\ ctx' = ctx /\ taken' = taken
  BY DEF Refuse, CloseConnection, contextVars
<1>2. stage' # "analysis" => stage # "analysis"
  BY DEF Refuse, CloseConnection, contextVars
<1>3. nowIndex' = nowIndex /\ base' = base
  BY <1>1 DEF nowIndex, base
<1>4. ASSUME NEW t \in Seq(Char) PROVE SyntaxOf(t)'
  BY <1>1, <1>3 DEF SyntaxInv, SyntaxOf
<1>5. Short => Short'
  BY <1>1, <1>3 DEF Short, ChunkLength
<1>6. QED
  BY <1>1, <1>2, <1>3, <1>4, <1>5 DEF SyntaxInv

\* Nothing has been read.
LEMMA InitSyntax == ContextInit => SyntaxInv
<1> SUFFICES ASSUME ContextInit PROVE SyntaxInv
  OBVIOUS
<1>1. got = <<>> /\ taken = <<>> /\ ctx = NewContext
  BY DEF ContextInit
<1>2. ctx.buf = <<>> /\ ctx.index = 0 /\ ctx.state = "start" /\ Fresh(ctx)
  BY <1>1 DEF NewContext, Fresh
<1>3. nowIndex = 0 /\ base = 0 /\ Len(got) = 0
  BY <1>1, <1>2 DEF nowIndex, base
<1>4. ASSUME NEW t \in Seq(Char) PROVE SyntaxOf(t)
  <2>1. PICK all : all = Meaning(t) /\ all = MeaningFrom(t, 1)
    BY DEF Meaning
  <2>2. Len(all.requests) \in Nat
    <3>1. 1 \in 1..(Len(t) + 1)
      OBVIOUS
    <3>2. all \in Meanings(t)
      BY <2>1, <3>1, MeaningIs
    <3>3. QED
      BY <3>2 DEF Meanings
  <2>3. InStep(t, <<>>, 0)
    <3>1. MeaningFrom(t, 0 + 1) = all
      BY <2>1
    <3>2. Len(<<>>) = 0
      OBVIOUS
    <3>3. PICK n \in Nat : n = Len(all.requests)
      BY <2>2
    <3>4. n = 0 + n /\ \A k \in 1..n : 0 + k = k
      OBVIOUS
    <3>5. 1..0 = {}
      OBVIOUS
    <3>6. QED
      BY <2>1, <3>1, <3>2, <3>3, <3>4, <3>5 DEF InStep
  <2>4. Parsed(ctx, t, 0)
    BY <1>2 DEF Parsed, Raw
  <2>5. QED
    BY <1>1, <1>3, <2>3, <2>4 DEF SyntaxOf
<1>5. Short
  BY <1>2, <1>3 DEF Short
<1>6. QED
  BY <1>3, <1>4, <1>5 DEF SyntaxInv

\* The next request in the input is that of the next context.
LEMMA InStepNext ==
    ASSUME NEW t \in Seq(Char), NEW b \in Nat, b <= Len(t), NEW q \in Seq(Members), InStep(t, q, b),
           NEW f \in Members, NEW e \in Nat,
           RequestAt(t, b + 1) = [is |-> "done", next |-> e + 1, request |-> RequestOf(f)]
    PROVE  InStep(t, Append(q, f), e)
<1>1. PICK r : r = RequestAt(t, b + 1)
  OBVIOUS
<1>2. r.is = "done" /\ r.next = e + 1 /\ r.request = RequestOf(f)
  BY <1>1
<1>3. b + 1 \in 1..(Len(t) + 1)
  OBVIOUS
<1>4. e + 1 \in 1..(Len(t) + 1)
  <2>1. e + 1 \in (b + 1 + 1)..(Len(t) + 1)
    BY <1>1, <1>2, <1>3, NextIsLater
  <2>2. QED
    BY <2>1
<1>5. PICK rest : rest = MeaningFrom(t, e + 1)
  OBVIOUS
<1>6. rest \in Meanings(t)
  BY <1>4, <1>5, MeaningIs
<1>7. RequestOf(f) \in RequestsOf(t)
  BY <1>1, <1>2, <1>3 DEF RequestsOf
<1>8. PICK here : here = MeaningFrom(t, b + 1)
  OBVIOUS
<1>9. here = [requests |-> <<RequestOf(f)>> \o rest.requests, then |-> rest.then]
  <2>1. here = Before(RequestOf(f), rest)
    BY <1>1, <1>2, <1>3, <1>5, <1>8, MeaningIs
  <2>2. QED
    BY <1>6, <1>7, <2>1, BeforeIs
<1>10. PICK more : more = rest.requests
  OBVIOUS
<1>11. more \in Seq(RequestsOf(t))
  BY <1>6, <1>10 DEF Meanings
<1>12. PICK n \in Nat, m \in Nat : n = Len(more) /\ m = Len(q)
  BY <1>11
<1>13. PICK one : one = <<RequestOf(f)>>
  OBVIOUS
<1>14. one \in Seq(RequestsOf(t)) /\ Len(one) = 1 /\ one[1] = RequestOf(f)
  BY <1>7, <1>13
<1>15. PICK both : both = one \o more
  OBVIOUS
<1>16. /\ Len(both) = 1 + n /\ both[1] = RequestOf(f)
       /\ \A k \in (1 + 1)..(1 + n) : both[k] = more[k - 1]
  <2>1. /\ Len(both) = 1 + n
        /\ \A k \in 1..1 : both[k] = one[k]
        /\ \A k \in (1 + 1)..(1 + n) : both[k] = more[k - 1]
    <3>1. /\ Len(both) = Len(one) + Len(more)
          /\ \A k \in 1..Len(one) : both[k] = one[k]
          /\ \A k \in (Len(one) + 1)..(Len(one) + Len(more)) : both[k] = more[k - Len(one)]
      <4>1. PICK S : S = RequestsOf(t)
        OBVIOUS
      <4>2. one \in Seq(S) /\ more \in Seq(S)
        BY <1>11, <1>14, <4>1
      <4>3. QED
        BY <1>15, <4>2, ConcatProperties
    <3>2. QED
      BY <1>12, <1>14, <3>1
  <2>2. QED
    BY <1>14, <2>1
<1>17. PICK all : all = Meaning(t)
  OBVIOUS
<1>18. /\ all.then = rest.then
       /\ Len(all.requests) = m + (1 + n)
       /\ \A k \in 1..m : all.requests[k] = RequestOf(q[k])
       /\ \A k \in 1..(1 + n) : all.requests[m + k] = both[k]
  <2>1. here.then = rest.then /\ here.requests = both
    BY <1>9, <1>10, <1>13, <1>15
  <2>2. QED
    BY <1>8, <1>12, <1>16, <1>17, <2>1 DEF InStep
<1>19. PICK qf : qf = Append(q, f)
  OBVIOUS
<1>20. Len(qf) = m + 1 /\ qf[m + 1] = f /\ \A k \in 1..m : qf[k] = q[k]
  BY <1>12, <1>19, AppendProperties
<1>21. Len(all.requests) = (m + 1) + n
  BY <1>18
<1>22. ASSUME NEW k \in 1..(m + 1) PROVE all.requests[k] = RequestOf(qf[k])
  <2>1. CASE k = m + 1
    <3>1. 1 \in 1..(1 + n)
      OBVIOUS
    <3>2. QED
      BY <1>16, <1>18, <1>20, <2>1, <3>1
  <2>2. CASE k # m + 1
    <3>1. k \in 1..m
      BY <2>2
    <3>2. QED
      BY <1>18, <1>20, <3>1
  <2>3. QED
    BY <2>1, <2>2
<1>23. ASSUME NEW k \in 1..n PROVE all.requests[(m + 1) + k] = more[k]
  <2>1. PICK i \in (1 + 1)..(1 + n) : i = k + 1 /\ i - 1 = k /\ i \in 1..(1 + n) /\ m + i = (m + 1) + k
    OBVIOUS
  <2>2. all.requests[m + i] = both[i] /\ both[i] = more[i - 1]
    BY <1>16, <1>18, <2>1
  <2>3. QED
    BY <2>1, <2>2
<1>24. QED
  <2>1. Len(qf) = m + 1 /\ rest.requests = more /\ Len(more) = n
    BY <1>10, <1>12, <1>20
  <2>2. InStep(t, qf, e)
    BY <1>5, <1>17, <1>18, <1>21, <1>22, <1>23, <2>1 DEF InStep
  <2>3. QED
    BY <1>19, <2>2

\* More contexts do not bring back what was lost.
LEMMA StillLost ==
    ASSUME NEW t, Len(Meaning(t).requests) \in Nat, NEW q \in Seq(Members), NEW f \in Members,
           Lost(t, q)
    PROVE  Lost(t, Append(q, f))
<1>1. PICK all, n, m : all = Meaning(t) /\ n = Len(all.requests) /\ m = Len(q)
  OBVIOUS
<1> n \in Nat /\ m \in Nat
  BY <1>1
<1>2. /\ all.then = "unspecified" /\ n <= m
      /\ \A k \in 1..n : all.requests[k] = RequestOf(q[k])
  BY <1>1 DEF Lost
<1>3. PICK qf : qf = Append(q, f)
  OBVIOUS
<1>4. Len(qf) = m + 1 /\ \A k \in 1..m : qf[k] = q[k]
  BY <1>1, <1>3, AppendProperties
<1>5. n <= m + 1 /\ \A k \in 1..n : k \in 1..m
  BY <1>2
<1>6. QED
  BY <1>1, <1>2, <1>3, <1>4, <1>5 DEF Lost

\* The context that is handed out has the request, and the next begins behind it.
LEMMA ReinitForNextSyntax == ContextInv /\ SyntaxInv /\ ReinitForNext => SyntaxInv'
<1> SUFFICES ASSUME ContextInv, SyntaxInv, ReinitForNext
             PROVE  SyntaxInv'
  OBVIOUS
<1>1. /\ MembersInv(ctx) /\ nowIndex <= Len(got) /\ got \in Seq(STRING)
      /\ taken \in Seq(Members) /\ ctx.state = "done"
  BY DEF ContextInv, SyntaxInv, ReinitForNext
<1>2. PICK b \in Nat : b = base /\ b + nowIndex = Len(got)
  BY <1>1, BaseIs
<1>3. PICK w \in Nat, u \in Nat, l \in Nat :
         w = nowIndex /\ w = Len(ctx.buf) /\ u = ctx.index /\ u <= w /\ l = Len(got)
  BY <1>1, MembersFacts DEF nowIndex
<1>4. b + w = l
  BY <1>2, <1>3
<1>5. ctx \in Members /\ ctx.buf \in Seq(Char)
  BY <1>1, MembersFacts
<1>6. PICK first : first = SubSeq(ctx.buf, 1, u)
  OBVIOUS
<1>7. first \in Seq(Char) /\ Len(first) = u /\ \A i \in 1..u : first[i] = ctx.buf[i]
  <2>1. \A i \in 1..u : ctx.buf[i] \in Char
    BY <1>3, <1>5
  <2>2. QED
    BY <1>3, <1>6, <2>1, SubSeqProperties
<1>8. PICK last : last = SubSeq(ctx.buf, u + 1, w)
  OBVIOUS
<1>9. last \in Seq(Char) /\ Len(last) = w - u /\ \A i \in 1..(w - u) : last[i] = ctx.buf[u + i]
  <2>1. \A i \in (u + 1)..w : ctx.buf[i] \in Char
    BY <1>3, <1>5
  <2>2. PICK v \in Int : v = u + 1
    OBVIOUS
  <2>3. /\ last \in Seq(Char) /\ Len(last) = (IF v <= w THEN w - v + 1 ELSE 0)
        /\ \A i \in 1..(w - v + 1) : last[i] = ctx.buf[v + i - 1]
    BY <1>8, <2>1, <2>2, SubSeqProperties, SMTT(30)
  <2>4. w - v + 1 = w - u /\ (w - u > 0 => v <= w) /\ (~(v <= w) => w - u = 0)
    BY <1>3, <2>2
  <2>5. \A i \in 1..(w - u) : v + i - 1 = u + i
    BY <2>2
  <2>6. QED
    BY <2>3, <2>4, <2>5
<1>10. PICK f : f = [ctx EXCEPT !.buf = first, !.chunkSize = 0,
                                !.sizeStart = FALSE, !.sizeDone = FALSE]
  OBVIOUS
<1>11. /\ f \in Members /\ f.buf = first /\ f.lines = ctx.lines /\ f.chunks = ctx.chunks
       /\ f.keepAlive = ctx.keepAlive
  BY <1>5, <1>7, <1>10 DEF Members
<1>12. PICK d : d = [NewContext EXCEPT !.buf = last]
  OBVIOUS
<1>13. d.buf = last /\ d.index = 0 /\ d.state = "start" /\ Fresh(d)
  BY <1>12 DEF NewContext, Fresh
<1>14. taken' = Append(taken, f) /\ ctx' = d /\ got' = got /\ stage' = "analysis"
  BY <1>3, <1>6, <1>8, <1>10, <1>12 DEF ReinitForNext, Reinitialised
<1>15. nowIndex' = w - u /\ Len(got') = l
  BY <1>3, <1>9, <1>13, <1>14 DEF nowIndex
<1>16. base' = b + u
  <2>1. l - (w - u) = b + u
    BY <1>4
  <2>2. QED
    BY <1>15, <2>1 DEF base
<1>17. Agree(ctx, f, u) /\ Agree(ctx, f, u - 2)
  <2>1. u - 2 <= w /\ u - 2 <= u /\ \A i \in 1..(u - 2) : i \in 1..u
    BY <1>3
  <2>2. QED
    BY <1>3, <1>7, <1>11, <2>1 DEF Agree
<1>18. ASSUME NEW t \in Seq(Char) PROVE SyntaxOf(t)'
  <2>1. SUFFICES ASSUME Begins(t, got)
                 PROVE  \/ Lost(t, Append(taken, f))
                        \/ InStep(t, Append(taken, f), b + u) /\ Parsed(d, t, b + u)
    BY <1>14, <1>16 DEF SyntaxOf
  <2>2. Lost(t, taken) \/ (InStep(t, taken, b) /\ Parsed(ctx, t, b))
    BY <1>2, <2>1 DEF SyntaxInv, SyntaxOf
  <2>3. CASE Lost(t, taken)
    <3>1. Len(Meaning(t).requests) \in Nat
      <4>1. 1 \in 1..(Len(t) + 1)
        OBVIOUS
      <4>2. PICK all : all = Meaning(t) /\ all \in Meanings(t)
        BY <4>1, MeaningIs DEF Meaning
      <4>3. QED
        BY <4>2 DEF Meanings
    <3>2. QED
      BY <1>1, <1>11, <2>3, <3>1, StillLost
  <2>4. CASE InStep(t, taken, b) /\ Parsed(ctx, t, b)
    <3>1. /\ RequestAt(t, b + 1) = [is |-> "done", next |-> b + ctx.index + 1,
                                    request |-> RequestOf(ctx)]
          /\ ChunksIn(ctx, ctx.index) /\ Raw(ctx, t, b, ctx.index)
      BY <1>1, <2>4 DEF Parsed, ChunksIn
    <3>2. RequestOf(ctx) = RequestOf(f)
      BY <1>1, <1>3, <1>11, <1>17, <3>1, RequestSame
    <3>3. InStep(t, Append(taken, f), b + u)
      <4>1. RequestAt(t, b + 1) = [is |-> "done", next |-> (b + u) + 1, request |-> RequestOf(f)]
        BY <1>3, <3>1, <3>2
      <4>2. b <= Len(t)
        BY <1>3, <1>4, <2>1 DEF Begins
      <4>3. b + u \in Nat
        OBVIOUS
      <4>4. QED
        BY <1>1, <1>11, <2>4, <4>1, <4>2, <4>3, InStepNext
    <3>4. Raw(d, t, b + u, 0)
      <4>1. SUFFICES ASSUME NEW i \in 1..(w - u) PROVE last[i] = t[(b + u) + i]
        BY <1>9, <1>13 DEF Raw
      <4>2. PICK k \in (u + 1)..w : k = u + i /\ b + k = (b + u) + i
        OBVIOUS
      <4>3. ctx.buf[k] = t[b + k]
        BY <1>3, <3>1, <4>2 DEF Raw
      <4>4. QED
        BY <1>9, <4>2, <4>3
    <3>5. Parsed(d, t, b + u)
      BY <1>13, <3>4 DEF Parsed
    <3>6. QED
      BY <3>3, <3>5
  <2>5. QED
    BY <2>2, <2>3, <2>4
<1>19. (nowIndex <= Len(got))'
  <2>1. w - u <= l
    BY <1>3, <1>4
  <2>2. QED
    BY <1>15, <2>1
<1>20. QED
  BY <1>14, <1>18, <1>19 DEF SyntaxInv

-----------------------------------------------------------------------------
(* What was received, when more is waited for.                              *)

\* Where more is waited for, and nothing follows what was received, the input from b on
\* is the beginning of a request.
Waits(t, b) == ReadsOf(t, b) /\ b + nowIndex = Len(t) /\ Short /\ ctx.state \notin {"done", "bad"}

\* A chunked body that is not complete.
LEMMA ChunksWait ==
    ASSUME NEW t, NEW b, ReadsOf(t, b), NEW m, HeadRead(ctx, t, b, m), NEW p, ChunksRead(ctx, t, b, p),
           ChunkedBody(t, b + p + 1) = More
    PROVE  RequestAt(t, b + 1) = More
<1>1. t \in Seq(Char) /\ b \in Nat /\ b + Len(ctx.buf) <= Len(t) /\ MembersInv(ctx)
  BY DEF ReadsOf, nowIndex
<1>2. More.is # "done"
  BY DEF More
<1>3. PICK r : r = ChunkedBody(t, b + p + 1)
  OBVIOUS
<1>4. QED
  BY <1>1, <1>2, <1>3, ChunksSay

\* In every state.
LEMMA WaitsForMore ==
    ASSUME NEW t, NEW b, Waits(t, b)
    PROVE  RequestAt(t, b + 1) = More
<1>1. /\ t \in Seq(Char) /\ b \in Nat /\ MembersInv(ctx) /\ Parsed(ctx, t, b) /\ ctx \in Members
      /\ ReadsOf(t, b)
  BY MembersFacts DEF Waits, ReadsOf
<1>2. PICK u \in Nat, w \in Nat, l \in Nat :
         u = ctx.index /\ w = nowIndex /\ w = Len(ctx.buf) /\ u <= w /\ l = Len(t)
  BY <1>1, MembersFacts DEF nowIndex
<1>3. b + w = l
  BY <1>2 DEF Waits
<1>4. PICK i \in Nat : i = b + 1
  BY <1>1
<1>5. ctx.state \notin {"body", "chunkBody"} => u = w
  BY <1>2 DEF Waits, Short
<1>6. CASE ctx.state = "start"
  <2>1. u = 0 /\ u = w
    BY <1>1, <1>2, <1>5, <1>6 DEF Parsed
  <2>2. l < i
    BY <1>1, <1>3, <1>4, <2>1
  <2>3. i..l = {}
    BY <1>4, <2>2
  <2>4. NoStop(t, i, Len(t))
    BY <1>2, <2>3 DEF NoStop
  <2>5. QED
    BY <1>1, <1>4, <2>4, RequestAtIs
<1>7. CASE ctx.state = "header"
  <2>1. OpenBlock(ctx, t, b, 0, 0)
    BY <1>1, <1>7 DEF Parsed
  <2>2. NoStop(t, b + 0 + 1, b + ctx.index)
    BY <2>1 DEF OpenBlock
  <2>3. b + 0 + 1 = i /\ b + ctx.index = Len(t)
    BY <1>1, <1>2, <1>3, <1>4, <1>5, <1>7
  <2>4. QED
    BY <1>1, <1>4, <2>2, <2>3, RequestAtIs
<1>8. CASE ctx.state = "body"
  <2>1. /\ HeadRead(ctx, t, b, Len(ctx.lines)) /\ ~ctx.chunked /\ ctx.contentLength > 0
        /\ ctx.index = ctx.headerSize
    BY <1>1, <1>8 DEF Parsed
  <2>2. PICK n \in Nat : n = ctx.contentLength /\ n > 0
    BY <1>1, <2>1 DEF Members
  <2>3. w - u < n
    BY <1>2, <1>8, <2>2 DEF Waits, Short
  <2>4. PICK k \in Nat : k = b + u + 1
    BY <1>1, <1>2
  <2>5. Len(t) - k + 1 < n
    <3>1. b \in Nat
      BY <1>1
    <3>2. l - k + 1 < n
      BY <1>3, <2>3, <2>4, <3>1
    <3>3. QED
      BY <1>2, <3>2
  <2>6. PlainBody(t, k, n) = More
    BY <2>5 DEF PlainBody
  <2>7. BodyOf(ctx, t, b) = More
    BY <1>2, <2>1, <2>2, <2>4, <2>6 DEF BodyOf
  <2>8. RequestAt(t, b + 1) = HeadedBy(ctx, Len(ctx.lines), More)
    BY <1>1, <1>2, <2>1, <2>7, HeadSays
  <2>9. QED
    BY <2>8 DEF HeadedBy, More
<1>9. CASE ctx.state = "chunkHeader"
  <2>1. PICK p \in 0..ctx.index :
             /\ HeadRead(ctx, t, b, Len(ctx.lines)) /\ ChunksRead(ctx, t, b, p)
             /\ NoFeed(t, b + p + 1, b + ctx.index)
    BY <1>1, <1>9 DEF Parsed
  <2>2. PICK k \in 1..(Len(t) + 1) : k = b + p + 1
    BY <1>1, <1>2, <1>3
  <2>3. b + ctx.index = Len(t)
    BY <1>2, <1>3, <1>5, <1>9
  <2>4. ChunkedBody(t, k) = More
    BY <1>1, <2>1, <2>2, <2>3, NoSizeLine
  <2>5. QED
    BY <1>1, <2>1, <2>2, <2>4, ChunksWait
<1>10. CASE ctx.state = "chunkBody"
  <2>1. PICK p \in 0..ctx.index :
             /\ HeadRead(ctx, t, b, Len(ctx.lines)) /\ ChunksRead(ctx, t, b, p)
             /\ SizeLine(t, b + p + 1, b + ctx.index, ctx.chunkSize)
             /\ ctx.chunkSize > 0 /\ ctx.chunkSize + 2 < Word
    BY <1>1, <1>10 DEF Parsed
  <2>2. PICK n \in Nat : n = ctx.chunkSize /\ n > 0 /\ n + 2 < Word
    BY <1>1, <2>1 DEF Members
  <2>3. ChunkLength = n + 2
    <3>1. n + 2 \in Nat
      OBVIOUS
    <3>2. QED
      BY <2>2, <3>1, Widths DEF ChunkLength
  <2>4. w - u < n + 2
    BY <1>2, <1>10, <2>2, <2>3 DEF Waits, Short
  <2>5. PICK k \in 1..(Len(t) + 1) : k = b + p + 1
    BY <1>1, <1>2, <1>3
  <2>6. PICK j \in Nat : j = b + u
    BY <1>1, <1>2
  <2>7. j + n + 3 > Len(t) + 1
    <3>1. b \in Nat
      BY <1>1
    <3>2. j + n + 3 > l + 1
      BY <1>3, <2>4, <2>6, <3>1
    <3>3. QED
      BY <1>2, <3>2
  <2>8. SizeLine(t, k, j, n)
    BY <1>2, <2>1, <2>2, <2>5, <2>6
  <2>9. ChunkedBody(t, k) = More
    BY <1>1, <2>2, <2>7, <2>8, ChunkSizeLine
  <2>10. QED
    BY <1>1, <2>1, <2>5, <2>9, ChunksWait
<1>11. CASE ctx.state = "chunkFooter"
  <2>1. PICK p \in 0..ctx.index, z \in 0..ctx.index, m \in 0..Len(ctx.lines) :
           FooterRead(ctx, t, b, p, z, m)
    BY <1>1, <1>11, FooterParsed
  <2>2. /\ HeadRead(ctx, t, b, m) /\ ChunksRead(ctx, t, b, p)
        /\ SizeLine(t, b + p + 1, b + z, 0)
        /\ NoStop(t, b + z + 1, b + ctx.index)
    BY <2>1 DEF FooterRead, OpenBlock
  <2>3. PICK k \in 1..(Len(t) + 1) : k = b + p + 1
    BY <1>1, <1>2, <1>3
  <2>4. PICK j \in Nat : j = b + z /\ b + z + 1 = j + 1
    BY <1>1, <1>2
  <2>5. b + ctx.index = Len(t)
    BY <1>2, <1>3, <1>5, <1>11
  <2>6. SizeLine(t, k, j, 0) /\ NoStop(t, j + 1, Len(t))
    BY <2>2, <2>3, <2>4, <2>5
  <2>7. ChunkedBody(t, k) = More
    BY <1>1, <2>6, LastSizeLine
  <2>8. QED
    BY <1>1, <2>2, <2>3, <2>7, ChunksWait
<1>12. QED
  <2>1. ctx.state \in State /\ ctx.state \notin {"done", "bad"}
    BY <1>1 DEF Members, Waits
  <2>2. QED
    BY <1>6, <1>7, <1>8, <1>9, <1>10, <1>11, <2>1 DEF State

\* What has been handed out, as RequestsMatchSyntax compares it.
Found(n) == [k \in 1..Len(taken) |-> IF k <= n THEN RequestOf(taken[k]) ELSE "extra"]

\* Of an input that is all received: RequestsMatchSyntax.
LEMMA AgreesWith ==
    ASSUME NEW t \in Seq(Char), NEW b \in Nat, b <= Len(t), taken \in Seq(Members),
           \/ Lost(t, taken)
           \/ /\ InStep(t, taken, b)
              /\ ctx.state = "done" => RequestAt(t, b + 1).is = "done"
              /\ ctx.state = "bad" => RequestAt(t, b + 1) = Bad
              /\ ctx.state \notin {"done", "bad"} => RequestAt(t, b + 1) = More
    PROVE  Agrees(Meaning(t))
<1>1. PICK all : all = Meaning(t)
  OBVIOUS
<1>2. all \in Meanings(t)
  <2>1. 1 \in 1..(Len(t) + 1)
    OBVIOUS
  <2>2. QED
    BY <1>1, <2>1, MeaningIs DEF Meaning
<1>3. PICK q \in Seq(RequestsOf(t)) : q = all.requests
  BY <1>2 DEF Meanings
<1>4. PICK n \in Nat, m \in Nat : n = Len(q) /\ m = Len(taken)
  BY <1>3
<1>5. PICK found : found = Found(n)
  OBVIOUS
<1>6. /\ Len(found) = m /\ DOMAIN found = 1..m
      /\ found = [k \in 1..m |-> IF k <= n THEN RequestOf(taken[k]) ELSE "extra"]
      /\ \A k \in 1..m : k <= n => found[k] = RequestOf(taken[k])
  BY <1>4, <1>5 DEF Found
<1>7. q = [k \in 1..n |-> q[k]]
  BY <1>3, <1>4
<1>8. SUFFICES /\ ctx.state = "done" => IsStrictPrefix(found, q) \/ all.then = "unspecified"
               /\ ctx.state # "done" /\ all.then = "unspecified" => IsPrefix(q, found)
               /\ ctx.state # "done" /\ all.then # "unspecified" =>
                     found = q /\ (ctx.state = "bad" <=> all.then = "bad")
  BY <1>1, <1>3, <1>4, <1>5 DEF Agrees, Found
<1>9. CASE Lost(t, taken)
  <2>1. /\ all.then = "unspecified" /\ n <= m
        /\ \A k \in 1..n : q[k] = RequestOf(taken[k])
    BY <1>1, <1>3, <1>4, <1>9 DEF Lost
  <2>2. \A k \in 1..n : q[k] = found[k]
    BY <1>6, <2>1
  <2>3. SubSeq(q, 1, n) = SubSeq(found, 1, n)
    BY <2>2, SubSeqAgrees
  <2>4. IsPrefix(q, found)
    BY <1>4, <1>6, <2>1, <2>3 DEF IsPrefix
  <2>5. QED
    BY <2>1, <2>4
<1>10. CASE InStep(t, taken, b) /\ ctx.state = "done" /\ RequestAt(t, b + 1).is = "done"
  <2>1. PICK rest : rest = MeaningFrom(t, b + 1)
    OBVIOUS
  <2>2. PICK o \in Nat : o = Len(rest.requests) /\ o > 0
    <3>1. b + 1 \in 1..(Len(t) + 1)
      OBVIOUS
    <3>2. PICK r, e : r = RequestAt(t, b + 1) /\ e = r.next
      OBVIOUS
    <3>3. r.request \in RequestsOf(t) /\ e \in 1..(Len(t) + 1)
      <4>1. e \in (b + 1 + 1)..(Len(t) + 1)
        BY <1>10, <3>1, <3>2, NextIsLater
      <4>2. QED
        BY <3>1, <3>2, <4>1 DEF RequestsOf
    <3>4. PICK after : after = MeaningFrom(t, e)
      OBVIOUS
    <3>5. after \in Meanings(t) /\ rest = Before(r.request, after)
      BY <1>10, <2>1, <3>1, <3>2, <3>3, <3>4, MeaningIs
    <3>6. rest = [requests |-> <<r.request>> \o after.requests, then |-> after.then]
      BY <3>3, <3>5, BeforeIs
    <3>7. rest.requests = <<r.request>> \o after.requests
      BY <3>6
    <3>8. PICK S : S = RequestsOf(t)
      OBVIOUS
    <3>9. PICK one : one = <<r.request>>
      OBVIOUS
    <3>10. one \in Seq(S) /\ Len(one) = 1 /\ after.requests \in Seq(S)
      BY <3>3, <3>5, <3>8, <3>9 DEF Meanings
    <3>11. PICK more \in Seq(S) : more = after.requests
      BY <3>10
    <3>12. Len(one \o more) = Len(one) + Len(more) /\ Len(more) \in Nat
      <4>1. one \in Seq(S)
        BY <3>10
      <4>2. Len(one \o more) = Len(one) + Len(more)
        BY <4>1, ConcatProperties
      <4>3. QED
        OBVIOUS
    <3>13. QED
      BY <3>7, <3>9, <3>10, <3>11, <3>12
  <2>3. /\ n = m + o
        /\ \A k \in 1..m : q[k] = RequestOf(taken[k])
    BY <1>1, <1>3, <1>4, <1>10, <2>1, <2>2 DEF InStep
  <2>4. m <= n /\ n # m /\ \A k \in 1..m : k <= n
    BY <2>2, <2>3
  <2>5. \A k \in 1..m : found[k] = q[k]
    BY <1>6, <2>3, <2>4
  <2>6. SubSeq(found, 1, m) = SubSeq(q, 1, m)
    BY <2>5, SubSeqAgrees
  <2>7. found # q
    BY <1>4, <1>6, <2>4
  <2>8. IsStrictPrefix(found, q)
    BY <1>4, <1>6, <2>4, <2>6, <2>7 DEF IsStrictPrefix, IsPrefix
  <2>9. QED
    BY <1>10, <2>8
<1>11. CASE InStep(t, taken, b) /\ ctx.state # "done" /\ RequestAt(t, b + 1) \in {Bad, More}
               /\ (ctx.state = "bad" <=> RequestAt(t, b + 1) = Bad)
  <2>1. RequestAt(t, b + 1).is # "done" /\ RequestAt(t, b + 1).is # "unspecified"
        /\ (ctx.state = "bad" <=> RequestAt(t, b + 1).is = "bad")
    BY <1>11 DEF Bad, More
  <2>2. /\ all.then = RequestAt(t, b + 1).is /\ n = m
        /\ \A k \in 1..m : q[k] = RequestOf(taken[k])
    BY <1>1, <1>3, <1>4, <1>11, <2>1, InStepEnds
  <2>3. \A k \in 1..m : found[k] = q[k] /\ k <= n
    BY <1>6, <2>2
  <2>4. found = q
    <3>1. found = [k \in 1..m |-> found[k]]
      BY <1>6
    <3>2. [k \in 1..m |-> found[k]] = [k \in 1..m |-> q[k]]
      BY <2>3
    <3>3. QED
      BY <1>7, <2>2, <3>1, <3>2
  <2>5. QED
    BY <1>11, <2>1, <2>2, <2>4
<1>12. QED
  <2>1. Bad # More
    BY DEF Bad, More
  <2>2. QED
    BY <1>9, <1>10, <1>11, <2>1

\* RequestsMatchSyntax follows: what was received is an input that begins with it.
LEMMA SyntaxMatches == ContextInv /\ SyntaxInv => RequestsMatchSyntax
<1> SUFFICES ASSUME ContextInv, SyntaxInv, stage \in {"reading", "refused"}
             PROVE  Agrees(Meaning(got))
  BY DEF RequestsMatchSyntax
<1>1. PICK t : t = got
  OBVIOUS
<1>2. /\ MembersInv(ctx) /\ got \in Seq(STRING) /\ taken \in Seq(Members)
      /\ nowIndex <= Len(got) /\ Short
  BY DEF ContextInv, SyntaxInv
<1>3. t \in Seq(Char)
  BY <1>1, <1>2, SeqMonotonic DEF Char
<1>4. PICK b \in Nat : b = base /\ b + nowIndex = Len(t) /\ nowIndex \in Nat /\ Len(t) \in Nat
  BY <1>1, <1>2, BaseIs
<1>5. Begins(t, got)
  BY <1>1, <1>4 DEF Begins
<1>6. Lost(t, taken) \/ (InStep(t, taken, b) /\ Parsed(ctx, t, b))
  BY <1>3, <1>4, <1>5 DEF SyntaxInv, SyntaxOf
<1>7. b <= Len(t)
  BY <1>4
<1>8. ASSUME Parsed(ctx, t, b)
      PROVE  /\ ctx.state = "done" => RequestAt(t, b + 1).is = "done"
             /\ ctx.state = "bad" => RequestAt(t, b + 1) = Bad
             /\ ctx.state \notin {"done", "bad"} => RequestAt(t, b + 1) = More
  <2>1. ctx.state \notin {"done", "bad"} => RequestAt(t, b + 1) = More
    <3>1. b + nowIndex <= Len(t)
      BY <1>4
    <3>2. QED
      BY <1>2, <1>3, <1>4, <1>8, <3>1, WaitsForMore DEF Waits, ReadsOf
  <2>2. ctx.state = "bad" => RequestAt(t, b + 1) = Bad
    BY <1>8 DEF Parsed
  <2>3. ctx.state = "done" =>
           RequestAt(t, b + 1) = [is |-> "done", next |-> b + ctx.index + 1,
                                  request |-> RequestOf(ctx)]
    BY <1>8 DEF Parsed
  <2>4. QED
    BY <2>1, <2>2, <2>3
<1>9. QED
  BY <1>1, <1>2, <1>3, <1>6, <1>7, <1>8, AgreesWith

\* Every step.
LEMMA SyntaxNextInv == ContextInv /\ SyntaxInv /\ [ContextNext]_contextVars => SyntaxInv'
BY TurnSyntax, ReceiveSyntax, IdleSyntax, ReinitForNextSyntax DEF ContextNext

\* After any reads, and at every turn of analysis(), the requests handed out are the
\* first ones of every input that goes on from there, and the context says of that
\* input what has been read of its next request.
THEOREM SyntaxInvariant == ContextSpec => [](ContextInv /\ SyntaxInv)
<1>1. ContextInit => ContextInv /\ SyntaxInv
  BY ContextInitInv, InitSyntax
<1>2. ContextInv /\ SyntaxInv /\ [ContextNext]_contextVars => (ContextInv /\ SyntaxInv)'
  BY ContextNextInv, SyntaxNextInv
<1>3. QED
  BY <1>1, <1>2, PTL DEF ContextSpec

\* Whatever the reads, the requests handed out are those in the input.
THEOREM RequestsAreThose == ContextSpec => []RequestsMatchSyntax
BY SyntaxInvariant, SyntaxMatches, PTL

-----------------------------------------------------------------------------
(* The server: HttpServer.                                                 *)

QueueProofs == INSTANCE WorkQueueProofs

\* Connections are numbered as they are made, and the callback that the loop
\* thread is in has what it needs.
ConnInv ==
    /\ \A n \in Node : conn[n] <= made
    /\ \A t \in pushed : request[t].conn <= made
    /\ \A n \in Node : loop = In("message", n) => context[n] # NoContext
    /\ \A n \in Node : loop = In("cancel", n) => conn[n] = NoConn
    /\ \A n \in Node : context[n] # NoContext /\ context[n].state = "done"
                          => context[n].input # <<>>

\* What a worker's place in run() says of its task.
WorkerInv ==
    \A w \in Worker :
        /\ phase[w] # "begin" => at[w] = "run"
        /\ phase[w] = "close" => held[w] \in sent
        /\ at[w] = "delete" => held[w] \in sent \cup canceled

\* Tasks are numbered as they are pushed; the deque holds the last of them, in
\* order, and what has left it was answered or cancelled unless the destructor took it.
OrderInv ==
    /\ pushed = 1..Cardinality(pushed)
    /\ \A i \in 1..Len(tasks) : tasks[i] = Cardinality(pushed) - Len(tasks) + i
    /\ \A w \in Worker : held[w] + Len(tasks) <= Cardinality(pushed)
    /\ owner # "destroyed" => ToSet(freed) \subseteq sent \cup canceled

\* OvertakesOnlyRunning, of the requests of all connections together.
NonePassedOver ==
    \A t \in sent : \A s \in 1..(t - 1) :
        s \in sent \cup canceled \/ \E w \in Worker : held[w] = s

IInv ==
    /\ QueueProofs!IInv /\ TypeOK /\ ConnInv /\ WorkerInv /\ OrderInv
    /\ ReferencesAreLive /\ CancelIsExact /\ ContextIsOfConnection /\ RejectedIsClosed
    /\ NonePassedOver

-----------------------------------------------------------------------------
(* The queue.                                                              *)

\* What WorkQueue assumes of its constants the server grants.
LEMMA QueueAssumption ==
    /\ IsFiniteSet(Worker) <=> QueueProofs!IsFiniteSet(Worker)
    /\ IsFiniteSet(Worker) /\ NoTask \notin Task
<1>1. IsFiniteSet(Worker) <=> QueueProofs!IsFiniteSet(Worker)
  BY DEF IsFiniteSet, QueueProofs!IsFiniteSet
<1>2. NoTask \notin Task
  BY BoundsAssumption DEF NoTask, Task
<1>3. QED
  BY <1>1, <1>2, BoundsAssumption

\* Every step of the server is one of its queue, or leaves the queue alone.
LEMMA ServerStep == [Next]_vars => [QueueProofs!Next]_(QueueProofs!vars)
<1> SUFFICES ASSUME [Next]_vars PROVE QueueProofs!Next \/ UNCHANGED queueVars
  BY DEF queueVars, QueueProofs!vars
<1>1. ASSUME NEW w \in Worker, WorkerStep(w)
      PROVE  QueueProofs!WorkerStep(w) \/ UNCHANGED queueVars
  <2>1. CASE Queue!GetNext(w)
    BY <1>1, <2>1 DEF WorkerStep, QueueProofs!WorkerStep, QueueProofs!GetNext, Queue!GetNext,
                      QueueProofs!Alive, Queue!Alive
  <2>2. CASE Queue!Run(w)
    BY <1>1, <2>2 DEF WorkerStep, QueueProofs!WorkerStep, QueueProofs!Run, Queue!Run,
                      QueueProofs!Alive, Queue!Alive
  <2>3. CASE Queue!Delete(w)
    BY <1>1, <2>3 DEF WorkerStep, QueueProofs!WorkerStep, QueueProofs!Delete, Queue!Delete,
                      QueueProofs!Alive, Queue!Alive
  <2>4. QED
    BY <1>1, <2>1, <2>2, <2>3 DEF WorkerStep, Take, Begin, Respond, Close, Delete
<1>2. ASSUME NEW w \in Worker, Queue!Alive /\ Wake(w)
      PROVE  QueueProofs!Alive /\ QueueProofs!Spurious(w)
  BY <1>2 DEF Wake, Queue!Alive, Queue!Spurious, QueueProofs!Alive, QueueProofs!Spurious
<1>3. CASE NewTask
  BY <1>3 DEF NewTask, Queue!PushTask, Queue!Asleep,
              QueueProofs!PushTask, QueueProofs!Asleep, QueueProofs!Next
<1>4. CASE Construct
  BY <1>4 DEF Construct, Queue!Construct, Queue!Born, Queue!SetExit,
              QueueProofs!Construct, QueueProofs!Born, QueueProofs!SetExit, QueueProofs!Next
<1>5. CASE Destroy
  BY <1>5 DEF Destroy, Queue!Destroy, Queue!SetExit,
              QueueProofs!Destroy, QueueProofs!SetExit, QueueProofs!Next
<1>6. CASE Join
  BY <1>6 DEF Join, Queue!Join, Queue!Born, QueueProofs!Join, QueueProofs!Born, QueueProofs!Next
<1>7. CASE DeleteRest
  BY <1>7 DEF DeleteRest, Queue!DeleteRest, QueueProofs!DeleteRest, QueueProofs!Next
<1>8. CASE Over \/ UNCHANGED vars
  BY <1>8 DEF Over, vars
<1>9. ASSUME NEW n \in Node, ConnectionUp(n) \/ ConnectionDown(n) \/ Message(n)
      PROVE  UNCHANGED queueVars
  BY <1>9 DEF ConnectionUp, ConnectionDown, Message
<1>10. CASE CancelTask \/ Incomplete \/ Reject \/ NoMemory
  BY <1>10 DEF CancelTask, Incomplete, Reject, NoMemory
<1>11. QED
  BY <1>1, <1>2, <1>3, <1>4, <1>5, <1>6, <1>7, <1>8, <1>9, <1>10
     DEF Next, LoopStep, QueueProofs!Next

LEMMA QueueInit == Init => QueueProofs!IInv
<1>1. Init => QueueProofs!Init
  BY DEF Init, Queue!Init, QueueProofs!Init
<1>2. QED
  BY <1>1, QueueAssumption, QueueProofs!InitIInv

LEMMA QueueNext == QueueProofs!IInv /\ [Next]_vars => QueueProofs!IInv'
BY ServerStep, QueueAssumption, QueueProofs!NextTypeOK, QueueProofs!NextOwnerInv,
   QueueProofs!NextPlaceInv, QueueProofs!NextNoIdleSleeper, QueueProofs!NextNoSleeperAtExit
   DEF QueueProofs!IInv

\* What is needed of the queue's invariant.
LEMMA QueueFacts ==
    QueueProofs!IInv =>
        /\ Queue!TypeOK
        /\ \A w \in Worker : held[w] # NoTask <=> at[w] \in {"run", "delete"}
        /\ pushed = ToSet(tasks) \cup ToSet(freed)
                       \cup {t \in Task : \E w \in Worker : held[w] = t}
        /\ owner = "destroyed" => \A w \in Worker : at[w] \in {"unborn", "left"}
        /\ owner \in {"constructing", "unwinding", "thrown"} => pushed = {}
<1>1. QueueProofs!ToSet(tasks) = ToSet(tasks) /\ QueueProofs!ToSet(freed) = ToSet(freed)
  BY DEF QueueProofs!ToSet, ToSet
<1>2. QED
  BY <1>1 DEF QueueProofs!IInv, QueueProofs!TypeOK, Queue!TypeOK, QueueProofs!PlaceInv,
              QueueProofs!OwnerInv

-----------------------------------------------------------------------------
(* The steps: those of the loop thread that make no task, the one that does,*)
(* and those of the workers and the owner.                                 *)

LoopOnly ==
    \/ \E n \in Node : ConnectionUp(n) \/ ConnectionDown(n) \/ Message(n)
    \/ CancelTask \/ Incomplete \/ Reject \/ NoMemory

Elsewhere ==
    \/ \E w \in Worker : Take(w) \/ Begin(w) \/ Respond(w) \/ Close(w) \/ Delete(w) \/ Wake(w)
    \/ Construct \/ Destroy \/ Join \/ DeleteRest
    \/ UNCHANGED vars

LEMMA Steps == [Next]_vars => LoopOnly \/ NewTask \/ Elsewhere
BY DEF Next, LoopStep, WorkerStep, Over, LoopOnly, Elsewhere

LEMMA LoopOnlyFrame == LoopOnly => UNCHANGED <<queueVars, refs, request, phase, sent>>
BY DEF LoopOnly, ConnectionUp, ConnectionDown, Message, CancelTask, Incomplete, Reject, NoMemory

LEMMA ElsewhereFrame == Elsewhere => UNCHANGED <<loopVars, pushed>>
<1> SUFFICES ASSUME Elsewhere PROVE UNCHANGED <<loopVars, pushed>>
  OBVIOUS
<1>1. ASSUME NEW w \in Worker, Take(w) \/ Begin(w) \/ Respond(w) \/ Close(w) \/ Delete(w) \/ Wake(w)
      PROVE  UNCHANGED <<loopVars, pushed>>
  BY <1>1 DEF Take, Begin, Respond, Close, Delete, Wake, queueVars,
              Queue!GetNext, Queue!Run, Queue!Delete, Queue!Spurious
<1>2. CASE Construct \/ Destroy \/ Join \/ DeleteRest \/ UNCHANGED vars
  BY <1>2 DEF Construct, Destroy, Join, DeleteRest, vars, queueVars,
              Queue!Construct, Queue!Destroy, Queue!SetExit, Queue!Join, Queue!DeleteRest
<1>3. QED
  BY <1>1, <1>2 DEF Elsewhere

\* A closed connection stays closed, a cancelled task cancelled, an answer given.
LEMMA OnlyMore ==
    [Next]_vars =>
        closed \subseteq closed' /\ canceled \subseteq canceled' /\ sent \subseteq sent'
<1> SUFFICES ASSUME [Next]_vars
             PROVE  closed \subseteq closed' /\ canceled \subseteq canceled' /\ sent \subseteq sent'
  OBVIOUS
<1>1. CASE LoopOnly
  BY <1>1, LoopOnlyFrame
     DEF LoopOnly, ConnectionUp, ConnectionDown, Message, CancelTask, Incomplete, Reject,
         NoMemory, CloseNode
<1>2. CASE NewTask
  BY <1>2 DEF NewTask
<1>3. CASE Elsewhere
  <2>1. ASSUME NEW w \in Worker, Take(w) \/ Begin(w) \/ Respond(w) \/ Close(w) \/ Delete(w) \/ Wake(w)
        PROVE  closed \subseteq closed' /\ sent \subseteq sent'
    BY <2>1 DEF Take, Begin, Respond, Close, Delete, Wake, CloseNode
  <2>2. CASE Construct \/ Destroy \/ Join \/ DeleteRest \/ UNCHANGED vars
    BY <2>2 DEF Construct, Destroy, Join, DeleteRest, vars, loopVars
  <2>3. QED
    BY <1>3, <2>1, <2>2, ElsewhereFrame DEF Elsewhere, loopVars
<1>4. QED
  BY <1>1, <1>2, <1>3, Steps

\* What is read from a connection is a sequence.
LEMMA BoundedSeqIsSeq ==
    ASSUME NEW S, NEW m \in Nat
    PROVE  BoundedSeq(S, m) \subseteq Seq(S)
<1> SUFFICES ASSUME NEW s \in BoundedSeq(S, m) PROVE s \in Seq(S)
  OBVIOUS
<1>1. PICK k \in 0..m : s \in [1..k -> S]
  BY DEF BoundedSeq, SeqOf
<1>2. QED
  BY <1>1

-----------------------------------------------------------------------------
(* The inductive invariant.                                                *)

LEMMA InitIInv == Init => IInv
<1> SUFFICES ASSUME Init PROVE IInv
  OBVIOUS
<1>1. QueueProofs!IInv /\ Queue!TypeOK /\ pushed = {} /\ tasks = <<>> /\ freed = <<>>
      /\ at = [w \in Worker |-> "unborn"] /\ held = [w \in Worker |-> NoTask]
  BY QueueInit, QueueFacts DEF Init, Queue!Init
<1>2. TypeOK
  BY <1>1, BoundsAssumption DEF Init, TypeOK, Conn, NoConn
<1>3. ConnInv
  BY <1>1 DEF Init, ConnInv, NoConn, Idle, In
<1>4. WorkerInv
  BY <1>1 DEF Init, WorkerInv
<1>5. OrderInv
  BY <1>1, ToSetEmpty, FS_EmptySet DEF OrderInv, NoTask
<1>6. ReferencesAreLive /\ CancelIsExact /\ ContextIsOfConnection /\ RejectedIsClosed
      /\ NonePassedOver
  BY <1>1, ToSetEmpty
     DEF Init, ReferencesAreLive, CancelIsExact, ContextIsOfConnection, RejectedIsClosed,
         NonePassedOver
<1>7. QED
  BY <1>1, <1>2, <1>3, <1>4, <1>5, <1>6 DEF IInv

\* The node whose message is being looked at, and its context.
LEMMA AtMessage ==
    ASSUME TypeOK, ConnInv, loop.in = "message"
    PROVE  /\ loop.node \in Node /\ loop = In("message", loop.node)
           /\ context[loop.node] \in Context
           /\ Tail(context[loop.node].input) \in Seq(Item) \/ context[loop.node].input = <<>>
<1>1. PICK n \in Node : loop \in {In("message", n), In("cancel", n)}
  BY DEF TypeOK, Idle
<1>2. loop = In("message", n) /\ loop.node = n
  BY <1>1 DEF In
<1>3. context[n] \in Context
  BY <1>2 DEF TypeOK, ConnInv
<1>4. context[n].input \in Seq(Item)
  BY <1>3 DEF Context
<1>5. QED
  BY <1>2, <1>3, <1>4

LEMMA NextTypeOK == IInv /\ [Next]_vars => TypeOK'
<1> SUFFICES ASSUME IInv, [Next]_vars PROVE TypeOK'
  OBVIOUS
<1>0. TypeOK /\ ConnInv /\ ContextIsOfConnection /\ WorkerInv
  BY DEF IInv
<1>1. Queue!TypeOK'
  <2>1. QueueProofs!IInv'
    BY QueueNext DEF IInv
  <2>2. QED
    BY <2>1, QueueFacts, PTL
<1>2. \A w \in Worker : at[w] \in {"run", "delete"} => held[w] \in pushed
  BY QueueFacts DEF IInv, Queue!TypeOK
<1>3. CASE LoopOnly
  <2>1. UNCHANGED <<queueVars, refs, request, phase, sent>>
    BY <1>3, LoopOnlyFrame
  <2>2. ASSUME NEW n \in Node, ConnectionUp(n) PROVE TypeOK'
    <3>1. made + 1 \in Conn /\ made' \in 0..MaxConns
      BY <1>0, <2>2, BoundsAssumption DEF ConnectionUp, TypeOK, Conn
    <3>2. [conn |-> made + 1, state |-> "parsing", input |-> <<>>] \in Context
      BY <3>1 DEF Context
    <3>3. QED
      BY <1>0, <1>1, <2>1, <2>2, <3>1, <3>2 DEF ConnectionUp, TypeOK, queueVars
  <2>3. ASSUME NEW n \in Node, ConnectionDown(n) PROVE TypeOK'
    BY <1>0, <1>1, <2>1, <2>3 DEF ConnectionDown, TypeOK, queueVars
  <2>4. ASSUME NEW n \in Node, Message(n) PROVE TypeOK'
    <3>0. BoundedSeq(Item, MaxInput) \subseteq Seq(Item)
      BY BoundedSeqIsSeq, BoundsAssumption
    <3>1. PICK input \in Seq(Item) : Becomes(n, context[n].state, context[n].input \o input)
      BY <2>4, <3>0 DEF Message
    <3>2. context[n] \in Context
      BY <1>0, <2>4 DEF Message, TypeOK
    <3>3. [conn |-> context[n].conn, state |-> context[n].state,
           input |-> context[n].input \o input] \in Context
      BY <3>2 DEF Context
    <3>4. context' \in [Node -> Context \cup {NoContext}]
      BY <1>0, <3>1, <3>3 DEF Becomes, TypeOK
    <3>5. QED
      BY <1>0, <1>1, <2>1, <2>4, <3>4 DEF Message, TypeOK, queueVars
  <2>5. CASE CancelTask
    BY <1>0, <1>1, <2>1, <2>5 DEF CancelTask, TasksOf, TypeOK, queueVars
  <2>6. CASE Incomplete
    BY <1>0, <1>1, <2>1, <2>6 DEF Incomplete, TypeOK, queueVars
  <2>7. CASE Reject \/ NoMemory
    <3>1. loop.node \in Node /\ context[loop.node] \in Context
      BY <1>0, <2>7, AtMessage DEF Reject, NoMemory
    <3>2. conn[loop.node] \in Conn
      BY <1>0, <3>1, NoContextAssumption DEF TypeOK, ContextIsOfConnection
    <3>3. \A state \in {"bad", "done"} :
             [conn |-> context[loop.node].conn, state |-> state,
              input |-> context[loop.node].input] \in Context
      BY <3>1 DEF Context
    <3>4. context' \in [Node -> Context \cup {NoContext}]
      BY <1>0, <2>7, <3>3 DEF Reject, NoMemory, Becomes, TypeOK
    <3>5. closed' \subseteq Conn
      BY <1>0, <2>7, <3>2 DEF Reject, NoMemory, CloseNode, TypeOK
    <3>6. loop' = Idle /\ UNCHANGED <<queueVars, conn, made, refs, request, canceled, phase, sent>>
      BY <2>7 DEF Reject, NoMemory
    <3>7. QED
      BY <1>0, <1>1, <3>4, <3>5, <3>6 DEF TypeOK, queueVars
  <2>8. QED
    BY <1>3, <2>2, <2>3, <2>4, <2>5, <2>6, <2>7 DEF LoopOnly
<1>4. CASE NewTask
  <2> DEFINE n == loop.node
             t == Cardinality(pushed) + 1
             c == context[n]
  <2>1. n \in Node /\ c \in Context /\ c.input # <<>>
    BY <1>0, <1>4, AtMessage DEF NewTask, RequestNext
  <2>2. [conn |-> c.conn, state |-> "parsing", input |-> Tail(c.input)] \in Context
    BY <2>1 DEF Context
  <2>3. [node |-> n, conn |-> c.conn, keepAlive |-> Head(c.input) = "keepAlive"] \in Request
    BY <2>1 DEF Context, Request
  <2>4. t \in Task /\ pushed' = pushed \cup {t} /\ refs' = refs \cup {t}
    BY <1>4 DEF NewTask, Queue!PushTask
  <2>5. /\ context' = [context EXCEPT ![n] =
               [conn |-> c.conn, state |-> "parsing", input |-> Tail(c.input)]]
        /\ request' = [request EXCEPT ![t] =
               [node |-> n, conn |-> c.conn, keepAlive |-> Head(c.input) = "keepAlive"]]
        /\ UNCHANGED <<conn, made, loop, canceled, phase, sent, closed>>
    BY <1>4 DEF NewTask, Becomes
  <2> HIDE DEF n, t, c
  <2>6. context' \in [Node -> Context \cup {NoContext}]
    BY <1>0, <2>2, <2>5 DEF TypeOK
  <2>7. request' \in [Task -> Request \cup {NoContext}] /\ \A u \in pushed' : request'[u] \in Request
    BY <1>0, <2>3, <2>4, <2>5 DEF TypeOK, Queue!TypeOK
  <2>8. QED
    BY <1>0, <1>1, <2>4, <2>5, <2>6, <2>7 DEF TypeOK
<1>5. CASE Elsewhere
  <2>1. UNCHANGED <<loopVars, pushed>>
    BY <1>5, ElsewhereFrame
  <2>2. refs' \subseteq pushed /\ sent' \subseteq pushed
        /\ phase' \in [Worker -> {"begin", "respond", "close"}]
    <3>1. ASSUME NEW w \in Worker,
                 Take(w) \/ Begin(w) \/ Respond(w) \/ Close(w) \/ Delete(w) \/ Wake(w)
          PROVE  /\ refs' \subseteq pushed /\ sent' \subseteq pushed
                 /\ phase' \in [Worker -> {"begin", "respond", "close"}]
      BY <1>0, <1>2, <3>1 DEF Take, Begin, Respond, Close, Delete, Wake, WorkerInv, TypeOK
    <3>2. CASE Construct \/ Destroy \/ Join \/ DeleteRest \/ UNCHANGED vars
      BY <1>0, <3>2 DEF Construct, Destroy, Join, DeleteRest, vars, TypeOK
    <3>3. QED
      BY <1>5, <3>1, <3>2 DEF Elsewhere
  <2>3. closed' \subseteq Conn
    <3>1. ASSUME NEW w \in Worker, Close(w) PROVE closed' \subseteq Conn
      <4>1. request[held[w]] \in Request
        BY <1>0, <1>2, <3>1 DEF Close, WorkerInv, TypeOK
      <4>2. conn[request[held[w]].node] \in Conn \cup {NoConn}
        BY <1>0, <4>1 DEF Request, TypeOK
      <4>3. QED
        BY <1>0, <3>1, <4>2 DEF Close, CloseNode, TypeOK
    <3>2. ASSUME NEW w \in Worker, Take(w) \/ Begin(w) \/ Respond(w) \/ Delete(w) \/ Wake(w)
          PROVE  closed' \subseteq Conn
      BY <1>0, <3>2 DEF Take, Begin, Respond, Delete, Wake, TypeOK
    <3>3. CASE Construct \/ Destroy \/ Join \/ DeleteRest \/ UNCHANGED vars
      BY <1>0, <3>3 DEF Construct, Destroy, Join, DeleteRest, vars, TypeOK
    <3>4. QED
      BY <1>5, <3>1, <3>2, <3>3 DEF Elsewhere
  <2>4. QED
    BY <1>0, <1>1, <2>1, <2>2, <2>3 DEF TypeOK, loopVars
<1>6. QED
  BY <1>3, <1>4, <1>5, Steps

LEMMA NextConnInv == IInv /\ [Next]_vars => ConnInv'
<1> SUFFICES ASSUME IInv, [Next]_vars PROVE ConnInv'
  OBVIOUS
<1>0. TypeOK /\ ConnInv /\ ContextIsOfConnection
  BY DEF IInv
<1>1. made \in Nat /\ (\A n \in Node : conn[n] \in Nat) /\ (\A t \in pushed : request[t].conn \in Nat)
  BY <1>0, BoundsAssumption DEF TypeOK, Conn, NoConn, Request
<1>2. CASE LoopOnly
  <2>1. UNCHANGED <<pushed, request>>
    BY <1>2, LoopOnlyFrame DEF queueVars
  <2>2. ASSUME NEW n \in Node, ConnectionUp(n) PROVE ConnInv'
    <3>1. \A m \in Node : context'[m] # context[m] =>
             context'[m].state = "parsing" /\ m = n
      BY <1>0, <2>2 DEF ConnectionUp, TypeOK
    <3>2. QED
      BY <1>0, <1>1, <2>1, <2>2, <3>1 DEF ConnectionUp, ConnInv, TypeOK, Idle, In
  <2>3. ASSUME NEW n \in Node, ConnectionDown(n) PROVE ConnInv'
    BY <1>0, <1>1, <2>1, <2>3 DEF ConnectionDown, ConnInv, TypeOK, NoConn, In
  <2>4. ASSUME NEW n \in Node, Message(n) PROVE ConnInv'
    <3>1. PICK input \in BoundedSeq(Item, MaxInput) :
             context' = [context EXCEPT ![n] =
                [conn |-> context[n].conn, state |-> context[n].state,
                 input |-> context[n].input \o input]]
      BY <2>4 DEF Message, Becomes
    <3>2. context[n] \in Context /\ context[n].input \in Seq(Item) /\ input \in Seq(Item)
      BY <1>0, <2>4, BoundedSeqIsSeq, BoundsAssumption DEF Message, TypeOK, Context
    <3>3. context[n].input # <<>> => context[n].input \o input # <<>>
      BY <3>2
    <3>4. [conn |-> context[n].conn, state |-> context[n].state,
           input |-> context[n].input \o input] \in Context
      BY <3>2 DEF Context
    <3>5. QED
      BY <1>0, <1>1, <2>1, <2>4, <3>1, <3>2, <3>3, <3>4, NoContextAssumption
         DEF Message, ConnInv, TypeOK, In
  <2>5. CASE CancelTask
    BY <1>0, <1>1, <2>1, <2>5 DEF CancelTask, ConnInv, Idle, In
  <2>6. CASE Incomplete
    BY <1>0, <1>1, <2>1, <2>6 DEF Incomplete, ConnInv, Idle, In
  <2>7. CASE Reject
    BY <1>0, <1>1, <2>1, <2>7, AtMessage DEF Reject, Becomes, ConnInv, TypeOK, Idle, In
  <2>8. CASE NoMemory
    BY <1>0, <1>1, <2>1, <2>8, AtMessage
       DEF NoMemory, RequestNext, Becomes, ConnInv, TypeOK, Idle, In
  <2>9. QED
    BY <1>2, <2>2, <2>3, <2>4, <2>5, <2>6, <2>7, <2>8 DEF LoopOnly
<1>3. CASE NewTask
  <2> DEFINE n == loop.node
             t == Cardinality(pushed) + 1
  <2>1. n \in Node /\ context[n] \in Context
    BY <1>0, <1>3, AtMessage DEF NewTask
  <2>2. context[n].conn = conn[n]
    BY <1>0, <2>1, NoContextAssumption DEF ContextIsOfConnection
  <2>3. t \in Task /\ pushed' = pushed \cup {t}
    BY <1>3 DEF NewTask, Queue!PushTask
  <2>4. \E keep \in BOOLEAN :
           request' = [request EXCEPT ![t] = [node |-> n, conn |-> context[n].conn, keepAlive |-> keep]]
    BY <1>3 DEF NewTask
  <2>5. /\ context' = [context EXCEPT ![n] =
               [conn |-> context[n].conn, state |-> "parsing", input |-> Tail(context[n].input)]]
        /\ UNCHANGED <<conn, made, loop>>
    BY <1>3 DEF NewTask, Becomes
  <2>6. [conn |-> context[n].conn, state |-> "parsing", input |-> Tail(context[n].input)] # NoContext
    <3>1. context[n].input \in Seq(Item) /\ context[n].input # <<>> /\ context[n].conn \in Conn
      BY <1>3, <2>1 DEF NewTask, RequestNext, Context
    <3>2. [conn |-> context[n].conn, state |-> "parsing", input |-> Tail(context[n].input)] \in Context
      BY <3>1 DEF Context
    <3>3. QED
      BY <3>2, NoContextAssumption
  <2> HIDE DEF n, t
  <2>7. \A u \in pushed' : request'[u].conn <= made
    BY <1>0, <1>1, <2>1, <2>2, <2>3, <2>4 DEF ConnInv, TypeOK
  <2>8. QED
    BY <1>0, <1>1, <2>1, <2>5, <2>6, <2>7 DEF ConnInv, TypeOK
<1>4. CASE Elsewhere
  BY <1>0, <1>4, ElsewhereFrame DEF ConnInv, loopVars
<1>5. QED
  BY <1>2, <1>3, <1>4, Steps

LEMMA NextContextIsOfConnection == IInv /\ [Next]_vars => ContextIsOfConnection'
<1> SUFFICES ASSUME IInv, [Next]_vars PROVE ContextIsOfConnection'
  OBVIOUS
<1>0. TypeOK /\ ConnInv /\ ContextIsOfConnection /\ TypeOK'
  BY NextTypeOK DEF IInv
<1>1. CASE LoopOnly
  <2>1. ASSUME NEW n \in Node, ConnectionUp(n) PROVE ContextIsOfConnection'
    <3>1. context[n] = NoContext /\ conn'[n] = made + 1 /\ made + 1 # NoConn
      BY <1>0, <2>1, BoundsAssumption DEF ConnectionUp, ContextIsOfConnection, TypeOK, NoConn
    <3>2. context' = [context EXCEPT ![n] = [conn |-> made + 1, state |-> "parsing", input |-> <<>>]]
      BY <2>1, <3>1 DEF ConnectionUp
    <3>3. [conn |-> made + 1, state |-> "parsing", input |-> <<>>] \in Context
      BY <1>0, <2>1, BoundsAssumption DEF ConnectionUp, TypeOK, Conn, Context
    <3>4. QED
      BY <1>0, <2>1, <3>1, <3>2, <3>3, NoContextAssumption
         DEF ConnectionUp, ContextIsOfConnection, TypeOK
  <2>2. ASSUME NEW n \in Node, ConnectionDown(n) PROVE ContextIsOfConnection'
    BY <1>0, <2>2 DEF ConnectionDown, ContextIsOfConnection, TypeOK
  <2>3. ASSUME NEW n \in Node, Message(n) PROVE ContextIsOfConnection'
    <3>1. PICK input \in Seq(Item) : Becomes(n, context[n].state, context[n].input \o input)
      BY <2>3, BoundedSeqIsSeq, BoundsAssumption DEF Message
    <3>2. context[n] \in Context
      BY <1>0, <2>3 DEF Message, TypeOK
    <3>3. [conn |-> context[n].conn, state |-> context[n].state,
           input |-> context[n].input \o input] \in Context
      BY <3>1, <3>2 DEF Context
    <3>4. QED
      BY <1>0, <2>3, <3>1, <3>2, <3>3, NoContextAssumption
         DEF Message, Becomes, ContextIsOfConnection, TypeOK
  <2>4. CASE CancelTask \/ Incomplete
    BY <1>0, <2>4 DEF CancelTask, Incomplete, ContextIsOfConnection
  <2>5. CASE Reject \/ NoMemory
    <3>1. loop.node \in Node /\ context[loop.node] \in Context
      BY <1>0, <2>5, AtMessage DEF Reject, NoMemory
    <3>2. \A state \in {"bad", "done"} :
             [conn |-> context[loop.node].conn, state |-> state,
              input |-> context[loop.node].input] \in Context
      BY <3>1 DEF Context
    <3>3. QED
      BY <1>0, <2>5, <3>1, <3>2, NoContextAssumption
         DEF Reject, NoMemory, Becomes, ContextIsOfConnection, TypeOK
  <2>6. QED
    BY <1>1, <2>1, <2>2, <2>3, <2>4, <2>5 DEF LoopOnly
<1>2. CASE NewTask
  <2>1. loop.node \in Node /\ context[loop.node] \in Context
    BY <1>0, <1>2, AtMessage DEF NewTask
  <2>2. [conn |-> context[loop.node].conn, state |-> "parsing",
         input |-> Tail(context[loop.node].input)] \in Context
    BY <1>2, <2>1 DEF NewTask, RequestNext, Context
  <2>3. QED
    BY <1>0, <1>2, <2>1, <2>2, NoContextAssumption
       DEF NewTask, Becomes, ContextIsOfConnection, TypeOK
<1>3. CASE Elsewhere
  BY <1>0, <1>3, ElsewhereFrame DEF ContextIsOfConnection, loopVars
<1>4. QED
  BY <1>1, <1>2, <1>3, Steps

LEMMA NextRejectedIsClosed == IInv /\ [Next]_vars => RejectedIsClosed'
<1> SUFFICES ASSUME IInv, [Next]_vars PROVE RejectedIsClosed'
  OBVIOUS
<1>0. TypeOK /\ ConnInv /\ ContextIsOfConnection /\ RejectedIsClosed
  BY DEF IInv
<1>1. closed \subseteq closed'
  BY OnlyMore
<1>2. CASE LoopOnly
  <2>1. ASSUME NEW n \in Node, ConnectionUp(n) PROVE RejectedIsClosed'
    <3>1. context' = [context EXCEPT ![n] = [conn |-> made + 1, state |-> "parsing", input |-> <<>>]]
      BY <1>0, <2>1 DEF ConnectionUp, ContextIsOfConnection
    <3>2. QED
      BY <1>0, <1>1, <2>1, <3>1 DEF ConnectionUp, RejectedIsClosed, TypeOK, Idle, In
  <2>2. ASSUME NEW n \in Node, ConnectionDown(n) PROVE RejectedIsClosed'
    <3>1. /\ context' = [context EXCEPT ![n] = NoContext] /\ conn' = [conn EXCEPT ![n] = NoConn]
          /\ closed' = closed /\ \A m \in Node : loop # In("message", m)
      BY <2>2 DEF ConnectionDown, Idle, In
    <3>2. QED
      BY <1>0, <3>1 DEF RejectedIsClosed, TypeOK
  <2>3. ASSUME NEW n \in Node, Message(n) PROVE RejectedIsClosed'
    <3>1. loop' = In("message", n) /\ \A m \in Node : loop # In("message", m)
      BY <2>3 DEF Message, Idle, In
    <3>2. \A m \in Node \ {n} : context'[m] = context[m]
      BY <1>0, <2>3 DEF Message, Becomes, TypeOK
    <3>3. UNCHANGED <<conn, closed>>
      BY <2>3 DEF Message
    <3>4. QED
      BY <1>0, <3>1, <3>2, <3>3 DEF RejectedIsClosed
  <2>4. CASE CancelTask
    BY <1>0, <1>1, <2>4 DEF CancelTask, RejectedIsClosed, Idle, In
  <2>5. CASE Incomplete
    <3>1. loop.node \in Node /\ loop = In("message", loop.node) /\ context[loop.node] \in Context
          /\ context[loop.node] # NoContext
      BY <1>0, <2>5, AtMessage, NoContextAssumption DEF Incomplete
    <3>2. context[loop.node].state = "parsing" /\ context[loop.node].input = <<>>
      BY <1>0, <2>5, <3>1 DEF Incomplete, NothingNext, ConnInv, Context
    <3>3. \A n \in Node \ {loop.node} : loop # In("message", n)
      BY <3>1 DEF In
    <3>4. QED
      BY <1>0, <2>5, <3>2, <3>3 DEF Incomplete, RejectedIsClosed
  <2>6. CASE Reject \/ NoMemory
    <3>1. loop.node \in Node /\ loop = In("message", loop.node) /\ context[loop.node] # NoContext
      BY <1>0, <2>6, AtMessage, NoContextAssumption DEF Reject, NoMemory
    <3>2. conn[loop.node] \in closed'
      BY <1>0, <2>6, <3>1 DEF Reject, NoMemory, CloseNode, ContextIsOfConnection
    <3>3. \A n \in Node \ {loop.node} : loop # In("message", n) /\ context'[n] = context[n]
      BY <1>0, <2>6, <3>1 DEF In, Reject, NoMemory, Becomes, TypeOK
    <3>4. conn' = conn
      BY <2>6 DEF Reject, NoMemory
    <3>5. QED
      BY <1>0, <1>1, <3>2, <3>3, <3>4 DEF RejectedIsClosed
  <2>7. QED
    BY <1>2, <2>1, <2>2, <2>3, <2>4, <2>5, <2>6 DEF LoopOnly
<1>3. CASE NewTask
  <2>1. loop.node \in Node /\ loop = In("message", loop.node)
    BY <1>0, <1>3, AtMessage DEF NewTask
  <2>2. QED
    BY <1>0, <1>1, <1>3, <2>1 DEF NewTask, Becomes, RejectedIsClosed, TypeOK
<1>4. CASE Elsewhere
  BY <1>0, <1>1, <1>4, ElsewhereFrame DEF RejectedIsClosed, loopVars
<1>5. QED
  BY <1>2, <1>3, <1>4, Steps

LEMMA NextReferencesAreLive == IInv /\ [Next]_vars => ReferencesAreLive'
<1> SUFFICES ASSUME IInv, [Next]_vars PROVE ReferencesAreLive'
  OBVIOUS
<1>0. ReferencesAreLive /\ Queue!TypeOK /\ ToSet(freed) \subseteq pushed
      /\ \A w \in Worker : at[w] = "delete" => held[w] \in Task
  BY QueueFacts DEF IInv, Queue!TypeOK
<1>1. CASE LoopOnly
  BY <1>0, <1>1, LoopOnlyFrame DEF ReferencesAreLive, queueVars
<1>2. CASE NewTask
  <2>1. PICK t \in Task : t \notin pushed /\ pushed' = pushed \cup {t} /\ refs' = refs \cup {t} /\ freed' = freed
    BY <1>2 DEF NewTask, Queue!PushTask
  <2>2. QED
    BY <1>0, <2>1 DEF ReferencesAreLive
<1>3. CASE Elsewhere
  <2>1. pushed' = pushed
    BY <1>3, ElsewhereFrame
  <2>2. ASSUME NEW w \in Worker, Delete(w) PROVE ReferencesAreLive'
    <3>1. held[w] \in Task /\ freed' = Append(freed, held[w]) /\ refs' = refs \ {held[w]}
      BY <1>0, <2>2 DEF Delete, Queue!Delete
    <3>2. ToSet(freed') = ToSet(freed) \cup {held[w]}
      BY <1>0, <3>1, ToSetAppend DEF Queue!TypeOK
    <3>3. QED
      BY <1>0, <2>1, <3>1, <3>2 DEF ReferencesAreLive
  <2>3. CASE DeleteRest
    <3>1. ToSet(freed') = ToSet(freed) \cup ToSet(tasks)
      BY <1>0, <2>3, ToSetConcat DEF DeleteRest, Queue!DeleteRest, Queue!TypeOK
    <3>2. QED
      BY <1>0, <2>1, <2>3, <3>1 DEF DeleteRest, ReferencesAreLive
  <2>4. ASSUME NEW w \in Worker, Take(w) \/ Begin(w) \/ Respond(w) \/ Close(w) \/ Wake(w)
        PROVE  UNCHANGED <<refs, freed>>
    BY <2>4 DEF Take, Begin, Respond, Close, Wake, queueVars,
                Queue!GetNext, Queue!Run, Queue!Spurious
  <2>5. CASE Construct \/ Destroy \/ Join \/ UNCHANGED vars
    BY <1>0, <2>1, <2>5
       DEF Construct, Destroy, Join, vars, queueVars, ReferencesAreLive,
           Queue!Construct, Queue!Destroy, Queue!SetExit, Queue!Join
  <2>6. QED
    BY <1>0, <1>3, <2>1, <2>2, <2>3, <2>4, <2>5 DEF Elsewhere, ReferencesAreLive
<1>4. QED
  BY <1>1, <1>2, <1>3, Steps

LEMMA NextCancelIsExact == IInv /\ [Next]_vars => CancelIsExact'
<1> SUFFICES ASSUME IInv, [Next]_vars PROVE CancelIsExact'
  OBVIOUS
<1>0. TypeOK /\ ConnInv /\ ContextIsOfConnection /\ CancelIsExact
  BY DEF IInv
<1>1. \A t \in refs : request[t] \in Request /\ request[t].conn \in Nat /\ request[t].conn # NoConn
                       /\ request[t].node \in Node /\ request[t].conn <= made
  BY <1>0, BoundsAssumption DEF TypeOK, Request, Conn, NoConn, ConnInv
<1>2. CASE LoopOnly
  <2>1. UNCHANGED <<refs, request>>
    BY <1>2, LoopOnlyFrame
  <2>2. ASSUME NEW n \in Node, ConnectionUp(n) PROVE CancelIsExact'
    <3>1. loop = Idle /\ loop' = Idle /\ canceled' = canceled /\ conn[n] = NoConn
          /\ conn' = [conn EXCEPT ![n] = made + 1] /\ made \in Nat
      BY <1>0, <2>2, BoundsAssumption DEF ConnectionUp, TypeOK
    <3>2. \A t \in refs : loop # In("cancel", request[t].node)
      BY <3>1 DEF Idle, In
    <3>3. QED
      BY <1>0, <1>1, <2>1, <3>1, <3>2 DEF CancelIsExact, TypeOK
  <2>3. ASSUME NEW n \in Node, ConnectionDown(n) PROVE CancelIsExact'
    <3>1. loop = Idle /\ loop' = In("cancel", n) /\ canceled' = canceled
          /\ conn' = [conn EXCEPT ![n] = NoConn]
      BY <2>3 DEF ConnectionDown
    <3>2. \A m \in Node : loop # In("cancel", m)
      BY <3>1 DEF Idle, In
    <3>3. QED
      BY <1>0, <1>1, <2>1, <3>1, <3>2 DEF CancelIsExact, TypeOK
  <2>4. CASE CancelTask
    <3>1. PICK n \in Node : loop = In("cancel", n) /\ loop.node = n
      BY <1>0, <2>4 DEF CancelTask, TypeOK, Idle, In
    <3>2. conn[n] = NoConn /\ conn' = conn
      BY <1>0, <2>4, <3>1 DEF CancelTask, ConnInv
    <3>3. \A t \in refs : t \in canceled' <=> t \in canceled \/ request[t].node = n
      BY <2>4, <3>1 DEF CancelTask, TasksOf
    <3>4. \A t \in refs : loop = In("cancel", request[t].node) => request[t].node = n
      BY <3>1 DEF In
    <3>5. QED
      BY <1>0, <1>1, <2>1, <3>2, <3>3, <3>4 DEF CancelIsExact
  <2>5. ASSUME NEW n \in Node, Message(n) PROVE CancelIsExact'
    BY <1>0, <2>1, <2>5 DEF Message, CancelIsExact, Idle, In
  <2>6. CASE Incomplete \/ Reject \/ NoMemory
    BY <1>0, <2>1, <2>6 DEF Incomplete, Reject, NoMemory, CancelIsExact, Idle, In
  <2>7. QED
    BY <1>2, <2>2, <2>3, <2>4, <2>5, <2>6 DEF LoopOnly
<1>3. CASE NewTask
  <2> DEFINE n == loop.node
             t == Cardinality(pushed) + 1
  <2>1. n \in Node /\ context[n] # NoContext /\ loop = In("message", n)
    BY <1>0, <1>3, AtMessage, NoContextAssumption DEF NewTask
  <2>2. context[n].conn = conn[n]
    BY <1>0, <2>1 DEF ContextIsOfConnection
  <2>3. t \in Task /\ t \notin pushed /\ refs' = refs \cup {t}
    BY <1>3 DEF NewTask, Queue!PushTask
  <2>4. \E keep \in BOOLEAN :
           request' = [request EXCEPT ![t] = [node |-> n, conn |-> context[n].conn, keepAlive |-> keep]]
    BY <1>3 DEF NewTask
  <2>5. UNCHANGED <<conn, loop, canceled>>
    BY <1>3 DEF NewTask
  <2> HIDE DEF n, t
  <2>6. t \notin canceled /\ t \notin refs
    BY <1>0, <2>3 DEF TypeOK
  <2>7. request'[t].conn = conn'[n] /\ request'[t].node = n
        /\ \A u \in refs : request'[u] = request[u]
    BY <1>0, <2>2, <2>3, <2>4, <2>5, <2>6 DEF TypeOK
  <2>8. QED
    BY <1>0, <2>3, <2>5, <2>6, <2>7 DEF CancelIsExact
<1>4. CASE Elsewhere
  <2>1. refs' \subseteq refs
    <3>1. ASSUME NEW w \in Worker, Take(w) \/ Begin(w) \/ Respond(w) \/ Close(w) \/ Delete(w) \/ Wake(w)
          PROVE  refs' \subseteq refs
      BY <3>1 DEF Take, Begin, Respond, Close, Delete, Wake
    <3>2. CASE Construct \/ Destroy \/ Join \/ DeleteRest \/ UNCHANGED vars
      BY <3>2 DEF Construct, Destroy, Join, DeleteRest, vars
    <3>3. QED
      BY <1>4, <3>1, <3>2 DEF Elsewhere
  <2>2. QED
    BY <1>0, <1>4, <2>1, ElsewhereFrame DEF CancelIsExact, loopVars
<1>5. QED
  BY <1>2, <1>3, <1>4, Steps

LEMMA NextWorkerInv == IInv /\ [Next]_vars => WorkerInv'
<1> SUFFICES ASSUME IInv, [Next]_vars PROVE WorkerInv'
  OBVIOUS
<1>0. TypeOK /\ WorkerInv /\ Queue!TypeOK
  BY QueueFacts DEF IInv
<1>1. canceled \subseteq canceled' /\ sent \subseteq sent'
  BY OnlyMore
<1>2. CASE LoopOnly
  BY <1>0, <1>1, <1>2, LoopOnlyFrame DEF WorkerInv, queueVars
<1>3. CASE NewTask
  <2>1. UNCHANGED <<phase, sent, canceled, held>>
    BY <1>3 DEF NewTask, Queue!PushTask
  <2>2. \A w \in Worker : at'[w] = at[w] \/ (at[w] = "asleep" /\ at'[w] = "getNext")
    BY <1>0, <1>3 DEF NewTask, Queue!PushTask, Queue!Asleep, Queue!TypeOK
  <2>3. QED
    BY <1>0, <2>1, <2>2 DEF WorkerInv
<1>4. CASE Elsewhere
  <2>1. canceled' = canceled
    BY <1>4, ElsewhereFrame DEF loopVars
  <2>2. ASSUME NEW w \in Worker, Take(w) \/ Delete(w) \/ Wake(w) PROVE WorkerInv'
    <3>1. /\ UNCHANGED <<phase, sent>>
          /\ at[w] \in {"getNext", "delete", "asleep"} /\ at'[w] # "delete"
          /\ \A v \in Worker \ {w} : at'[v] = at[v] /\ held'[v] = held[v]
      BY <1>0, <2>2 DEF Take, Delete, Wake, Queue!GetNext, Queue!Delete, Queue!Spurious, Queue!TypeOK
    <3>2. QED
      BY <1>0, <2>1, <3>1 DEF WorkerInv
  <2>3. ASSUME NEW w \in Worker, Begin(w) \/ Respond(w) \/ Close(w) PROVE WorkerInv'
    <3>1. /\ held' = held /\ \A v \in Worker \ {w} : at'[v] = at[v] /\ phase'[v] = phase[v]
          /\ at[w] = "run"
      BY <1>0, <2>3 DEF Begin, Respond, Close, Queue!Run, queueVars, Queue!TypeOK, TypeOK, WorkerInv
    <3>2. CASE at'[w] = "delete"
      <4>1. held[w] \in sent' \cup canceled
        BY <1>0, <2>3, <3>2 DEF Begin, Respond, Close, queueVars, WorkerInv
      <4>2. phase'[w] = "begin"
        BY <1>0, <2>3, <3>1, <3>2 DEF Begin, Respond, Close, queueVars, TypeOK
      <4>3. QED
        BY <1>0, <1>1, <2>1, <3>1, <3>2, <4>1, <4>2 DEF WorkerInv
    <3>3. CASE at'[w] # "delete"
      <4>1. at'[w] = "run"
        BY <1>0, <2>3, <3>1, <3>3 DEF Begin, Respond, Close, Queue!Run, queueVars, Queue!TypeOK
      <4>2. phase'[w] = "close" => held[w] \in sent'
        BY <1>0, <2>3, <3>1, <3>3
           DEF Begin, Respond, Close, Queue!Run, Queue!TypeOK, TypeOK, WorkerInv
      <4>3. QED
        BY <1>0, <1>1, <2>1, <3>1, <3>3, <4>1, <4>2 DEF WorkerInv
    <3>4. QED
      BY <3>2, <3>3
  <2>4. CASE Construct \/ Destroy \/ Join \/ DeleteRest \/ UNCHANGED vars
    <3>1. UNCHANGED <<phase, sent, held>>
      BY <2>4 DEF Construct, Destroy, Join, DeleteRest, vars, queueVars,
                  Queue!Construct, Queue!Destroy, Queue!SetExit, Queue!Join, Queue!DeleteRest
    <3>2. \A v \in Worker : at'[v] = at[v] \/ (at[v] # "run" /\ at'[v] = "getNext")
      BY <1>0, <2>4
         DEF Construct, Destroy, Join, DeleteRest, vars, queueVars, Queue!TypeOK, Queue!Born,
             Queue!Construct, Queue!Destroy, Queue!SetExit, Queue!Join, Queue!DeleteRest
    <3>3. QED
      BY <1>0, <2>1, <3>1, <3>2 DEF WorkerInv
  <2>5. QED
    BY <1>4, <2>2, <2>3, <2>4 DEF Elsewhere
<1>5. QED
  BY <1>2, <1>3, <1>4, Steps

\* The tasks pushed are a finite number, and the next is not among them.
LEMMA PushedCount ==
    ASSUME OrderInv, Queue!TypeOK
    PROVE  /\ Cardinality(pushed) \in Nat /\ Len(tasks) \in Nat
           /\ Cardinality(pushed \cup {Cardinality(pushed) + 1}) = Cardinality(pushed) + 1
<1> DEFINE k == Cardinality(pushed)
<1>1. pushed = 1..k /\ pushed \subseteq Task /\ tasks \in Seq(Task)
  BY DEF OrderInv, Queue!TypeOK
<1>2. IsFiniteSet(Task)
  BY BoundsAssumption, FS_Interval DEF Task
<1>3. IsFiniteSet(pushed)
  BY <1>1, <1>2, FS_Subset
<1>4. k \in Nat
  BY <1>3, FS_CardinalityType
<1> HIDE DEF k
<1>5. k + 1 \notin pushed
  BY <1>1, <1>4
<1>6. Cardinality(pushed \cup {k + 1}) = k + 1
  BY <1>3, <1>5, FS_AddElement DEF k
<1>7. QED
  BY <1>1, <1>4, <1>6 DEF k

LEMMA NextOrderInv == IInv /\ [Next]_vars => OrderInv'
<1> SUFFICES ASSUME IInv, [Next]_vars PROVE OrderInv'
  OBVIOUS
<1> DEFINE k == Cardinality(pushed)
<1>0. OrderInv /\ WorkerInv /\ Queue!TypeOK
      /\ \A w \in Worker : held[w] # NoTask <=> at[w] \in {"run", "delete"}
  BY QueueFacts DEF IInv
<1>1. canceled \subseteq canceled' /\ sent \subseteq sent'
  BY OnlyMore
<1>2. k \in Nat /\ Len(tasks) \in Nat /\ (\A w \in Worker : held[w] \in Nat)
      /\ Cardinality(pushed \cup {k + 1}) = k + 1
  BY <1>0, PushedCount, BoundsAssumption DEF Queue!TypeOK, Task, NoTask
<1>3. CASE LoopOnly
  BY <1>0, <1>1, <1>3, LoopOnlyFrame DEF OrderInv, queueVars
<1>4. CASE NewTask
  <2>1. /\ k + 1 \in Task /\ pushed' = pushed \cup {k + 1} /\ tasks' = Append(tasks, k + 1)
        /\ UNCHANGED <<owner, held, freed, sent, canceled>>
    BY <1>4 DEF NewTask, Queue!PushTask
  <2>2. Cardinality(pushed') = k + 1 /\ pushed' = 1..(k + 1)
    BY <1>0, <1>2, <2>1 DEF OrderInv
  <2>3. /\ Len(tasks') = Len(tasks) + 1 /\ tasks'[Len(tasks) + 1] = k + 1
        /\ \A i \in 1..Len(tasks) : tasks'[i] = tasks[i]
    BY <1>0, <2>1 DEF Queue!TypeOK
  <2>4. \A i \in 1..Len(tasks) : tasks[i] = k - Len(tasks) + i
    BY <1>0 DEF OrderInv
  <2> HIDE DEF k
  <2>5. \A i \in 1..Len(tasks') : tasks'[i] = (k + 1) - Len(tasks') + i
    BY <1>2, <2>3, <2>4
  <2>6. \A w \in Worker : held'[w] + Len(tasks') <= k + 1
    BY <1>0, <1>2, <2>1, <2>3 DEF OrderInv, k
  <2>7. QED
    BY <1>0, <2>1, <2>2, <2>5, <2>6 DEF OrderInv
<1>5. CASE Elsewhere
  <2>1. UNCHANGED <<pushed, canceled>>
    BY <1>5, ElsewhereFrame DEF loopVars
  <2>2. ASSUME NEW w \in Worker, Take(w) PROVE OrderInv'
    <3>1. UNCHANGED <<owner, freed, sent>>
      BY <2>2 DEF Take, Queue!GetNext
    <3>2. CASE UNCHANGED <<tasks, held>>
      BY <1>0, <2>1, <3>1, <3>2 DEF OrderInv
    <3>3. CASE tasks # <<>> /\ held' = [held EXCEPT ![w] = Head(tasks)] /\ tasks' = Tail(tasks)
      <4>1. /\ Len(tasks') = Len(tasks) - 1 /\ Len(tasks) >= 1 /\ Head(tasks) = tasks[1]
            /\ \A i \in 1..Len(tasks') : tasks'[i] = tasks[i + 1] /\ i + 1 \in 1..Len(tasks)
        BY <1>0, <3>3 DEF Queue!TypeOK
      <4> HIDE DEF k
      <4>2. \A i \in 1..Len(tasks') : tasks'[i] = k - Len(tasks') + i
        BY <1>0, <1>2, <4>1 DEF OrderInv, k
      <4>3. Head(tasks) = k - Len(tasks) + 1
        BY <1>0, <1>2, <4>1 DEF OrderInv, k
      <4>4. \A v \in Worker : held'[v] + Len(tasks') <= k
        BY <1>0, <1>2, <3>3, <4>1, <4>3 DEF OrderInv, Queue!TypeOK, k
      <4>5. QED
        BY <1>0, <2>1, <3>1, <4>2, <4>4 DEF OrderInv, k
    <3>4. QED
      BY <2>2, <3>2, <3>3 DEF Take, Queue!GetNext
  <2>3. ASSUME NEW w \in Worker, Delete(w) PROVE OrderInv'
    <3>1. /\ held' = [held EXCEPT ![w] = NoTask] /\ freed' = Append(freed, held[w])
          /\ at[w] = "delete" /\ UNCHANGED <<owner, tasks, sent>>
      BY <2>3 DEF Delete, Queue!Delete
    <3>2. held[w] \in Task /\ held[w] \in sent \cup canceled
      BY <1>0, <3>1 DEF WorkerInv, Queue!TypeOK
    <3>3. ToSet(freed') = ToSet(freed) \cup {held[w]}
      BY <1>0, <3>1, <3>2, ToSetAppend DEF Queue!TypeOK
    <3>4. \A v \in Worker : held'[v] = held[v] \/ held'[v] = 0
      BY <1>0, <3>1 DEF Queue!TypeOK, NoTask
    <3>5. \A v \in Worker : held'[v] + Len(tasks') <= Cardinality(pushed)
      BY <1>0, <1>2, <3>1, <3>4 DEF OrderInv
    <3>6. QED
      BY <1>0, <2>1, <3>1, <3>2, <3>3, <3>5 DEF OrderInv
  <2>4. CASE DeleteRest
    <3>1. owner' = "destroyed" /\ tasks' = <<>> /\ held' = held
      BY <2>4 DEF DeleteRest, Queue!DeleteRest
    <3>2. \A w \in Worker : held'[w] + Len(tasks') <= Cardinality(pushed)
      BY <1>0, <1>2, <3>1 DEF OrderInv
    <3>3. QED
      BY <1>0, <2>1, <3>1, <3>2 DEF OrderInv
  <2>5. ASSUME NEW w \in Worker, Begin(w) \/ Respond(w) \/ Close(w) \/ Wake(w) PROVE OrderInv'
    <3>1. UNCHANGED <<owner, tasks, held, freed>>
      BY <2>5 DEF Begin, Respond, Close, Wake, queueVars, Queue!Run, Queue!Spurious
    <3>2. QED
      BY <1>0, <1>1, <2>1, <3>1 DEF OrderInv
  <2>6. CASE Construct \/ Destroy \/ Join \/ UNCHANGED vars
    <3>1. UNCHANGED <<tasks, held, freed, sent>> /\ (owner = "destroyed" => owner' = "destroyed")
      BY <2>6 DEF Construct, Destroy, Join, vars, queueVars,
                  Queue!Construct, Queue!Destroy, Queue!SetExit, Queue!Join
    <3>2. owner' # "destroyed" => owner # "destroyed"
      BY <3>1
    <3>3. QED
      BY <1>0, <2>1, <3>1, <3>2 DEF OrderInv
  <2>7. QED
    BY <1>5, <2>2, <2>3, <2>4, <2>5, <2>6 DEF Elsewhere
<1>6. QED
  BY <1>3, <1>4, <1>5, Steps

LEMMA NextNonePassedOver == IInv /\ [Next]_vars => NonePassedOver'
<1> SUFFICES ASSUME IInv, [Next]_vars PROVE NonePassedOver'
  OBVIOUS
<1>0. /\ TypeOK /\ OrderInv /\ WorkerInv /\ NonePassedOver /\ Queue!TypeOK
      /\ \A w \in Worker : held[w] # NoTask <=> at[w] \in {"run", "delete"}
      /\ pushed = ToSet(tasks) \cup ToSet(freed)
                     \cup {t \in Task : \E w \in Worker : held[w] = t}
      /\ owner = "destroyed" => \A w \in Worker : at[w] \in {"unborn", "left"}
  BY QueueFacts DEF IInv
<1>1. canceled \subseteq canceled' /\ sent \subseteq sent'
  BY OnlyMore
<1>2. \A t \in sent : t \in Nat
  <2>1. sent \subseteq Task
    BY <1>0 DEF TypeOK, Queue!TypeOK
  <2>2. QED
    BY <2>1, BoundsAssumption DEF Task
\* What is held goes on being held, or is answered or cancelled.
<1>3. ASSUME sent' = sent,
             \A w \in Worker : held[w] # NoTask =>
                 held'[w] = held[w] \/ held[w] \in sent \cup canceled
      PROVE  NonePassedOver'
  <2> SUFFICES ASSUME NEW t \in sent, NEW s \in 1..(t - 1)
               PROVE  s \in sent \cup canceled' \/ \E w \in Worker : held'[w] = s
    BY <1>3 DEF NonePassedOver
  <2>1. s # NoTask
    BY <1>2 DEF NoTask
  <2>2. s \in sent \cup canceled \/ \E w \in Worker : held[w] = s
    BY <1>0 DEF NonePassedOver
  <2>3. QED
    BY <1>1, <1>3, <2>1, <2>2
<1>4. CASE LoopOnly
  <2>1. UNCHANGED <<sent, held>>
    BY <1>4, LoopOnlyFrame DEF queueVars
  <2>2. QED
    BY <1>3, <2>1
<1>5. CASE NewTask
  <2>1. UNCHANGED <<sent, held>>
    BY <1>5 DEF NewTask, Queue!PushTask
  <2>2. QED
    BY <1>3, <2>1
<1>6. CASE Elsewhere
  <2>1. UNCHANGED <<pushed, canceled>>
    BY <1>6, ElsewhereFrame DEF loopVars
  <2>2. ASSUME NEW w \in Worker, Take(w) \/ Begin(w) \/ Close(w) \/ Delete(w) \/ Wake(w)
        PROVE  NonePassedOver'
    <3>1. sent' = sent
      BY <2>2 DEF Take, Begin, Close, Delete, Wake
    <3>2. \A v \in Worker : held[v] # NoTask =>
             held'[v] = held[v] \/ held[v] \in sent \cup canceled
      <4>1. CASE Take(w)
        BY <1>0, <4>1 DEF Take, Queue!GetNext, Queue!TypeOK
      <4>2. CASE Delete(w)
        BY <1>0, <4>2 DEF Delete, Queue!Delete, Queue!TypeOK, WorkerInv
      <4>3. CASE Begin(w) \/ Close(w) \/ Wake(w)
        BY <4>3 DEF Begin, Close, Wake, queueVars, Queue!Run, Queue!Spurious
      <4>4. QED
        BY <2>2, <4>1, <4>2, <4>3
    <3>3. QED
      BY <1>3, <3>1, <3>2
  <2>3. ASSUME NEW w \in Worker, Respond(w) PROVE NonePassedOver'
    <3>1. sent' = sent \cup {held[w]} /\ held' = held /\ at[w] = "run"
      BY <1>0, <2>3 DEF Respond, Queue!Run, queueVars, WorkerInv
    <3>2. held[w] \in Nat /\ Len(tasks) \in Nat /\ Cardinality(pushed) \in Nat
          /\ held[w] + Len(tasks) <= Cardinality(pushed)
      <4>1. held[w] \in Nat
        BY <1>0, BoundsAssumption DEF Queue!TypeOK, Task, NoTask
      <4>2. Len(tasks) \in Nat /\ Cardinality(pushed) \in Nat
        BY <1>0, PushedCount
      <4>3. QED
        BY <1>0, <4>1, <4>2 DEF OrderInv
    <3>3. ASSUME NEW s \in 1..(held[w] - 1)
          PROVE  s \in sent \cup canceled \/ \E v \in Worker : held[v] = s
      <4>1. s \in pushed
        <5>1. s \in 1..Cardinality(pushed)
          BY <3>2
        <5>2. QED
          BY <1>0, <5>1 DEF OrderInv
      <4>2. s \notin ToSet(tasks)
        <5> SUFFICES ASSUME s \in ToSet(tasks) PROVE FALSE
          OBVIOUS
        <5>1. PICK i \in 1..Len(tasks) : s = tasks[i]
          BY <1>0 DEF ToSet, Queue!TypeOK
        <5>2. s = Cardinality(pushed) - Len(tasks) + i
          BY <1>0, <5>1 DEF OrderInv
        <5>3. QED
          BY <3>2, <5>2
      <4>3. s \in ToSet(freed) => s \in sent \cup canceled
        BY <1>0, <3>1 DEF OrderInv
      <4>4. QED
        BY <1>0, <4>1, <4>2, <4>3
    <3>4. QED
      BY <1>0, <2>1, <3>1, <3>3 DEF NonePassedOver
  <2>4. CASE Construct \/ Destroy \/ Join \/ DeleteRest \/ UNCHANGED vars
    <3>1. UNCHANGED <<sent, held>>
      BY <2>4 DEF Construct, Destroy, Join, DeleteRest, vars, queueVars,
                  Queue!Construct, Queue!Destroy, Queue!SetExit, Queue!Join, Queue!DeleteRest
    <3>2. QED
      BY <1>3, <3>1
  <2>5. QED
    BY <1>6, <2>2, <2>3, <2>4 DEF Elsewhere
<1>7. QED
  BY <1>4, <1>5, <1>6, Steps

-----------------------------------------------------------------------------
(* The theorems.                                                           *)

\* The invariant holds in every reachable state of ChttpServer and its tasks.
THEOREM Invariance == Spec => []IInv
<1>1. IInv /\ [Next]_vars => IInv'
  BY QueueNext, NextTypeOK, NextConnInv, NextWorkerInv, NextOrderInv, NextReferencesAreLive,
     NextCancelIsExact, NextContextIsOfConnection, NextRejectedIsClosed, NextNonePassedOver
     DEF IInv
<1>2. QED
  BY InitIInv, <1>1, PTL DEF Spec

\* Every variable of the server keeps its type.
THEOREM TypeCorrect == Spec => []TypeOK
<1>1. IInv => TypeOK
  BY DEF IInv
<1>2. QED
  BY Invariance, <1>1, PTL

\* The server uses its CworkQueue only as the queue allows, so that what is proved
\* of the queue alone holds of it in the server, with the pool's loop thread as the
\* one that pushes.
THEOREM DrivesQueue == Spec => QueueProofs!Spec
<1>1. Init => QueueProofs!Init
  BY DEF Init, Queue!Init, QueueProofs!Init
<1>2. QED
  BY <1>1, ServerStep, PTL DEF Spec, QueueProofs!Spec

\* m_tasks refers to the tasks that exist and to no other: cancelTask on the loop
\* thread never writes to a task that a worker has deleted.
THEOREM CancelReachesLiveTasks == Spec => []ReferencesAreLive
<1>1. IInv => ReferencesAreLive
  BY DEF IInv
<1>2. QED
  BY Invariance, <1>1, PTL

\* connectionStatus and cancelTask cancel the tasks of a connection that is gone, all
\* of them and none of its node's next connection.
THEOREM CancelsWhatIsGone == Spec => []CancelIsExact
<1>1. IInv => CancelIsExact
  BY DEF IInv
<1>2. QED
  BY Invariance, <1>1, PTL

\* m_context has a parse state for each connection, its own, and for no other.
THEOREM ContextsFollowConnections == Spec => []ContextIsOfConnection
<1>1. IInv => ContextIsOfConnection
  BY DEF IInv
<1>2. QED
  BY Invariance, <1>1, PTL

\* message() asks the pool to close every connection that sent what it cannot serve.
THEOREM NothingBadStaysOpen == Spec => []RejectedIsClosed
<1>1. IInv => RejectedIsClosed
  BY DEF IInv
<1>2. QED
  BY Invariance, <1>1, PTL

\* However many workers there are, a response overtakes only those that a worker is at.
THEOREM OrderIsKept == Spec => []OvertakesOnlyRunning
<1>1. IInv => OvertakesOnlyRunning
  BY DEF IInv, NonePassedOver, OvertakesOnlyRunning
<1>2. QED
  BY Invariance, <1>1, PTL

=============================================================================
