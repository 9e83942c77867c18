------------------------------ MODULE HttpSyntax ------------------------------
(***************************************************************************)
(* What the bytes of a connection mean: the requests in them, declared and *)
(* not computed the way the parser does it.  Module HttpContext is checked *)
(* against it.  A header is one byte here, and alone on its line; the text *)
(* of any other line is of no consequence to the parser.                   *)
(***************************************************************************)
EXTENDS Integers, Sequences, FiniteSets, SequencesExt

CONSTANTS Word,   \* values of size_t
          Radix   \* of a chunk size: 16 in the code, by a shift of 4

ASSUME WordAssumption ==
    /\ Word \in Nat /\ Radix \in Nat
    /\ 2 <= Radix /\ Radix < Word /\ Word % Radix = 0

CR == "\r"
LF == "\n"
Nul == "nul"

\* isspace.
IsSpace(b) == b \in {" ", CR, LF}

\* The digits of a chunk size, as many as there are in a small radix.
DigitValue == [b \in {"0", "1", "2", "3"} |->
    CASE b = "0" -> 0 [] b = "1" -> 1 [] b = "2" -> 2 [] b = "3" -> 3]
IsDigit(b) == b \in DOMAIN DigitValue /\ DigitValue[b] < Radix

\* The headers the parser knows, each the name of a line: Connection with
\* Keep-Alive and with another value, Transfer-Encoding with chunked and with
\* another value, Content-Length with one, two and minus one.  atoi gives an int,
\* which becomes a size_t.
Field == [Alive  |-> "keepAlive", Close |-> "keepAlive",
          Chunked |-> "chunked", Plain |-> "chunked",
          One |-> "contentLength", Two |-> "contentLength", Minus |-> "contentLength"]
Value == [Alive  |-> TRUE, Close |-> FALSE, Chunked |-> TRUE, Plain |-> FALSE,
          One |-> 1, Two |-> 2, Minus |-> Word - 1]
IsHeader(line) == Len(line) = 1 /\ line[1] \in DOMAIN Field

-----------------------------------------------------------------------------
(* Blocks of lines, from position i of s.  Each line ends in CR LF, and an   *)
(* empty one ends the block.                                                *)

LineFeeds(s, i, j) == {k \in i..j : s[k] = LF}

\* The line feed at j is the first byte of its line, or has no CR before it.
IsBare(s, i, j) == s[j] = LF /\ (j = i \/ s[j - 1] # CR)

\* The line feed at j ends an empty line.
IsBlank(s, i, j) ==
    /\ s[j] = LF /\ ~IsBare(s, i, j)
    /\ j - 1 = i \/ s[j - 2] = LF

\* Where the block ends, well or badly: no place if more input is needed.
Stops(s, i) == {j \in i..Len(s) : IsBare(s, i, j) \/ IsBlank(s, i, j)}

\* The k-th of some line feeds.
FeedAt(feeds, k) == Min({e \in feeds : Cardinality({f \in feeds : f <= e}) = k})

\* The lines of a block whose empty line ends at j.
LinesOf(s, i, j) ==
    LET feeds == LineFeeds(s, i, j - 2)
        start(k) == IF k = 1 THEN i ELSE FeedAt(feeds, k - 1) + 1
    IN [k \in 1..Cardinality(feeds) |-> SubSeq(s, start(k), FeedAt(feeds, k) - 2)]

\* The value that the last header of a field gives it.
LastValue(lines, field, default) ==
    LET at == {k \in 1..Len(lines) : IsHeader(lines[k]) /\ Field[lines[k][1]] = field}
    IN IF at = {} THEN default ELSE Value[lines[Max(at)][1]]

-----------------------------------------------------------------------------
(* Chunks.  The size is the first run of digits of its line, after spaces.   *)

Leading(line) == {k \in 1..Len(line) : \A m \in 1..k : IsSpace(line[m])}
SizeDigits(line) ==
    LET text == SubSeq(line, Cardinality(Leading(line)) + 1, Len(line))
    IN SubSeq(text, 1,
              Cardinality({k \in 1..Len(text) : \A m \in 1..k : IsDigit(text[m])}))

\* The number, which may be larger than any size_t.
Number(digits) == FoldLeft(LAMBDA n, d : n * Radix + DigitValue[d], 0, digits)

More == [is |-> "more"]
Bad == [is |-> "bad"]
\* The parser's reading of this input is not that of the protocol.
Unspecified == [is |-> "unspecified"]

\* The first line from i, which says the size of a chunk.  The chunk follows, then
\* CR LF, and then position ChunkEnd.
FirstFeed(s, i) == Min(LineFeeds(s, i, Len(s)))
SizeAt(s, i) == Number(SizeDigits(SubSeq(s, i, FirstFeed(s, i) - 1)))
ChunkEnd(s, i) == FirstFeed(s, i) + SizeAt(s, i) + 3
ChunkAt(s, i) == SubSeq(s, FirstFeed(s, i) + 1, FirstFeed(s, i) + SizeAt(s, i))
HasChunk(s, i) ==
    /\ LineFeeds(s, i, Len(s)) # {} /\ ~IsBare(s, i, FirstFeed(s, i))
    /\ SizeAt(s, i) > 0 /\ SizeAt(s, i) + 2 < Word
    /\ ChunkEnd(s, i) <= Len(s) + 1
    /\ SubSeq(s, ChunkEnd(s, i) - 2, ChunkEnd(s, i) - 1) = <<CR, LF>>

\* What is at i where there is no chunk: the last size and the trailer, if all is well.
BodyEnd(s, i) ==
    LET j == FirstFeed(s, i)
        stops == Stops(s, j + 1)
        k == Min(stops)
    IN IF LineFeeds(s, i, Len(s)) = {} THEN More
       ELSE IF IsBare(s, i, j) THEN Bad
       ELSE IF SizeAt(s, i) > 0
            THEN IF SizeAt(s, i) + 2 < Word /\ ChunkEnd(s, i) > Len(s) + 1 THEN More
                 ELSE Unspecified
       ELSE IF stops = {} THEN More
       ELSE IF IsBare(s, j + 1, k) THEN Bad
       ELSE [is |-> "done", content |-> <<>>, trailer |-> LinesOf(s, j + 1, k), next |-> k + 1]

\* A body behind some content.
Behind(content, body) ==
    IF body.is # "done" THEN body ELSE [body EXCEPT !.content = content \o @]

\* What a chunked body from position i is: its content, its trailer and where it
\* ends.
ChunkedBody(s, first) ==
    LET body[i \in 1..(Len(s) + 1)] ==
          IF HasChunk(s, i) THEN Behind(ChunkAt(s, i), body[ChunkEnd(s, i)]) ELSE BodyEnd(s, i)
    IN body[first]

\* A body of known length.
PlainBody(s, i, length) ==
    IF Len(s) - i + 1 < length THEN More
    ELSE [is |-> "done", content |-> SubSeq(s, i, i + length - 1),
          trailer |-> <<>>, next |-> i + length]

-----------------------------------------------------------------------------
(* Requests.                                                                *)

RequestAt(s, i) ==
    LET stops == Stops(s, i)
        j == Min(stops)
        lines == LinesOf(s, i, j)
        body == IF LastValue(lines, "chunked", FALSE)
                THEN ChunkedBody(s, j + 1)
                ELSE PlainBody(s, j + 1, LastValue(lines, "contentLength", 0))
    IN IF stops = {} THEN More
       ELSE IF IsBare(s, i, j) THEN Bad
       ELSE IF body.is # "done" THEN body
       ELSE [is |-> "done", next |-> body.next,
             request |-> [lines |-> lines \o body.trailer,
                          keepAlive |-> LastValue(lines, "keepAlive", FALSE),
                          content |-> body.content]]

\* All requests in s from position first, and what follows them: the beginning of a
\* request, one that is not well formed, or one that the protocol and the parser
\* read differently.
MeaningFrom(s, first) ==
    LET from[i \in 1..(Len(s) + 1)] ==
          LET r == RequestAt(s, i)
          IN IF r.is # "done" THEN [requests |-> <<>>, then |-> r.is]
             ELSE [from[r.next] EXCEPT !.requests = <<r.request>> \o @]
    IN from[first]

Meaning(s) == MeaningFrom(s, 1)

=============================================================================
