------------------------------ MODULE HttpContext ------------------------------
(***************************************************************************)
(* ChttpContext (src/http_context.h): the bytes of one connection are put  *)
(* into a buffer, read by read, and analysis() makes requests of them.     *)
(* Each turn of analysis()'s outer loop is an action, so the parser is     *)
(* seen at every point where it may run out of input.  ChttpServer::message*)
(* (src/http_server.h) drives it.                                          *)
(*                                                                         *)
(* Indices are those of the code, from 0: byte i of the buffer is buf[i+1].*)
(***************************************************************************)
EXTENDS HttpSyntax

CONSTANTS Start,      \* what an input may begin with: a set of byte sequences
          Byte,       \* the bytes that may follow, in any order
          MaxMore,    \* bound: bytes that follow
          Initial,    \* first size of the buffer, 0x1000 in the code
          Margin,     \* the buffer grows when less is free, 0x800 in the code
          MaxBuffer   \* m_maxBufferSize

ASSUME BufferAssumption ==
    /\ Initial \in Nat \ {0} /\ Margin \in Nat \ {0} /\ MaxBuffer \in Nat /\ MaxMore \in Nat
    /\ Start \subseteq Seq(STRING) /\ Byte \subseteq STRING

VARIABLES
    start,     \* the input's beginning
    got,       \* the bytes received so far
    capacity,  \* m_buffer's length
    ctx,       \* the other members
    taken,     \* the former contexts, one for each request handed out
    stage      \* where message() is: reading, analysis, verdict or refused

contextVars == <<start, got, capacity, ctx, taken, stage>>

\* The members of a context that begins a request.  buf is the data received, as
\* long as m_nowIndex says.  A line is [first, length], a chunk as well.
NewContext ==
    [buf |-> <<>>, index |-> 0, state |-> "start", lines |-> <<>>, headerSize |-> 0,
     keepAlive |-> FALSE, chunked |-> FALSE, contentLength |-> 0,
     chunkSize |-> 0, sizeStart |-> FALSE, sizeDone |-> FALSE, chunks |-> <<>>]

Unknown == Word - 1  \* (size_t)-1, the length of an unfinished line

nowIndex == Len(ctx.buf)
Slice(c, part) == SubSeq(c.buf, part.first + 1, part.first + part.length)

-----------------------------------------------------------------------------
(* The buffer.                                                              *)

Limit == IF MaxBuffer < Initial THEN Initial ELSE MaxBuffer

\* The size of the buffer after prepareBuffer.
Prepared ==
    IF capacity - nowIndex >= Margin THEN capacity
    ELSE IF capacity * 2 > Limit THEN Limit
    ELSE capacity * 2

\* The bytes that can arrive in a read of at most room bytes.
Arriving(room) ==
    LET ahead == SubSeq(start, Len(got) + 1, Len(start))
        total == Len(start) + MaxMore - Len(got)
    IN {input \in {SubSeq(ahead, 1, k) : k \in 1..Len(ahead)}
                  \cup {ahead \o more : more \in BoundedSeq(Byte, total - Len(ahead))} :
            Len(input) \in 1..room}

\* allocateMemoryForMessage, a read into the memory, and message with recvPush.
Receive ==
    /\ stage = "reading"
    /\ capacity' = Prepared
    /\ \E input \in Arriving(Prepared - nowIndex) :
          /\ got' = got \o input
          /\ ctx' = [ctx EXCEPT !.buf = @ \o input]
    /\ stage' = "analysis"
    /\ UNCHANGED <<start, taken>>

\* prepareBuffer has no room: libuv reports ENOBUFS and the pool closes.
Refuse ==
    /\ stage = "reading"
    /\ Prepared = nowIndex
    /\ Len(got) < Len(start) + MaxMore
    /\ capacity' = Prepared
    /\ stage' = "refused"
    /\ UNCHANGED <<start, got, ctx, taken>>

-----------------------------------------------------------------------------
(* analysis().                                                              *)

\* The line feed at or after the index, as its position in buf, or 0.
LineFeed == SelectInSubSeq(ctx.buf, ctx.index + 1, nowIndex, LAMBDA b : b = LF)

\* The byte before a line feed at j is not a CR.
BareAt(j) == ctx.buf[j - 1] # CR

\* The context with the CR LF at j - 1 and j made into terminators.
Terminated(j) == [ctx EXCEPT !.buf[j - 1] = Nul, !.buf[j] = Nul]

\* There is something to decode.
Reads(state) == stage = "analysis" /\ ctx.state = state /\ ctx.index < nowIndex

Stay == UNCHANGED <<start, got, capacity, taken, stage>>

Malform == ctx' = [ctx EXCEPT !.state = "bad"] /\ Stay

\* analysis() returns true, and false.
Decided ==
    /\ stage = "analysis" /\ ctx.state \in {"done", "bad"}
    /\ stage' = "verdict"
    /\ UNCHANGED <<start, got, capacity, ctx, taken>>
NeedsMore ==
    /\ stage = "analysis" /\ ctx.state \notin {"done", "bad"}
    /\ ctx.index >= nowIndex
    /\ stage' = "reading"
    /\ UNCHANGED <<start, got, capacity, ctx, taken>>

\* All that is left belongs to a line that is not complete.
LineGoesOn(state) ==
    /\ Reads(state) /\ LineFeed = 0
    /\ ctx' = [ctx EXCEPT !.index = nowIndex]
    /\ Stay

BareLineFeed(state) == Reads(state) /\ LineFeed > 0 /\ BareAt(LineFeed) /\ Malform

ReadStart ==
    /\ Reads("start")
    /\ IF ctx.index # 0 \/ ctx.buf[1] = LF THEN Malform
       ELSE /\ ctx' = [ctx EXCEPT !.state = "header",
                                  !.lines = Append(@, [first |-> 0, length |-> Unknown])]
            /\ Stay

\* The last of m_lines ends at j.
LastFirst == Last(ctx.lines).first
LengthAt(j) == j - 2 - LastFirst

\* A line that is not empty is complete, and the next begins.
NextLine(state) ==
    LET j == LineFeed IN
    /\ Reads(state) /\ j > 0 /\ ~BareAt(j) /\ LengthAt(j) > 0
    /\ ctx' = [Terminated(j) EXCEPT
                  !.lines = Append(Front(@) \o <<[first |-> LastFirst, length |-> LengthAt(j)]>>,
                                   [first |-> j, length |-> Unknown]),
                  !.index = j]
    /\ Stay

\* kvDecoder, for all lines: the last header of a field counts.
Decoded(c) ==
    FoldLeft(LAMBDA d, line :
                IF IsHeader(Slice(c, line))
                THEN [d EXCEPT ![Field[Slice(c, line)[1]]] = Value[Slice(c, line)[1]]]
                ELSE d,
             c, c.lines)

\* decoderHeaderAndUpdateState, after the headers are known.
WithBodyState(c) ==
    IF c.chunked
    THEN [c EXCEPT !.state = "chunkHeader",
                   !.chunkSize = 0, !.sizeStart = FALSE, !.sizeDone = FALSE]
    ELSE [c EXCEPT !.state = IF c.contentLength > 0 THEN "body" ELSE "done"]

\* The empty line after the headers.
EndHeader ==
    LET j == LineFeed IN
    /\ Reads("header") /\ j > 0 /\ ~BareAt(j) /\ LengthAt(j) = 0
    /\ ctx' = WithBodyState(Decoded([Terminated(j) EXCEPT
                  !.lines = Front(@), !.headerSize = j, !.index = j]))
    /\ Stay

-----------------------------------------------------------------------------
(* The body.                                                                *)

BodyGoesOn ==
    /\ Reads("body") /\ nowIndex - ctx.index < ctx.contentLength
    /\ stage' = "reading"
    /\ UNCHANGED <<start, got, capacity, ctx, taken>>

EndBody ==
    /\ Reads("body") /\ nowIndex - ctx.index >= ctx.contentLength
    /\ ctx' = [ctx EXCEPT
                  !.chunks = Append(@, [first |-> ctx.index, length |-> ctx.contentLength]),
                  !.index = @ + ctx.contentLength, !.state = "done"]
    /\ Stay

\* Mutant: a size begins anew with each read.
ScannedFromZero(c, bytes) ==
    FoldLeft(LAMBDA d, b :
                IF d.sizeDone THEN d
                ELSE IF IsDigit(b)
                     THEN [d EXCEPT !.chunkSize = (@ * Radix + DigitValue[b]) % Word,
                                    !.sizeStart = TRUE]
                     ELSE [d EXCEPT !.sizeDone = d.sizeStart \/ ~IsSpace(b)],
             [c EXCEPT !.chunkSize = 0], bytes)

\* The size after some more bytes of its line: what follows the digits is ignored.
Scanned(c, bytes) ==
    FoldLeft(LAMBDA d, b :
                IF d.sizeDone THEN d
                ELSE IF IsDigit(b)
                     THEN [d EXCEPT !.chunkSize = (@ * Radix + DigitValue[b]) % Word,
                                    !.sizeStart = TRUE]
                     ELSE [d EXCEPT !.sizeDone = d.sizeStart \/ ~IsSpace(b)],
             c, bytes)

SizeGoesOn ==
    /\ Reads("chunkHeader") /\ LineFeed = 0
    /\ ctx' = [Scanned(ctx, SubSeq(ctx.buf, ctx.index + 1, nowIndex))
                  EXCEPT !.index = nowIndex]
    /\ Stay

\* The size is complete: the chunk follows, or the footer.
EndSize ==
    LET j == LineFeed
        c == Scanned(Terminated(j), SubSeq(ctx.buf, ctx.index + 1, j - 1))
    IN
    /\ Reads("chunkHeader") /\ j > 0 /\ ~BareAt(j)
    /\ ctx' = IF c.chunkSize > 0
              THEN [c EXCEPT !.index = j, !.state = "chunkBody"]
              ELSE [c EXCEPT !.index = j, !.state = "chunkFooter",
                             !.lines = Append(@, [first |-> j, length |-> Unknown])]
    /\ Stay

\* The chunk and the CR LF after it.
ChunkLength == (ctx.chunkSize + 2) % Word

ChunkGoesOn ==
    /\ Reads("chunkBody") /\ nowIndex - ctx.index < ChunkLength
    /\ stage' = "reading"
    /\ UNCHANGED <<start, got, capacity, ctx, taken>>

\* Mutant: the CR LF after the chunk is not waited for.
EndChunkEarly ==
    /\ Reads("chunkBody") /\ nowIndex - ctx.index >= ctx.chunkSize
    /\ ctx' = [ctx EXCEPT
                  !.chunks = Append(@, [first |-> ctx.index, length |-> ctx.chunkSize]),
                  !.index = @ + ChunkLength, !.state = "chunkHeader",
                  !.chunkSize = 0, !.sizeStart = FALSE, !.sizeDone = FALSE]
    /\ Stay

\* The bytes taken for the CR LF are not looked at.
EndChunk ==
    /\ Reads("chunkBody") /\ nowIndex - ctx.index >= ChunkLength
    /\ ctx' = [ctx EXCEPT
                  !.chunks = Append(@, [first |-> ctx.index, length |-> ctx.chunkSize]),
                  !.index = @ + ChunkLength, !.state = "chunkHeader",
                  !.chunkSize = 0, !.sizeStart = FALSE, !.sizeDone = FALSE]
    /\ Stay

\* The empty line after the footer.
EndFooter ==
    LET j == LineFeed IN
    /\ Reads("chunkFooter") /\ j > 0 /\ ~BareAt(j) /\ LengthAt(j) = 0
    /\ ctx' = [Terminated(j) EXCEPT !.lines = Front(@), !.index = j, !.state = "done"]
    /\ Stay

-----------------------------------------------------------------------------
(* message() after analysis() has returned true.                            *)

\* The context that reinitForNext leaves: the extra bytes begin the next request.
Reinitialised == [NewContext EXCEPT !.buf = SubSeq(ctx.buf, ctx.index + 1, nowIndex)]

\* The request goes to a task; then on to the next.
ReinitForNext ==
    /\ stage = "verdict" /\ ctx.state = "done"
    /\ taken' = Append(taken,
                  [ctx EXCEPT !.buf = SubSeq(@, 1, ctx.index), !.chunkSize = 0,
                              !.sizeStart = FALSE, !.sizeDone = FALSE])
    /\ ctx' = Reinitialised
    /\ stage' = "analysis"
    /\ UNCHANGED <<start, got, capacity>>

\* The pool is asked to close, for malformed input or without memory for a task;
\* the context keeps what it has, and more may be read before the end.
CloseConnection ==
    /\ stage = "verdict"
    /\ stage' = "reading"
    /\ UNCHANGED <<start, got, capacity, ctx, taken>>

-----------------------------------------------------------------------------
ContextInit ==
    /\ start \in Start
    /\ got = <<>>
    /\ capacity = Initial
    /\ ctx = NewContext
    /\ taken = <<>>
    /\ stage = "reading"

Analysis ==
    \/ Decided \/ NeedsMore \/ ReadStart
    \/ \E state \in {"header", "chunkFooter"} : LineGoesOn(state) \/ NextLine(state)
    \/ \E state \in {"header", "chunkHeader", "chunkFooter"} : BareLineFeed(state)
    \/ EndHeader \/ BodyGoesOn \/ EndBody
    \/ SizeGoesOn \/ EndSize \/ ChunkGoesOn \/ EndChunk \/ EndFooter

ContextNext == Receive \/ Refuse \/ Analysis \/ ReinitForNext \/ CloseConnection

ContextSpec == ContextInit /\ [][ContextNext]_contextVars

-----------------------------------------------------------------------------
(* Safety.                                                                  *)

\* The request of a context whose state is done: getParameter reads the lines,
\* isKeepAlive the flag and getContent the chunks.
RequestOf(c) ==
    [lines |-> [k \in 1..Len(c.lines) |-> Slice(c, c.lines[k])],
     keepAlive |-> c.keepAlive,
     content |-> FlattenSeq([k \in 1..Len(c.chunks) |-> Slice(c, c.chunks[k])])]

\* The requests handed out are those of the meaning, and so is what follows them.
Agrees(meaning) ==
    LET found == [k \in 1..Len(taken) |->
                     IF k <= Len(meaning.requests) THEN RequestOf(taken[k]) ELSE "extra"]
    IN CASE ctx.state = "done" ->  \* no task could be made for the next
              IsStrictPrefix(found, meaning.requests) \/ meaning.then = "unspecified"
         [] ctx.state # "done" /\ meaning.then = "unspecified" ->
              IsPrefix(meaning.requests, found)
         [] OTHER ->
              /\ found = meaning.requests
              /\ ctx.state = "bad" <=> meaning.then = "bad"

\* However the bytes are split into reads, the requests handed out between two
\* reads are those that the bytes received so far contain, with their lines and
\* content, and the connection is rejected if and only if what follows is not
\* well formed.  Nothing is said of what follows a chunk that does not end in
\* CR LF or is as large as a size_t.
RequestsMatchSyntax == stage \in {"reading", "refused"} => Agrees(Meaning(got))

\* What a context has recorded lies in the data received: the index, the chunks,
\* and the lines, each with the terminator that atoi and strchr rely on.
IsRecorded(c) ==
    /\ c.index \in 0..Len(c.buf) /\ c.headerSize \in 0..c.index
    /\ \A k \in 1..Len(c.lines) :
          LET line == c.lines[k] IN
          \/ /\ line.first + line.length + 2 <= c.index
             /\ c.buf[line.first + line.length + 1] = Nul
          \/ k = Len(c.lines) /\ line.length = Unknown
                /\ line.first <= c.index /\ c.state \in {"header", "chunkFooter", "bad"}
    /\ \A k \in 1..Len(c.chunks) :
          /\ c.chunks[k].first \in c.headerSize..c.index
          /\ c.chunks[k].first + c.chunks[k].length <= c.index

\* It holds at every step of analysis(), for the context and for those handed out,
\* unless a chunk was so large that its length wrapped.
Wrapped(c) == c.chunkSize + 2 >= Word \/ \E k \in 1..Len(c.chunks) : c.chunks[k].length + 2 >= Word
RecordedInBounds ==
    \A c \in {ctx} \cup ToSet(taken) : Wrapped(c) \/ IsRecorded(c)

\* A connection is refused only when one request alone, as far as it was
\* received, is as large as the limit.
RefusedAtLimit == stage = "refused" => nowIndex = Limit

=============================================================================
