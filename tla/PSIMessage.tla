------------------------------ MODULE PSIMessage ------------------------------
(***************************************************************************)
(* The framing of the PSI messages of EbNRadioBT2PSI (constructPSIMessage, *)
(* parsePSIMessage): a message is its size as a 4-byte uint32_t, then each *)
(* element as its length (4 bytes) and its bytes.  The uint32_t values are *)
(* copied with memcpy, in the byte order of the host, little-endian on the *)
(* ARM and x86 targets.  A string is a sequence of bytes.                  *)
(***************************************************************************)
EXTENDS Naturals, Sequences, SequencesExt

\* memcpy of a uint32_t.
LE32(v) == <<v % 256, (v \div 256) % 256, (v \div 65536) % 256, v \div 16777216>>

\* message[i] (1-based); a read past the end of the vector is undefined and
\* yields junk, taken as 0.
At(m, i) == IF i \in 1..Len(m) THEN m[i] ELSE 0

\* memcpy into a uint32_t from the bytes after position pos (0-based).
ReadLE32(m, pos) ==
    At(m, pos + 1) + 256 * At(m, pos + 2) + 65536 * At(m, pos + 3) + 16777216 * At(m, pos + 4)

\* An element whose bytes run past the end of the message: string(ptr,
\* elemLength) reads beyond the vector, and the loop ends.
ElemPastEnd == <<-1>>

\* Mutant: the size counts the bytes of the strings only.
PSIMessageSizeNoLengths(input) ==
    FoldLeft(LAMBDA acc, e : acc + Len(e), 0, input)

\* Line 460: StringVectorSize(input) + input.size() * 4.
PSIMessageSize(input) ==
    FoldLeft(LAMBDA acc, e : acc + Len(e), 0, input) + 4 * Len(input)

\* constructPSIMessage, lines 456-475: the vector is resized to 4 + the
\* size; what the loop would write past it is lost (a heap overflow).
ConstructPSIMessage(input) ==
    LET written == LE32(PSIMessageSize(input))
                     \o FoldLeft(LAMBDA acc, e : acc \o LE32(Len(e)) \o e, <<>>, input)
    IN  SubSeq(written, 1, IF Len(written) < 4 + PSIMessageSize(input)
                           THEN Len(written) ELSE 4 + PSIMessageSize(input))

\* parsePSIMessage, lines 477-493: while pos < message.size().
RECURSIVE ParseFrom(_, _)
ParseFrom(m, pos) ==
    IF pos < Len(m)
    THEN LET len == ReadLE32(m, pos)
         IN  IF pos + 4 + len > Len(m) THEN <<ElemPastEnd>>
             ELSE <<SubSeq(m, pos + 5, pos + 4 + len)>> \o ParseFrom(m, pos + 4 + len)
    ELSE <<>>

ParsePSIMessage(m) == ParseFrom(m, 0)

\* The receiving side of one message (handshake lines 182-189, listen
\* lines 389-396): recv of the 4-byte size, message.resize(messageSize),
\* recv of that many bytes, parse.  rest is what the stream holds after.
ReceivePSIMessage(stream) ==
    LET size == ReadLE32(stream, 0)
    IN  [parsed |-> ParsePSIMessage(SubSeq(stream, 5, 4 + size)),
         rest |-> SubSeq(stream, 5 + size, Len(stream))]
================================================================================
