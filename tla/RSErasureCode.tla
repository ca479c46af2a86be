---------------------------- MODULE RSErasureCode ----------------------------
(***************************************************************************)
(* The byte layout of the Reed-Solomon erasure code (RSMatrix,             *)
(* RSErasureEncoder, RSErasureDecoder) around jerasure.  A symbol of W     *)
(* bytes is split into parts of 4, 2 and 1 bytes; part p of every symbol   *)
(* is packed into a long (8 bytes, little-endian) and coded by jerasure in *)
(* GF(2^(8 * w_p)).  The data symbols are the first K: the Vandermonde     *)
(* coding matrix is systematic, so jerasure leaves them as they are, and   *)
(* decode with every data symbol received reads them back.  The coding    *)
(* symbols (GF arithmetic of jerasure) are not modelled.                   *)
(*                                                                         *)
(* A long is a function 0..7 -> byte.  The packing computes                *)
(* *(data++) << (8 * b) in int: at b = 3 a byte of 128 or more shifts into *)
(* the sign bit (undefined before C++20; the builds give the two's         *)
(* complement value), and the negative int is sign-extended into the long, *)
(* setting its upper four bytes.                                           *)
(***************************************************************************)
EXTENDS Naturals, Sequences, SequencesExt

\* Mutant: the part loop stops before w = 1 (w > 1).
RECURSIVE PartsFromNoSingle(_, _)
PartsFromNoSingle(W, w) ==
    IF w <= 1 THEN <<>>
    ELSE IF W >= w THEN <<w>> \o PartsFromNoSingle(W - w, w) ELSE PartsFromNoSingle(W, w \div 2)

\* RSMatrix::RSMatrix, lines 18-27: for w = 4, 2, 1, take parts of w bytes
\* while W >= w.
RECURSIVE PartsFrom(_, _)
PartsFrom(W, w) ==
    IF w = 0 THEN <<>>
    ELSE IF W >= w THEN <<w>> \o PartsFrom(W - w, w) ELSE PartsFrom(W, w \div 2)

RSPartWidths(W) == PartsFrom(W, 4)

\* The first byte of part p within a symbol.
PartOffset(parts, p) == FoldLeft(LAMBDA acc, w : acc + w, 0, SubSeq(parts, 1, p - 1))

ZeroLong == [i \in 0..7 |-> 0]

\* symbol |= byte << (8 * b), for a symbol whose bytes from b on are 0.
OrByte(sym, byte, b) ==
    [i \in 0..7 |-> IF i = b THEN byte
                    ELSE IF b = 3 /\ byte >= 128 /\ i > 3 THEN 255
                    ELSE sym[i]]

\* Encoder lines 72-77, setSymbol lines 85-90: w bytes into a long.
Pack(bytes, w) ==
    FoldLeft(LAMBDA sym, b : OrByte(sym, bytes[b + 1], b), ZeroLong, [i \in 1..w |-> i - 1])

\* Mutant: the bytes of a part are read back high byte first.
UnpackReversed(sym, w) == [i \in 1..w |-> sym[w - i]]

\* Encoder lines 91-95, decode lines 129-133: (symbol >> (8 * b)) & 0xFF.
Unpack(sym, w) == [i \in 1..w |-> sym[i - 1]]

\* partSymbols_[p][s] for the W-byte symbols of bytes, one after another.
PackSymbols(parts, n, W, bytes) ==
    [p \in 1..Len(parts) |->
        [s \in 0..n - 1 |->
            Pack(SubSeq(bytes, s * W + PartOffset(parts, p) + 1,
                               s * W + PartOffset(parts, p) + parts[p]), parts[p])]]

\* The bytes of symbols 0..n-1 read back from partSymbols_.
UnpackSymbols(parts, n, partSymbols) ==
    FoldLeft(LAMBDA acc, s :
                acc \o FoldLeft(LAMBDA a, p : a \o Unpack(partSymbols[p][s], parts[p]),
                                <<>>, [i \in 1..Len(parts) |-> i]),
             <<>>, [i \in 1..n |-> i - 1])

\* bytes written from the start of a zero-filled buffer of n bytes: the
\* constructors size symbols_ ((K + M) * W) and data_ (K * W) with zeros.
IntoBuffer(n, bytes) == [i \in 1..n |-> IF i <= Len(bytes) THEN bytes[i] ELSE 0]

\* RSErasureEncoder::encode, lines 66-98: the data symbols of symbols_.
RSEncodeData(K, W, data) ==
    IntoBuffer(K * W, UnpackSymbols(RSPartWidths(W), K, PackSymbols(RSPartWidths(W), K, W, data)))

\* setSymbol (lines 79-97) of the K data symbols, then decode (lines
\* 99-142) with no data symbol erased: data_.
RSDecodeData(K, W, symbols) ==
    IntoBuffer(K * W, UnpackSymbols(RSPartWidths(W), K, PackSymbols(RSPartWidths(W), K, W, symbols)))
=============================================================================
