------------------------------ MODULE SatelCodec ------------------------------
(***************************************************************************)
(* The framing codec (src/codec.rs): what the decoder makes of a line that *)
(* brings whole frames, frames cut short and bytes in between, in pieces   *)
(* of any size.  The bytes are those of the protocol, CRC included.        *)
(***************************************************************************)
EXTENDS Integers, SequencesExt

CONSTANTS
    Payloads,   \* frames, as their bytes before encoding
    Junk,       \* what may come between frames: padding of packets, noise
    Segments    \* lines to try: sequences of pieces, below

SYNC == 254
STUFF == 240
END == 13

\* calculate_crc: rotate left, complement, add the high byte and the next one.
NextCrc(crc, byte) ==
    LET rotated == ((crc * 2) % 65536) + (crc \div 32768)
        flipped == 65535 - rotated
    IN  (flipped + (flipped \div 256) + byte) % 65536

calculate_crc(data) == FoldLeft(NextCrc, 5242, data)

CrcBytes(data) == <<calculate_crc(data) \div 256, calculate_crc(data) % 256>>

Stuff(data) ==
    FlattenSeq([i \in DOMAIN data |-> IF data[i] = SYNC THEN <<SYNC, STUFF>> ELSE <<data[i]>>])

Encode(item) == (<<SYNC, SYNC>> \o Stuff(item \o CrcBytes(item))) \o <<SYNC, END>>

\* The other way: a STUFF right after a SYNC is dropped.
Stuffing(raw) == {i \in 2..Len(raw) : raw[i - 1] = SYNC /\ raw[i] = STUFF}

Unstuff(raw) ==
    FlattenSeq([i \in DOMAIN raw |-> IF i \in Stuffing(raw) THEN <<>> ELSE <<raw[i]>>])

\* A piece of the line: a whole frame, the first bytes of one, or junk.
Pieces == [is : {"frame"}, data : Payloads, cut : {0}]
          \cup [is : {"cut"}, data : Payloads, cut : 1..8]
          \cup [is : {"junk"}, data : Junk, cut : {0}]

ASSUME CodecAssumption ==
    /\ Payloads \subseteq Seq(0..255) \ {<<>>}
    /\ Junk \subseteq Seq(0..255 \ {SYNC, END}) \ {<<>>}
    /\ Segments \subseteq Seq(Pieces)
    /\ \A s \in Segments : \A i \in DOMAIN s :
           s[i].is = "cut" => s[i].cut < Len(Encode(s[i].data)) /\ s[i].data[1] # END

BytesOf(piece) ==
    CASE piece.is = "frame" -> Encode(piece.data)
      [] piece.is = "cut" -> SubSeq(Encode(piece.data), 1, piece.cut)
      [] OTHER -> piece.data

VARIABLES
    pieces,      \* the line, as it was sent
    line,        \* bytes under way
    src,         \* the buffer of Framed
    decoding,    \* decode has not yet said that it needs more
    decoded,     \* the frames decoded
    crc_errors

codecVars == <<pieces, line, src, decoding, decoded, crc_errors>>

CodecInit ==
    /\ pieces \in Segments
    /\ line = FlattenSeq([i \in DOMAIN pieces |-> BytesOf(pieces[i])])
    /\ src = <<>> /\ decoding = FALSE
    /\ decoded = <<>> /\ crc_errors = 0

ReadMore ==
    /\ ~decoding /\ decoding' = TRUE
    /\ \E n \in 1..Len(line) :
         /\ src' = src \o SubSeq(line, 1, n)
         /\ line' = SubSeq(line, n + 1, Len(line))
    /\ UNCHANGED <<pieces, decoded, crc_errors>>

\* Where the two bytes stand next to each other in the buffer.
PairsAt(bytes, b, c) == {i \in 1..(Len(bytes) - 1) : bytes[i] = b /\ bytes[i + 1] = c}

LeastAt(at) == CHOOSE i \in at : \A j \in at : i <= j

Header == PairsAt(src, SYNC, SYNC)
FromHeader == SubSeq(src, LeastAt(Header), Len(src))

\* Slip: the first half of a header is not kept for the next read.
SkipAllNoise ==
    /\ decoding /\ Header = {}
    /\ src' = IF Len(src) < 2 THEN src ELSE <<>>
    /\ decoding' = FALSE
    /\ UNCHANGED <<pieces, line, decoded, crc_errors>>

\* No header: at most the first half of one is kept.
SkipNoise ==
    /\ decoding /\ Header = {}
    /\ src' = IF Len(src) < 2 THEN src ELSE IF src[Len(src)] = SYNC THEN <<SYNC>> ELSE <<>>
    /\ decoding' = FALSE
    /\ UNCHANGED <<pieces, line, decoded, crc_errors>>

NeedMore ==
    /\ decoding /\ Header # {}
    /\ PairsAt(FromHeader, SYNC, END) = {}
    /\ src' = FromHeader
    /\ decoding' = FALSE
    /\ UNCHANGED <<pieces, line, decoded, crc_errors>>

\* One turn of decode: the bytes to the first end marker, which may overlap the header,
\* are a frame, or are dropped before the next turn.
DecodeFrame ==
    /\ decoding /\ Header # {}
    /\ PairsAt(FromHeader, SYNC, END) # {}
    /\ LET end  == LeastAt(PairsAt(FromHeader, SYNC, END))
           all  == Unstuff(SubSeq(FromHeader, 3, end - 1))
           data == SubSeq(all, 1, Len(all) - 2)
           good == SubSeq(all, Len(all) - 1, Len(all)) = CrcBytes(data)
       IN
       /\ src' = SubSeq(FromHeader, end + 2, Len(FromHeader))
       /\ IF Len(all) < 2 THEN UNCHANGED <<decoded, crc_errors>>
          ELSE IF good THEN decoded' = Append(decoded, data) /\ UNCHANGED crc_errors
          ELSE crc_errors' = crc_errors + 1 /\ UNCHANGED decoded
    /\ UNCHANGED <<pieces, line, decoding>>

CodecNext == ReadMore \/ SkipNoise \/ NeedMore \/ DecodeFrame

CodecSpec == CodecInit /\ [][CodecNext]_codecVars

-----------------------------------------------------------------------------
(* Properties. *)

\* What the line is worth: a whole frame is recovered, unless it follows a cut one,
\* which takes it along as a CRC error; and 13 in the first place hides a frame.
\* held: bytes after the header of the frame that a cut left open; -1 if the cut left
\* but half a header, -2 if the line is in step.
InStep == -2

AddPiece(acc, p) ==
    CASE p.is = "junk" ->
            [acc EXCEPT !.held = IF @ >= 0 THEN @ + Len(p.data) ELSE InStep]
      [] p.is = "cut" ->
            [acc EXCEPT !.held = @ + p.cut]
      [] p.is = "frame" /\ acc.held = InStep ->
            IF p.data[1] = END THEN acc ELSE [acc EXCEPT !.out = Append(@, p.data)]
      [] OTHER ->
            [acc EXCEPT !.held = InStep,
                        !.errors = IF p.data[1] = END /\ acc.held < 1 THEN @ ELSE @ + 1]

WorthOf[n \in 0..Len(pieces)] ==
    IF n = 0 THEN [held |-> InStep, out |-> <<>>, errors |-> 0]
    ELSE AddPiece(WorthOf[n - 1], pieces[n])

Worth == WorthOf[Len(pieces)]

CleanLine == \A i \in DOMAIN pieces : pieces[i].is # "cut"

\* However the line is cut into reads, the decoder recovers what it is worth and counts
\* what it loses (codec.rs:49-91): frames in order, stuffed bytes restored, padding
\* skipped, and back in step after the end of a spoilt frame.
FramesRecovered ==
    line = <<>> /\ ~decoding => decoded = Worth.out /\ crc_errors = Worth.errors

\* codec.rs:22: a frame is the header, the command, the data, the CRC and the end marker,
\* so on a line without cut frames every frame is decoded, whatever its command.
WholeFramesDecoded ==
    CleanLine /\ line = <<>> /\ ~decoding =>
        Len(decoded) = Len(SelectSeq(pieces, LAMBDA p : p.is = "frame"))

=============================================================================
