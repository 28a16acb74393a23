---------------------------- MODULE EncryptedStream ----------------------------
(***************************************************************************)
(* The encrypted stream of the ETHM-1 module (src/encryption.rs), between  *)
(* the buffer of Framed and the socket.                                    *)
(*                                                                         *)
(* A byte of plaintext is named by where it comes from, <<frame, offset>>; *)
(* a byte on the wire by its packet and its place in it.  The cipher       *)
(* chains the blocks of a packet: a packet read as it was written gives    *)
(* its plaintext back, and any other run of bytes gives garbage.  Lengths  *)
(* are parameters, so that a small instance meets their limits.            *)
(***************************************************************************)
EXTENDS Integers, SequencesExt

CONSTANTS
    PacketMin,    \* least payload of a packet, 16
    HeaderLen,    \* random value, counter and ids before the plaintext, 6
    PrefixRange,  \* values of the length prefix, 256
    FrameLens,    \* lengths of the frames sent
    Incoming,     \* packets the panel may send: sequences of payload lengths
    MaxSends      \* bound: frames sent

\* A frame alone fits a packet: the longest of client.rs has 41 bytes, with the checksum
\* and every byte stuffed 90, of the 249 that the prefix leaves.
ASSUME StreamAssumption ==
    /\ HeaderLen \in Nat /\ PacketMin \in Nat /\ HeaderLen < PacketMin
    /\ PrefixRange \in Nat /\ PacketMin < PrefixRange
    /\ FrameLens \subseteq 1..(PrefixRange - 1 - HeaderLen) /\ MaxSends \in Nat
    /\ Incoming \subseteq Seq(0..(PrefixRange - 1))

VARIABLES
    \* writing
    framed,         \* plaintext that Framed still holds
    write_buffer,   \* the packet that the socket has not taken in full
    socket,         \* bytes the socket has taken
    sending,        \* stream.send is being polled
    sent,           \* history: the plaintext handed to Framed
    packets,        \* history: the packets made, as plaintext and prefix
    ghosts,         \* history: a send was given up with its bytes unsent
    sends,
    \* reading
    incoming,       \* the packets the panel sends
    wire,           \* bytes of them that have not been read
    raw_read_buffer,
    expected_resp_len,
    read_buffer,    \* plaintext the caller has not taken
    taken           \* history: plaintext the caller has taken

streamVars == <<framed, write_buffer, socket, sending, sent, packets, ghosts, sends,
                incoming, wire, raw_read_buffer, expected_resp_len, read_buffer, taken>>

Writing == <<framed, write_buffer, socket, sending, sent, packets, ghosts, sends>>
Reading == <<incoming, wire, raw_read_buffer, expected_resp_len, read_buffer, taken>>

NoLen == -1

PayloadLen(plain) ==
    IF HeaderLen + Len(plain) > PacketMin THEN HeaderLen + Len(plain) ELSE PacketMin

Prefix(n, len) == [packet |-> n, at |-> 0, value |-> len % PrefixRange]
Body(n, len)   == [i \in 1..len |-> [packet |-> n, at |-> i, value |-> 0]]

\* The panel's packets: a prefix that tells their length, then the payload.
PacketBytes(n, len) == <<Prefix(n, len)>> \o Body(n, len)

StreamInit ==
    /\ framed = <<>> /\ write_buffer = <<>> /\ socket = <<>>
    /\ sending = FALSE /\ sent = <<>> /\ packets = <<>> /\ ghosts = FALSE /\ sends = 0
    /\ incoming \in Incoming
    /\ wire = FlattenSeq([n \in DOMAIN incoming |-> PacketBytes(n, incoming[n])])
    /\ raw_read_buffer = <<>> /\ expected_resp_len = NoLen
    /\ read_buffer = <<>> /\ taken = <<>>

-----------------------------------------------------------------------------
(* Writing: Framed::send polls poll_write and then poll_flush. *)

\* The frame is encoded behind what an earlier send may have left.
SendFrame ==
    /\ ~sending /\ sends < MaxSends
    /\ sending' = TRUE /\ sends' = sends + 1
    /\ \E len \in FrameLens :
         LET plain == [i \in 1..len |-> <<sends + 1, i>>] IN
         /\ framed' = framed \o plain
         /\ sent' = sent \o plain
    /\ UNCHANGED <<write_buffer, socket, packets, ghosts, Reading>>

\* The socket takes some of the packet; what it does not take waits.
DrainWrites ==
    /\ sending /\ write_buffer # <<>>
    /\ \E n \in 1..Len(write_buffer) :
         /\ socket' = socket \o SubSeq(write_buffer, 1, n)
         /\ write_buffer' = SubSeq(write_buffer, n + 1, Len(write_buffer))
    /\ UNCHANGED <<framed, sending, sent, packets, ghosts, sends, Reading>>

\* Slip: the buffer is cleared for the new packet, drained or not.
WrapOverRest ==
    /\ sending /\ framed # <<>>
    /\ write_buffer' = PacketBytes(Len(packets) + 1, PayloadLen(framed))
    /\ packets' = Append(packets, [plain |-> framed, prefix |-> PayloadLen(framed) % PrefixRange])
    /\ framed' = <<>>
    /\ UNCHANGED <<socket, sending, sent, ghosts, sends, Reading>>

\* poll_write, once the last packet is drained: all that Framed holds makes one packet,
\* and counts as written, though the socket may have taken none of it.
WrapPacket ==
    /\ sending /\ write_buffer = <<>> /\ framed # <<>>
    /\ write_buffer' = PacketBytes(Len(packets) + 1, PayloadLen(framed))
    /\ packets' = Append(packets, [plain |-> framed, prefix |-> PayloadLen(framed) % PrefixRange])
    /\ framed' = <<>>
    /\ UNCHANGED <<socket, sending, sent, ghosts, sends, Reading>>

\* poll_flush is ready: send returns.
Flushed ==
    /\ sending /\ framed = <<>> /\ write_buffer = <<>>
    /\ sending' = FALSE
    /\ UNCHANGED <<framed, write_buffer, socket, sent, packets, ghosts, sends, Reading>>

\* The write timeout drops the send; the buffers keep what they hold.
GiveUpSend ==
    /\ sending /\ sending' = FALSE
    /\ ghosts' = (ghosts \/ framed # <<>> \/ write_buffer # <<>>)
    /\ UNCHANGED <<framed, write_buffer, socket, sent, packets, sends, Reading>>

-----------------------------------------------------------------------------
(* Reading: poll_read. *)

\* The plaintext of a packet of the panel.
PlainOf(n, len) == [i \in 1..(len - HeaderLen) |-> <<n, i>>]

Garbage == <<0, 0>>

Decrypt(bytes) ==
    IF bytes # <<>> /\ bytes = Body(bytes[1].packet, incoming[bytes[1].packet])
    THEN PlainOf(bytes[1].packet, Len(bytes))
    ELSE [i \in 1..(Len(bytes) - HeaderLen) |-> Garbage]

\* A prefix is to be taken off, or the payload it announced is there in full.
NextPacketReady ==
    IF expected_resp_len = NoLen THEN raw_read_buffer # <<>>
    ELSE Len(raw_read_buffer) >= expected_resp_len

\* The caller takes what its buffer has place for.
YieldPlaintext ==
    /\ read_buffer # <<>> /\ ~NextPacketReady
    /\ \E n \in 1..Len(read_buffer) :
         /\ taken' = taken \o SubSeq(read_buffer, 1, n)
         /\ read_buffer' = SubSeq(read_buffer, n + 1, Len(read_buffer))
    /\ UNCHANGED <<Writing, incoming, wire, raw_read_buffer, expected_resp_len>>

\* A prefix is taken off first; then its payload, when it is there in full.  A payload
\* shorter than the header yields nothing.
UnwrapPacket ==
    /\ NextPacketReady
    /\ IF expected_resp_len = NoLen
       THEN /\ expected_resp_len' = raw_read_buffer[1].value
            /\ raw_read_buffer' = Tail(raw_read_buffer)
            /\ UNCHANGED read_buffer
       ELSE /\ read_buffer' = read_buffer \o Decrypt(SubSeq(raw_read_buffer, 1, expected_resp_len))
            /\ raw_read_buffer' = SubSeq(raw_read_buffer, expected_resp_len + 1, Len(raw_read_buffer))
            /\ expected_resp_len' = NoLen
    /\ UNCHANGED <<Writing, incoming, wire, taken>>

\* More bytes are read only when nothing is left to yield or to unwrap.
ReadRaw ==
    /\ read_buffer = <<>> /\ ~NextPacketReady
    /\ \E n \in 1..Len(wire) :
         /\ raw_read_buffer' = raw_read_buffer \o SubSeq(wire, 1, n)
         /\ wire' = SubSeq(wire, n + 1, Len(wire))
    /\ UNCHANGED <<Writing, incoming, expected_resp_len, read_buffer, taken>>

StreamNext ==
    \/ SendFrame \/ DrainWrites \/ WrapPacket \/ Flushed \/ GiveUpSend
    \/ YieldPlaintext \/ UnwrapPacket \/ ReadRaw

StreamSpec == StreamInit /\ [][StreamNext]_streamVars

-----------------------------------------------------------------------------
(* Properties. *)

\* What goes to the panel (encryption.rs:322-389) is what was sent, in order and once:
\* in packets, each on the wire as a whole and before the next, across sends that were
\* given up half way; and each prefix tells the length of its packet, unless such a send
\* left frames that now go in one packet with others.
WritesInOrder ==
    /\ FlattenSeq([n \in DOMAIN packets |-> packets[n].plain]) \o framed = sent
    /\ FlattenSeq([n \in DOMAIN packets |-> PacketBytes(n, PayloadLen(packets[n].plain))])
           = socket \o write_buffer
    /\ ~ghosts => \A n \in DOMAIN packets : packets[n].prefix = PayloadLen(packets[n].plain)

\* What comes from the panel (encryption.rs:245-318) is decrypted in order, whatever
\* pieces the socket delivers: nothing is lost but packets without plaintext.
ReadsInOrder ==
    LET all == FlattenSeq([n \in DOMAIN incoming |-> PlainOf(n, incoming[n])]) IN
    /\ IsPrefix(taken \o read_buffer, all)
    /\ wire = <<>> /\ ~NextPacketReady => taken \o read_buffer = all

PlaintextInOrder == WritesInOrder /\ ReadsInOrder

=============================================================================
