------------------------------- MODULE Codec -------------------------------
(***************************************************************************)
(* The frames of src/protocol.rs as bytes: what one end encodes, what of   *)
(* it a socket delivers in pieces of any size, and what the other end      *)
(* decodes. Server and Session speak of whole frames; this module is why   *)
(* they may.                                                               *)
(*                                                                         *)
(* JSON is external: Texts[t] are the payloads that parse as a message of  *)
(* tag t, and Overfull those of them that are an Exit with both a code and *)
(* a signal. So is the Framed of tokio-util: it decodes until a frame is   *)
(* incomplete, reads, and at the end of the stream decodes once more.      *)
(***************************************************************************)
EXTENDS Naturals, Sequences, SequencesExt

CONSTANTS
  MaxPayload,  \* MAX_PAYLOAD
  Texts,       \* tag -> the JSON payloads that parse
  Overfull,    \* the payloads of an Exit that sets both fields
  Messages,    \* what the sender is asked to send: tags with payloads
  Noise,       \* what a peer that is not of this program may write instead
  MaxSent      \* bound on what is sent

Byte == 0 .. 255
Tags == 1 .. 11
RawTags == {2, 3, 4}     \* Stdin, Stdout, Stderr
EmptyTags == {7, 10}     \* ServerStopping, RequestVersion
ExitTag == 5
JsonTags == Tags \ (RawTags \cup EmptyTags)

Frames == [tag : Tags, payload : Seq(Byte)]

ASSUME CodecAssumption ==
  /\ MaxPayload \in Nat
  /\ \A t \in JsonTags : Texts[t] \subseteq Seq(Byte)
  /\ Overfull \subseteq Texts[ExitTag]
  /\ Messages \subseteq Frames
  /\ Noise \subseteq Seq(Byte)
  /\ MaxSent \in Nat

\* What a message is made into is of its tag: nothing, or JSON that parses.
ASSUME MessagesAssumption ==
  \A m \in Messages :
    /\ m.tag \in EmptyTags => m.payload = <<>>
    /\ m.tag \in JsonTags => m.payload \in Texts[m.tag]

\* The code's cap is 16 MiB; a length must fit four bytes.
ASSUME CapAssumption == MaxPayload <= 16777216

\* Message::into_frame: which messages make a frame, Exit with both does not.
IntoFrame(m) == ~(m.tag = ExitTag /\ m.payload \in Overfull)

\* Message::from_frame.
FromFrame(f) ==
  \/ f.tag \in RawTags
  \/ f.tag \in EmptyTags /\ f.payload = <<>>
  \/ f.tag \in JsonTags \ {ExitTag} /\ f.payload \in Texts[f.tag]
  \/ f.tag = ExitTag /\ f.payload \in Texts[ExitTag] \ Overfull

BigEndian(n) ==
  <<(n \div 16777216) % 256, (n \div 65536) % 256, (n \div 256) % 256, n % 256>>

\* FrameCodec::encode.
Fits(f) == Len(f.payload) <= MaxPayload
Encode(f) == <<f.tag>> \o BigEndian(Len(f.payload)) \o f.payload

\* FrameCodec::header and decode, on what was read so far.
HasHeader(b) == Len(b) >= 5
Declared(b) == ((b[2] * 256 + b[3]) * 256 + b[4]) * 256 + b[5]
\* Bugs: the cap is off by one, or asked only once the payload is there.
ViolatesAtCap(b) == HasHeader(b) /\ (Declared(b) >= MaxPayload \/ b[1] \notin Tags)
ViolatesLate(b) ==
  HasHeader(b) /\ Len(b) >= 5 + Declared(b)
    /\ (Declared(b) > MaxPayload \/ b[1] \notin Tags)

Violates(b) == HasHeader(b) /\ (Declared(b) > MaxPayload \/ b[1] \notin Tags)
HasFrame(b) == HasHeader(b) /\ ~Violates(b) /\ Len(b) >= 5 + Declared(b)
FrameOf(b) == [tag |-> b[1], payload |-> SubSeq(b, 6, 5 + Declared(b))]
RestOf(b) == SubSeq(b, 6 + Declared(b), Len(b))

VARIABLES
  sent,    \* the frames the sender has encoded
  unsent,  \* encoded bytes that the socket has not taken
  wire,    \* bytes in the socket
  closed,  \* the sender is gone
  honest,  \* only frames were put into the socket
  lost,    \* the sender was killed with bytes unsent
  buf,     \* what the receiver has read and not decoded
  got,     \* the frames it has decoded
  eof,     \* it has read the end of the stream
  at       \* where it is

senderVars == <<sent, unsent, closed, honest, lost>>
codecVars == <<senderVars, wire, buf, got, eof, at>>

CodecInit ==
  /\ sent = <<>> /\ unsent = <<>> /\ wire = <<>> /\ closed = FALSE
  /\ honest = TRUE /\ lost = FALSE
  /\ buf = <<>> /\ got = <<>> /\ eof = FALSE /\ at = "decode"

-----------------------------------------------------------------------------
(* The sender.                                                             *)

Sends(m) ==
  /\ ~closed /\ unsent = <<>> /\ Len(sent) < MaxSent
  /\ IntoFrame(m) /\ Fits(m)
  /\ sent' = Append(sent, m) /\ unsent' = Encode(m)
  /\ UNCHANGED <<closed, honest, lost, wire, buf, got, eof, at>>

\* An error of encode goes to the caller, which ends its session.
Refuses(m) ==
  /\ ~closed /\ unsent = <<>> /\ ~(IntoFrame(m) /\ Fits(m)) /\ closed' = TRUE
  /\ UNCHANGED <<sent, unsent, honest, lost, wire, buf, got, eof, at>>

Flushes ==
  /\ \E n \in 1 .. Len(unsent) :
       /\ wire' = wire \o SubSeq(unsent, 1, n)
       /\ unsent' = SubSeq(unsent, n + 1, Len(unsent))
  /\ UNCHANGED <<sent, closed, honest, lost, buf, got, eof, at>>

\* It closes, or is killed, with or without bytes that were not taken yet.
Closes ==
  /\ ~closed /\ closed' = TRUE /\ unsent' = <<>>
  /\ lost' = (unsent # <<>>)
  /\ UNCHANGED <<sent, honest, wire, buf, got, eof, at>>

Babbles(b) ==
  /\ ~closed /\ unsent = <<>> /\ honest
  /\ wire' = wire \o b /\ honest' = FALSE
  /\ UNCHANGED <<sent, unsent, closed, lost, buf, got, eof, at>>

-----------------------------------------------------------------------------
(* The receiver.                                                           *)

TakesFrame ==
  /\ at = "decode" /\ HasFrame(buf)
  /\ buf' = RestOf(buf)
  /\ \/ FromFrame(FrameOf(buf)) /\ got' = Append(got, FrameOf(buf)) /\ UNCHANGED at
     \/ ~FromFrame(FrameOf(buf)) /\ at' = "failed" /\ UNCHANGED got
  /\ UNCHANGED <<senderVars, wire, eof>>

\* On the header, before the payload is there.
Rejects ==
  /\ at = "decode" /\ Violates(buf) /\ at' = "failed"
  /\ UNCHANGED <<senderVars, wire, buf, got, eof>>

NeedsMore ==
  /\ at = "decode" /\ ~HasFrame(buf) /\ ~Violates(buf)
  /\ at' = IF ~eof THEN "read" ELSE IF buf = <<>> THEN "ended" ELSE "cut"
  /\ UNCHANGED <<senderVars, wire, buf, got, eof>>

ReadsSome ==
  /\ at = "read" /\ at' = "decode"
  /\ \E n \in 1 .. Len(wire) :
       /\ buf' = buf \o SubSeq(wire, 1, n)
       /\ wire' = SubSeq(wire, n + 1, Len(wire))
  /\ UNCHANGED <<senderVars, got, eof>>

ReadsEnd ==
  /\ at = "read" /\ wire = <<>> /\ closed
  /\ eof' = TRUE /\ at' = "decode"
  /\ UNCHANGED <<senderVars, wire, buf, got>>

Sender ==
  \/ \E m \in Messages : Sends(m) \/ Refuses(m)
  \/ Flushes \/ Closes
  \/ \E b \in Noise : Babbles(b)

Receiver == TakesFrame \/ Rejects \/ NeedsMore \/ ReadsSome \/ ReadsEnd

CodecNext == Sender \/ Receiver

CodecSpec == CodecInit /\ [][CodecNext]_codecVars

-----------------------------------------------------------------------------

\* The types of the variables.
CodecTypeOK ==
  /\ {sent, got} \subseteq Seq(Frames)
  /\ {unsent, wire, buf} \subseteq Seq(Byte)
  /\ {closed, honest, lost, eof} \subseteq BOOLEAN
  /\ at \in {"decode", "read", "ended", "failed", "cut"}

\* Frames of this program arrive as they were sent, in whatever pieces: none is
\* rejected, cap and Exit rule being the same at both ends, and the stream ends
\* between two frames, after the last, unless the sender was killed in one
\* (FrameCodec, Message::into_frame, Message::from_frame).
ArrivesAsSent ==
  honest =>
    /\ IsPrefix(got, sent) /\ at # "failed"
    /\ at \in {"ended", "cut"} /\ ~lost => at = "ended" /\ got = sent

\* No peer makes the receiver wait with more than one frame in its buffer: an
\* oversized length fails on the header (FrameCodec::header; spec/protocol.md,
\* Framing).
BufferIsBounded == at = "read" => Len(buf) < 5 + MaxPayload
=============================================================================
