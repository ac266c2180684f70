---------------------------- MODULE CodecProofs ----------------------------
(* What is proved of the codec, for any cap, payloads, messages and noise,  *)
(* and whoever reads: a session or the version probe.                      *)
EXTENDS Probe, TLAPS

LEMMA SubSeqIsSeq ==
  ASSUME NEW S, NEW s \in Seq(S), NEW m \in Nat \ {0}, NEW n \in 0 .. Len(s)
  PROVE  SubSeq(s, m, n) \in Seq(S)
OBVIOUS

LEMMA EncodeIsBytes ==
  ASSUME NEW m \in Messages PROVE Encode(m) \in Seq(Byte)
<1>1. m.tag \in Byte /\ m.payload \in Seq(Byte) /\ Len(m.payload) \in Nat
  BY CodecAssumption DEF Frames, Tags, Byte
<1>2. ASSUME NEW n \in Nat PROVE BigEndian(n) \in Seq(Byte)
  BY SMT DEF BigEndian, Byte
<1>3. BigEndian(Len(m.payload)) \in Seq(Byte)
  BY <1>1, <1>2
<1> QED BY <1>1, <1>3 DEF Encode

LEMMA DeclaredIsNat ==
  ASSUME NEW b \in Seq(Byte), HasHeader(b) PROVE Declared(b) \in Nat
<1>1. /\ b[2] \in Byte /\ b[3] \in Byte /\ b[4] \in Byte /\ b[5] \in Byte
  <2>1. b \in [1 .. Len(b) -> Byte] /\ Len(b) \in Nat
    OBVIOUS
  <2>2. 2 \in 1 .. Len(b) /\ 3 \in 1 .. Len(b) /\ 4 \in 1 .. Len(b) /\ 5 \in 1 .. Len(b)
    BY <2>1 DEF HasHeader
  <2> QED BY <2>1, <2>2
<1>2. /\ b[2] \in Nat /\ b[3] \in Nat /\ b[4] \in Nat /\ b[5] \in Nat
  <2>1. \A n \in Byte : n \in Nat
    BY DEF Byte
  <2> QED BY <1>1, <2>1
<1>3. \A p, q \in Nat : p * 256 + q \in Nat
  OBVIOUS
<1>4. (b[2] * 256 + b[3]) * 256 + b[4] \in Nat
  BY <1>2, <1>3
<1> QED BY <1>2, <1>3, <1>4 DEF Declared

\* A frame that is cut from a buffer of bytes is one, and leaves bytes.
LEMMA CutIsFrame ==
  ASSUME NEW b \in Seq(Byte), HasFrame(b)
  PROVE  FrameOf(b) \in Frames /\ RestOf(b) \in Seq(Byte)
<1>1. Declared(b) \in Nat /\ 5 + Declared(b) \in 0 .. Len(b)
  BY DeclaredIsNat DEF HasFrame
<1>2. b[1] \in Tags
  BY DEF HasFrame, Violates
<1>3. SubSeq(b, 6, 5 + Declared(b)) \in Seq(Byte)
  BY <1>1, SubSeqIsSeq
<1>4. RestOf(b) \in Seq(Byte)
  BY <1>1, SubSeqIsSeq DEF RestOf
<1> QED BY <1>2, <1>3, <1>4 DEF FrameOf, Frames

\* A decoder that waits has not got a frame, and has no reason to fail.
WaitsRightly == at = "read" => ~HasFrame(buf) /\ ~Violates(buf)

CodecInv == CodecTypeOK /\ WaitsRightly

-----------------------------------------------------------------------------

LEMMA SenderKeepsInv == ASSUME CodecInv, Sender PROVE CodecInv'
<1> USE DEF CodecInv, CodecTypeOK, WaitsRightly
<1>1. ASSUME NEW m \in Messages, Sends(m) PROVE CodecInv'
  <2>1. unsent' \in Seq(Byte)
    BY <1>1, EncodeIsBytes DEF Sends
  <2>2. sent' \in Seq(Frames)
    BY <1>1, CodecAssumption DEF Sends
  <2> QED BY <1>1, <2>1, <2>2 DEF Sends
<1>2. ASSUME NEW m \in Messages, Refuses(m) PROVE CodecInv'
  BY <1>2 DEF Refuses
<1>3. CASE Flushes
  <2>1. PICK n \in 1 .. Len(unsent) :
          /\ wire' = wire \o SubSeq(unsent, 1, n)
          /\ unsent' = SubSeq(unsent, n + 1, Len(unsent))
    BY <1>3 DEF Flushes
  <2>2. SubSeq(unsent, 1, n) \in Seq(Byte) /\ unsent' \in Seq(Byte)
    BY <2>1, SubSeqIsSeq
  <2>3. wire' \in Seq(Byte)
    BY <2>1, <2>2
  <2> QED BY <1>3, <2>2, <2>3 DEF Flushes
<1>4. CASE Closes
  BY <1>4 DEF Closes
<1>5. ASSUME NEW b \in Noise, Babbles(b) PROVE CodecInv'
  <2>1. wire' \in Seq(Byte)
    BY <1>5, CodecAssumption DEF Babbles
  <2> QED BY <1>5, <2>1 DEF Babbles
<1> QED BY <1>1, <1>2, <1>3, <1>4, <1>5 DEF Sender

LEMMA ReceiverKeepsInv == ASSUME CodecInv, Receiver PROVE CodecInv'
<1> USE DEF CodecInv, CodecTypeOK, WaitsRightly, senderVars
<1>1. CASE TakesFrame
  <2>1. FrameOf(buf) \in Frames /\ buf' \in Seq(Byte)
    BY <1>1, CutIsFrame DEF TakesFrame
  <2>2. got' \in Seq(Frames) /\ at' \in {"decode", "failed"}
    <3>1. CASE got' = Append(got, FrameOf(buf)) /\ at' = at
      <4>1. at = "decode"
        BY <1>1 DEF TakesFrame
      <4>2. Append(got, FrameOf(buf)) \in Seq(Frames)
        BY <2>1
      <4> QED BY <3>1, <4>1, <4>2
    <3>2. CASE got' = got /\ at' = "failed"
      BY <3>2
    <3> QED BY <1>1, <3>1, <3>2 DEF TakesFrame
  <2>3. UNCHANGED <<sent, unsent, closed, honest, lost, wire, eof>>
    BY <1>1 DEF TakesFrame
  <2>4. at' # "read"
    BY <2>2
  <2> QED BY <2>1, <2>2, <2>3, <2>4
<1>2. CASE Rejects
  BY <1>2 DEF Rejects
<1>3. CASE NeedsMore
  BY <1>3 DEF NeedsMore, HasFrame, Violates, HasHeader, Declared
<1>4. CASE ReadsSome
  <2>1. PICK n \in 1 .. Len(wire) :
          /\ buf' = buf \o SubSeq(wire, 1, n)
          /\ wire' = SubSeq(wire, n + 1, Len(wire))
    BY <1>4 DEF ReadsSome
  <2>2. SubSeq(wire, 1, n) \in Seq(Byte) /\ wire' \in Seq(Byte)
    BY <2>1, SubSeqIsSeq
  <2>3. buf' \in Seq(Byte)
    BY <2>1, <2>2
  <2> QED BY <1>4, <2>2, <2>3 DEF ReadsSome
<1>5. CASE ReadsEnd
  BY <1>5 DEF ReadsEnd
<1> QED BY <1>1, <1>2, <1>3, <1>4, <1>5 DEF Receiver

\* The types, and what a decoder that waits knows.
THEOREM CodecInvariant == CodecSpec => []CodecInv
<1>1. CodecInit => CodecInv
  <2>1. <<>> \in Seq(Frames) /\ <<>> \in Seq(Byte)
    OBVIOUS
  <2> QED BY <2>1 DEF CodecInit, CodecInv, CodecTypeOK, WaitsRightly
<1>2. CodecInv /\ [CodecNext]_codecVars => CodecInv'
  <2> SUFFICES ASSUME CodecInv, [CodecNext]_codecVars PROVE CodecInv'
    OBVIOUS
  <2>1. CASE UNCHANGED codecVars
    BY <2>1 DEF codecVars, senderVars, CodecInv, CodecTypeOK, WaitsRightly,
       HasFrame, Violates, HasHeader, Declared
  <2> QED BY <2>1, SenderKeepsInv, ReceiverKeepsInv DEF CodecNext
<1> QED BY <1>1, <1>2, PTL DEF CodecSpec

\* No peer, of this program or not, makes the receiver hold more than one frame
\* while it waits, whatever the cap (FrameCodec::header).
THEOREM BufferBound == CodecSpec => []BufferIsBounded
<1>1. CodecInv => BufferIsBounded
  <2> SUFFICES ASSUME CodecInv, at = "read" PROVE Len(buf) < 5 + MaxPayload
    BY DEF BufferIsBounded
  <2>1. buf \in Seq(Byte) /\ Len(buf) \in Nat /\ MaxPayload \in Nat
    BY CodecAssumption DEF CodecInv, CodecTypeOK
  <2>2. CASE ~HasHeader(buf)
    BY <2>1, <2>2 DEF HasHeader
  <2>3. CASE HasHeader(buf)
    <3>1. Declared(buf) \in Nat
      BY <2>1, <2>3, DeclaredIsNat
    <3>2. ~HasFrame(buf) /\ ~Violates(buf)
      BY DEF CodecInv, WaitsRightly
    <3>3. Declared(buf) <= MaxPayload /\ Len(buf) < 5 + Declared(buf)
      BY <2>1, <2>3, <3>1, <3>2 DEF HasFrame, Violates
    <3> QED BY <2>1, <3>1, <3>3
  <2> QED BY <2>2, <2>3
<1> QED BY <1>1, CodecInvariant, PTL

-----------------------------------------------------------------------------
(***************************************************************************)
(* One frame: what is decoded of an encoded frame is the frame.            *)
(***************************************************************************)

LEMMA Digits ==
  ASSUME NEW n \in Nat, n < 4294967296
  PROVE  /\ n = 256 * (n \div 256) + (n % 256)
         /\ n \div 65536 = (n \div 256) \div 256
         /\ n \div 16777216 = (n \div 65536) \div 256
         /\ n \div 16777216 < 256
         /\ n \div 256 \in Nat /\ n \div 65536 \in Nat /\ n \div 16777216 \in Nat
OBVIOUS

\* Four bytes hold every length below 2^32, most significant byte first.
LEMMA BigEndianIsRead ==
  ASSUME NEW n \in Nat, n < 4294967296
  PROVE  LET b == BigEndian(n)
         IN  ((b[1] * 256 + b[2]) * 256 + b[3]) * 256 + b[4] = n
<1> DEFINE hi == n \div 16777216
           mid == n \div 65536
           low == n \div 256
<1>1. /\ n = 256 * low + (n % 256) /\ mid = low \div 256 /\ hi = mid \div 256
      /\ hi < 256 /\ low \in Nat /\ mid \in Nat /\ hi \in Nat
  BY Digits
<1> HIDE DEF hi, mid, low
<1>2. low = 256 * mid + (low % 256) /\ mid = 256 * hi + (mid % 256) /\ hi % 256 = hi
  BY <1>1
<1>3. (((hi % 256) * 256 + (mid % 256)) * 256 + (low % 256)) * 256 + (n % 256) = n
  BY <1>1, <1>2
<1> QED BY <1>3 DEF BigEndian, hi, mid, low

LEMMA ThreeParts ==
  ASSUME NEW p \in Seq(Byte), NEW q \in Seq(Byte), NEW r \in Seq(Byte),
         NEW whole, whole = p \o q \o r
  PROVE  /\ whole \in Seq(Byte) /\ Len(whole) = Len(p) + Len(q) + Len(r)
         /\ \A i \in 1 .. Len(whole) :
              whole[i] = IF i <= Len(p) THEN p[i]
                         ELSE IF i <= Len(p) + Len(q) THEN q[i - Len(p)]
                         ELSE r[i - Len(p) - Len(q)]
OBVIOUS

LEMMA EqualByElement ==
  ASSUME NEW S, NEW p \in Seq(S), NEW q \in Seq(S), Len(p) = Len(q),
         \A i \in 1 .. Len(p) : p[i] = q[i]
  PROVE  p = q
OBVIOUS

LEMMA EncodedAt ==
  ASSUME NEW f \in Frames
  PROVE  /\ Encode(f) \in Seq(Byte) /\ Len(Encode(f)) = 5 + Len(f.payload)
         /\ Encode(f)[1] = f.tag
         /\ \A i \in 1 .. 4 : Encode(f)[1 + i] = BigEndian(Len(f.payload))[i]
         /\ \A i \in 1 .. Len(f.payload) : Encode(f)[5 + i] = f.payload[i]
<1>1. f.tag \in Byte /\ f.payload \in Seq(Byte) /\ Len(f.payload) \in Nat
  BY DEF Frames, Tags, Byte
<1>2. PICK first, size, rest :
        first = <<f.tag>> /\ size = BigEndian(Len(f.payload)) /\ rest = f.payload
  OBVIOUS
<1>3. first \in Seq(Byte) /\ size \in Seq(Byte) /\ rest \in Seq(Byte)
  <2>1. \A n \in Nat : BigEndian(n) \in Seq(Byte)
    BY DEF BigEndian, Byte
  <2> QED BY <1>1, <1>2, <2>1, SMT
<1>4. Encode(f) = first \o size \o rest
  BY <1>2, SMT DEF Encode
<1>5. /\ Encode(f) \in Seq(Byte) /\ Len(Encode(f)) = Len(first) + Len(size) + Len(rest)
      /\ \A i \in 1 .. Len(Encode(f)) :
           Encode(f)[i] = IF i <= Len(first) THEN first[i]
                          ELSE IF i <= Len(first) + Len(size) THEN size[i - Len(first)]
                          ELSE rest[i - Len(first) - Len(size)]
  BY <1>3, <1>4, ThreeParts
<1>6. Len(first) = 1 /\ first[1] = f.tag
  BY <1>2
<1>7. Len(size) = 4
  <2>1. \A n \in Nat : Len(BigEndian(n)) = 4
    BY DEF BigEndian
  <2> QED BY <1>1, <1>2, <2>1
<1>8. Len(Encode(f)) = 5 + Len(rest) /\ Encode(f)[1] = f.tag
  BY <1>3, <1>5, <1>6, <1>7, SMT
<1>9. \A i \in 1 .. 4 : Encode(f)[1 + i] = size[i]
  BY <1>3, <1>5, <1>6, <1>7, SMT
<1>10. \A i \in 1 .. Len(rest) : Encode(f)[5 + i] = rest[i]
  BY <1>3, <1>5, <1>6, <1>7, SMT
<1>11. Encode(f) \in Seq(Byte)
  BY <1>5
<1> QED BY <1>2, <1>8, <1>9, <1>10, <1>11, ZenonT(20)

\* A buffer that begins as an encoded frame does, with its header at least.
LEMMA HeaderIsRead ==
  ASSUME NEW f \in Frames, Fits(f), NEW b \in Seq(Byte), HasHeader(b),
         \A i \in 1 .. Len(b) : i <= Len(Encode(f)) => b[i] = Encode(f)[i]
  PROVE  /\ b[1] = f.tag /\ Declared(b) = Len(f.payload)
         /\ ~Violates(b)
         /\ HasFrame(b) <=> Len(b) >= Len(Encode(f))
         /\ HasFrame(b) => FrameOf(b) = f
<1> DEFINE size == BigEndian(Len(f.payload))
<1>1. /\ f.tag \in Tags /\ f.payload \in Seq(Byte) /\ Len(f.payload) \in Nat
      /\ Len(f.payload) <= MaxPayload /\ MaxPayload \in Nat /\ Len(b) \in Nat
  BY CodecAssumption DEF Frames, Fits
<1>2. Len(b) >= 5 /\ Len(Encode(f)) = 5 + Len(f.payload)
  BY EncodedAt DEF HasHeader
<1>3. b[1] = f.tag
  BY <1>1, <1>2, EncodedAt
<1>4. b[2] = size[1] /\ b[3] = size[2] /\ b[4] = size[3] /\ b[5] = size[4]
  <2>1. /\ Encode(f)[2] = size[1] /\ Encode(f)[3] = size[2]
        /\ Encode(f)[4] = size[3] /\ Encode(f)[5] = size[4]
    <3>1. \A i \in 1 .. 4 : Encode(f)[1 + i] = size[i]
      BY EncodedAt
    <3> HIDE DEF size
    <3> QED BY <3>1
  <2>2. /\ b[2] = Encode(f)[2] /\ b[3] = Encode(f)[3]
        /\ b[4] = Encode(f)[4] /\ b[5] = Encode(f)[5]
    BY <1>1, <1>2
  <2> QED BY <2>1, <2>2
<1>5. Declared(b) = Len(f.payload)
  <2>1. Len(f.payload) < 4294967296
    BY <1>1, CapAssumption
  <2>2. ((size[1] * 256 + size[2]) * 256 + size[3]) * 256 + size[4] = Len(f.payload)
    BY <1>1, <2>1, BigEndianIsRead
  <2> HIDE DEF size
  <2>3. Declared(b) = ((size[1] * 256 + size[2]) * 256 + size[3]) * 256 + size[4]
    BY <1>4 DEF Declared
  <2> QED BY <2>2, <2>3
<1>6. ~Violates(b)
  BY <1>1, <1>3, <1>5 DEF Violates
<1>7. HasFrame(b) <=> Len(b) >= Len(Encode(f))
  BY <1>2, <1>5, <1>6 DEF HasFrame, HasHeader
<1>8. ASSUME HasFrame(b) PROVE FrameOf(b) = f
  <2>1. \A i \in 1 .. Len(f.payload) : b[5 + i] = f.payload[i]
    <3> SUFFICES ASSUME NEW i \in 1 .. Len(f.payload) PROVE b[5 + i] = f.payload[i]
      OBVIOUS
    <3>1. b[5 + i] = Encode(f)[5 + i]
      BY <1>1, <1>2, <1>7, <1>8
    <3>2. Encode(f)[5 + i] = f.payload[i]
      BY EncodedAt
    <3> QED BY <3>1, <3>2
  <2>2. SubSeq(b, 6, 5 + Len(f.payload)) = f.payload
    <3> DEFINE cut == SubSeq(b, 6, 5 + Len(f.payload))
    <3>1. 5 + Len(f.payload) \in 0 .. Len(b)
      BY <1>1, <1>2, <1>7, <1>8
    <3>2. cut \in Seq(Byte)
      BY <3>1, SubSeqIsSeq
    <3>3. Len(cut) = Len(f.payload) /\ \A i \in 1 .. Len(cut) : cut[i] = b[5 + i]
      BY <1>1, <3>1
    <3> HIDE DEF cut
    <3>4. cut = f.payload
      BY <1>1, <2>1, <3>2, <3>3, EqualByElement
    <3> QED BY <3>4 DEF cut
  <2> QED BY <1>3, <1>5, <2>2 DEF FrameOf, Frames
<1> QED BY <1>3, <1>5, <1>6, <1>7, <1>8

-----------------------------------------------------------------------------
(***************************************************************************)
(* All frames: S is the stream of everything that was encoded since the    *)
(* start, ends[k] where its kth frame ends.  No operator computes them of  *)
(* what was sent; that they exist is what every step keeps.                *)
(***************************************************************************)
Flight == buf \o wire \o unsent

Laid(frames, S, ends) ==
  /\ ends[0] = 0 /\ Len(S) = ends[Len(frames)]
  /\ \A i, j \in 0 .. Len(frames) : i <= j => ends[i] <= ends[j]
  /\ \A k \in 1 .. Len(frames) :
       /\ ends[k] = ends[k - 1] + Len(Encode(frames[k]))
       /\ \A i \in 1 .. Len(Encode(frames[k])) : S[ends[k - 1] + i] = Encode(frames[k])[i]

\* What is under way is the stream past what was decoded, whole but for what a
\* killed sender kept back of its last frame.
UnderWay(S, ends) ==
  /\ ends[Len(got)] + Len(Flight) <= Len(S)
  /\ \A i \in 1 .. Len(Flight) : Flight[i] = S[ends[Len(got)] + i]
  /\ ~lost => ends[Len(got)] + Len(Flight) = Len(S)
  /\ unsent # <<>> \/ lost =>
       /\ Len(sent) > 0
       /\ ends[Len(got)] + Len(Flight) - Len(unsent) >= ends[Len(sent) - 1]

\* That there is such a stream.
Streamed == \E S \in Seq(Byte), ends \in [0 .. Len(sent) -> Nat] : Laid(sent, S, ends) /\ UnderWay(S, ends)

\* What is sent can be decoded, and a stream ends once.
Orderly ==
  /\ \A i \in 1 .. Len(sent) : FromFrame(sent[i]) /\ Fits(sent[i])
  /\ closed => unsent = <<>>
  /\ lost => closed
  /\ eof => closed /\ wire = <<>>
  /\ at \in {"ended", "cut"} => eof

Faithful ==
  /\ at # "failed"
  /\ Len(got) <= Len(sent) /\ \A i \in 1 .. Len(got) : got[i] = sent[i]
  /\ at \in {"ended", "cut"} /\ ~lost => at = "ended" /\ Len(got) = Len(sent)
  /\ Streamed

ArrivalInv == CodecInv /\ Orderly /\ (honest => Faithful)

LEMMA FlightParts ==
  ASSUME CodecTypeOK
  PROVE  /\ buf \in Seq(Byte) /\ wire \in Seq(Byte) /\ unsent \in Seq(Byte)
         /\ Flight \in Seq(Byte) /\ Len(Flight) = Len(buf) + Len(wire) + Len(unsent)
         /\ \A i \in 1 .. Len(buf) : Flight[i] = buf[i]
<1>1. buf \in Seq(Byte) /\ wire \in Seq(Byte) /\ unsent \in Seq(Byte)
  BY DEF CodecTypeOK
<1>2. /\ Flight \in Seq(Byte) /\ Len(Flight) = Len(buf) + Len(wire) + Len(unsent)
      /\ \A i \in 1 .. Len(Flight) :
           Flight[i] = IF i <= Len(buf) THEN buf[i]
                       ELSE IF i <= Len(buf) + Len(wire) THEN wire[i - Len(buf)]
                       ELSE unsent[i - Len(buf) - Len(wire)]
  BY <1>1, ThreeParts DEF Flight
<1>3. \A i \in 1 .. Len(buf) : i \in 1 .. Len(Flight)
  BY <1>1, <1>2
<1> QED BY <1>1, <1>2, <1>3

\* What the decoder has read begins with the next frame, if it is not empty.
LEMMA NextFrame ==
  ASSUME CodecTypeOK, Orderly, Len(got) <= Len(sent),
         NEW S \in Seq(Byte), NEW ends \in [0 .. Len(sent) -> Nat],
         Laid(sent, S, ends), UnderWay(S, ends), buf # <<>>
  PROVE  /\ Len(got) + 1 \in 1 .. Len(sent) /\ sent[Len(got) + 1] \in Frames
         /\ Fits(sent[Len(got) + 1]) /\ FromFrame(sent[Len(got) + 1])
         /\ ends[Len(got) + 1] = ends[Len(got)] + Len(Encode(sent[Len(got) + 1]))
         /\ \A i \in 1 .. Len(buf) : i <= Len(Encode(sent[Len(got) + 1])) =>
              buf[i] = Encode(sent[Len(got) + 1])[i]
<1>1. /\ Len(got) \in Nat /\ Len(sent) \in Nat /\ sent \in Seq(Frames)
      /\ Len(buf) \in Nat \ {0} /\ Len(wire) \in Nat /\ Len(unsent) \in Nat
  BY DEF CodecTypeOK
<1>2. ends[Len(got)] \in Nat /\ ends[Len(sent)] \in Nat
  BY <1>1
<1>3. Len(got) # Len(sent)
  BY <1>1, <1>2, FlightParts DEF Laid, UnderWay
<1>4. Len(got) + 1 \in 1 .. Len(sent)
  BY <1>1, <1>3
<1> DEFINE f == sent[Len(got) + 1]
<1>5. f \in Frames /\ Fits(f) /\ FromFrame(f)
  BY <1>1, <1>4 DEF Orderly
<1>6. /\ ends[Len(got) + 1] = ends[Len(got)] + Len(Encode(f))
      /\ \A i \in 1 .. Len(Encode(f)) : S[ends[Len(got)] + i] = Encode(f)[i]
  <2>1. (Len(got) + 1) - 1 = Len(got)
    BY <1>1
  <2>2. /\ ends[Len(got) + 1] = ends[(Len(got) + 1) - 1] + Len(Encode(f))
        /\ \A i \in 1 .. Len(Encode(f)) : S[ends[(Len(got) + 1) - 1] + i] = Encode(f)[i]
    BY <1>4 DEF Laid
  <2> QED BY <2>1, <2>2
<1>7. ASSUME NEW i \in 1 .. Len(buf), i <= Len(Encode(f)) PROVE buf[i] = Encode(f)[i]
  <2>1. Len(Encode(f)) \in Nat
    BY <1>5, EncodedAt
  <2>2. i \in 1 .. Len(Encode(f)) /\ i \in 1 .. Len(Flight)
    BY <1>1, <1>7, <2>1, FlightParts
  <2>3. Flight[i] = S[ends[Len(got)] + i] /\ Flight[i] = buf[i]
    BY <2>2, FlightParts DEF UnderWay
  <2> QED BY <1>6, <2>2, <2>3
<1> QED BY <1>4, <1>5, <1>6, <1>7

\* A decoder that finds a frame finds that one, and it has no cause to complain.
LEMMA DecodesNext ==
  ASSUME CodecTypeOK, Orderly, Faithful
  PROVE  /\ ~Violates(buf)
         /\ HasFrame(buf) =>
              /\ Len(got) + 1 \in 1 .. Len(sent)
              /\ FrameOf(buf) = sent[Len(got) + 1] /\ FromFrame(FrameOf(buf))
<1>1. PICK S \in Seq(Byte), ends \in [0 .. Len(sent) -> Nat] : Laid(sent, S, ends) /\ UnderWay(S, ends)
  BY DEF Faithful, Streamed
<1>2. CASE HasHeader(buf)
  <2>1. buf \in Seq(Byte) /\ buf # <<>>
    BY <1>2 DEF HasHeader, CodecTypeOK
  <2>2. Len(got) <= Len(sent)
    BY DEF Faithful
  <2> DEFINE f == sent[Len(got) + 1]
  <2>3. /\ Len(got) + 1 \in 1 .. Len(sent) /\ f \in Frames /\ Fits(f) /\ FromFrame(f)
        /\ \A i \in 1 .. Len(buf) : i <= Len(Encode(f)) => buf[i] = Encode(f)[i]
    BY <1>1, <2>1, <2>2, NextFrame
  <2> HIDE DEF f
  <2>4. ~Violates(buf) /\ (HasFrame(buf) => FrameOf(buf) = f)
    BY <1>2, <2>1, <2>3, HeaderIsRead
  <2> QED BY <2>3, <2>4 DEF f
<1>3. CASE ~HasHeader(buf)
  BY <1>3 DEF Violates, HasFrame
<1> QED BY <1>2, <1>3

\* Bytes that move on, and none of the last frame that go back.
LEMMA StreamMoves ==
  ASSUME CodecTypeOK, CodecTypeOK', Streamed, Len(got) <= Len(sent),
         UNCHANGED <<sent, got, lost>>, Flight' = Flight, Len(unsent') <= Len(unsent)
  PROVE  Streamed'
<1>1. PICK S \in Seq(Byte), ends \in [0 .. Len(sent) -> Nat] : Laid(sent, S, ends) /\ UnderWay(S, ends)
  BY DEF Streamed
<1>2. Laid(sent, S, ends)'
  BY <1>1 DEF Laid
<1>3. /\ Len(unsent) \in Nat /\ Len(unsent') \in Nat /\ Len(Flight) \in Nat
      /\ Len(sent) \in Nat /\ Len(got) \in Nat
  BY FlightParts DEF CodecTypeOK
<1>4. unsent' # <<>> => unsent # <<>>
  <2>1. \A q \in Seq(Byte) : q = <<>> <=> Len(q) = 0
    OBVIOUS
  <2> QED BY <1>3, <2>1 DEF CodecTypeOK
<1>5. UnderWay(S, ends)'
  <2> DEFINE past == ends[Len(got)]
             flight == Flight
  <2>1. past \in Nat /\ (Len(sent) > 0 => ends[Len(sent) - 1] \in Nat)
    BY <1>3
  <2>2. UnderWay(S, ends)' <=>
          /\ past + Len(flight) <= Len(S)
          /\ \A i \in 1 .. Len(flight) : flight[i] = S[past + i]
          /\ ~lost => past + Len(flight) = Len(S)
          /\ unsent' # <<>> \/ lost =>
               /\ Len(sent) > 0
               /\ past + Len(flight) - Len(unsent') >= ends[Len(sent) - 1]
    BY DEF UnderWay
  <2> QED BY <1>1, <1>3, <1>4, <2>1, <2>2 DEF UnderWay
<1> QED BY <1>1, <1>2, <1>5 DEF Streamed

LEMMA InTwoParts ==
  ASSUME NEW q \in Seq(Byte), NEW n \in 1 .. Len(q)
  PROVE  /\ SubSeq(q, 1, n) \in Seq(Byte) /\ SubSeq(q, n + 1, Len(q)) \in Seq(Byte)
         /\ SubSeq(q, 1, n) \o SubSeq(q, n + 1, Len(q)) = q
         /\ Len(SubSeq(q, n + 1, Len(q))) <= Len(q)
OBVIOUS

LEMMA Regrouped ==
  ASSUME NEW p \in Seq(Byte), NEW q \in Seq(Byte), NEW r \in Seq(Byte)
  PROVE  p \o q \in Seq(Byte) /\ (p \o q) \o r = p \o (q \o r)
OBVIOUS

LEMMA StreamFlushed ==
  ASSUME CodecTypeOK, CodecTypeOK', Streamed, Len(got) <= Len(sent), Flushes
  PROVE  Streamed'
<1>1. PICK n \in 1 .. Len(unsent) :
        /\ wire' = wire \o SubSeq(unsent, 1, n)
        /\ unsent' = SubSeq(unsent, n + 1, Len(unsent))
  BY DEF Flushes
<1>2. unsent \in Seq(Byte) /\ wire \in Seq(Byte) /\ buf \in Seq(Byte) /\ buf' = buf
  BY DEF CodecTypeOK, Flushes
<1>3. PICK head \in Seq(Byte), tail \in Seq(Byte) :
        /\ head \o tail = unsent /\ Len(tail) <= Len(unsent)
        /\ wire' = wire \o head /\ unsent' = tail
  BY <1>1, <1>2, InTwoParts
<1>4. Flight' = Flight
  <2>1. PICK old \in Seq(Byte) : old = buf \o wire
    BY <1>2, Regrouped
  <2>2. (buf \o wire) \o head = buf \o (wire \o head)
    <3>1. buf \in Seq(Byte) /\ wire \in Seq(Byte) /\ head \in Seq(Byte)
      BY <1>2, <1>3
    <3> QED BY <3>1, Regrouped, SMTT(30)
  <2>3. (old \o head) \o tail = old \o (head \o tail)
    BY <1>3, <2>1, Regrouped
  <2>4. Flight' = (old \o head) \o tail
    BY <1>2, <1>3, <2>1, <2>2 DEF Flight
  <2>5. Flight = old \o (head \o tail)
    BY <1>3, <2>1 DEF Flight
  <2> QED BY <2>3, <2>4, <2>5
<1> QED BY <1>3, <1>4, StreamMoves DEF Flushes

LEMMA StreamRead ==
  ASSUME CodecTypeOK, CodecTypeOK', Streamed, Len(got) <= Len(sent), ReadsSome
  PROVE  Streamed'
<1>1. PICK n \in 1 .. Len(wire) :
        /\ buf' = buf \o SubSeq(wire, 1, n)
        /\ wire' = SubSeq(wire, n + 1, Len(wire))
  BY DEF ReadsSome
<1>2. /\ unsent \in Seq(Byte) /\ wire \in Seq(Byte) /\ buf \in Seq(Byte)
      /\ unsent' = unsent /\ Len(unsent') <= Len(unsent)
  BY DEF CodecTypeOK, ReadsSome, senderVars
<1>3. PICK head \in Seq(Byte), tail \in Seq(Byte) :
        head \o tail = wire /\ buf' = buf \o head /\ wire' = tail
  BY <1>1, <1>2, InTwoParts
<1>4. Flight' = Flight
  <2>1. (buf \o head) \o tail = buf \o (head \o tail)
    <3>1. buf \in Seq(Byte) /\ head \in Seq(Byte) /\ tail \in Seq(Byte)
      BY <1>2, <1>3
    <3> QED BY <3>1, Regrouped
  <2> QED BY <1>2, <1>3, <2>1 DEF Flight
<1> QED BY <1>2, <1>4, StreamMoves DEF ReadsSome, senderVars

LEMMA Joined ==
  ASSUME NEW p \in Seq(Byte), NEW q \in Seq(Byte), NEW whole, whole = p \o q
  PROVE  /\ whole \in Seq(Byte) /\ Len(whole) = Len(p) + Len(q)
         /\ \A i \in 1 .. Len(whole) :
              whole[i] = IF i <= Len(p) THEN p[i] ELSE q[i - Len(p)]
OBVIOUS

\* The stream grows by the frame that is encoded.
LEMMA LaidGrows ==
  ASSUME NEW frames \in Seq(Frames), NEW S \in Seq(Byte),
         NEW ends \in [0 .. Len(frames) -> Nat], Laid(frames, S, ends),
         NEW m \in Frames
  PROVE  \E more \in [0 .. Len(frames) + 1 -> Nat] :
           /\ Laid(Append(frames, m), S \o Encode(m), more)
           /\ \A k \in 0 .. Len(frames) : more[k] = ends[k]
<1>1. PICK n, end, e, T, next :
        /\ n = Len(frames) /\ end = Len(S) /\ e = Encode(m) /\ T = S \o e
        /\ next = Append(frames, m)
  OBVIOUS
<1>2. e \in Seq(Byte)
  BY <1>1, EncodedAt
<1>3. PICK long : long = Len(e)
  OBVIOUS
<1>4. n \in Nat /\ end \in Nat /\ long \in Nat
  BY <1>1, <1>2, <1>3
<1>5. /\ T \in Seq(Byte) /\ Len(T) = end + long
      /\ \A i \in 1 .. end + long : T[i] = IF i <= end THEN S[i] ELSE e[i - end]
  BY <1>1, <1>2, <1>3, Joined
<1>6. /\ Len(next) = n + 1 /\ next[n + 1] = m
      /\ \A k \in 1 .. n : next[k] = frames[k] /\ frames[k] \in Frames
  BY <1>1
<1>7. /\ ends[0] = 0 /\ end = ends[n]
      /\ \A i, j \in 0 .. n : i <= j => ends[i] <= ends[j]
      /\ \A k \in 0 .. n : ends[k] \in Nat
      /\ \A k \in 1 .. n :
           /\ ends[k] = ends[k - 1] + Len(Encode(frames[k]))
           /\ \A i \in 1 .. Len(Encode(frames[k])) : S[ends[k - 1] + i] = Encode(frames[k])[i]
  BY <1>1 DEF Laid
<1> DEFINE more == [k \in 0 .. n + 1 |-> IF k <= n THEN ends[k] ELSE end + long]
<1>8. /\ more \in [0 .. n + 1 -> Nat] /\ more[n + 1] = end + long
      /\ \A k \in 0 .. n : more[k] = ends[k]
  BY <1>4, <1>7
<1> HIDE DEF more
<1>9. more[0] = 0 /\ \A i, j \in 0 .. n + 1 : i <= j => more[i] <= more[j]
  <2>1. \A i \in 0 .. n : ends[i] <= end /\ more[i] = ends[i] /\ ends[i] \in Nat
    BY <1>4, <1>7, <1>8
  <2>2. \A i \in 0 .. n + 1 : i \in 0 .. n \/ i = n + 1
    BY <1>4
  <2> QED BY <1>4, <1>7, <1>8, <2>1, <2>2
<1>10. ASSUME NEW k \in 1 .. n + 1
       PROVE  /\ more[k] = more[k - 1] + Len(Encode(next[k]))
              /\ \A i \in 1 .. Len(Encode(next[k])) : T[more[k - 1] + i] = Encode(next[k])[i]
  <2>1. CASE k = n + 1
    <3>1. more[k] = end + long /\ more[k - 1] = end /\ Encode(next[k]) = e
      BY <1>1, <1>4, <1>6, <1>7, <1>8, <2>1
    <3>2. \A i \in 1 .. long : T[end + i] = e[i]
      <4>1. \A i \in 1 .. long : end + i \in 1 .. end + long /\ ~(end + i <= end)
                                   /\ (end + i) - end = i
        BY <1>4
      <4> QED BY <1>5, <4>1
    <3> QED BY <1>3, <3>1, <3>2
  <2>2. CASE k \in 1 .. n
    <3>1. PICK g, size : g = Encode(frames[k]) /\ size = Len(g)
      OBVIOUS
    <3>2. size \in Nat /\ Encode(next[k]) = g
      BY <1>6, <2>2, <3>1, EncodedAt
    <3>3. /\ ends[k] = ends[k - 1] + size
          /\ \A i \in 1 .. size : S[ends[k - 1] + i] = g[i]
      BY <1>7, <2>2, <3>1
    <3>4. /\ ends[k] \in Nat /\ ends[k - 1] \in Nat /\ ends[k] <= end
          /\ more[k] = ends[k] /\ more[k - 1] = ends[k - 1]
      <4>1. k \in 0 .. n /\ k - 1 \in 0 .. n /\ n \in 0 .. n /\ k <= n
        BY <1>4, <2>2
      <4> QED BY <1>7, <1>8, <4>1
    <3>5. \A i \in 1 .. size : T[ends[k - 1] + i] = g[i]
      <4>1. \A i \in 1 .. size : ends[k - 1] + i \in 1 .. end + long /\ ends[k - 1] + i <= end
        BY <1>4, <3>2, <3>3, <3>4
      <4> QED BY <1>5, <3>3, <4>1
    <3> QED BY <3>1, <3>2, <3>3, <3>4, <3>5
  <2> QED BY <1>4, <2>1, <2>2
<1>11. Laid(next, T, more)
  BY <1>5, <1>6, <1>8, <1>9, <1>10 DEF Laid
<1> QED BY <1>1, <1>8, <1>11

LEMMA StreamSent ==
  ASSUME CodecTypeOK, Streamed, Len(got) <= Len(sent), ~lost,
         NEW m \in Messages, Sends(m)
  PROVE  Streamed'
<1>1. PICK S \in Seq(Byte), ends \in [0 .. Len(sent) -> Nat] : Laid(sent, S, ends) /\ UnderWay(S, ends)
  BY DEF Streamed
<1>2. PICK n, have, end, e, long, T :
        /\ n = Len(sent) /\ have = Len(got) /\ end = Len(S) /\ e = Encode(m)
        /\ long = Len(e) /\ T = S \o e
  OBVIOUS
<1>3. /\ m \in Frames /\ sent \in Seq(Frames) /\ sent' = Append(sent, m)
      /\ unsent = <<>> /\ unsent' = e /\ UNCHANGED <<got, buf, wire, lost>>
  BY <1>2, CodecAssumption DEF CodecTypeOK, Sends
<1>4. PICK more \in [0 .. n + 1 -> Nat] :
        Laid(sent', T, more) /\ \A k \in 0 .. n : more[k] = ends[k]
  BY <1>1, <1>2, <1>3, LaidGrows
<1>5. /\ n \in Nat /\ have \in Nat /\ end \in Nat /\ long \in Nat /\ have <= n
      /\ Len(sent') = n + 1 /\ e \in Seq(Byte)
  <2>1. e \in Seq(Byte)
    BY <1>2, <1>3, EncodedAt
  <2> QED BY <1>1, <1>2, <1>3, <2>1 DEF CodecTypeOK
<1>6. PICK past, flight, length : past \in Nat /\ past = ends[have] /\ flight = Flight /\ length = Len(flight)
  <2>1. have \in 0 .. Len(sent)
    BY <1>2, <1>5
  <2>2. ends[have] \in Nat
    BY <1>1, <2>1
  <2> QED BY <2>2
<1>7. past \in Nat /\ flight \in Seq(Byte) /\ length \in Nat
  BY <1>6, FlightParts
<1>8. past + length = end /\ \A i \in 1 .. length : flight[i] = S[past + i]
  BY <1>1, <1>2, <1>6 DEF UnderWay
<1>9. PICK next : next = flight \o e
  OBVIOUS
<1>10. Flight' = next
  <2>1. PICK old \in Seq(Byte) : old = buf \o wire
    BY Regrouped DEF CodecTypeOK
  <2>2. \A q \in Seq(Byte) : q \o <<>> = q
    OBVIOUS
  <2>3. Flight = old
    BY <1>3, <2>1, <2>2 DEF Flight
  <2>4. Flight' = old \o e
    BY <1>3, <2>1 DEF Flight
  <2> QED BY <1>6, <1>9, <2>3, <2>4
<1>11. /\ Len(next) = length + long
       /\ \A i \in 1 .. length + long : next[i] = IF i <= length THEN flight[i] ELSE e[i - length]
  BY <1>2, <1>5, <1>6, <1>7, <1>9, Joined
<1>12. /\ Len(T) = end + long
       /\ \A i \in 1 .. end + long : T[i] = IF i <= end THEN S[i] ELSE e[i - end]
  BY <1>1, <1>2, <1>5, Joined
<1>13. ASSUME NEW i \in 1 .. length + long PROVE next[i] = T[past + i]
  <2>1. past + i \in 1 .. end + long /\ (i <= length <=> past + i <= end)
    <3>1. past \in Nat /\ length \in Nat /\ end \in Nat /\ long \in Nat
      BY <1>5, <1>7
    <3>2. past + length = end
      BY <1>8
    <3> QED BY <1>13, <3>1, <3>2
  <2>2. CASE i <= length
    <3>1. i \in 1 .. length /\ past + i <= end
      BY <1>7, <1>13, <2>1, <2>2
    <3>2. next[i] = flight[i] /\ T[past + i] = S[past + i]
      BY <1>11, <1>12, <1>13, <2>1, <2>2, <3>1
    <3> QED BY <1>8, <3>1, <3>2
  <2>3. CASE ~(i <= length)
    <3>1. (past + i) - end = i - length
      <4>1. past \in Nat /\ length \in Nat /\ end \in Nat /\ past + length = end
        BY <1>5, <1>7, <1>8
      <4> QED BY <1>13, <4>1
    <3> QED BY <1>11, <1>12, <2>1, <2>3, <3>1
  <2> QED BY <2>2, <2>3
<1>14. more[have] = past /\ more[(n + 1) - 1] = end
  <2>1. have \in 0 .. n /\ n \in 0 .. n /\ (n + 1) - 1 = n
    BY <1>5
  <2>2. end = ends[n]
    BY <1>1, <1>2 DEF Laid
  <2> QED BY <1>4, <1>6, <2>1, <2>2
<1>15. UnderWay(T, more)'
  <2>1. /\ past + (length + long) = end + long
        /\ past + (length + long) - long >= end
    <3>1. /\ past \in Nat /\ length \in Nat /\ end \in Nat /\ long \in Nat
          /\ past + length = end
      BY <1>5, <1>7, <1>8
    <3> QED BY <3>1
  <2>2. Len(unsent') = long /\ Len(got') = have /\ Len(Flight') = length + long
    BY <1>2, <1>3, <1>10, <1>11
  <2>3. n + 1 > 0 /\ past + (length + long) <= end + long
    BY <1>5, <2>1
  <2> QED BY <1>5, <1>10, <1>12, <1>13, <1>14, <2>1, <2>2, <2>3 DEF UnderWay
<1>16. T \in Seq(Byte)
  BY <1>1, <1>2, <1>5
<1> QED BY <1>4, <1>5, <1>15, <1>16 DEF Streamed

\* A sender that goes keeps back what the socket did not take.
LEMMA StreamCut ==
  ASSUME CodecTypeOK, Streamed, Len(got) <= Len(sent), ~lost, Closes
  PROVE  Streamed'
<1>1. PICK S \in Seq(Byte), ends \in [0 .. Len(sent) -> Nat] : Laid(sent, S, ends) /\ UnderWay(S, ends)
  BY DEF Streamed
<1>2. /\ unsent \in Seq(Byte) /\ unsent' = <<>> /\ (lost' <=> unsent # <<>>)
      /\ UNCHANGED <<sent, got, buf, wire>>
  BY DEF CodecTypeOK, Closes
<1>3. PICK n, have, end, flight, length, kept, less :
        /\ n = Len(sent) /\ have = Len(got) /\ end = Len(S) /\ kept = Len(unsent)
        /\ flight = Flight /\ length = Len(flight) /\ less = buf \o wire
  OBVIOUS
<1>4. PICK past \in Nat : past = ends[have]
  BY <1>1, <1>3 DEF CodecTypeOK
<1>5. less \in Seq(Byte) /\ flight = less \o unsent
  BY <1>3, Regrouped DEF Flight, CodecTypeOK
<1>6. PICK left : left = Len(less)
  OBVIOUS
<1>7. /\ n \in Nat /\ end \in Nat /\ left \in Nat /\ kept \in Nat
      /\ length = left + kept
      /\ \A i \in 1 .. left + kept : flight[i] = IF i <= left THEN less[i] ELSE unsent[i - left]
  <2>1. /\ flight \in Seq(Byte) /\ Len(flight) = Len(less) + Len(unsent)
        /\ \A i \in 1 .. Len(flight) :
             flight[i] = IF i <= Len(less) THEN less[i] ELSE unsent[i - Len(less)]
    BY <1>2, <1>5, Joined
  <2> QED BY <1>1, <1>2, <1>3, <1>5, <1>6, <2>1 DEF CodecTypeOK
<1>8. /\ past + length = end /\ \A i \in 1 .. length : flight[i] = S[past + i]
      /\ unsent # <<>> => n > 0 /\ past + length - kept >= ends[n - 1]
  BY <1>1, <1>3, <1>4 DEF UnderWay
<1>9. Flight' = less
  <2>1. \A q \in Seq(Byte) : q \o <<>> = q
    OBVIOUS
  <2>2. Flight' = less \o <<>>
    BY <1>2, <1>3 DEF Flight
  <2> QED BY <1>5, <2>1, <2>2
<1>10. \A i \in 1 .. left : less[i] = S[past + i]
  <2>1. \A i \in 1 .. left : i \in 1 .. length /\ i \in 1 .. left + kept /\ i <= left
    BY <1>7
  <2> QED BY <1>7, <1>8, <2>1
<1>11. past + left <= end /\ (unsent = <<>> => past + left = end)
  <2>1. unsent = <<>> => kept = 0
    BY <1>3
  <2> QED BY <1>4, <1>7, <1>8, <2>1
<1>12. unsent # <<>> => n > 0 /\ (past + left) - 0 >= ends[n - 1]
  <2>1. past + length - kept = (past + left) - 0
    BY <1>4, <1>7
  <2> QED BY <1>8, <2>1
<1>13. UnderWay(S, ends)'
  <2>1. Len(unsent') = 0 /\ Len(got') = have /\ Len(Flight') = left /\ Len(sent') = n
    BY <1>2, <1>3, <1>6, <1>9
  <2>2. /\ past + left <= end /\ \A i \in 1 .. left : less[i] = S[past + i]
        /\ ~lost' => past + left = end
        /\ unsent' # <<>> \/ lost' => n > 0 /\ (past + left) - 0 >= ends[n - 1]
    BY <1>2, <1>10, <1>11, <1>12, Zenon
  <2>3. past = ends[Len(got')] /\ end = Len(S) /\ less = Flight' /\ left = Len(less)
    BY <1>3, <1>4, <1>6, <1>9, <2>1
  <2>4. /\ ends[Len(got')] + Len(Flight') <= Len(S)
        /\ \A i \in 1 .. Len(Flight') : Flight'[i] = S[ends[Len(got')] + i]
    BY <2>2, <2>3
  <2>5. ~lost' => ends[Len(got')] + Len(Flight') = Len(S)
    BY <2>2, <2>3
  <2>6. unsent' # <<>> \/ lost' =>
          /\ Len(sent') > 0
          /\ ends[Len(got')] + Len(Flight') - Len(unsent') >= ends[Len(sent') - 1]
    BY <2>1, <2>2, <2>3
  <2> QED BY <2>4, <2>5, <2>6, Zenon DEF UnderWay
<1> QED BY <1>1, <1>2, <1>13 DEF Streamed

\* A frame that is decoded is the next of what was sent, and the rest stays.
LEMMA StreamDecoded ==
  ASSUME CodecTypeOK, Orderly, Faithful, TakesFrame
  PROVE  /\ Len(got) + 1 \in 1 .. Len(sent) /\ got' = Append(got, sent[Len(got) + 1])
         /\ at' = at /\ Streamed'
<1>1. PICK S \in Seq(Byte), ends \in [0 .. Len(sent) -> Nat] : Laid(sent, S, ends) /\ UnderWay(S, ends)
  BY DEF Faithful, Streamed
<1>2. /\ HasFrame(buf) /\ buf' = RestOf(buf)
      /\ UNCHANGED <<sent, unsent, wire, lost>>
  BY DEF TakesFrame, senderVars
<1>3. PICK have, f, e, long :
        have = Len(got) /\ f = sent[have + 1] /\ e = Encode(f) /\ long = Len(e)
  OBVIOUS
<1>4. /\ have + 1 \in 1 .. Len(sent) /\ f = FrameOf(buf) /\ FromFrame(FrameOf(buf))
  BY <1>2, <1>3, DecodesNext
<1>5. got' = Append(got, f) /\ at' = at
  BY <1>4 DEF TakesFrame
<1>6. /\ buf \in Seq(Byte) /\ buf # <<>> /\ HasHeader(buf)
      /\ wire \in Seq(Byte) /\ unsent \in Seq(Byte)
  BY <1>2 DEF HasFrame, HasHeader, CodecTypeOK
<1>7. /\ f \in Frames /\ Fits(f) /\ ends[have + 1] = ends[have] + long
      /\ \A i \in 1 .. Len(buf) : i <= Len(Encode(f)) => buf[i] = Encode(f)[i]
  BY <1>1, <1>3, <1>6, NextFrame DEF Faithful
<1>8. Declared(buf) = Len(f.payload) /\ Len(buf) >= Len(Encode(f))
  BY <1>2, <1>6, <1>7, HeaderIsRead
<1>9. long \in Nat /\ long = 5 + Len(f.payload) /\ Len(f.payload) \in Nat
  BY <1>3, <1>7, EncodedAt DEF Frames
<1>10. long \in 0 .. Len(buf) /\ buf' = SubSeq(buf, long + 1, Len(buf))
  <2>1. long \in 0 .. Len(buf)
    BY <1>3, <1>6, <1>8, <1>9
  <2>2. 6 + Declared(buf) = long + 1
    BY <1>8, <1>9
  <2> QED BY <1>2, <2>1, <2>2 DEF RestOf
<1>11. PICK old, new, length, left :
         old = Flight /\ new = Flight' /\ length = Len(old) /\ left = Len(new)
  OBVIOUS
<1>12. /\ left = length - long /\ left \in Nat /\ length \in Nat
       /\ \A i \in 1 .. left : new[i] = old[long + i]
  <2>1. old = buf \o wire \o unsent
    BY <1>11 DEF Flight
  <2>2. new = buf' \o wire \o unsent
    BY <1>2, <1>11 DEF Flight
  <2>3. PICK rest, lb, lw, lu, lr :
          /\ rest = buf' /\ lb = Len(buf) /\ lw = Len(wire) /\ lu = Len(unsent)
          /\ lr = Len(rest)
    OBVIOUS
  <2>4. /\ rest \in Seq(Byte) /\ lr = lb - long
        /\ \A i \in 1 .. lr : rest[i] = buf[long + i]
    <3>1. SubSeq(buf, long + 1, Len(buf)) \in Seq(Byte)
      BY <1>6, <1>10, SubSeqIsSeq
    <3>2. /\ Len(SubSeq(buf, long + 1, Len(buf))) = Len(buf) - long
          /\ \A i \in 1 .. Len(buf) - long : SubSeq(buf, long + 1, Len(buf))[i] = buf[long + i]
      BY <1>6, <1>10
    <3> QED BY <1>10, <2>3, <3>1, <3>2
  <2>5. /\ length = lb + lw + lu
        /\ \A i \in 1 .. length :
             old[i] = IF i <= lb THEN buf[i]
                      ELSE IF i <= lb + lw THEN wire[i - lb] ELSE unsent[i - lb - lw]
    BY <1>6, <1>11, <2>1, <2>3, ThreeParts
  <2>6. /\ left = lr + lw + lu
        /\ \A i \in 1 .. left :
             new[i] = IF i <= lr THEN rest[i]
                      ELSE IF i <= lr + lw THEN wire[i - lr] ELSE unsent[i - lr - lw]
    <3>1. new = rest \o wire \o unsent
      BY <2>2, <2>3
    <3>2. /\ rest \in Seq(Byte) /\ wire \in Seq(Byte) /\ unsent \in Seq(Byte)
      BY <1>6, <2>4
    <3>3. /\ Len(new) = Len(rest) + Len(wire) + Len(unsent)
          /\ \A i \in 1 .. Len(new) :
               new[i] = IF i <= Len(rest) THEN rest[i]
                        ELSE IF i <= Len(rest) + Len(wire) THEN wire[i - Len(rest)]
                        ELSE unsent[i - Len(rest) - Len(wire)]
      BY <3>1, <3>2, ThreeParts
    <3>4. left = Len(new) /\ lr = Len(rest) /\ lw = Len(wire) /\ lu = Len(unsent)
      BY <1>11, <2>3
    <3> QED BY <3>3, <3>4
  <2>7. /\ lb = lr + long /\ long \in Nat /\ lr \in Nat /\ lw \in Nat /\ lu \in Nat
    BY <1>6, <1>10, <2>3, <2>4
  <2>8. ASSUME NEW i \in 1 .. left PROVE new[i] = old[long + i]
    <3>1. /\ i \in Nat /\ long + i \in 1 .. length
          /\ (i <= lr <=> long + i <= lb) /\ (i <= lr + lw <=> long + i <= lb + lw)
          /\ (long + i) - lb = i - lr /\ (long + i) - lb - lw = i - lr - lw
      BY <2>5, <2>6, <2>7, <2>8
    <3>2. old[long + i] = IF i <= lr THEN buf[long + i]
                          ELSE IF i <= lr + lw THEN wire[i - lr] ELSE unsent[i - lr - lw]
      BY <2>5, <3>1
    <3>3. i <= lr => rest[i] = buf[long + i]
      <4> SUFFICES ASSUME i <= lr PROVE rest[i] = buf[long + i]
        OBVIOUS
      <4>1. i \in 1 .. lr
        BY <2>7, <3>1
      <4> QED BY <2>4, <4>1
    <3> QED BY <2>6, <2>8, <3>2, <3>3
  <2> QED BY <2>5, <2>6, <2>7, <2>8
<1>13. PICK past \in Nat, next \in Nat : past = ends[have] /\ next = ends[have + 1]
  <2>1. have \in Nat /\ Len(sent) \in Nat
    BY <1>3 DEF CodecTypeOK
  <2>2. have \in 0 .. Len(sent) /\ have + 1 \in 0 .. Len(sent)
    BY <1>4, <2>1
  <2> QED BY <1>1, <2>2
<1>14. next = past + long /\ past \in Nat /\ next \in Nat /\ length = left + long
  <2>1. next = past + long /\ past \in Nat /\ next \in Nat
    BY <1>7, <1>13
  <2>2. length = left + long
    BY <1>9, <1>12
  <2> QED BY <2>1, <2>2
<1>15. PICK n, end, kept : n = Len(sent) /\ end = Len(S) /\ kept = Len(unsent)
  OBVIOUS
<1>16. /\ past + length <= end
       /\ \A i \in 1 .. length : old[i] = S[past + i]
       /\ ~lost => past + length = end
       /\ unsent # <<>> \/ lost => n > 0 /\ past + length - kept >= ends[n - 1]
  BY <1>1, <1>3, <1>11, <1>13, <1>15 DEF UnderWay
<1>17. /\ Len(got') = have + 1 /\ Len(sent') = n /\ Len(unsent') = kept
  BY <1>2, <1>3, <1>5, <1>15 DEF CodecTypeOK
<1>18. \A i \in 1 .. left : new[i] = S[next + i]
  <2> SUFFICES ASSUME NEW i \in 1 .. left PROVE new[i] = S[next + i]
    OBVIOUS
  <2>1. long + i \in 1 .. length /\ past + (long + i) = next + i
    <3>1. long \in Nat /\ left \in Nat
      BY <1>9, <1>12
    <3> QED BY <1>14, <3>1
  <2>2. new[i] = old[long + i] /\ old[long + i] = S[past + (long + i)]
    BY <1>12, <1>16, <2>1
  <2> QED BY <2>1, <2>2
<1>19. next + left = past + length
  <2>1. long \in Nat /\ left \in Nat
    BY <1>9, <1>12
  <2> QED BY <1>14, <2>1
<1>20. UnderWay(S, ends)'
  <2>1. past = ends[have] /\ next = ends[Len(got')] /\ end = Len(S)
        /\ new = Flight' /\ left = Len(new) /\ kept = Len(unsent') /\ n = Len(sent')
    BY <1>3, <1>11, <1>13, <1>15, <1>17
  <2>2. next + left <= end
    BY <1>16, <1>19
  <2>3. ~lost' => next + left = end
    BY <1>2, <1>16, <1>19
  <2>4. unsent' # <<>> \/ lost' => n > 0 /\ next + left - kept >= ends[n - 1]
    <3>1. next + left - kept = past + length - kept
      BY <1>19
    <3>2. unsent' = unsent /\ lost' = lost
      BY <1>2
    <3> QED BY <1>16, <3>1, <3>2
  <2>5. /\ ends[Len(got')] + Len(Flight') <= Len(S)
        /\ \A i \in 1 .. Len(Flight') : Flight'[i] = S[ends[Len(got')] + i]
    BY <1>18, <2>1, <2>2
  <2>6. ~lost' => ends[Len(got')] + Len(Flight') = Len(S)
    BY <2>1, <2>3
  <2>7. unsent' # <<>> \/ lost' =>
          /\ Len(sent') > 0
          /\ ends[Len(got')] + Len(Flight') - Len(unsent') >= ends[Len(sent') - 1]
    BY <2>1, <2>4
  <2> QED BY <2>5, <2>6, <2>7, Zenon DEF UnderWay
<1>21. Laid(sent', S, ends) /\ sent' = sent
  BY <1>1, <1>2
<1>22. Streamed'
  BY <1>1, <1>20, <1>21 DEF Streamed
<1> QED BY <1>3, <1>4, <1>5, <1>22

\* An end of the stream that cuts no frame leaves nothing undecoded.
LEMMA EndsClean ==
  ASSUME CodecTypeOK, Orderly, Faithful, NeedsMore, eof, ~lost
  PROVE  buf = <<>> /\ Len(got) = Len(sent)
<1>1. PICK S \in Seq(Byte), ends \in [0 .. Len(sent) -> Nat] : Laid(sent, S, ends) /\ UnderWay(S, ends)
  BY DEF Faithful, Streamed
<1>2. wire = <<>> /\ unsent = <<>> /\ ~HasFrame(buf)
  BY DEF Orderly, NeedsMore
<1>3. PICK n, have, end, length :
        n = Len(sent) /\ have = Len(got) /\ end = Len(S) /\ length = Len(buf)
  OBVIOUS
<1>4. /\ n \in Nat /\ have \in Nat /\ length \in Nat /\ have <= n
      /\ buf \in Seq(Byte) /\ sent \in Seq(Frames)
  BY <1>3 DEF CodecTypeOK, Faithful
<1>5. Len(Flight) = length
  BY <1>2, <1>3, FlightParts
<1>6. ends[have] + length = end /\ end = ends[n] /\ ends[have] \in Nat
  <2>1. have \in 0 .. Len(sent)
    BY <1>3, <1>4
  <2>2. ends[have] \in Nat
    BY <1>1, <2>1
  <2> QED BY <1>1, <1>3, <1>5, <2>2 DEF Laid, UnderWay
<1>7. have = n
  <2> SUFFICES ASSUME have # n PROVE FALSE
    OBVIOUS
  <2>1. have + 1 \in 0 .. n /\ n \in 0 .. n /\ have + 1 <= n /\ have + 1 \in 1 .. n
    BY <1>4
  <2>2. PICK f, e, long : f = sent[have + 1] /\ e = Encode(f) /\ long = Len(e)
    OBVIOUS
  <2>3. f \in Frames /\ Fits(f)
    BY <1>3, <1>4, <2>1, <2>2 DEF Orderly
  <2>4. long \in Nat /\ long >= 5
    BY <2>2, <2>3, EncodedAt DEF Frames
  <2>5. ends[have + 1] = ends[have] + long /\ ends[have + 1] <= ends[n]
    <3>1. (have + 1) - 1 = have
      BY <1>4
    <3>2. ends[have + 1] = ends[(have + 1) - 1] + long
      BY <1>1, <1>3, <2>1, <2>2 DEF Laid
    <3>3. ends[have + 1] <= ends[n]
      BY <1>1, <1>3, <2>1 DEF Laid
    <3> QED BY <3>1, <3>2, <3>3
  <2>6. length >= long
    BY <1>4, <1>6, <2>4, <2>5
  <2>7. buf # <<>> /\ HasHeader(buf)
    BY <1>3, <1>4, <2>4, <2>6 DEF HasHeader
  <2>8. \A i \in 1 .. Len(buf) : i <= Len(Encode(f)) => buf[i] = Encode(f)[i]
    BY <1>1, <1>3, <1>4, <2>2, <2>7, NextFrame
  <2>9. HasFrame(buf)
    BY <1>3, <1>4, <2>2, <2>3, <2>6, <2>7, <2>8, HeaderIsRead
  <2> QED BY <1>2, <2>9
<1>8. length = 0
  BY <1>4, <1>6, <1>7
<1> QED BY <1>3, <1>4, <1>7, <1>8

-----------------------------------------------------------------------------

\* What into_frame makes, from_frame takes.
LEMMA MadeIsTaken ==
  ASSUME NEW m \in Messages, IntoFrame(m) PROVE m \in Frames /\ FromFrame(m)
<1>1. m \in Frames /\ m.tag \in Tags
  BY CodecAssumption DEF Frames
<1>2. /\ m.tag \in EmptyTags => m.payload = <<>>
      /\ m.tag \in JsonTags => m.payload \in Texts[m.tag]
  BY MessagesAssumption
<1>3. m.tag \in RawTags \/ m.tag \in EmptyTags \/ m.tag \in JsonTags
  BY <1>1 DEF JsonTags
<1>4. m.tag = ExitTag => m.payload \notin Overfull
  BY DEF IntoFrame
<1> QED BY <1>1, <1>2, <1>3, <1>4, Zenon DEF FromFrame

LEMMA SenderIsOrderly == ASSUME CodecTypeOK, Orderly, Sender PROVE Orderly'
<1>1. ASSUME NEW m \in Messages, Sends(m) PROVE Orderly'
  <2>1. m \in Frames /\ FromFrame(m) /\ Fits(m) /\ sent \in Seq(Frames)
    BY <1>1, MadeIsTaken DEF Sends, CodecTypeOK
  <2>2. \A i \in 1 .. Len(sent') : FromFrame(sent'[i]) /\ Fits(sent'[i])
    <3>1. sent' = Append(sent, m)
      BY <1>1 DEF Sends
    <3>2. \A i \in 1 .. Len(sent') : sent'[i] = m \/ (i \in 1 .. Len(sent) /\ sent'[i] = sent[i])
      BY <2>1, <3>1
    <3> QED BY <2>1, <3>2, Zenon DEF Orderly
  <2> QED BY <1>1, <2>2 DEF Sends, Orderly
<1>2. ASSUME NEW m \in Messages, Refuses(m) PROVE Orderly'
  BY <1>2 DEF Refuses, Orderly
<1>3. CASE Flushes
  <2>1. unsent # <<>>
    BY <1>3 DEF Flushes
  <2> QED BY <1>3, <2>1 DEF Flushes, Orderly
<1>4. CASE Closes
  BY <1>4 DEF Closes, Orderly
<1>5. ASSUME NEW b \in Noise, Babbles(b) PROVE Orderly'
  BY <1>5 DEF Babbles, Orderly
<1> QED BY <1>1, <1>2, <1>3, <1>4, <1>5 DEF Sender

LEMMA ReceiverIsOrderly == ASSUME CodecTypeOK, Orderly, Receiver PROVE Orderly'
<1>1. CASE TakesFrame
  <2>1. at' = "decode" \/ at' = "failed"
    BY <1>1 DEF TakesFrame
  <2> QED BY <1>1, <2>1 DEF TakesFrame, Orderly, senderVars
<1>2. CASE Rejects
  BY <1>2 DEF Rejects, Orderly, senderVars
<1>3. CASE NeedsMore
  BY <1>3 DEF NeedsMore, Orderly, senderVars
<1>4. CASE ReadsSome
  <2>1. wire # <<>>
    BY <1>4 DEF ReadsSome
  <2> QED BY <1>4, <2>1 DEF ReadsSome, Orderly, senderVars
<1>5. CASE ReadsEnd
  BY <1>5 DEF ReadsEnd, Orderly, senderVars
<1> QED BY <1>1, <1>2, <1>3, <1>4, <1>5 DEF Receiver

\* A step that moves no byte and decodes nothing.
LEMMA StreamStays ==
  ASSUME CodecTypeOK, CodecTypeOK', Faithful,
         UNCHANGED <<sent, got, lost, buf, wire, unsent>>
  PROVE  Streamed'
<1>1. Flight' = Flight
  BY DEF Flight
<1>2. Len(unsent') <= Len(unsent)
  BY DEF CodecTypeOK
<1> QED BY <1>1, <1>2, StreamMoves DEF Faithful

LEMMA SenderIsFaithful ==
  ASSUME CodecTypeOK, CodecTypeOK', Orderly, honest => Faithful, Sender
  PROVE  honest' => Faithful'
<1>1. Len(got) \in Nat /\ Len(sent) \in Nat /\ sent \in Seq(Frames)
  BY DEF CodecTypeOK
<1>2. ASSUME NEW m \in Messages, Sends(m), honest' PROVE Faithful'
  <2>1. Faithful /\ ~closed /\ ~lost /\ at \notin {"ended", "cut"}
    BY <1>2 DEF Sends, Orderly
  <2>2. Streamed'
    BY <1>2, <2>1, StreamSent DEF Faithful
  <2>3. Len(sent') = Len(sent) + 1 /\ \A i \in 1 .. Len(sent) : sent'[i] = sent[i]
    BY <1>1, <1>2, MadeIsTaken DEF Sends
  <2>4. got' = got /\ at' = at
    BY <1>2 DEF Sends
  <2>5. Len(got') <= Len(sent') /\ \A i \in 1 .. Len(got') : got'[i] = sent'[i]
    BY <1>1, <2>1, <2>3, <2>4 DEF Faithful
  <2> QED BY <2>1, <2>2, <2>4, <2>5 DEF Faithful
<1>3. ASSUME NEW m \in Messages, Refuses(m), honest' PROVE Faithful'
  <2>1. Faithful /\ at \notin {"ended", "cut"}
    BY <1>3 DEF Refuses, Orderly
  <2>2. Streamed'
    BY <1>3, <2>1, StreamStays DEF Refuses
  <2> QED BY <1>3, <2>1, <2>2 DEF Faithful, Refuses
<1>4. ASSUME Flushes, honest' PROVE Faithful'
  <2>1. Faithful
    BY <1>4 DEF Flushes
  <2>2. Streamed'
    BY <1>4, <2>1, StreamFlushed DEF Faithful
  <2> QED BY <1>4, <2>1, <2>2 DEF Faithful, Flushes
<1>5. ASSUME Closes, honest' PROVE Faithful'
  <2>1. Faithful /\ ~lost /\ at \notin {"ended", "cut"}
    BY <1>5 DEF Closes, Orderly
  <2>2. Streamed'
    BY <1>5, <2>1, StreamCut DEF Faithful
  <2> QED BY <1>5, <2>1, <2>2 DEF Faithful, Closes
<1>6. ASSUME NEW b \in Noise, Babbles(b) PROVE ~honest'
  BY <1>6 DEF Babbles
<1> QED BY <1>2, <1>3, <1>4, <1>5, <1>6 DEF Sender

LEMMA ReceiverIsFaithful ==
  ASSUME CodecTypeOK, CodecTypeOK', Orderly, Faithful, Receiver
  PROVE  Faithful'
<1>1. CASE TakesFrame
  <2>1. /\ Len(got) + 1 \in 1 .. Len(sent) /\ got' = Append(got, sent[Len(got) + 1])
        /\ at' = at /\ Streamed'
    BY <1>1, StreamDecoded
  <2>2. at' = "decode" /\ sent' = sent
    BY <1>1, <2>1 DEF TakesFrame, senderVars
  <2>3. got \in Seq(Frames) /\ sent[Len(got) + 1] \in Frames
    BY <2>1 DEF CodecTypeOK
  <2>4. /\ Len(got') = Len(got) + 1 /\ got'[Len(got) + 1] = sent[Len(got) + 1]
        /\ \A i \in 1 .. Len(got) : got'[i] = got[i]
    BY <2>1, <2>3
  <2>5. Len(got') <= Len(sent') /\ \A i \in 1 .. Len(got') : got'[i] = sent'[i]
    <3>1. Len(got) \in Nat /\ Len(sent) \in Nat
      BY DEF CodecTypeOK
    <3> QED BY <2>1, <2>2, <2>4, <3>1 DEF Faithful
  <2> QED BY <2>1, <2>2, <2>5 DEF Faithful
<1>2. CASE Rejects
  BY <1>2, DecodesNext DEF Rejects
<1>3. CASE NeedsMore
  <2>1. /\ UNCHANGED <<sent, got, lost, buf, wire, unsent>>
        /\ at' \in {"read", "ended", "cut"} /\ (at' = "cut" => eof /\ buf # <<>>)
        /\ (at' = "ended" => eof)
    BY <1>3 DEF NeedsMore, senderVars
  <2>2. Streamed'
    BY <2>1, StreamStays
  <2>3. eof /\ ~lost => buf = <<>> /\ Len(got) = Len(sent)
    BY <1>3, EndsClean
  <2>4. at' \in {"ended", "cut"} /\ ~lost' => at' = "ended" /\ Len(got') = Len(sent')
    BY <2>1, <2>3
  <2>5. at' # "failed"
    BY <2>1
  <2> QED BY <2>1, <2>2, <2>4, <2>5 DEF Faithful
<1>4. CASE ReadsSome
  <2>1. Streamed'
    BY <1>4, StreamRead DEF Faithful
  <2> QED BY <1>4, <2>1 DEF Faithful, ReadsSome, senderVars
<1>5. CASE ReadsEnd
  <2>1. Streamed'
    BY <1>5, StreamStays DEF ReadsEnd, senderVars
  <2> QED BY <1>5, <2>1 DEF Faithful, ReadsEnd, senderVars
<1> QED BY <1>1, <1>2, <1>3, <1>4, <1>5 DEF Receiver

LEMMA NothingIsStreamed == CodecInit => Orderly /\ Faithful
<1> SUFFICES ASSUME CodecInit PROVE Orderly /\ Faithful
  OBVIOUS
<1>1. sent = <<>> /\ got = <<>> /\ buf = <<>> /\ wire = <<>> /\ unsent = <<>> /\ ~lost
  BY DEF CodecInit
<1>2. PICK ends : ends = [k \in {0} |-> 0]
  OBVIOUS
<1>3. Len(sent) = 0 /\ Len(got) = 0 /\ ends \in [0 .. Len(sent) -> Nat] /\ ends[0] = 0
  <2>1. Len(sent) = 0 /\ Len(got) = 0
    BY <1>1
  <2>2. 0 .. 0 = {0}
    OBVIOUS
  <2>3. ends \in [0 .. 0 -> Nat] /\ ends[0] = 0
    BY <1>2, <2>2
  <2> QED BY <2>1, <2>3
<1>4. Flight = <<>>
  <2>1. <<>> \in Seq(Byte) /\ \A q \in Seq(Byte) : q \o <<>> = q
    OBVIOUS
  <2> QED BY <1>1, <2>1 DEF Flight
<1>5. PICK S \in Seq(Byte) : S = <<>> /\ Len(S) = 0
  <2>1. <<>> \in Seq(Byte) /\ Len(<<>>) = 0
    OBVIOUS
  <2> QED BY <2>1, Zenon
<1>6. Laid(sent, S, ends)
  BY <1>3, <1>5 DEF Laid
<1>7. UnderWay(S, ends)
  <2>1. Len(Flight) = 0
    BY <1>4
  <2> QED BY <1>1, <1>3, <1>5, <2>1 DEF UnderWay
<1>8. Streamed
  BY <1>3, <1>5, <1>6, <1>7 DEF Streamed
<1> QED BY <1>1, <1>3, <1>8 DEF CodecInit, Orderly, Faithful

\* A stutter keeps it, the probe's steps beside the codec among them.
LEMMA ArrivalStutters ==
  ASSUME ArrivalInv, CodecTypeOK', UNCHANGED codecVars PROVE Orderly' /\ (honest' => Faithful')
<1>1. UNCHANGED <<sent, got, lost, buf, wire, unsent, closed, honest, eof, at>>
  BY DEF codecVars, senderVars
<1>2. Orderly'
  BY <1>1 DEF ArrivalInv, Orderly
<1>3. ASSUME honest' PROVE Faithful'
  <2>1. Streamed'
    BY <1>1, <1>3, StreamStays DEF ArrivalInv, CodecInv
  <2> QED BY <1>1, <1>3, <2>1 DEF ArrivalInv, Faithful
<1> QED BY <1>2, <1>3

LEMMA ArrivalStep == ArrivalInv /\ CodecInv' /\ [CodecNext]_codecVars => ArrivalInv'
<1> SUFFICES ASSUME ArrivalInv, CodecInv', [CodecNext]_codecVars PROVE ArrivalInv'
  OBVIOUS
<1>1. CodecTypeOK /\ CodecTypeOK' /\ Orderly /\ (honest => Faithful)
  BY DEF ArrivalInv, CodecInv
<1>2. CASE Sender
  BY <1>1, <1>2, SenderIsOrderly, SenderIsFaithful DEF ArrivalInv
<1>3. CASE Receiver
  <2>1. honest' = honest
    BY <1>3 DEF Receiver, TakesFrame, Rejects, NeedsMore, ReadsSome, ReadsEnd, senderVars
  <2>2. honest => Faithful'
    BY <1>1, <1>3, ReceiverIsFaithful
  <2> QED BY <1>1, <1>3, <2>1, <2>2, ReceiverIsOrderly DEF ArrivalInv
<1>4. CASE UNCHANGED codecVars
  BY <1>1, <1>4, ArrivalStutters DEF ArrivalInv
<1> QED BY <1>2, <1>3, <1>4 DEF CodecNext

\* Every byte that is under way belongs to the stream of what was sent.
THEOREM ArrivalInvariant == CodecSpec => []ArrivalInv
<1>1. CodecInit => Orderly /\ Faithful
  BY NothingIsStreamed
<1>2. CodecInit /\ CodecInv => ArrivalInv
  BY <1>1 DEF ArrivalInv
<1> QED BY <1>2, ArrivalStep, CodecInvariant, PTL DEF CodecSpec

\* The frames of this program arrive as they were sent, in whatever pieces the
\* socket delivers them, and an end that cuts none finds them all decoded
\* (FrameCodec, Message::into_frame, Message::from_frame).
THEOREM FramesArrive == CodecSpec => []ArrivesAsSent
<1>1. ArrivalInv => ArrivesAsSent
  <2> SUFFICES ASSUME ArrivalInv, honest PROVE ArrivesAsSent
    BY DEF ArrivesAsSent
  <2>1. Faithful /\ got \in Seq(Frames) /\ sent \in Seq(Frames)
    BY DEF ArrivalInv, CodecInv, CodecTypeOK
  <2>2. Len(got) \in Nat /\ Len(sent) \in Nat /\ Len(got) <= Len(sent)
        /\ \A i \in 1 .. Len(got) : got[i] = sent[i]
    BY <2>1 DEF Faithful
  <2>3. IsPrefix(got, sent)
    <3>1. SubSeq(got, 1, Len(got)) = got
      BY <2>1
    <3>2. SubSeq(sent, 1, Len(got)) \in Seq(Frames) /\ Len(SubSeq(sent, 1, Len(got))) = Len(got)
          /\ \A i \in 1 .. Len(got) : SubSeq(sent, 1, Len(got))[i] = sent[i]
      BY <2>1, <2>2
    <3>3. SubSeq(sent, 1, Len(got)) = got
      BY <2>1, <2>2, <3>2, EqualByElement
    <3> QED BY <2>2, <3>1, <3>3 DEF IsPrefix
  <2>4. at \in {"ended", "cut"} /\ ~lost => at = "ended" /\ got = sent
    <3>1. Len(got) = Len(sent) => got = sent
      BY <2>1, <2>2, EqualByElement
    <3> QED BY <2>1, <3>1 DEF Faithful
  <2> QED BY <2>1, <2>3, <2>4 DEF ArrivesAsSent, Faithful
<1> QED BY <1>1, ArrivalInvariant, PTL

-----------------------------------------------------------------------------

\* The version probe reads with the codec of a session: whatever it does is
\* something the codec may do (warn_on_skew over Framed and FrameCodec).
THEOREM ProbeIsAReader == ProbeSpec => CodecSpec
<1>1. ProbeInit => CodecInit
  BY DEF ProbeInit
<1>2. [ProbeNext]_probeVars => [CodecNext]_codecVars
  <2> SUFFICES ASSUME [ProbeNext]_probeVars PROVE [CodecNext]_codecVars
    OBVIOUS
  <2>1. CASE Answers
    BY <2>1 DEF Answers, CodecNext
  <2>2. CASE SessionReads
    BY <2>2 DEF SessionReads, CodecNext
  <2>3. CASE Connects \/ Asks \/ TimesOut
    BY <2>3 DEF Connects, Asks, TimesOut
  <2>4. CASE Awaits
    BY <2>4 DEF Awaits, TakesReply, LosesReply, AwaitsReply, Receiver, CodecNext
  <2>5. CASE UNCHANGED probeVars
    BY <2>5 DEF probeVars
  <2> QED BY <2>1, <2>2, <2>3, <2>4, <2>5 DEF ProbeNext
<1> QED BY <1>1, <1>2, PTL DEF ProbeSpec, CodecSpec

\* So the bound on the receiver's buffer is the probe's as well.
COROLLARY ProbeBufferBound == ProbeSpec => []BufferIsBounded
BY ProbeIsAReader, BufferBound, PTL

\* And so is what a session is promised of the frames.
COROLLARY ProbeFramesArrive == ProbeSpec => []ArrivesAsSent
BY ProbeIsAReader, FramesArrive, PTL

\* A sender that is killed in a frame while none was decoded sent no other.
LEMMA CutInTheFirst ==
  ASSUME CodecTypeOK, Orderly, Faithful, NeedsMore, eof, lost, got = <<>>
  PROVE  Len(sent) = 1
<1>1. PICK S \in Seq(Byte), ends \in [0 .. Len(sent) -> Nat] : Laid(sent, S, ends) /\ UnderWay(S, ends)
  BY DEF Faithful, Streamed
<1>2. wire = <<>> /\ unsent = <<>> /\ ~HasFrame(buf)
  BY DEF Orderly, NeedsMore
<1>3. PICK n, length : n = Len(sent) /\ length = Len(buf)
  OBVIOUS
<1>4. n \in Nat /\ length \in Nat /\ buf \in Seq(Byte) /\ sent \in Seq(Frames) /\ Len(got) = 0
  BY <1>3 DEF CodecTypeOK
<1>5. Len(Flight) = length /\ Len(unsent) = 0
  BY <1>2, <1>3, FlightParts
<1>6. ends[0] = 0 /\ n > 0 /\ length >= ends[n - 1]
  <2>1. ends[0] = 0
    BY <1>1 DEF Laid
  <2>2. n > 0 /\ ends[Len(got)] + Len(Flight) - Len(unsent) >= ends[n - 1]
    BY <1>1, <1>3 DEF UnderWay
  <2>3. ends[Len(got)] + Len(Flight) - Len(unsent) = length
    BY <1>4, <1>5, <2>1
  <2> QED BY <2>1, <2>2, <2>3
<1>7. ASSUME n > 1 PROVE FALSE
  <2>1. 1 \in 0 .. n /\ n - 1 \in 0 .. n /\ 1 <= n - 1 /\ 1 \in 1 .. n
    BY <1>4, <1>7
  <2>2. PICK f, e, long : f = sent[1] /\ e = Encode(f) /\ long = Len(e)
    OBVIOUS
  <2>3. f \in Frames /\ Fits(f)
    BY <1>3, <1>4, <2>1, <2>2 DEF Orderly
  <2>4. long \in Nat /\ long >= 5
    BY <2>2, <2>3, EncodedAt DEF Frames
  <2>5. ends[1] = long /\ ends[1] <= ends[n - 1] /\ ends[n - 1] \in Nat
    <3>1. ends[1] = ends[1 - 1] + long
      BY <1>1, <1>3, <2>1, <2>2 DEF Laid
    <3>2. ends[1] <= ends[n - 1]
      BY <1>1, <1>3, <2>1 DEF Laid
    <3>3. ends[n - 1] \in Nat
      BY <1>1, <1>3, <2>1
    <3> QED BY <1>6, <2>4, <3>1, <3>2, <3>3
  <2>6. length >= long
    BY <1>4, <1>6, <2>4, <2>5
  <2>7. buf # <<>> /\ HasHeader(buf)
    BY <1>3, <1>4, <2>4, <2>6 DEF HasHeader
  <2>8. \A i \in 1 .. Len(buf) : i <= Len(Encode(f)) => buf[i] = Encode(f)[i]
    <3>1. Len(got) + 1 = 1 /\ Len(got) <= Len(sent)
      BY <1>3, <1>4
    <3>2. \A i \in 1 .. Len(buf) : i <= Len(Encode(sent[Len(got) + 1])) =>
            buf[i] = Encode(sent[Len(got) + 1])[i]
      BY <1>1, <2>7, <3>1, NextFrame
    <3> QED BY <2>2, <3>1, <3>2
  <2>9. HasFrame(buf)
    BY <1>3, <1>4, <2>2, <2>3, <2>6, <2>7, <2>8, HeaderIsRead
  <2> QED BY <1>2, <2>9
<1> QED BY <1>3, <1>4, <1>6, <1>7

\* A probe that has not got its answer has decoded nothing.
VerdictInv ==
  /\ probe \in {"connecting", "asking", "waiting"} => got = <<>>
  /\ VerdictIsDue

LEMMA ReplyIsJudged ==
  ASSUME ArrivalInv, VerdictInv, probe = "waiting", TakesReply PROVE VerdictInv'
<1>1. probe' = Verdict(FrameOf(buf)) /\ probe' \in Verdicts /\ honest' = honest /\ sent' = sent
  BY DEF TakesReply, TakesFrame, Verdict, Verdicts, senderVars
<1>2. ASSUME honest PROVE sent # <<>> /\ FrameOf(buf) = sent[1]
  <2>1. HasFrame(buf) /\ got = <<>> /\ Len(got) = 0
    BY DEF VerdictInv, TakesReply, TakesFrame
  <2>2. Len(got) + 1 \in 1 .. Len(sent) /\ FrameOf(buf) = sent[Len(got) + 1]
    BY <1>2, <2>1, DecodesNext DEF ArrivalInv, CodecInv
  <2>3. Len(got) + 1 = 1
    BY <2>1
  <2>4. sent # <<>>
    BY <2>2, <2>3
  <2> QED BY <2>2, <2>3, <2>4
<1>3. probe' \notin {"connecting", "asking", "waiting", "lost"}
  BY <1>1 DEF Verdicts
<1> QED BY <1>1, <1>2, <1>3 DEF VerdictInv, VerdictIsDue

LEMMA LossIsJudged ==
  ASSUME ArrivalInv, VerdictInv, probe = "waiting", LosesReply PROVE VerdictInv'
<1>1. probe' = "lost" /\ UNCHANGED <<honest, sent, closed, lost>>
  BY DEF LosesReply, Rejects, NeedsMore, senderVars
<1>2. ASSUME honest PROVE closed /\ (sent = <<>> \/ (Len(sent) = 1 /\ lost))
  <2>1. CodecTypeOK /\ Orderly /\ Faithful /\ got = <<>> /\ Len(got) = 0
    BY <1>2 DEF ArrivalInv, CodecInv, VerdictInv
  <2>2. NeedsMore /\ at' \in {"ended", "cut"}
    BY <2>1, DecodesNext DEF LosesReply, Rejects
  <2>3. eof /\ closed
    BY <2>1, <2>2 DEF NeedsMore, Orderly
  <2>4. ~lost => sent = <<>>
    <3>1. ~lost => Len(sent) = 0 /\ sent \in Seq(Frames)
      BY <2>1, <2>2, <2>3, EndsClean DEF CodecTypeOK
    <3> QED BY <3>1
  <2>5. lost => Len(sent) = 1
    BY <2>1, <2>2, <2>3, CutInTheFirst
  <2> QED BY <2>3, <2>4, <2>5
<1> QED BY <1>1, <1>2 DEF VerdictInv, VerdictIsDue, Verdicts

LEMMA VerdictStep == ArrivalInv /\ VerdictInv /\ [ProbeNext]_probeVars => VerdictInv'
<1> SUFFICES ASSUME ArrivalInv, VerdictInv, [ProbeNext]_probeVars PROVE VerdictInv'
  OBVIOUS
<1>1. CASE Answers
  <2>1. probe' = probe /\ probe \in {"none", "asking", "waiting"} /\ got' = got
    BY <1>1 DEF Answers, Sender, Sends, Refuses, Flushes, Closes, Babbles
  <2> QED BY <2>1 DEF VerdictInv, VerdictIsDue, Verdicts
<1>2. CASE SessionReads
  <2>1. probe' = "none"
    BY <1>2 DEF SessionReads
  <2> QED BY <2>1 DEF VerdictInv, VerdictIsDue, Verdicts
<1>3. CASE Connects \/ Asks \/ TimesOut
  <2>1. /\ probe' \in {"asking", "unreached", "waiting", "late"} /\ got' = got
        /\ probe \in {"connecting", "asking", "waiting"}
    BY <1>3 DEF Connects, Asks, TimesOut, codecVars
  <2> QED BY <2>1 DEF VerdictInv, VerdictIsDue, Verdicts
<1>4. CASE Awaits
  <2>1. CASE TakesReply
    BY <1>4, <2>1, ReplyIsJudged DEF Awaits
  <2>2. CASE LosesReply
    BY <1>4, <2>2, LossIsJudged DEF Awaits
  <2>3. CASE AwaitsReply
    <3>1. probe' = "waiting" /\ got' = got /\ probe = "waiting"
      BY <1>4, <2>3 DEF Awaits, AwaitsReply, NeedsMore, ReadsSome, ReadsEnd
    <3> QED BY <3>1 DEF VerdictInv, VerdictIsDue, Verdicts
  <2> QED BY <1>4, <2>1, <2>2, <2>3 DEF Awaits
<1>5. CASE UNCHANGED probeVars
  <2>1. UNCHANGED <<probe, got, sent, closed, lost, honest>>
    BY <1>5 DEF probeVars, codecVars, senderVars
  <2> QED BY <2>1 DEF VerdictInv, VerdictIsDue, Verdict, FromFrame
<1> QED BY <1>1, <1>2, <1>3, <1>4, <1>5 DEF ProbeNext

\* The probe never blames a server for what it did not send: whatever pieces
\* the reply comes in, whenever it is asked, and wherever it is cut off
\* (warn_on_skew).
THEOREM VerdictsAreDue == ProbeSpec => []VerdictIsDue
<1>1. ProbeInit => VerdictInv
  BY DEF ProbeInit, CodecInit, VerdictInv, VerdictIsDue, Verdicts
<1>2. VerdictInv => VerdictIsDue
  BY DEF VerdictInv
<1> QED BY <1>1, <1>2, VerdictStep, ProbeIsAReader, ArrivalInvariant, PTL DEF ProbeSpec
=============================================================================
