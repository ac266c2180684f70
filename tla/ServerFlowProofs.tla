-------------------------- MODULE ServerFlowProofs --------------------------
(***************************************************************************)
(* The flow of output, and that ncap-server keeps the contract of module   *)
(* Dialogue, for every value of the constants.                             *)
(***************************************************************************)
EXTENDS ServerDialogue, ServerProofs

LEMMA FlowInit == Init => FlowInv
<1> SUFFICES ASSUME Init, NEW c \in Conns PROVE FlowAt(c)
  BY DEF FlowInv
<1>1. /\ conn[c] = "none" /\ sent[c] = <<>> /\ chan[c] = <<>> /\ theirs[c] = {}
      /\ \A s \in Streams : written[c][s] = 0 /\ taken[c][s] = 0
  BY PipeNames DEF Init
<1>2. ~IsSent(c, Frame("Exit"))
  BY <1>1 DEF IsSent
<1>3. /\ QuietBefore(c) /\ NothingLost(c) /\ InOnePlace(c) /\ NothingForged(c)
      /\ NothingOvertaken(c) /\ PumpsEndLast(c) /\ SettledIsComplete(c)
  BY <1>1 DEF QuietBefore, NothingLost, InOnePlace, NothingForged,
              NothingOvertaken, PumpsEndLast, SettledIsComplete, AtBridge, Settled
<1>4. LastWords(c) /\ ExitIsComplete(c) /\ SentInOrder(c)
  BY <1>1, <1>2 DEF LastWords, ExitIsComplete, SentInOrder
<1> QED BY <1>3, <1>4 DEF FlowAt

\* A connection of which a step changes nothing the flow depends on.
Untouched(d) ==
  /\ chan'[d] = chan[d] /\ conn'[d] = conn[d] /\ reply'[d] = reply[d]
  /\ sent'[d] = sent[d] /\ child'[d] = child[d] /\ theirs'[d] = theirs[d]
  /\ ours'[d] = ours[d] /\ written'[d] = written[d] /\ taken'[d] = taken[d]

LEMMA FlowUntouched ==
  ASSUME NEW d \in Conns, FlowAt(d), Untouched(d)
  PROVE  FlowAt(d)'
<1>1. /\ QuietBefore(d)' /\ PumpsEndLast(d)' /\ SettledIsComplete(d)'
      /\ LastWords(d)' /\ ExitIsComplete(d)' /\ SentInOrder(d)'
  BY DEF FlowAt, Untouched, QuietBefore, PumpsEndLast, SettledIsComplete, LastWords,
         ExitIsComplete, SentInOrder, Asking, Settled, AllSent, IsSent
<1>2. /\ NothingLost(d)' /\ InOnePlace(d)' /\ NothingForged(d)'
      /\ NothingOvertaken(d)'
  BY DEF FlowAt, Untouched, NothingLost, InOnePlace, NothingForged, NothingOvertaken,
         Held, Queued, IsSent
<1> QED BY <1>1, <1>2 DEF FlowAt

\* A step within the bridge that moves no output.
LEMMA FlowBridgeQuiet ==
  ASSUME NEW d \in Conns, FlowAt(d), child[d] # "none",
         conn[d] \in AtBridge \ {"relay"}, conn'[d] \in AtBridge \ {"relay"},
         conn'[d] = "fault" => reply'[d] = Frame("Error"),
         chan'[d] = chan[d], sent'[d] = sent[d], child'[d] = child[d],
         theirs'[d] = theirs[d], ours'[d] \cap Streams = ours[d] \cap Streams,
         taken'[d] = taken[d],
         \A s \in Streams : written'[d][s] = written[d][s]
  PROVE  FlowAt(d)'
<1> USE DEF FlowAt
<1>1. QuietBefore(d)' /\ SettledIsComplete(d)' /\ LastWords(d)'
  BY DEF QuietBefore, Asking, SettledIsComplete, Settled, LastWords, AtBridge
<1>2. PumpsEndLast(d)'
  BY DEF PumpsEndLast
<1>3. ExitIsComplete(d)' /\ SentInOrder(d)'
  BY DEF ExitIsComplete, SentInOrder, IsSent, AllSent, AtBridge, Over
<1>4. NothingLost(d)'
  BY DEF NothingLost, Held, Queued, IsSent
<1>5. NothingForged(d)'
  BY DEF NothingForged
<1>6. InOnePlace(d)'
  BY DEF InOnePlace, Held, IsSent
<1>7. NothingOvertaken(d)'
  BY DEF NothingOvertaken, Held, IsSent
<1> QED BY <1>1, <1>2, <1>3, <1>4, <1>5, <1>6, <1>7

\* A step that ends the dialogue without a word.
LEMMA FlowFallsSilent ==
  ASSUME NEW d \in Conns, FlowAt(d), conn'[d] \in {"reap", "done", "dropped"},
         conn[d] \in Over => conn'[d] = conn[d],
         sent'[d] = sent[d], written'[d] = written[d], taken'[d] = taken[d]
  PROVE  FlowAt(d)'
<1> USE DEF FlowAt
<1>1. /\ QuietBefore(d)' /\ NothingLost(d)' /\ InOnePlace(d)' /\ NothingForged(d)'
      /\ NothingOvertaken(d)' /\ SettledIsComplete(d)' /\ LastWords(d)'
  BY DEF QuietBefore, NothingLost, InOnePlace, NothingForged, NothingOvertaken,
         SettledIsComplete, LastWords, Asking, Settled, AtBridge
<1>2. PumpsEndLast(d)'
  BY DEF PumpsEndLast, Settled, AtBridge
<1>3. ExitIsComplete(d)' /\ SentInOrder(d)'
  BY DEF ExitIsComplete, SentInOrder, IsSent, AllSent, Over
<1> QED BY <1>1, <1>2, <1>3

\* A step after the bridge, without a word and with a last frame that fits.
LEMMA FlowSettledQuiet ==
  ASSUME NEW d \in Conns, FlowAt(d), Settled(d), Settled(d)', chan'[d] = chan[d],
         conn'[d] = "final" => reply'[d] \in {Frame("Exit"), Frame("Error")},
         sent'[d] = sent[d], theirs'[d] = theirs[d], ours'[d] = ours[d],
         written'[d] = written[d], taken'[d] = taken[d]
  PROVE  FlowAt(d)'
<1> USE DEF FlowAt
<1>1. /\ QuietBefore(d)' /\ NothingLost(d)' /\ InOnePlace(d)' /\ NothingForged(d)'
      /\ NothingOvertaken(d)'
  BY DEF QuietBefore, NothingLost, InOnePlace, NothingForged, NothingOvertaken,
         Asking, Settled, AtBridge
<1>2. PumpsEndLast(d)' /\ SettledIsComplete(d)'
  BY DEF PumpsEndLast, SettledIsComplete, AllSent, IsSent
<1>3. ExitIsComplete(d)' /\ SentInOrder(d)'
  BY DEF ExitIsComplete, SentInOrder, IsSent, AllSent, Over, Settled
<1>4. LastWords(d)'
  BY DEF LastWords, Settled, Terminals
<1> QED BY <1>1, <1>2, <1>3, <1>4

\* A step before there is a child.
LEMMA FlowAskingQuiet ==
  ASSUME NEW d \in Conns, FlowAt(d), Asking(d), Asking(d)', chan'[d] = chan[d],
         conn'[d] = "final" =>
           reply'[d] \in {Frame(t) : t \in Terminals \cup {"ServerStopping"}},
         sent'[d] = sent[d], theirs'[d] = theirs[d],
         written'[d] = written[d], taken'[d] = taken[d]
  PROVE  FlowAt(d)'
<1> USE DEF FlowAt
<1>1. /\ NothingLost(d)' /\ InOnePlace(d)' /\ NothingForged(d)'
      /\ NothingOvertaken(d)' /\ SettledIsComplete(d)'
  BY DEF NothingLost, InOnePlace, NothingForged, NothingOvertaken, SettledIsComplete,
         Asking, Settled, AtBridge
<1>2. PumpsEndLast(d)' /\ QuietBefore(d)' /\ LastWords(d)'
  BY DEF PumpsEndLast, QuietBefore, Asking, Settled, AtBridge, LastWords
<1>3. sent[d] = <<>>
  BY DEF QuietBefore
<1>4. ExitIsComplete(d)' /\ SentInOrder(d)'
  BY <1>3 DEF ExitIsComplete, SentInOrder, IsSent
<1> QED BY <1>1, <1>2, <1>4

-----------------------------------------------------------------------------
(* What one frame more in the socket changes. *)

LEMMA SentGrows ==
  ASSUME TypeOK, NEW d \in Conns, NEW f \in ServerFrames, Put(d, f)
  PROVE  /\ \A g : IsSent(d, g)' <=> IsSent(d, g) \/ g = f
         /\ Len(sent'[d]) = Len(sent[d]) + 1
         /\ DOMAIN sent'[d] = DOMAIN sent[d] \cup {Len(sent[d]) + 1}
         /\ Len(sent[d]) + 1 \notin DOMAIN sent[d]
         /\ sent'[d][Len(sent[d]) + 1] = f
         /\ \A i \in DOMAIN sent[d] : sent'[d][i] = sent[d][i]
<1>1. sent[d] \in Seq(ServerFrames) /\ sent'[d] = Append(sent[d], f)
  BY DEF TypeOK, Put
<1>2. /\ DOMAIN sent'[d] = DOMAIN sent[d] \cup {Len(sent[d]) + 1}
      /\ Len(sent[d]) + 1 \notin DOMAIN sent[d]
      /\ sent'[d][Len(sent[d]) + 1] = f
      /\ \A i \in DOMAIN sent[d] : sent'[d][i] = sent[d][i]
  BY <1>1
<1>3. \A g : IsSent(d, g)' <=> IsSent(d, g) \/ g = f
  BY <1>2 DEF IsSent
<1> QED BY <1>1, <1>2, <1>3

LEMMA OrderKept ==
  ASSUME TypeOK, NEW d \in Conns, NEW f \in ServerFrames, Put(d, f), SentInOrder(d),
         f.type \in Streams =>
           /\ ~IsSent(d, f)
           /\ f.n > 1 => IsSent(d, Chunk(f.type, f.n - 1))
  PROVE  SentInOrder(d)'
<1> DEFINE new == Len(sent[d]) + 1
<1>1. /\ DOMAIN sent'[d] = DOMAIN sent[d] \cup {new}
      /\ new \notin DOMAIN sent[d] /\ sent'[d][new] = f
      /\ \A i \in DOMAIN sent[d] : sent'[d][i] = sent[d][i]
  BY SentGrows
<1>2. DOMAIN sent[d] = 1 .. new - 1 /\ new \in Nat
  BY DEF TypeOK
<1> HIDE DEF new
<1> SUFFICES ASSUME NEW i \in DOMAIN sent'[d], sent'[d][i].type \in Streams
             PROVE  /\ \A j \in DOMAIN sent'[d] : sent'[d][j] = sent'[d][i] => j = i
                    /\ sent'[d][i].n > 1 =>
                         \E j \in 1 .. i - 1 :
                           sent'[d][j] = Chunk(sent'[d][i].type, sent'[d][i].n - 1)
  BY DEF SentInOrder
<1>3. CASE i = new
  <2>1. ~IsSent(d, f) /\ (f.n > 1 => IsSent(d, Chunk(f.type, f.n - 1)))
    BY <1>1, <1>3
  <2>2. \A j \in DOMAIN sent'[d] : sent'[d][j] = f => j = new
    BY <1>1, <2>1 DEF IsSent
  <2>3. f.n > 1 => \E j \in 1 .. new - 1 : sent'[d][j] = Chunk(f.type, f.n - 1)
    BY <1>1, <1>2, <2>1 DEF IsSent
  <2> QED BY <1>1, <1>3, <2>2, <2>3
<1>4. CASE i \in DOMAIN sent[d]
  <2>1. sent[d][i].type \in Streams /\ sent'[d][i] = sent[d][i]
    BY <1>1, <1>4
  <2>2. \A j \in DOMAIN sent'[d] : sent'[d][j] = sent'[d][i] => j = i
    <3>1. ASSUME f = sent[d][i] PROVE FALSE
      BY <1>4, <2>1, <3>1 DEF IsSent
    <3> QED BY <1>1, <1>4, <2>1, <3>1 DEF SentInOrder
  <2>3. ASSUME sent[d][i].n > 1
        PROVE  \E j \in 1 .. i - 1 :
                 sent'[d][j] = Chunk(sent'[d][i].type, sent'[d][i].n - 1)
    <3>1. PICK j \in 1 .. i - 1 :
                 sent[d][j] = Chunk(sent[d][i].type, sent[d][i].n - 1)
      BY <1>4, <2>1, <2>3 DEF SentInOrder
    <3>2. j \in DOMAIN sent[d]
      BY <1>2, <1>4, <3>1
    <3> QED BY <1>1, <2>1, <3>1, <3>2
  <2> QED BY <2>1, <2>2, <2>3
<1> QED BY <1>1, <1>3, <1>4

\* A warning: before the last frame, and no output.
LEMMA FlowWarned ==
  ASSUME TypeOK, NEW d \in Conns, FlowAt(d), EndsAt(d),
         Put(d, Frame("ServerStopping")),
         child[d] # "none", child'[d] = child[d],
         \/ conn[d] \in AtBridge \ {"relay"} /\ conn'[d] = "bridge"
         \/ conn[d] = "lateAnnounce" /\ conn'[d] = "lateWait",
         chan'[d] = chan[d], theirs'[d] = theirs[d], ours'[d] = ours[d],
         written'[d] = written[d], taken'[d] = taken[d]
  PROVE  FlowAt(d)'
<1> DEFINE f == Frame("ServerStopping")
<1>1. /\ f \in ServerFrames /\ f.type \notin Streams /\ f # Frame("Exit")
      /\ \A s \in Streams : \A n : f # Chunk(s, n)
  BY FrameTypes, StreamsAssumption DEF Frame, Chunk
<1> HIDE DEF f
<1>2. \A g : IsSent(d, g)' <=> IsSent(d, g) \/ g = f
  BY <1>1, SentGrows DEF f
<1>3. conn[d] \notin Over /\ ~IsSent(d, Frame("Exit"))
  BY DEF FlowAt, ExitIsComplete, Over, AtBridge
<1> USE DEF FlowAt
<1>4. QuietBefore(d)' /\ PumpsEndLast(d)' /\ LastWords(d)' /\ ExitIsComplete(d)'
  BY <1>1, <1>2, <1>3 DEF QuietBefore, PumpsEndLast, LastWords, ExitIsComplete, Asking,
                          Settled, AtBridge
<1>5. SettledIsComplete(d)' /\ NothingLost(d)' /\ NothingOvertaken(d)'
  BY <1>2 DEF SettledIsComplete, NothingLost, NothingOvertaken, Settled, AllSent, Held,
              Queued, AtBridge
<1>6. SentInOrder(d)'
  BY <1>1, OrderKept DEF f
<1>7. InOnePlace(d)'
  BY <1>1, <1>2 DEF InOnePlace, EndsAt, Held, AtBridge
<1>8. NothingForged(d)'
  <2>1. /\ DOMAIN sent'[d] = DOMAIN sent[d] \cup {Len(sent[d]) + 1}
        /\ sent'[d][Len(sent[d]) + 1] = f
        /\ \A i \in DOMAIN sent[d] : sent'[d][i] = sent[d][i]
    BY <1>1, SentGrows DEF f
  <2> QED BY <1>1, <2>1 DEF NothingForged, AtBridge
<1> QED BY <1>4, <1>5, <1>6, <1>7, <1>8

\* The last frame, or none if nobody is there.
LEMMA FlowConcluded ==
  ASSUME TypeOK, NEW d \in Conns, FlowAt(d), PutOrFail(d, reply[d]),
         \/ conn[d] = "final" /\ conn'[d] = "done"
         \/ conn[d] = "fault" /\ conn'[d] = "reap",
         written'[d] = written[d], taken'[d] = taken[d]
  PROVE  FlowAt(d)'
<1>1. CASE UNCHANGED sent
  BY <1>1, FlowFallsSilent DEF Over
<1>2. CASE Put(d, reply[d])
  <2>1. /\ reply[d] \in {Frame(t) : t \in Terminals \cup {"ServerStopping"}}
        /\ conn[d] = "fault" => reply[d] # Frame("Exit")
    BY DEF FlowAt, LastWords, Frame, Terminals
  <2>2. /\ reply[d] \in ServerFrames /\ reply[d].type \notin Streams
        /\ \A s \in Streams : \A n : reply[d] # Chunk(s, n)
    BY <2>1, FrameTypes, StreamsAssumption DEF Frame, Chunk
  <2>3. \A g : IsSent(d, g)' <=> IsSent(d, g) \/ g = reply[d]
    BY <1>2, <2>2, SentGrows
  <2>4. conn[d] \notin Over /\ ~IsSent(d, Frame("Exit"))
    BY DEF FlowAt, ExitIsComplete, Over
  <2>5. reply[d] = Frame("Exit") => conn'[d] \in Over /\ AllSent(d)
    <3>1. CASE Asking(d)
      BY <2>1, <3>1 DEF FlowAt, QuietBefore, AllSent, Asking, Over
    <3>2. CASE conn[d] = "final" /\ ~Asking(d)
      BY <3>2 DEF FlowAt, SettledIsComplete, Settled, Asking, Over
    <3> QED BY <2>1, <3>1, <3>2
  <2>6. ExitIsComplete(d)'
    BY <2>3, <2>4, <2>5 DEF ExitIsComplete, AllSent
  <2>7. SentInOrder(d)'
    BY <1>2, <2>2, OrderKept DEF FlowAt
  <2>8. /\ QuietBefore(d)' /\ NothingLost(d)' /\ InOnePlace(d)' /\ NothingForged(d)'
        /\ NothingOvertaken(d)' /\ SettledIsComplete(d)' /\ LastWords(d)'
    BY DEF QuietBefore, NothingLost, InOnePlace, NothingForged, NothingOvertaken,
           SettledIsComplete, LastWords, Asking, Settled, AtBridge
  <2>9. PumpsEndLast(d)'
    BY DEF FlowAt, PumpsEndLast, Settled, AtBridge
  <2> QED BY <2>6, <2>7, <2>8, <2>9 DEF FlowAt
<1> QED BY <1>1, <1>2 DEF PutOrFail

\* Output is sent: the chunk that was held, after all that precede it.
LEMMA FlowRelayed ==
  ASSUME TypeOK, NEW d \in Conns, FlowAt(d), EndsAt(d), RelaySent(d), child[d] # "none"
  PROVE  FlowAt(d)'
<1> DEFINE f == reply[d]
<1>1. /\ conn[d] = "relay" /\ conn'[d] = "bridge" /\ Put(d, f)
      /\ chan'[d] = chan[d] /\ child'[d] = child[d] /\ theirs'[d] = theirs[d]
      /\ ours'[d] = ours[d] /\ written'[d] = written[d] /\ taken'[d] = taken[d]
  BY DEF RelaySent, GoTo, bridgeVars, groupVars, TypeOK
<1>2. /\ f \in ServerFrames /\ f.type \in Streams /\ f = Chunk(f.type, f.n)
      /\ f # Frame("Exit") /\ f.n \in 1 .. taken[d][f.type] /\ ~IsSent(d, f)
      /\ \A m \in 1 .. f.n - 1 : IsSent(d, Chunk(f.type, m))
  <2>1. f \in ServerFrames /\ f.type \in Streams
    BY <1>1 DEF EndsAt, TypeOK
  <2>2. f = Chunk(f.type, f.n) /\ f # Frame("Exit")
    BY <2>1, StreamsAssumption DEF ServerFrames, Chunk, Frame, Terminals
  <2>3. /\ f.n \in 1 .. taken[d][f.type] /\ ~IsSent(d, f)
        /\ \A m \in 1 .. f.n - 1 : IsSent(d, Chunk(f.type, m))
    BY <1>1 DEF FlowAt, NothingForged, InOnePlace, NothingOvertaken, AtBridge
  <2> QED BY <2>1, <2>2, <2>3
<1>3. /\ \A g : IsSent(d, g)' <=> IsSent(d, g) \/ g = f
      /\ DOMAIN sent'[d] = DOMAIN sent[d] \cup {Len(sent[d]) + 1}
      /\ sent'[d][Len(sent[d]) + 1] = f
      /\ \A i \in DOMAIN sent[d] : sent'[d][i] = sent[d][i]
  BY <1>1, <1>2, SentGrows
<1> HIDE DEF f
<1>4. SentInOrder(d)'
  <2>1. f.n > 1 => f.n - 1 \in 1 .. f.n - 1
    BY <1>2 DEF ServerFrames
  <2> QED BY <1>1, <1>2, <2>1, OrderKept DEF FlowAt
<1>5. \A g : Held(d, g) <=> g = f
  BY <1>1 DEF Held, f
<1>6. \A g : ~Held(d, g)'
  BY <1>1 DEF Held
<1> USE DEF FlowAt
<1>7. QuietBefore(d)' /\ SettledIsComplete(d)' /\ LastWords(d)' /\ PumpsEndLast(d)'
  BY <1>1 DEF QuietBefore, SettledIsComplete, LastWords, PumpsEndLast, Asking, Settled,
              AtBridge
<1>8. NothingLost(d)'
  BY <1>1, <1>3, <1>5, <1>6 DEF NothingLost, Queued, AtBridge
<1>9. InOnePlace(d)'
  BY <1>1, <1>3, <1>5, <1>6 DEF InOnePlace, AtBridge
<1>10. NothingForged(d)'
  BY <1>1, <1>2, <1>3 DEF NothingForged, AtBridge
<1>11. NothingOvertaken(d)'
  BY <1>1, <1>3, <1>5, <1>6 DEF NothingOvertaken, AtBridge
<1>12. ExitIsComplete(d)'
  BY <1>1, <1>2, <1>3 DEF ExitIsComplete, Over, AllSent
<1> QED BY <1>4, <1>7, <1>8, <1>9, <1>10, <1>11, <1>12

\* The head of the channel becomes the chunk that is held.
LEMMA FlowHeld ==
  ASSUME TypeOK, NEW d \in Conns, FlowAt(d), conn[d] = "bridge", TakeOutput(d),
         child[d] # "none"
  PROVE  FlowAt(d)'
<1>1. /\ conn'[d] = "relay" /\ sent'[d] = sent[d] /\ child'[d] = child[d]
      /\ theirs'[d] = theirs[d] /\ ours'[d] = ours[d]
      /\ written'[d] = written[d] /\ taken'[d] = taken[d]
  BY DEF TakeOutput, GoTo, wireVars, groupVars, TypeOK
<1>2. /\ reply'[d] = chan[d][1] /\ 1 \in DOMAIN chan[d]
      /\ DOMAIN chan'[d] = {i \in Nat \ {0} : i + 1 \in DOMAIN chan[d]}
      /\ \A i \in DOMAIN chan'[d] : chan'[d][i] = chan[d][i + 1]
      /\ DOMAIN chan[d] \subseteq Nat \ {0}
  <2>1. /\ chan[d] \in Seq(ServerFrames) /\ chan[d] # <<>>
        /\ chan'[d] = Tail(chan[d]) /\ reply'[d] = Head(chan[d])
    BY DEF TakeOutput, TypeOK
  <2> QED BY <2>1
<1>3. \A g : ~Held(d, g)
  BY DEF Held
<1>4. \A g : Held(d, g)' <=> g = chan[d][1]
  BY <1>1, <1>2 DEF Held
<1>5. \A g : Queued(d, g) <=> g = chan[d][1] \/ Queued(d, g)'
  <2> SUFFICES ASSUME NEW g PROVE Queued(d, g) <=> g = chan[d][1] \/ Queued(d, g)'
    OBVIOUS
  <2>1. ASSUME NEW i \in DOMAIN chan[d], chan[d][i] = g, i # 1 PROVE Queued(d, g)'
    <3>1. i - 1 \in DOMAIN chan'[d] /\ (i - 1) + 1 = i
      BY <1>2, <2>1
    <3>2. chan'[d][i - 1] = g
      BY <1>2, <2>1, <3>1
    <3> QED BY <3>1, <3>2 DEF Queued
  <2> QED BY <1>2, <2>1 DEF Queued
<1> USE DEF FlowAt
<1>6. QuietBefore(d)' /\ SettledIsComplete(d)' /\ LastWords(d)' /\ PumpsEndLast(d)'
  BY <1>1 DEF QuietBefore, SettledIsComplete, LastWords, PumpsEndLast, Asking, Settled,
              AtBridge
<1>7. ExitIsComplete(d)' /\ SentInOrder(d)'
  BY <1>1 DEF ExitIsComplete, SentInOrder, Over, IsSent
<1>8. NothingLost(d)'
  BY <1>1, <1>3, <1>4, <1>5 DEF NothingLost, AtBridge, IsSent
<1>9. InOnePlace(d)'
  <2>1. \A i \in DOMAIN chan'[d] : i + 1 # 1 /\ i + 1 \in DOMAIN chan[d] /\ i \in Nat
    BY <1>2
  <2>2. \A i, j \in DOMAIN chan'[d] : chan'[d][i] = chan'[d][j] => i = j
    <3> SUFFICES ASSUME NEW i \in DOMAIN chan'[d], NEW j \in DOMAIN chan'[d],
                        chan'[d][i] = chan'[d][j]
                 PROVE  i = j
      OBVIOUS
    <3>1. i + 1 = j + 1
      BY <1>2, <2>1 DEF InOnePlace, AtBridge
    <3> QED BY <2>1, <3>1
  <2>3. \A i \in DOMAIN chan'[d] : ~IsSent(d, chan'[d][i]) /\ chan'[d][i] # chan[d][1]
    BY <1>2, <2>1 DEF InOnePlace, AtBridge
  <2> QED BY <1>1, <1>2, <1>4, <2>2, <2>3 DEF InOnePlace, AtBridge, IsSent
<1>10. NothingForged(d)'
  BY <1>1, <1>2 DEF NothingForged, AtBridge
<1>11. NothingOvertaken(d)'
  <2>1. ASSUME NEW m \in 1 .. reply'[d].n - 1 PROVE IsSent(d, Chunk(reply'[d].type, m))
    BY <1>2, <1>3, <2>1 DEF NothingOvertaken, AtBridge
  <2>2. ASSUME NEW i \in DOMAIN chan'[d], NEW m \in 1 .. chan'[d][i].n - 1
        PROVE  LET f == Chunk(chan'[d][i].type, m)
               IN  IsSent(d, f) \/ f = chan[d][1] \/ \E j \in 1 .. i - 1 : chan'[d][j] = f
    <3> DEFINE f == Chunk(chan'[d][i].type, m)
    <3>1. i + 1 \in DOMAIN chan[d] /\ chan'[d][i] = chan[d][i + 1] /\ i \in Nat
      BY <1>2
    <3>2. IsSent(d, f) \/ \E j \in 1 .. (i + 1) - 1 : chan[d][j] = f
      BY <1>3, <3>1 DEF NothingOvertaken, AtBridge
    <3>3. ASSUME NEW j \in 1 .. (i + 1) - 1, chan[d][j] = f, j # 1
          PROVE  \E k \in 1 .. i - 1 : chan'[d][k] = f
      <4>1. j - 1 \in 1 .. i - 1 /\ (j - 1) + 1 = j
        BY <3>1, <3>3
      <4>2. j - 1 \in DOMAIN chan'[d]
        <5>1. DOMAIN chan[d] = 1 .. Len(chan[d]) /\ Len(chan[d]) \in Nat
          BY DEF TypeOK
        <5> QED BY <1>2, <3>1, <4>1, <5>1
      <4> QED BY <1>2, <3>3, <4>1, <4>2
    <3> QED BY <3>1, <3>2, <3>3
  <2> QED BY <1>1, <1>4, <2>1, <2>2 DEF NothingOvertaken, AtBridge, IsSent
<1> QED BY <1>6, <1>7, <1>8, <1>9, <1>10, <1>11

-----------------------------------------------------------------------------
(* The pumps and the group. *)

LEMMA FlowForwarded ==
  ASSUME TypeOK, NEW d \in Conns, FlowAt(d), EndsAt(d), NEW s \in Streams,
         PumpForwards(d, s), Pump(d, s)
  PROVE  FlowAt(d)'
<1> DEFINE k == taken[d][s] + 1
           f == Chunk(s, k)
           new == Len(chan[d]) + 1
<1>1. /\ conn[d] \in AtBridge /\ conn'[d] = conn[d] /\ sent'[d] = sent[d]
      /\ reply'[d] = reply[d] /\ child'[d] = child[d] /\ theirs'[d] = theirs[d]
      /\ ours'[d] = ours[d] /\ written'[d] = written[d] /\ s \in ours[d]
  BY DEF PumpForwards, Pump, Receiving, wireVars
<1>2. /\ k \in Nat \ {0} /\ taken'[d][s] = k /\ taken[d][s] = k - 1
      /\ k <= written[d][s]
      /\ \A r \in Streams \ {s} : taken'[d][r] = taken[d][r]
      /\ \A r \in Streams : taken[d][r] \in Nat /\ written[d][r] \in Nat
  <2>1. taken \in [Conns -> [Pipes -> Nat]] /\ written \in [Conns -> [Pipes -> Nat]]
    BY DEF TypeOK
  <2>2. taken' = [taken EXCEPT ![d][s] = @ + 1] /\ written[d][s] - taken[d][s] > 0
    BY DEF PumpForwards, InPipe
  <2>3. taken'[d] = [taken[d] EXCEPT ![s] = @ + 1]
    BY <2>1, <2>2
  <2>4. /\ taken[d][s] \in Nat /\ written[d][s] \in Nat
        /\ \A r \in Streams : taken[d][r] \in Nat /\ written[d][r] \in Nat
        /\ taken[d] \in [Pipes -> Nat]
    BY <2>1, PipeNames
  <2> QED BY <2>2, <2>3, <2>4, PipeNames
<1>3. f.type = s /\ f.n = k /\ f \in ServerFrames
  BY <1>2, FrameTypes DEF Chunk
<1>4. /\ DOMAIN chan'[d] = DOMAIN chan[d] \cup {new} /\ new \notin DOMAIN chan[d]
      /\ DOMAIN chan[d] = 1 .. new - 1 /\ new \in Nat
      /\ chan'[d][new] = f /\ \A i \in DOMAIN chan[d] : chan'[d][i] = chan[d][i]
  <2>1. chan[d] \in Seq(ServerFrames) /\ chan'[d] = Append(chan[d], f)
    BY DEF PumpForwards, TypeOK
  <2> QED BY <1>3, <2>1
<1> HIDE DEF f, new, k
<1>5. ~IsSent(d, f) /\ ~Held(d, f) /\ \A i \in DOMAIN chan[d] : chan[d][i] # f
  <2>1. k \notin 1 .. taken[d][s]
    BY <1>2
  <2>2. NothingForged(d)
    BY DEF FlowAt
  <2>3. \A i \in DOMAIN chan[d] : chan[d][i] # f
    BY <1>1, <1>3, <2>1, <2>2 DEF NothingForged
  <2>4. ~IsSent(d, f)
    BY <1>1, <1>3, <2>1, <2>2 DEF NothingForged, IsSent
  <2>5. ~Held(d, f)
    BY <1>1, <1>3, <2>1, <2>2 DEF NothingForged, Held
  <2> QED BY <2>3, <2>4, <2>5
<1>6. \A g : (IsSent(d, g)' <=> IsSent(d, g)) /\ (Held(d, g)' <=> Held(d, g))
  BY <1>1 DEF IsSent, Held
<1>7. \A g : Queued(d, g)' <=> Queued(d, g) \/ g = f
  BY <1>4 DEF Queued
<1> USE DEF FlowAt
<1>8. QuietBefore(d)' /\ SettledIsComplete(d)' /\ LastWords(d)'
  BY <1>1 DEF QuietBefore, SettledIsComplete, LastWords, Asking, Settled, AtBridge
<1>9. ExitIsComplete(d)' /\ SentInOrder(d)'
  BY <1>1 DEF ExitIsComplete, SentInOrder, IsSent, AllSent
<1>10. PumpsEndLast(d)'
  BY <1>1, <1>2 DEF PumpsEndLast, Settled
<1>11. NothingLost(d)'
  <2> SUFFICES ASSUME NEW r \in Streams, NEW n \in 1 .. taken'[d][r]
               PROVE  IsSent(d, Chunk(r, n))' \/ Held(d, Chunk(r, n))'
                        \/ Queued(d, Chunk(r, n))'
    BY DEF NothingLost
  <2>1. CASE r = s /\ n = k
    BY <1>7, <2>1 DEF f
  <2>2. CASE n \in 1 .. taken[d][r]
    BY <1>1, <1>6, <1>7, <2>2 DEF NothingLost
  <2> QED BY <1>2, <2>1, <2>2
<1>12. InOnePlace(d)'
  BY <1>1, <1>4, <1>5, <1>6 DEF InOnePlace
<1>13. NothingForged(d)'
  <2>1. \A r : \A n : n \in 1 .. taken[d][r] /\ r \in Streams => n \in 1 .. taken'[d][r]
    BY <1>2
  <2>2. \A i \in DOMAIN chan'[d] : chan'[d][i].n \in 1 .. taken'[d][chan'[d][i].type]
    <3> SUFFICES ASSUME NEW i \in DOMAIN chan'[d]
                 PROVE  chan'[d][i].n \in 1 .. taken'[d][chan'[d][i].type]
      OBVIOUS
    <3>1. CASE i = new
      BY <1>2, <1>3, <1>4, <3>1
    <3>2. CASE i \in DOMAIN chan[d]
      BY <1>1, <1>4, <2>1, <3>2 DEF NothingForged, EndsAt
    <3> QED BY <1>4, <3>1, <3>2
  <2>3. conn[d] = "relay" => reply[d].n \in 1 .. taken'[d][reply[d].type]
    BY <1>1, <2>1 DEF NothingForged, EndsAt
  <2>4. \A i \in DOMAIN sent[d] : sent[d][i].type \in Streams =>
          sent[d][i].n \in 1 .. taken'[d][sent[d][i].type]
    BY <1>1, <2>1 DEF NothingForged
  <2> QED BY <1>1, <2>2, <2>3, <2>4 DEF NothingForged
<1>14. NothingOvertaken(d)'
  <2>1. ASSUME NEW m \in 1 .. k - 1
        PROVE  LET g == Chunk(s, m)
               IN  IsSent(d, g) \/ Held(d, g) \/ \E j \in 1 .. new - 1 : chan[d][j] = g
    BY <1>1, <1>2, <1>4, <2>1 DEF NothingLost, Queued
  <2>2. ASSUME NEW i \in DOMAIN chan'[d], NEW m \in 1 .. chan'[d][i].n - 1
        PROVE  LET g == Chunk(chan'[d][i].type, m)
               IN  IsSent(d, g) \/ Held(d, g) \/ \E j \in 1 .. i - 1 : chan'[d][j] = g
    <3>1. CASE i = new
      BY <1>3, <1>4, <2>1, <3>1
    <3>2. CASE i \in DOMAIN chan[d]
      <4>1. \A j \in 1 .. i - 1 : j \in DOMAIN chan[d]
        BY <1>4, <3>2
      <4> QED BY <1>1, <1>4, <3>2, <4>1 DEF NothingOvertaken
    <3> QED BY <1>4, <3>1, <3>2
  <2> QED BY <1>1, <1>6, <2>2 DEF NothingOvertaken
<1> QED BY <1>8, <1>9, <1>10, <1>11, <1>12, <1>13, <1>14

\* A step that only takes pipe ends away, where that is allowed.
LEMMA FlowPipesClose ==
  ASSUME NEW d \in Conns, FlowAt(d),
         chan'[d] = chan[d], conn'[d] = conn[d], reply'[d] = reply[d],
         sent'[d] = sent[d], (child'[d] = "none") <=> (child[d] = "none"),
         ours'[d] \subseteq ours[d], theirs'[d] \subseteq theirs[d],
         written'[d] = written[d], taken'[d] = taken[d],
         conn[d] \in AtBridge =>
           \A s \in Streams : s \in ours[d] /\ s \notin ours'[d] =>
             s \notin theirs[d] /\ taken[d][s] = written[d][s]
  PROVE  FlowAt(d)'
<1> USE DEF FlowAt
<1>1. /\ NothingLost(d)' /\ InOnePlace(d)' /\ NothingForged(d)' /\ NothingOvertaken(d)'
  BY DEF NothingLost, InOnePlace, NothingForged, NothingOvertaken, Held, Queued, IsSent
<1>2. QuietBefore(d)' /\ LastWords(d)' /\ ExitIsComplete(d)' /\ SentInOrder(d)'
  BY DEF QuietBefore, LastWords, ExitIsComplete, SentInOrder, IsSent, AllSent, Asking
<1>3. SettledIsComplete(d)'
  BY DEF SettledIsComplete, Settled, AllSent, IsSent
<1>4. PumpsEndLast(d)'
  BY DEF PumpsEndLast, SettledIsComplete, Settled
<1> QED BY <1>1, <1>2, <1>3, <1>4

LEMMA FlowPump ==
  ASSUME TypeOK, NEW d \in Conns, FlowAt(d), EndsAt(d),
         NEW c \in Conns, NEW s \in Streams, Pump(c, s)
  PROVE  FlowAt(d)'
<1> USE DEF Pump, wireVars
<1>1. CASE c # d
  BY <1>1, FlowUntouched DEF Untouched, PumpForwards, PumpEnds, TypeOK
<1>2. CASE c = d /\ PumpForwards(c, s)
  BY <1>2, FlowForwarded
<1>3. CASE c = d /\ PumpEnds(c, s)
  <2>1. /\ chan'[d] = chan[d] /\ conn'[d] = conn[d] /\ reply'[d] = reply[d]
        /\ sent'[d] = sent[d] /\ child'[d] = child[d] /\ theirs'[d] = theirs[d]
        /\ ours'[d] = ours[d] \ {s} /\ written'[d] = written[d] /\ taken'[d] = taken[d]
    BY <1>3 DEF PumpEnds, TypeOK
  <2>2. conn[d] \in AtBridge => s \notin theirs[d] /\ taken[d][s] = written[d][s]
    BY <1>3, PipeNames DEF PumpEnds, InPipe, Receiving, TypeOK
  <2> QED BY <2>1, <2>2, FlowPipesClose
<1> QED BY <1>1, <1>2, <1>3

\* A step that only moves bytes of the child's stdin.
LEMMA FlowInput ==
  ASSUME NEW d \in Conns, FlowAt(d), EndsAt(d),
         chan'[d] = chan[d], conn'[d] = conn[d], reply'[d] = reply[d],
         sent'[d] = sent[d], child'[d] = child[d], ours'[d] = ours[d],
         theirs'[d] = theirs[d], written'[d] = written[d],
         \A s \in Streams : taken'[d][s] = taken[d][s]
  PROVE  FlowAt(d)'
<1> USE DEF FlowAt
<1>1. NothingLost(d)' /\ InOnePlace(d)' /\ NothingOvertaken(d)'
  BY DEF NothingLost, InOnePlace, NothingOvertaken, Held, Queued, IsSent
<1>2. NothingForged(d)'
  BY DEF NothingForged, EndsAt
<1>3. QuietBefore(d)' /\ LastWords(d)' /\ ExitIsComplete(d)' /\ SentInOrder(d)'
  BY DEF QuietBefore, LastWords, ExitIsComplete, SentInOrder, IsSent, AllSent, Asking
<1>4. SettledIsComplete(d)' /\ PumpsEndLast(d)'
  BY DEF SettledIsComplete, PumpsEndLast, Settled, AllSent, IsSent
<1> QED BY <1>1, <1>2, <1>3, <1>4

\* The group writes to a stream whose pump still runs.
LEMMA FlowWritten ==
  ASSUME TypeOK, NEW d \in Conns, FlowAt(d), NEW s \in Streams, GroupWrites(d, s),
         Group(d)
  PROVE  FlowAt(d)'
<1>1. /\ chan'[d] = chan[d] /\ conn'[d] = conn[d] /\ reply'[d] = reply[d]
      /\ sent'[d] = sent[d] /\ child'[d] = child[d] /\ ours'[d] = ours[d]
      /\ theirs'[d] = theirs[d] /\ taken'[d] = taken[d]
      /\ s \in theirs[d] /\ s \in ours[d] /\ conn[d] \notin Over
  BY DEF GroupWrites, Group, handlerVars, bridgeVars, wireVars
<1>2. /\ \A r \in Streams \ {s} : written'[d][r] = written[d][r]
      /\ written'[d][s] = written[d][s] + 1
      /\ \A r \in Streams : written[d][r] \in Nat /\ taken[d][r] \in Nat
  BY PipeNames DEF GroupWrites, TypeOK
<1> USE DEF FlowAt
<1>3. ~Asking(d) /\ ~Settled(d) /\ ~IsSent(d, Frame("Exit"))
  BY <1>1 DEF QuietBefore, SettledIsComplete, ExitIsComplete
<1>4. /\ NothingLost(d)' /\ InOnePlace(d)' /\ NothingForged(d)' /\ NothingOvertaken(d)'
  BY <1>1 DEF NothingLost, InOnePlace, NothingForged, NothingOvertaken, Held, Queued, IsSent
<1>5. QuietBefore(d)' /\ LastWords(d)' /\ ExitIsComplete(d)' /\ SentInOrder(d)'
  BY <1>1, <1>3 DEF QuietBefore, LastWords, ExitIsComplete, SentInOrder, IsSent, Asking
<1>6. SettledIsComplete(d)' /\ PumpsEndLast(d)'
  BY <1>1, <1>2, <1>3 DEF SettledIsComplete, PumpsEndLast, Settled
<1> QED BY <1>4, <1>5, <1>6

LEMMA FlowGroup ==
  ASSUME TypeOK, NEW d \in Conns, FlowAt(d), EndsAt(d), NEW c \in Conns, Group(c)
  PROVE  FlowAt(d)'
<1> USE DEF Group, handlerVars, bridgeVars, wireVars
<1>1. CASE c # d
  BY <1>1, FlowUntouched
     DEF Untouched, GroupWrites, GroupReads, GroupCloses, ChildDies, TypeOK
<1>2. ASSUME c = d, NEW s \in Streams, GroupWrites(c, s) PROVE FlowAt(d)'
  BY <1>2, FlowWritten
<1>3. CASE c = d /\ GroupReads(c)
  <2>1. \A s \in Streams : taken'[d][s] = taken[d][s]
    BY <1>3, StreamsAssumption, PipeNames DEF GroupReads, TypeOK
  <2> QED BY <1>3, <2>1, FlowInput DEF GroupReads
<1>4. CASE c = d /\ ((\E p \in Pipes : GroupCloses(c, p)) \/ ChildDies(c))
  <2>1. /\ chan'[d] = chan[d] /\ conn'[d] = conn[d] /\ reply'[d] = reply[d]
        /\ sent'[d] = sent[d] /\ ours'[d] = ours[d]
        /\ written'[d] = written[d] /\ taken'[d] = taken[d]
    BY <1>4 DEF GroupCloses, ChildDies
  <2>2. (child'[d] = "none") <=> (child[d] = "none")
    BY <1>4 DEF GroupCloses, ChildDies, TypeOK
  <2>3. theirs'[d] \subseteq theirs[d]
    BY <1>4 DEF GroupCloses, ChildDies, TypeOK
  <2> QED BY <2>1, <2>2, <2>3, FlowPipesClose
<1> QED BY <1>1, <1>2, <1>3, <1>4

LEMMA FlowClient ==
  ASSUME TypeOK, NEW d \in Conns, FlowAt(d), ChildMatchesHandler,
         NEW c \in Conns, Client(c)
  PROVE  FlowAt(d)'
<1> USE DEF Client, bridgeVars, groupVars
<1>1. CASE c = d /\ Connect(c)
  <2>1. conn[d] = "none" /\ conn'[d] = "backlog"
    BY <1>1 DEF Connect, GoTo, ChildMatchesHandler, TypeOK
  <2> QED BY <1>1, <2>1, FlowAskingQuiet DEF Asking
<1>2. CASE UNCHANGED conn \/ c # d
  BY <1>2, FlowUntouched
     DEF Untouched, Connect, ClientSends, ClientReads, ClientCloses, GoTo, TypeOK
<1> QED BY <1>1, <1>2 DEF ClientSends, ClientReads, ClientCloses

LEMMA FlowMain ==
  ASSUME TypeOK, NEW d \in Conns, FlowAt(d), Main \/ Acceptor \/ UNCHANGED vars
  PROVE  FlowAt(d)'
<1> USE DEF wireVars, groupVars, bridgeVars
<1>1. CASE Main
  <2>1. CASE Stop \/ BeginDrain
    BY <1>1, <2>1, FlowUntouched DEF Main, Stop, BeginDrain, Untouched
  <2>2. CASE DrainDone \/ DrainExpires
    <3>1. /\ chan'[d] = chan[d] /\ reply'[d] = reply[d] /\ sent'[d] = sent[d]
          /\ child'[d] = child[d] /\ theirs'[d] = theirs[d]
          /\ written'[d] = written[d] /\ taken'[d] = taken[d]
          /\ conn'[d] = IF conn[d] \in Live THEN "dropped" ELSE conn[d]
          /\ ours'[d] = {}
      BY <1>1, <2>2 DEF Main, DrainDone, DrainExpires, ExitProcess
    <3>2. CASE conn[d] \in Live
      BY <3>1, <3>2, FlowFallsSilent DEF Live, Over, AtBridge, AfterBridge
    <3>3. CASE conn[d] \notin Live
      BY <3>1, <3>3, FlowPipesClose DEF Live
    <3> QED BY <3>2, <3>3
  <2> QED BY <1>1, <2>1, <2>2 DEF Main
<1>2. CASE Acceptor
  <2>1. /\ chan'[d] = chan[d] /\ reply'[d] = reply[d] /\ sent'[d] = sent[d]
        /\ child'[d] = child[d] /\ theirs'[d] = theirs[d] /\ ours'[d] = ours[d]
        /\ written'[d] = written[d] /\ taken'[d] = taken[d]
        /\ \/ conn'[d] = conn[d]
           \/ conn[d] = "backlog" /\ conn'[d] \in {"first", "refused"}
    BY <1>2 DEF Acceptor, Accept, Register, AcceptFails, AcceptorCancelled,
                AcceptorEnds, GoTo, TypeOK
  <2>2. CASE conn'[d] = conn[d]
    BY <2>1, <2>2, FlowUntouched DEF Untouched
  <2>3. CASE conn[d] = "backlog" /\ conn'[d] \in {"first", "refused"}
    BY <2>1, <2>3, FlowAskingQuiet DEF Asking
  <2> QED BY <2>1, <2>2, <2>3
<1>3. CASE UNCHANGED vars
  BY <1>3, FlowUntouched DEF vars, handlerVars, Untouched
<1> QED BY <1>1, <1>2, <1>3

-----------------------------------------------------------------------------
(* The handler. *)

LEMMA HandlerKeepsOthers ==
  ASSUME TypeOK, NEW c \in Conns, Handler(c), NEW d \in Conns, d # c
  PROVE  Untouched(d)
<1>1. /\ chan'[d] = chan[d] /\ conn'[d] = conn[d]
      /\ reply'[d] = reply[d] /\ sent'[d] = sent[d]
  BY HandlerTouchesOne
<1> USE DEF TypeOK, bridgeVars, wireVars, groupVars
<1>2. /\ child'[d] = child[d] /\ theirs'[d] = theirs[d] /\ ours'[d] = ours[d]
      /\ written'[d] = written[d] /\ taken'[d] = taken[d]
  <2>1. CASE First(c)
    BY <2>1 DEF First, FirstAnswered, Spawn, FirstIsEof, FirstIsStopping
  <2>2. CASE Bridge(c)
    <3>1. CASE TakeOutput(c) \/ BridgeDrained(c) \/ TakeStopping(c)
      BY <3>1 DEF TakeOutput, BridgeDrained, TakeStopping, DropStdin
    <3>2. CASE FrameArm(c)
      BY <3>2 DEF FrameArm, TakeStdin, TakeStdinEof, TakeSignal, TakeMisdirected,
                  TakeEof, TakeJunk, TakeReset, Fault, DropStdin
    <3>3. CASE RelaySent(c) \/ FeedWritten(c) \/ FeedFails(c)
      BY <3>3 DEF RelaySent, FeedWritten, FeedFails, DropStdin
    <3>4. CASE RelayFails(c) \/ FaultAnswered(c) \/ Announce(c, "announce", "bridge")
      BY <3>4 DEF RelayFails, FaultAnswered, Abandon, Announce, DropStdin
    <3> QED BY <2>2, <3>1, <3>2, <3>3, <3>4 DEF Bridge
  <2>3. CASE After(c)
    BY <2>3 DEF After, WaitReaps, WaitFails, WaitStopping, ReapAbandoned, Announce, Reap
  <2>4. CASE SendFinal(c)
    BY <2>4 DEF SendFinal
  <2> QED BY <2>1, <2>2, <2>3, <2>4 DEF Handler
<1> QED BY <1>1, <1>2 DEF Untouched

LEMMA FlowFirst ==
  ASSUME TypeOK, NEW c \in Conns, FlowAt(c), ChildMatchesHandler, First(c)
  PROVE  FlowAt(c)'
<1> USE DEF First, TypeOK, GoTo, Takes, Finish, bridgeVars, wireVars, groupVars
<1>1. child[c] = "none" /\ Asking(c)
  BY DEF ChildMatchesHandler, Asking
<1>2. CASE FirstAnswered(c) \/ FirstIsStopping(c)
  <2>1. /\ conn'[c] = "final" /\ child'[c] = "none"
        /\ reply'[c] \in {Frame(t) : t \in Terminals \cup {"ServerStopping"}}
    BY <1>1, <1>2 DEF FirstAnswered, FirstIsStopping, Answers, Terminals
  <2> QED BY <1>1, <1>2, <2>1, FlowAskingQuiet DEF FirstAnswered, FirstIsStopping, Asking
<1>3. CASE FirstIsEof(c)
  BY <1>3, FlowFallsSilent DEF FirstIsEof, Over
<1>4. CASE Spawn(c)
  <2>1. /\ sent'[c] = <<>> /\ chan'[c] = <<>> /\ conn'[c] = "bridge"
        /\ child'[c] = "running" /\ ours'[c] = Pipes
        /\ \A s \in Streams : written'[c][s] = 0 /\ taken'[c][s] = 0
    BY <1>1, <1>4 DEF Spawn, FlowAt, QuietBefore
  <2>2. /\ QuietBefore(c)' /\ NothingLost(c)' /\ InOnePlace(c)' /\ NothingForged(c)'
        /\ NothingOvertaken(c)' /\ SettledIsComplete(c)' /\ LastWords(c)'
    BY <2>1 DEF QuietBefore, NothingLost, InOnePlace, NothingForged, NothingOvertaken,
                SettledIsComplete, LastWords, Asking, Settled, AtBridge
  <2>3. PumpsEndLast(c)'
    <3>1. \A s \in Streams : taken'[c][s] <= written'[c][s]
      BY <2>1
    <3>2. Streams \ ours'[c] = {}
      BY <2>1, PipeNames
    <3> QED BY <3>1, <3>2 DEF PumpsEndLast
  <2>4. ExitIsComplete(c)' /\ SentInOrder(c)'
    BY <2>1 DEF ExitIsComplete, SentInOrder, IsSent
  <2> QED BY <2>2, <2>3, <2>4 DEF FlowAt
<1> QED BY <1>2, <1>3, <1>4

LEMMA FlowBridge ==
  ASSUME TypeOK, NEW c \in Conns, FlowAt(c), EndsAt(c), ChildMatchesHandler, Bridge(c)
  PROVE  FlowAt(c)'
<1> USE DEF TypeOK, GoTo, Takes, bridgeVars, wireVars, groupVars, DropStdin
<1>1. conn[c] \in AtBridge /\ child[c] # "none"
  BY DEF Bridge, RelaySent, RelayFails, FeedWritten, FeedFails, FaultAnswered, Announce,
         AtBridge, ChildMatchesHandler
<1>2. "Stdin" \notin Streams
  BY StreamsAssumption
<1>3. CASE conn[c] = "bridge" /\ TakeOutput(c)
  BY <1>1, <1>3, FlowHeld
<1>4. CASE conn[c] = "bridge" /\ BridgeDrained(c)
  <2>1. /\ conn'[c] = "wait" /\ chan[c] = <<>> /\ ours[c] \cap Streams = {}
        /\ sent'[c] = sent[c] /\ theirs'[c] = theirs[c] /\ ours'[c] \cap Streams = {}
        /\ written'[c] = written[c] /\ taken'[c] = taken[c] /\ chan'[c] = chan[c]
    BY <1>4 DEF BridgeDrained, Drained
  <2>2. AllSent(c)
    <3> SUFFICES ASSUME NEW s \in Streams, NEW n \in 1 .. written[c][s]
                 PROVE  IsSent(c, Chunk(s, n))
      BY DEF AllSent
    <3>1. taken[c][s] = written[c][s]
      BY <1>1, <2>1 DEF FlowAt, PumpsEndLast
    <3>2. ~Queued(c, Chunk(s, n)) /\ ~Held(c, Chunk(s, n))
      BY <1>4, <2>1 DEF Queued, Held
    <3> QED BY <1>1, <3>1, <3>2 DEF FlowAt, NothingLost
  <2>3. /\ QuietBefore(c)' /\ NothingLost(c)' /\ InOnePlace(c)' /\ NothingForged(c)'
        /\ NothingOvertaken(c)' /\ LastWords(c)'
    BY <2>1 DEF QuietBefore, NothingLost, InOnePlace, NothingForged, NothingOvertaken,
                LastWords, Asking, AtBridge
  <2>4. SettledIsComplete(c)' /\ SentInOrder(c)'
    BY <2>1, <2>2 DEF FlowAt, SettledIsComplete, SentInOrder, AllSent, IsSent
  <2>5. PumpsEndLast(c)'
    BY <1>1, <2>1 DEF FlowAt, PumpsEndLast
  <2>6. ExitIsComplete(c)'
    BY <1>1, <2>1 DEF FlowAt, ExitIsComplete, IsSent, AtBridge, Over
  <2> QED BY <2>3, <2>4, <2>5, <2>6 DEF FlowAt
<1>5. CASE conn[c] = "bridge" /\ TakeStopping(c)
  BY <1>1, <1>5, FlowBridgeQuiet DEF TakeStopping, AtBridge
<1>6. CASE conn[c] = "bridge" /\ FrameArm(c)
  <2>1. /\ conn'[c] \in {"bridge", "feed", "fault"}
        /\ conn'[c] = "fault" => reply'[c] = Frame("Error")
        /\ chan'[c] = chan[c] /\ sent'[c] = sent[c] /\ child'[c] = child[c]
        /\ theirs'[c] = theirs[c] /\ ours'[c] \cap Streams = ours[c] \cap Streams
        /\ taken'[c] = taken[c] /\ written'[c] = written[c]
    BY <1>2, <1>6
       DEF FrameArm, TakeStdin, TakeStdinEof, TakeSignal, TakeMisdirected, TakeEof,
           TakeJunk, TakeReset, Fault
  <2> QED BY <1>1, <1>6, <2>1, FlowBridgeQuiet DEF AtBridge
<1>7. CASE FeedWritten(c) \/ FeedFails(c)
  <2>1. /\ conn[c] = "feed" /\ conn'[c] = "bridge"
        /\ chan'[c] = chan[c] /\ sent'[c] = sent[c] /\ child'[c] = child[c]
        /\ theirs'[c] = theirs[c] /\ ours'[c] \cap Streams = ours[c] \cap Streams
        /\ taken'[c] = taken[c]
    BY <1>2, <1>7 DEF FeedWritten, FeedFails
  <2>2. \A s \in Streams : written'[c][s] = written[c][s]
    BY <1>2, <1>7, PipeNames DEF FeedWritten, FeedFails
  <2> QED BY <1>1, <2>1, <2>2, FlowBridgeQuiet DEF AtBridge
<1>8. CASE RelaySent(c)
  BY <1>1, <1>8, FlowRelayed
<1>9. CASE RelayFails(c)
  BY <1>1, <1>9, FlowFallsSilent DEF RelayFails, Abandon, Over, AtBridge
<1>10. CASE FaultAnswered(c)
  BY <1>10, FlowConcluded DEF FaultAnswered, Abandon
<1>11. CASE Announce(c, "announce", "bridge")
  BY <1>1, <1>11, FlowWarned, FlowBridgeQuiet DEF Announce, PutOrFail, AtBridge
<1> QED BY <1>3, <1>4, <1>5, <1>6, <1>7, <1>8, <1>9, <1>10, <1>11 DEF Bridge

LEMMA FlowAfter ==
  ASSUME TypeOK, NEW c \in Conns, FlowAt(c), EndsAt(c), ChildMatchesHandler, After(c)
  PROVE  FlowAt(c)'
<1> USE DEF TypeOK, GoTo, Finish, bridgeVars, wireVars, groupVars
<1>1. CASE WaitReaps(c) \/ WaitFails(c) \/ WaitStopping(c)
  <2>1. /\ Settled(c) /\ Settled(c)' /\ chan'[c] = chan[c]
        /\ conn'[c] = "final" => reply'[c] \in {Frame("Exit"), Frame("Error")}
        /\ sent'[c] = sent[c] /\ theirs'[c] = theirs[c] /\ ours'[c] = ours[c]
        /\ written'[c] = written[c] /\ taken'[c] = taken[c]
    BY <1>1 DEF WaitReaps, WaitFails, WaitStopping, Reap, Settled
  <2> QED BY <2>1, FlowSettledQuiet
<1>2. CASE ReapAbandoned(c)
  BY <1>2, FlowFallsSilent DEF ReapAbandoned, Over
<1>3. CASE Announce(c, "lateAnnounce", "lateWait")
  <2>1. child[c] # "none"
    BY <1>3 DEF Announce, ChildMatchesHandler, AfterBridge
  <2>2. CASE UNCHANGED sent
    BY <1>3, <2>2, FlowSettledQuiet DEF Announce, Settled
  <2>3. CASE Put(c, Frame("ServerStopping"))
    BY <1>3, <2>1, <2>3, FlowWarned DEF Announce
  <2> QED BY <1>3, <2>2, <2>3 DEF Announce, PutOrFail
<1> QED BY <1>1, <1>2, <1>3 DEF After

LEMMA FlowHandler ==
  ASSUME TypeOK, NEW c \in Conns, FlowAt(c), EndsAt(c), ChildMatchesHandler, Handler(c)
  PROVE  FlowAt(c)'
<1>1. CASE SendFinal(c)
  <2>1. /\ PutOrFail(c, reply[c]) /\ conn[c] = "final" /\ conn'[c] = "done"
        /\ written'[c] = written[c] /\ taken'[c] = taken[c]
    BY <1>1 DEF SendFinal, GoTo, TypeOK, groupVars
  <2> QED BY <2>1, FlowConcluded
<1>2. CASE First(c) BY <1>2, FlowFirst
<1>3. CASE Bridge(c) BY <1>3, FlowBridge
<1>4. CASE After(c) BY <1>4, FlowAfter
<1> QED BY <1>1, <1>2, <1>3, <1>4 DEF Handler

\* Every chunk of output is in one place between the pipe and the socket,
\* behind those written before it (pump_output, the channel, bridge).
THEOREM OutputFlow == Spec => []FlowInv
<1>1. TypeOK /\ ChildMatchesHandler /\ TerminalEnds /\ FlowInv /\ [Next]_vars => FlowInv'
  <2> SUFFICES ASSUME TypeOK, ChildMatchesHandler, TerminalEnds, FlowInv, [Next]_vars,
                      NEW d \in Conns
               PROVE  FlowAt(d)'
    BY DEF FlowInv
  <2>1. FlowAt(d) /\ EndsAt(d)
    BY EndsEverywhere DEF FlowInv
  <2>2. ASSUME NEW c \in Conns, Handler(c) PROVE FlowAt(d)'
    BY <2>1, <2>2, FlowHandler, HandlerKeepsOthers, FlowUntouched
  <2> QED BY <2>1, <2>2, FlowPump, FlowGroup, FlowClient, FlowMain DEF Next
<1> QED BY FlowInit, TypeCorrect, ChildAlways, EndsAlways, <1>1, PTL DEF Spec

\* Each stream reaches the client without gap, repetition or reordering,
\* through pumps, channel and relay of any capacity.
THEOREM StreamOrder == Spec => []StreamsInOrder
<1>1. FlowInv => StreamsInOrder
  BY DEF FlowInv, FlowAt, SentInOrder, StreamsInOrder
<1> QED BY OutputFlow, <1>1, PTL

\* An Exit with a child's status never overtakes output, also when descendants
\* of the child write on after it died.
THEOREM OutputBeforeExit == Spec => []ExitAfterOutput
<1>1. FlowInv => ExitAfterOutput
  BY DEF FlowInv, FlowAt, ExitIsComplete, AllSent, ExitAfterOutput
<1> QED BY OutputFlow, <1>1, PTL

-----------------------------------------------------------------------------
(***************************************************************************)
(* The refinement: what each step of the server is to Dialogue.            *)
(***************************************************************************)

\* A step that leaves the client's view of every connection alone.
SameView ==
  /\ \A d \in Conns : Phase(d)' = Phase(d)
  /\ sent' = sent
  /\ \A d \in Conns : \A s \in Streams : written'[d][s] = written[d][s]

LEMMA Stutters == SameView => UNCHANGED D!vars
BY DEF SameView, D!vars, phaseBar, madeBar

\* Some connections fall silent.
LEMMA Silences ==
  ASSUME NEW gone \in SUBSET Conns, UNCHANGED <<sent, written>>,
         \A d \in Conns : Phase(d)' = IF d \in gone THEN "over" ELSE Phase(d)
  PROVE  D!Next
<1>1. phaseBar' = [c \in Conns |-> IF c \in gone THEN "over" ELSE phaseBar[c]]
  BY DEF phaseBar
<1>2. UNCHANGED <<sent, madeBar>>
  BY DEF madeBar
<1> QED BY <1>1, <1>2 DEF D!Next, D!FallSilent

\* What a step at c does to the phases.
LEMMA PhaseMoves ==
  ASSUME NEW c \in Conns, NEW p, Phase(c)' = p,
         \A d \in Conns \ {c} : Phase(d)' = Phase(d)
  PROVE  phaseBar' = [phaseBar EXCEPT ![c] = p]
BY DEF phaseBar

LEMMA PhaseOfOthers ==
  ASSUME NEW d \in Conns, conn'[d] = conn[d], child'[d] = child[d]
  PROVE  Phase(d)' = Phase(d)
BY DEF Phase

LEMMA PhaseIs ==
  ASSUME NEW c \in Conns
  PROVE  /\ Asking(c) /\ conn[c] # "refused" => Phase(c) = "asking"
         /\ conn[c] \in AtBridge \/ Settled(c) => Phase(c) = "talking"
         /\ conn[c] \in {"reap", "done", "dropped", "refused"} => Phase(c) = "over"
BY DEF Phase, Asking, Settled, AtBridge, AfterBridge

LEMMA DialogueInit == Init => D!Init
<1> SUFFICES ASSUME Init PROVE D!Init
  OBVIOUS
<1>0. \A c \in Conns : Phase(c) = "asking"
  <2> SUFFICES ASSUME NEW c \in Conns PROVE Phase(c) = "asking"
    OBVIOUS
  <2>1. conn[c] = "none"
    BY DEF Init
  <2> QED BY <2>1, PhaseIs DEF Asking
<1>1. phaseBar = [c \in Conns |-> "asking"]
  BY <1>0 DEF phaseBar
<1>2. madeBar = [c \in Conns |-> [s \in Streams |-> 0]]
  BY PipeNames DEF Init, madeBar
<1> QED BY <1>1, <1>2 DEF D!Init, Init

LEMMA DialogueMain ==
  ASSUME TypeOK, Main PROVE D!Next \/ UNCHANGED D!vars
<1> USE DEF wireVars, groupVars
<1>1. CASE Stop \/ BeginDrain
  BY <1>1, Stutters, PhaseOfOthers DEF SameView, Main, Stop, BeginDrain
<1>2. CASE DrainDone \/ DrainExpires
  <2> DEFINE gone == {d \in Conns : conn[d] \in Live}
  <2>1. /\ conn' = [c \in Conns |-> IF conn[c] \in Live THEN "dropped" ELSE conn[c]]
        /\ UNCHANGED <<sent, child, written>>
    BY <1>2 DEF Main, DrainDone, DrainExpires, ExitProcess
  <2>2. \A d \in Conns : Phase(d)' = IF d \in gone THEN "over" ELSE Phase(d)
    <3> SUFFICES ASSUME NEW d \in Conns
                 PROVE  Phase(d)' = IF d \in gone THEN "over" ELSE Phase(d)
      OBVIOUS
    <3>1. CASE d \in gone
      <4>1. conn'[d] = "dropped"
        BY <2>1, <3>1
      <4> QED BY <3>1, <4>1 DEF Phase, AtBridge, AfterBridge
    <3>2. CASE d \notin gone
      BY <2>1, <3>2, PhaseOfOthers
    <3> QED BY <3>1, <3>2
  <2> QED BY <2>1, <2>2, Silences
<1> QED BY <1>1, <1>2 DEF Main

LEMMA DialogueAcceptor ==
  ASSUME TypeOK, Acceptor PROVE D!Next \/ UNCHANGED D!vars
<1> USE DEF wireVars, groupVars
<1>1. ASSUME NEW c \in Conns, Accept(c) PROVE UNCHANGED D!vars
  <2>1. /\ conn[c] = "backlog" /\ conn'[c] = "first"
        /\ \A d \in Conns \ {c} : conn'[d] = conn[d]
        /\ UNCHANGED <<sent, child, written>>
    BY <1>1 DEF Acceptor, Accept, GoTo, TypeOK
  <2>2. Phase(c)' = Phase(c)
    BY <2>1 DEF Phase, AtBridge, AfterBridge
  <2>3. \A d \in Conns \ {c} : Phase(d)' = Phase(d)
    BY <2>1, PhaseOfOthers
  <2> QED BY <2>1, <2>2, <2>3, Stutters DEF SameView
<1>2. CASE Register
  BY <1>2, Stutters, PhaseOfOthers DEF SameView, Acceptor, Register
<1>3. CASE AcceptFails \/ AcceptorCancelled
  <2> DEFINE gone == {d \in Conns : conn[d] = "backlog"}
  <2>1. /\ conn' = [c \in Conns |-> IF conn[c] = "backlog" THEN "refused" ELSE conn[c]]
        /\ UNCHANGED <<sent, child, written>>
    BY <1>3 DEF Acceptor, AcceptFails, AcceptorCancelled, AcceptorEnds
  <2>2. \A d \in Conns : Phase(d)' = IF d \in gone THEN "over" ELSE Phase(d)
    <3> SUFFICES ASSUME NEW d \in Conns
                 PROVE  Phase(d)' = IF d \in gone THEN "over" ELSE Phase(d)
      OBVIOUS
    <3>1. CASE d \in gone
      <4>1. conn'[d] = "refused"
        BY <2>1, <3>1
      <4> QED BY <3>1, <4>1 DEF Phase, AtBridge, AfterBridge
    <3>2. CASE d \notin gone
      BY <2>1, <3>2, PhaseOfOthers
    <3> QED BY <3>1, <3>2
  <2> QED BY <2>1, <2>2, Silences
<1> QED BY <1>1, <1>2, <1>3 DEF Acceptor

(***************************************************************************)
(* A handler's step leaves the view of the others, and what was written.   *)
(***************************************************************************)
LEMMA PhaseBecomes ==
  ASSUME NEW c \in Conns
  PROVE  /\ conn'[c] \in {"none", "backlog", "first"} => Phase(c)' = "asking"
         /\ conn'[c] = "final" =>
              Phase(c)' = IF child'[c] = "none" THEN "asking" ELSE "talking"
         /\ conn'[c] \in AtBridge \cup {"wait", "lateAnnounce", "lateWait"} =>
              Phase(c)' = "talking"
         /\ conn'[c] \in {"reap", "done", "dropped", "refused"} => Phase(c)' = "over"
BY DEF Phase, AtBridge, AfterBridge

LEMMA HandlerView ==
  ASSUME TypeOK, NEW c \in Conns, Handler(c)
  PROVE  /\ \A d \in Conns \ {c} : Phase(d)' = Phase(d)
         /\ \A d \in Conns : \A s \in Streams : written'[d][s] = written[d][s]
<1>1. \A d \in Conns \ {c} : Untouched(d)
  BY HandlerKeepsOthers
<1>2. \A d \in Conns \ {c} : Phase(d)' = Phase(d)
  BY <1>1, PhaseOfOthers DEF Untouched
<1>3. \A s \in Streams : written'[c][s] = written[c][s]
  <2> USE StreamsAssumption, PipeNames DEF TypeOK, groupVars, Reap
  <2>1. CASE First(c)
    BY <2>1 DEF First, FirstAnswered, Spawn, FirstIsEof, FirstIsStopping
  <2>2. CASE Bridge(c)
    <3>1. CASE TakeOutput(c) \/ BridgeDrained(c) \/ TakeStopping(c)
      BY <3>1 DEF TakeOutput, BridgeDrained, TakeStopping
    <3>2. CASE FrameArm(c)
      BY <3>2 DEF FrameArm, TakeStdin, TakeStdinEof, TakeSignal, TakeMisdirected,
                  TakeEof, TakeJunk, TakeReset, Fault
    <3>3. CASE RelaySent(c) \/ FeedWritten(c) \/ FeedFails(c)
      BY <3>3 DEF RelaySent, FeedWritten, FeedFails
    <3>4. CASE RelayFails(c) \/ FaultAnswered(c) \/ Announce(c, "announce", "bridge")
      BY <3>4 DEF RelayFails, FaultAnswered, Abandon, Announce
    <3> QED BY <2>2, <3>1, <3>2, <3>3, <3>4 DEF Bridge
  <2>3. CASE After(c)
    BY <2>3 DEF After, WaitReaps, WaitFails, WaitStopping, ReapAbandoned, Announce
  <2>4. CASE SendFinal(c)
    BY <2>4 DEF SendFinal
  <2> QED BY <2>1, <2>2, <2>3, <2>4 DEF Handler
<1> QED BY <1>1, <1>2, <1>3 DEF Untouched

LEMMA HandlerStays ==
  ASSUME TypeOK, NEW c \in Conns, Handler(c), sent' = sent, Phase(c)' = Phase(c)
  PROVE  UNCHANGED D!vars
BY HandlerView, Stutters DEF SameView

\* What a handler's step is to the abstract variables.
LEMMA HandlerMaps ==
  ASSUME TypeOK, NEW c \in Conns, Handler(c)
  PROVE  /\ UNCHANGED madeBar
         /\ phaseBar' = [phaseBar EXCEPT ![c] = Phase(c)']
         /\ Phase(c)' = Phase(c) => UNCHANGED phaseBar
         /\ phaseBar[c] = Phase(c)
<1>1. UNCHANGED madeBar
  BY HandlerView DEF madeBar
<1>2. phaseBar' = [phaseBar EXCEPT ![c] = Phase(c)']
  BY HandlerView DEF phaseBar
<1>3. ASSUME Phase(c)' = Phase(c) PROVE UNCHANGED phaseBar
  BY <1>3, HandlerView DEF phaseBar
<1> QED BY <1>1, <1>2, <1>3 DEF phaseBar

LEMMA HandlerFallsSilent ==
  ASSUME TypeOK, NEW c \in Conns, Handler(c), sent' = sent, Phase(c)' = "over"
  PROVE  D!Next
<1>1. phaseBar' = [d \in Conns |-> IF d \in {c} THEN "over" ELSE phaseBar[d]]
  BY HandlerView DEF phaseBar
<1>2. UNCHANGED <<sent, madeBar>>
  BY HandlerMaps
<1> QED BY <1>1, <1>2 DEF D!Next, D!FallSilent

LEMMA HandlerWarns ==
  ASSUME TypeOK, NEW c \in Conns, Handler(c), Put(c, Frame("ServerStopping")),
         Phase(c) = "talking", Phase(c)' = "talking"
  PROVE  D!Next
<1>1. D!Warn(c)
  BY HandlerMaps DEF D!Warn, D!Say, D!Frame, Put, Frame
<1> QED BY <1>1 DEF D!Next

LEMMA HandlerConcludes ==
  ASSUME TypeOK, NEW c \in Conns, Handler(c), Put(c, reply[c]),
         Phase(c) = "talking", Phase(c)' = "over",
         \/ reply[c] = Frame("Error")
         \/ reply[c] = Frame("Exit") /\ AllSent(c)
  PROVE  D!Next
<1>1. AllSent(c) => D!AllSaid(c)
  BY DEF AllSent, D!AllSaid, IsSent, D!IsSaid, Chunk, D!Chunk, madeBar
<1>2. D!Conclude(c)
  BY <1>1, HandlerMaps DEF D!Conclude, D!Say, D!MoveTo, D!Frame, Put, Frame
<1> QED BY <1>2 DEF D!Next

LEMMA DialogueFirst ==
  ASSUME TypeOK, NEW c \in Conns, ChildMatchesHandler, Handler(c), First(c)
  PROVE  D!Next \/ UNCHANGED D!vars
<1> USE DEF First, TypeOK, GoTo, Takes, Finish, bridgeVars, wireVars, groupVars
<1>1. child[c] = "none" /\ Phase(c) = "asking"
  BY PhaseIs DEF ChildMatchesHandler, Asking
<1>2. CASE FirstAnswered(c) \/ FirstIsStopping(c)
  <2>1. conn'[c] = "final" /\ child'[c] = "none" /\ sent' = sent
    BY <1>1, <1>2 DEF FirstAnswered, FirstIsStopping
  <2> QED BY <1>1, <2>1, PhaseBecomes, HandlerStays
<1>3. CASE FirstIsEof(c)
  <2>1. conn'[c] = "done" /\ sent' = sent
    BY <1>3 DEF FirstIsEof
  <2> QED BY <2>1, PhaseBecomes, HandlerFallsSilent
<1>4. CASE Spawn(c)
  <2>1. conn'[c] = "bridge" /\ sent' = sent
    BY <1>4 DEF Spawn
  <2>2. Phase(c)' = "talking"
    BY <2>1, PhaseBecomes DEF AtBridge
  <2>3. D!Begin(c)
    BY <1>1, <2>1, <2>2, HandlerMaps DEF D!Begin, D!MoveTo
  <2> QED BY <2>3 DEF D!Next
<1> QED BY <1>2, <1>3, <1>4

\* The chunk that is relayed is the next of its stream.
LEMMA DialogueRelays ==
  ASSUME TypeOK, NEW c \in Conns, FlowAt(c), EndsAt(c), Handler(c), RelaySent(c)
  PROVE  D!Next
<1> DEFINE f == reply[c]
<1>1. conn[c] = "relay" /\ conn'[c] = "bridge" /\ Put(c, f)
  BY DEF RelaySent, GoTo, TypeOK
<1>2. f \in ServerFrames /\ f.type \in Streams /\ f = Chunk(f.type, f.n)
  BY <1>1 DEF EndsAt, TypeOK, ServerFrames, Chunk
<1>3. /\ f.n \in 1 .. taken[c][f.type] /\ ~IsSent(c, f)
      /\ \A m \in 1 .. f.n - 1 : IsSent(c, Chunk(f.type, m))
  BY <1>1 DEF FlowAt, NothingForged, InOnePlace, NothingOvertaken, AtBridge
<1>4. f.n \in 1 .. written[c][f.type]
  <2>1. taken[c][f.type] <= written[c][f.type]
    BY <1>2 DEF FlowAt, PumpsEndLast
  <2>2. taken[c][f.type] \in Nat /\ written[c][f.type] \in Nat
    BY <1>2, PipeNames DEF TypeOK
  <2> QED BY <1>3, <2>1, <2>2
<1> HIDE DEF f
<1>5. Phase(c) = "talking" /\ Phase(c)' = "talking"
  BY <1>1, PhaseIs, PhaseBecomes DEF AtBridge
<1>6. f.n \in 1 .. madeBar[c][f.type]
  BY <1>2, <1>4 DEF madeBar
<1>7. D!Relay(c, f.type)
  <2>1. /\ ~D!IsSaid(c, D!Chunk(f.type, f.n))
        /\ \A m \in 1 .. f.n - 1 : D!IsSaid(c, D!Chunk(f.type, m))
        /\ D!Say(c, D!Chunk(f.type, f.n))
    BY <1>1, <1>2, <1>3 DEF D!IsSaid, IsSent, D!Chunk, Chunk, D!Say, Put
  <2> QED BY <1>5, <1>6, <2>1, HandlerMaps DEF D!Relay
<1> QED BY <1>2, <1>7 DEF D!Next

LEMMA DialogueBridge ==
  ASSUME TypeOK, NEW c \in Conns, FlowAt(c), EndsAt(c), Handler(c), Bridge(c)
  PROVE  D!Next \/ UNCHANGED D!vars
<1> USE DEF TypeOK, GoTo, Takes, bridgeVars, wireVars, groupVars
<1>1. conn[c] \in AtBridge /\ Phase(c) = "talking"
  BY PhaseIs DEF Bridge, RelaySent, RelayFails, FeedWritten, FeedFails, FaultAnswered,
                 Announce, AtBridge
<1>2. CASE conn[c] = "bridge" /\ (TakeOutput(c) \/ BridgeDrained(c) \/ TakeStopping(c))
  <2>1. sent' = sent /\ conn'[c] \in {"relay", "wait", "announce"}
    BY <1>2 DEF TakeOutput, BridgeDrained, TakeStopping
  <2> QED BY <1>1, <2>1, PhaseBecomes, HandlerStays DEF AtBridge
<1>3. CASE conn[c] = "bridge" /\ FrameArm(c)
  <2>1. sent' = sent /\ conn'[c] \in {"bridge", "feed", "fault"}
    BY <1>3 DEF FrameArm, TakeStdin, TakeStdinEof, TakeSignal, TakeMisdirected, TakeEof,
                TakeJunk, TakeReset, Fault
  <2> QED BY <1>1, <2>1, PhaseBecomes, HandlerStays DEF AtBridge
<1>4. CASE FeedWritten(c) \/ FeedFails(c)
  <2>1. sent' = sent /\ conn'[c] = "bridge"
    BY <1>4 DEF FeedWritten, FeedFails
  <2> QED BY <1>1, <2>1, PhaseBecomes, HandlerStays DEF AtBridge
<1>5. CASE RelaySent(c)
  BY <1>5, DialogueRelays
<1>6. CASE RelayFails(c)
  BY <1>6, PhaseBecomes, HandlerFallsSilent DEF RelayFails, Abandon
<1>7. CASE FaultAnswered(c)
  <2>1. conn[c] = "fault" /\ conn'[c] = "reap" /\ PutOrFail(c, reply[c])
    BY <1>7 DEF FaultAnswered, Abandon
  <2>2. reply[c] = Frame("Error") /\ Phase(c)' = "over"
    BY <2>1, PhaseBecomes DEF FlowAt, LastWords
  <2> QED BY <1>1, <2>1, <2>2, HandlerConcludes, HandlerFallsSilent DEF PutOrFail
<1>8. CASE Announce(c, "announce", "bridge")
  <2>1. conn'[c] = "bridge" /\ PutOrFail(c, Frame("ServerStopping"))
    BY <1>8 DEF Announce
  <2>2. Phase(c)' = "talking"
    BY <2>1, PhaseBecomes DEF AtBridge
  <2> QED BY <1>1, <2>1, <2>2, HandlerWarns, HandlerStays DEF PutOrFail
<1> QED BY <1>2, <1>3, <1>4, <1>5, <1>6, <1>7, <1>8 DEF Bridge

LEMMA DialogueAfter ==
  ASSUME TypeOK, NEW c \in Conns, Handler(c), ChildMatchesHandler, After(c)
  PROVE  D!Next \/ UNCHANGED D!vars
<1> USE DEF TypeOK, GoTo, Finish, bridgeVars, wireVars, groupVars
<1>1. CASE WaitReaps(c) \/ WaitFails(c) \/ WaitStopping(c)
  <2>1. /\ sent' = sent /\ conn[c] \in {"wait", "lateWait"}
        /\ \/ conn'[c] = "final" /\ child'[c] # "none"
           \/ conn'[c] = "lateAnnounce"
    BY <1>1 DEF WaitReaps, WaitFails, WaitStopping, Reap
  <2>2. Phase(c) = "talking"
    BY <2>1, PhaseIs DEF Settled
  <2>3. Phase(c)' = "talking"
    BY <2>1, PhaseBecomes
  <2> QED BY <2>1, <2>2, <2>3, HandlerStays
<1>2. CASE ReapAbandoned(c)
  BY <1>2, PhaseBecomes, HandlerFallsSilent DEF ReapAbandoned
<1>3. CASE Announce(c, "lateAnnounce", "lateWait")
  <2>1. /\ conn[c] = "lateAnnounce" /\ conn'[c] = "lateWait"
        /\ PutOrFail(c, Frame("ServerStopping"))
    BY <1>3 DEF Announce
  <2>2. Phase(c) = "talking" /\ Phase(c)' = "talking"
    BY <2>1, PhaseIs, PhaseBecomes DEF Settled
  <2> QED BY <2>1, <2>2, HandlerWarns, HandlerStays DEF PutOrFail
<1> QED BY <1>1, <1>2, <1>3 DEF After

LEMMA DialogueFinal ==
  ASSUME TypeOK, NEW c \in Conns, FlowAt(c), Handler(c), SendFinal(c)
  PROVE  D!Next \/ UNCHANGED D!vars
<1>1. conn[c] = "final" /\ conn'[c] = "done" /\ PutOrFail(c, reply[c])
  BY DEF SendFinal, GoTo, TypeOK
<1>2. Phase(c)' = "over"
  BY <1>1, PhaseBecomes
<1>3. CASE UNCHANGED sent
  BY <1>2, <1>3, HandlerFallsSilent
<1>4. CASE Put(c, reply[c]) /\ child[c] = "none"
  <2>1. Phase(c) = "asking"
    BY <1>1, <1>4, PhaseIs DEF Asking
  <2>2. PICK t \in {"Exit", "Error", "ServerVersion", "ServerStopping"} :
          reply[c] = Frame(t)
    BY <1>1 DEF FlowAt, LastWords, Terminals
  <2>3. D!Say(c, D!Frame(t))
    BY <1>4, <2>2 DEF D!Say, D!Frame, Put, Frame
  <2>4. D!Refuse(c)
    BY <1>2, <2>1, <2>3, HandlerMaps DEF D!Refuse, D!MoveTo
  <2> QED BY <2>4 DEF D!Next
<1>5. CASE Put(c, reply[c]) /\ child[c] # "none"
  <2>1. Settled(c) /\ Phase(c) = "talking"
    BY <1>1, <1>5, PhaseIs DEF Settled
  <2>2. /\ AllSent(c)
        /\ reply[c] \in {Frame("Exit"), Frame("Error")}
    BY <1>1, <1>5, <2>1 DEF FlowAt, SettledIsComplete, LastWords
  <2> QED BY <1>2, <1>5, <2>1, <2>2, HandlerConcludes
<1> QED BY <1>1, <1>3, <1>4, <1>5 DEF PutOrFail

-----------------------------------------------------------------------------
(* The others. *)

LEMMA DialoguePump ==
  ASSUME TypeOK, NEW c \in Conns, NEW s \in Streams, Pump(c, s)
  PROVE  UNCHANGED D!vars
<1>1. UNCHANGED <<conn, child, sent, written>>
  BY DEF Pump, wireVars
<1> QED BY <1>1, PhaseOfOthers, Stutters DEF SameView

LEMMA DialogueClient ==
  ASSUME TypeOK, NEW c \in Conns, ChildMatchesHandler, Client(c)
  PROVE  UNCHANGED D!vars
<1>1. UNCHANGED <<child, sent, written>>
  BY DEF Client, groupVars
<1>2. CASE UNCHANGED conn
  BY <1>1, <1>2, PhaseOfOthers, Stutters DEF SameView
<1>3. CASE Connect(c)
  <2>1. /\ conn[c] = "none" /\ conn'[c] = "backlog"
        /\ \A d \in Conns \ {c} : conn'[d] = conn[d]
    BY <1>3 DEF Connect, GoTo, ChildMatchesHandler, TypeOK
  <2>2. Phase(c)' = Phase(c)
    BY <2>1, PhaseIs, PhaseBecomes DEF Asking
  <2>3. \A d \in Conns \ {c} : Phase(d)' = Phase(d)
    BY <1>1, <2>1, PhaseOfOthers
  <2> QED BY <1>1, <2>2, <2>3, Stutters DEF SameView
<1> QED BY <1>2, <1>3 DEF Client, ClientSends, ClientReads, ClientCloses

LEMMA DialogueGroup ==
  ASSUME TypeOK, NEW c \in Conns, FlowAt(c), Group(c)
  PROVE  D!Next \/ UNCHANGED D!vars
<1>1. UNCHANGED <<conn, sent>>
  BY DEF Group, handlerVars, wireVars
<1>2. ASSUME NEW s \in Streams, GroupWrites(c, s) PROVE D!Next
  <2>1. s \in theirs[c] /\ UNCHANGED child /\ conn[c] \notin Over
    BY <1>2 DEF GroupWrites, Group
  <2>2. UNCHANGED phaseBar
    BY <1>1, <2>1, PhaseOfOthers DEF phaseBar
  <2>3. ~Asking(c)
    BY <2>1 DEF FlowAt, QuietBefore
  <2>4. phaseBar[c] # "asking"
    <3>1. Phase(c) # "asking"
      BY <2>3 DEF Phase, Asking, AtBridge, AfterBridge
    <3> QED BY <3>1 DEF phaseBar
  <2>5. madeBar' = [madeBar EXCEPT ![c][s] = @ + 1]
    BY <1>2, PipeNames DEF madeBar, GroupWrites, TypeOK
  <2>6. D!Make(c, s)
    BY <1>1, <2>2, <2>4, <2>5 DEF D!Make
  <2> QED BY <2>6 DEF D!Next
<1>3. CASE GroupReads(c) \/ \E p \in Pipes : GroupCloses(c, p)
  <2>1. UNCHANGED <<child, written>>
    BY <1>3 DEF GroupReads, GroupCloses
  <2> QED BY <1>1, <2>1, PhaseOfOthers, Stutters DEF SameView
<1>4. CASE ChildDies(c)
  <2>1. /\ UNCHANGED written
        /\ child[c] = "running" /\ child'[c] = "zombie"
        /\ \A d \in Conns \ {c} : child'[d] = child[d]
    BY <1>4 DEF ChildDies, TypeOK
  <2>2. Phase(c)' = Phase(c)
    BY <1>1, <2>1 DEF Phase
  <2>3. \A d \in Conns \ {c} : Phase(d)' = Phase(d)
    BY <1>1, <2>1, PhaseOfOthers
  <2> QED BY <1>1, <2>1, <2>2, <2>3, Stutters DEF SameView
<1> QED BY <1>2, <1>3, <1>4 DEF Group

LEMMA DialogueStutter == UNCHANGED vars => UNCHANGED D!vars
<1> SUFFICES ASSUME UNCHANGED vars PROVE UNCHANGED D!vars
  OBVIOUS
<1>1. UNCHANGED <<conn, child, sent, written>>
  BY DEF vars, handlerVars, wireVars, groupVars
<1> QED BY <1>1, PhaseOfOthers, Stutters DEF SameView

\* ncap-server implements the dialogue: whatever clients, children and signals
\* do, a client is never told anything module Dialogue does not allow
\* (accept_loop, handle_conn, bridge, pump_output; spec/protocol.md).
THEOREM KeepsContract == Spec => KeepsDialogue
<1>1. TypeOK /\ ChildMatchesHandler /\ TerminalEnds /\ FlowInv /\ [Next]_vars
        => [D!Next]_(D!vars)
  <2> SUFFICES ASSUME TypeOK, ChildMatchesHandler, TerminalEnds, FlowInv, [Next]_vars
               PROVE  D!Next \/ UNCHANGED D!vars
    OBVIOUS
  <2>1. \A c \in Conns : FlowAt(c) /\ EndsAt(c)
    BY EndsEverywhere DEF FlowInv
  <2>2. ASSUME NEW c \in Conns, Handler(c) PROVE D!Next \/ UNCHANGED D!vars
    BY <2>1, <2>2, DialogueFirst, DialogueBridge, DialogueAfter, DialogueFinal
       DEF Handler
  <2>3. ASSUME NEW c \in Conns, NEW s \in Streams, Pump(c, s)
        PROVE  D!Next \/ UNCHANGED D!vars
    BY <2>3, DialoguePump
  <2>4. ASSUME NEW c \in Conns, Client(c) \/ Group(c)
        PROVE  D!Next \/ UNCHANGED D!vars
    BY <2>1, <2>4, DialogueClient, DialogueGroup
  <2> QED BY <2>2, <2>3, <2>4, DialogueMain, DialogueAcceptor, DialogueStutter DEF Next
<1> QED BY DialogueInit, TypeCorrect, ChildAlways, EndsAlways, OutputFlow, <1>1, PTL
        DEF Spec, KeepsDialogue, D!Spec
=============================================================================
