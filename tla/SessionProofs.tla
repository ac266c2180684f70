--------------------------- MODULE SessionProofs ---------------------------
(* What is proved of ncap and ncap-server together. *)
EXTENDS SessionProps, ServerNoticeProofs, TLAPS

(***************************************************************************)
(* A session, step by step, is a client of module Server.                  *)
(***************************************************************************)
LEMMA ClientStep ==
  ASSUME NEW c \in Conns, NEW step,
         step => Connect(c) \/ ClientSends(c) \/ ClientReads(c)
                   \/ ClientCloses(c, "half") \/ ClientCloses(c, "gone"),
         AsClient(c, step) \/ WhileOpen(c, step)
  PROVE  [Next]_vars
<1>1. CASE AsClient(c, step)
  <2>1. Client(c)
    BY <1>1 DEF AsClient, Client, Closed
  <2> QED BY <2>1 DEF Next
<1>2. CASE Unseen
  BY <1>2 DEF Unseen
<1> QED BY <1>1, <1>2 DEF WhileOpen

LEMMA LoopIsClient == ASSUME NEW c \in Conns, Loop(c) PROVE [Next]_vars
<1>1. CASE Sent(c)
  BY <1>1, ClientStep DEF Sent, Sends
<1>2. CASE TakeFrame(c)
  BY <1>2, ClientStep DEF TakeFrame
<1>3. CASE Leave(c)
  BY <1>3, ClientStep DEF Leave
<1>4. CASE SendFails(c) \/ TakeEnd(c) \/ TakeFeed(c) \/ RelaySignal(c)
  BY <1>4 DEF SendFails, TakeEnd, TakeFeed, RelaySignal, Unseen
<1> QED BY <1>1, <1>2, <1>3, <1>4 DEF Loop

LEMMA HostIsClient == ASSUME NEW c \in Conns, Host(c) PROVE [Next]_vars
<1>1. CASE Kill(c)
  BY <1>1, ClientStep DEF Kill
<1>2. CASE KillMidFrame(c)
  BY <1>2, ClientStep DEF KillMidFrame, Sends
<1>3. CASE CutOff(c)
  BY <1>3, ClientStep DEF CutOff
<1>4. CASE Interrupt(c) \/ Written(c) \/ WriteFails(c)
  BY <1>4 DEF Interrupt, Written, WriteFails, Unseen
<1> QED BY <1>1, <1>2, <1>3, <1>4 DEF Host

LEMMA ExecStep == [ExecNext]_execVars => [Next]_vars
<1> SUFFICES ASSUME [ExecNext]_execVars PROVE [Next]_vars
  OBVIOUS
<1>1. CASE MainStep
  BY <1>1 DEF MainStep, Next
<1>2. CASE ServerStep
  BY <1>2 DEF ServerStep, Next
<1>3. ASSUME NEW c \in Conns, NoSession(c) \/ Thread(c) PROVE [Next]_vars
  BY <1>3 DEF NoSession, Thread, Unseen
<1>4. ASSUME NEW c \in Conns, Connects(c) PROVE [Next]_vars
  BY <1>4, ClientStep DEF Connects
<1>5. CASE UNCHANGED execVars
  BY <1>5 DEF execVars
<1> QED BY <1>1, <1>2, <1>3, <1>4, <1>5, LoopIsClient, HostIsClient DEF ExecNext

\* ncap is one of the clients the server was verified against, so every
\* theorem about the server is one about the two together (src/client/mod.rs,
\* session and pump_stdin).
THEOREM SessionIsAClient == ExecSpec => IsAClient
<1>1. ExecInit => Init
  BY DEF ExecInit
<1> QED BY <1>1, ExecStep, PTL DEF ExecSpec, IsAClient, Spec

\* What this gives first: the server's invariants hold of the composition.
THEOREM ServerHoldsInExec == ExecSpec => [](ServerInv /\ FlowInv)
BY SessionIsAClient, ServerInvariant, OutputFlow, PTL DEF IsAClient

-----------------------------------------------------------------------------
(* Type correctness of the session's own variables. *)

LEMMA SessionTypeInit == ExecInit => SessionTypeOK
BY DEF ExecInit, SessionTypeOK, Sendings, Failures

LEMMA VerdictIs ==
  /\ DOMAIN Verdict = {"Exit", "ServerStopping", "Error"}
  /\ Verdict["Exit"] = "status" /\ Verdict["ServerStopping"] = "stopped"
  /\ Verdict["Error"] = "told"
BY DEF Verdict

\* What a session does with a frame, case by case.
LEMMA HandlesAs ==
  ASSUME NEW c, NEW f, Handles(c, f)
  PROVE  \/ f.type \in Streams /\ MoveTo(c, "write")
         \/ f = Frame("Exit") /\ Ends(c, "status")
         \/ f = Frame("ServerStopping") /\ Ends(c, "stopped")
         \/ f = Frame("Error") /\ Ends(c, "told")
BY VerdictIs DEF Handles

LEMMA LoopType == ASSUME TypeOK, SessionTypeOK, NEW c \in Conns, Loop(c) PROVE SessionTypeOK'
<1> USE DEF SessionTypeOK, stdinVars, signalVars, MoveTo, Ends, Sendings, Failures
<1>1. CASE Sent(c)
  BY <1>1 DEF Sent
<1>2. CASE SendFails(c)
  BY <1>2 DEF SendFails
<1>3. CASE TakeFrame(c)
  <2>1. /\ at' \in [Conns -> Sendings \cup {"off", "select", "write", "cut", "leaving", "over"}]
        /\ result' \in [Conns -> {"none", "status", "stopped", "told"} \cup Failures]
    <3>1. \/ MoveTo(c, "write") \/ Ends(c, "status")
          \/ Ends(c, "stopped") \/ Ends(c, "told")
      BY <1>3, HandlesAs DEF TakeFrame
    <3>2. CASE MoveTo(c, "write")
      BY <3>2
    <3>3. CASE Ends(c, "status") \/ Ends(c, "stopped") \/ Ends(c, "told")
      BY <3>3
    <3> QED BY <3>1, <3>2, <3>3
  <2>2. got' = [got EXCEPT ![c] = @ + 1] /\ UNCHANGED <<stdinVars, signalVars, torn>>
    BY <1>3, Zenon DEF TakeFrame
  <2> QED BY <2>1, <2>2
<1>4. CASE TakeEnd(c)
  <2>1. EndOfStream(c) \subseteq {"stopped", "receive"}
    BY DEF EndOfStream
  <2> QED BY <1>4, <2>1 DEF TakeEnd
<1>5. CASE TakeFeed(c)
  <2>1. feed[c] \in Seq({"Stdin", "StdinEof"})
    OBVIOUS
  <2>2. CASE feed[c] # <<>>
    <3>1. Head(feed[c]) \in {"Stdin", "StdinEof"} /\ Tail(feed[c]) \in Seq({"Stdin", "StdinEof"})
      BY <2>1, <2>2
    <3> QED BY <1>5, <2>2, <3>1 DEF TakeFeed
  <2> QED BY <1>5, <2>2 DEF TakeFeed
<1>6. CASE RelaySignal(c)
  BY <1>6 DEF RelaySignal
<1>7. CASE Leave(c)
  BY <1>7 DEF Leave
<1> QED BY <1>1, <1>2, <1>3, <1>4, <1>5, <1>6, <1>7 DEF Loop

LEMMA HostType == ASSUME SessionTypeOK, NEW c \in Conns, Host(c) PROVE SessionTypeOK'
<1> USE DEF SessionTypeOK, stdinVars, signalVars, loopVars, MoveTo, Ends, Sendings, Failures
<1>1. CASE Interrupt(c)
  BY <1>1 DEF Interrupt
<1>2. CASE Kill(c) \/ KillMidFrame(c)
  BY <1>2 DEF Kill, KillMidFrame
<1>3. CASE CutOff(c) \/ Written(c) \/ WriteFails(c)
  BY <1>3 DEF CutOff, Written, WriteFails
<1> QED BY <1>1, <1>2, <1>3 DEF Host

LEMMA ThreadType == ASSUME SessionTypeOK, NEW c \in Conns, Thread(c) PROVE SessionTypeOK'
<1> USE DEF SessionTypeOK, signalVars, loopVars, Thread
<1>1. \A q \in Seq({"Stdin", "StdinEof"}) : \A x \in {"Stdin", "StdinEof"} :
        Append(q, x) \in Seq({"Stdin", "StdinEof"})
  OBVIOUS
<1>2. CASE ThreadReads(c)
  BY <1>1, <1>2 DEF ThreadReads
<1>3. CASE ThreadEnds(c)
  BY <1>1, <1>3 DEF ThreadEnds
<1> QED BY <1>2, <1>3

LEMMA SessionType ==
  ASSUME TypeOK, SessionTypeOK, [ExecNext]_execVars PROVE SessionTypeOK'
<1> USE DEF SessionTypeOK, sessionVars, loopVars, stdinVars, signalVars
<1>1. CASE MainStep
  BY <1>1 DEF MainStep
<1>2. CASE ServerStep \/ UNCHANGED execVars
  BY <1>2 DEF ServerStep, execVars
<1>3. ASSUME NEW c \in Conns, NoSession(c) PROVE SessionTypeOK'
  BY <1>3 DEF NoSession, Failures
<1>4. ASSUME NEW c \in Conns, Connects(c) PROVE SessionTypeOK'
  BY <1>4 DEF Connects, MoveTo, Sendings
<1> QED BY <1>1, <1>2, <1>3, <1>4, LoopType, HostType, ThreadType DEF ExecNext

-----------------------------------------------------------------------------
(***************************************************************************)
(* The invariant, connection by connection.  Half of the steps change      *)
(* nothing of the session, half nothing of its server but the socket.      *)
(***************************************************************************)
SessionAt(c) ==
  /\ SessionMatchesClient(c) /\ ReadsInStep(c) /\ HeardSoFar(c) /\ JunkIsCut(c)
  /\ LastWordSaid(c) /\ SendHasCause(c)
  /\ EndIsLast(c) /\ StdinKept(c) /\ InputCounted(c)

LEMMA SessionEverywhere ==
  SessionInv <=> SessionTypeOK /\ \A c \in Conns : SessionAt(c)
BY DEF SessionInv, SessionAt

\* What a step leaves as it was at connection d: of the session, of its
\* server as far as the session depends on it.
SessionSame(d) ==
  /\ at'[d] = at[d] /\ result'[d] = result[d] /\ got'[d] = got[d]
  /\ thread'[d] = thread[d] /\ typed'[d] = typed[d] /\ feed'[d] = feed[d]
  /\ stdinOpen'[d] = stdinOpen[d] /\ pending'[d] = pending[d] /\ raised'[d] = raised[d]

SocketSame(d) ==
  /\ inbox'[d] = inbox[d] /\ read'[d] = read[d] /\ client'[d] = client[d]

ServerSame(d) == Untouched(d) /\ SocketSame(d)

\* What is left of a queue when its head is taken.
LEMMA TailIs ==
  ASSUME NEW S, NEW q \in Seq(S), q # <<>>
  PROVE  /\ Head(q) = q[1] /\ q[1] \in S /\ Tail(q) \in Seq(S)
         /\ Len(q) \in Nat \ {0} /\ DOMAIN q = 1 .. Len(q)
         /\ Len(Tail(q)) = Len(q) - 1 /\ DOMAIN Tail(q) = 1 .. Len(q) - 1
         /\ \A i \in 1 .. Len(q) - 1 : Tail(q)[i] = q[i + 1]
         /\ Len(q) = 1 => Tail(q) = <<>>
<1>1. Head(q) = q[1] /\ q[1] \in S /\ Tail(q) \in Seq(S)
  OBVIOUS
<1>2. Len(q) \in Nat \ {0} /\ DOMAIN q = 1 .. Len(q)
  OBVIOUS
<1>3. /\ Len(Tail(q)) = Len(q) - 1 /\ DOMAIN Tail(q) = 1 .. Len(q) - 1
      /\ \A i \in 1 .. Len(q) - 1 : Tail(q)[i] = q[i + 1]
  OBVIOUS
<1>4. \A p \in Seq(S) : Len(p) = 0 => p = <<>>
  OBVIOUS
<1>5. Len(q) = 1 => Tail(q) = <<>>
  BY <1>1, <1>3, <1>4
<1> QED BY <1>1, <1>2, <1>3, <1>5

\* The number of chunks of input in a queue.
LEMMA ChunksAre == \A q : Chunks(q) = Times(q, "Stdin")
BY DEF Chunks, Times

LEMMA ChunksNone == Chunks(<<>>) = 0
BY ChunksAre, TimesNone

LEMMA ChunksAppended ==
  ASSUME NEW S, NEW q \in Seq(S), NEW y \in S
  PROVE  /\ Chunks(q) \in Nat
         /\ Chunks(Append(q, y)) = IF y = "Stdin" THEN Chunks(q) + 1 ELSE Chunks(q)
<1>1. Times(q, "Stdin") \in Nat
  BY TimesType
<1>2. Times(Append(q, y), "Stdin") =
        IF y = "Stdin" THEN Times(q, "Stdin") + 1 ELSE Times(q, "Stdin")
  BY TimesAppended
<1> QED BY <1>1, <1>2, ChunksAre

\* The tail of a queue has its elements one place further to the front.
LEMMA ChunksTaken ==
  ASSUME NEW S, NEW q \in Seq(S), q # <<>>
  PROVE  Chunks(q) = IF Head(q) = "Stdin" THEN Chunks(Tail(q)) + 1 ELSE Chunks(Tail(q))
<1> DEFINE rest == {i \in DOMAIN q : q[i] = "Stdin"} \ {1}
           front == {i \in DOMAIN Tail(q) : Tail(q)[i] = "Stdin"}
           back == [i \in rest |-> i - 1]
<1>1. /\ Len(q) \in Nat /\ Len(q) > 0 /\ DOMAIN q = 1 .. Len(q) /\ Head(q) = q[1]
      /\ DOMAIN Tail(q) = 1 .. Len(q) - 1
      /\ \A i \in 1 .. Len(q) - 1 : Tail(q)[i] = q[i + 1]
  BY TailIs
<1>2. IsFiniteSet(rest)
  <2>1. IsFiniteSet(1 .. Len(q))
    BY <1>1, FS_Interval
  <2>2. rest \in SUBSET (1 .. Len(q))
    BY <1>1
  <2> QED BY <2>1, <2>2, FS_Subset
<1>3. back \in Bijection(rest, front)
  <2>1. \A i \in rest : i - 1 \in front
    BY <1>1
  <2>2. \A i, j \in rest : i - 1 = j - 1 => i = j
    BY <1>1
  <2>3. \A k \in front : k + 1 \in rest /\ (k + 1) - 1 = k
    BY <1>1
  <2> HIDE DEF rest, front
  <2>4. back \in [rest -> front]
    BY <2>1
  <2>5. \A k \in front : \E i \in rest : back[i] = k
    BY <2>3
  <2> QED BY <2>2, <2>4, <2>5 DEF Bijection, Injection, Surjection, IsInjective
<1> HIDE DEF rest, front, back
<1>4. Cardinality(front) = Cardinality(rest)
  <2>1. ExistsBijection(rest, front)
    BY <1>3 DEF ExistsBijection
  <2> QED BY <1>2, <2>1, FS_Bijection
<1>5. Cardinality(rest) \in Nat
  BY <1>2, FS_CardinalityType
<1>6. CASE q[1] = "Stdin"
  <2>1. {i \in DOMAIN q : q[i] = "Stdin"} = rest \cup {1} /\ 1 \notin rest
    BY <1>1, <1>6 DEF rest
  <2>2. Cardinality(rest \cup {1}) = Cardinality(rest) + 1
    BY <1>2, <2>1, FS_AddElement
  <2>3. Chunks(q) = Cardinality(rest) + 1
    BY <2>1, <2>2 DEF Chunks
  <2>4. Chunks(Tail(q)) = Cardinality(rest)
    BY <1>4 DEF Chunks, front
  <2> QED BY <1>1, <1>5, <1>6, <2>3, <2>4
<1>7. CASE q[1] # "Stdin"
  <2>1. {i \in DOMAIN q : q[i] = "Stdin"} = rest
    BY <1>7 DEF rest
  <2>2. Chunks(q) = Cardinality(rest) /\ Chunks(Tail(q)) = Cardinality(rest)
    BY <1>4, <2>1 DEF Chunks, front
  <2> QED BY <1>1, <1>5, <1>7, <2>2
<1> QED BY <1>6, <1>7

LEMMA InputTypes ==
  ASSUME TypeOK, SessionTypeOK, NEW c \in Conns
  PROVE  /\ typed[c] \in Nat /\ written[c]["Stdin"] \in Nat
         /\ Chunks(inbox[c]) \in Nat /\ Chunks(feed[c]) \in Nat
         /\ inbox[c] \in Seq(ClientFrames) /\ feed[c] \in Seq({"Stdin", "StdinEof"})
<1>1. /\ inbox[c] \in Seq(ClientFrames) /\ feed[c] \in Seq({"Stdin", "StdinEof"})
      /\ typed[c] \in Nat /\ written[c]["Stdin"] \in Nat
  BY PipeNames DEF TypeOK, SessionTypeOK
<1>2. "Stdin" \in ClientFrames /\ "Stdin" \in {"Stdin", "StdinEof"}
  BY DEF ClientFrames
<1> QED BY <1>1, <1>2, ChunksAppended

LEMMA SessionStart == ExecInit => SessionInv
<1> SUFFICES ASSUME ExecInit, NEW c \in Conns PROVE SessionAt(c)
  BY SessionTypeInit, SessionEverywhere
<1>1. /\ client[c] = "none" /\ conn[c] = "none" /\ at[c] = "off" /\ result[c] = "none"
      /\ got[c] = 0 /\ sent[c] = <<>> /\ read[c] = 0 /\ inbox[c] = <<>>
      /\ child[c] = "none" /\ typed[c] = 0 /\ raised[c] = 0 /\ pending[c] = {}
      /\ feed[c] = <<>> /\ thread[c] = "off" /\ stdinOpen[c] = TRUE
      /\ written[c]["Stdin"] = 0
  BY PipeNames DEF ExecInit, Init
<1>2. SessionMatchesClient(c) /\ ReadsInStep(c) /\ HeardSoFar(c) /\ JunkIsCut(c)
  BY <1>1 DEF SessionMatchesClient, ReadsInStep, HeardSoFar, JunkIsCut, Sendings
<1>3. LastWordSaid(c) /\ SendHasCause(c) /\ EndIsLast(c) /\ StdinKept(c)
  BY <1>1 DEF LastWordSaid, IsSent, SendHasCause, EndIsLast, StdinKept, AtBridge
<1>4. InputCounted(c)
  BY <1>1, ChunksNone DEF InputCounted, InputTracked, OneIf
<1> QED BY <1>2, <1>3, <1>4 DEF SessionAt

\* Nothing changes at d, and a server that is stopping does not recover.
LEMMA SessionUntouched ==
  ASSUME NEW d \in Conns, SessionAt(d), SessionSame(d), ServerSame(d),
         Stopping => Stopping'
  PROVE  SessionAt(d)'
<1> USE DEF SessionAt, SessionSame, ServerSame, SocketSame, Untouched
<1>1. SessionMatchesClient(d)' /\ ReadsInStep(d)' /\ HeardSoFar(d)' /\ JunkIsCut(d)'
  BY DEF SessionMatchesClient, ReadsInStep, HeardSoFar, JunkIsCut, Closed
<1>2. LastWordSaid(d)' /\ SendHasCause(d)'
  BY DEF LastWordSaid, IsSent, Gone, SendHasCause, Closed
<1>3. EndIsLast(d)' /\ StdinKept(d)' /\ InputCounted(d)'
  BY DEF EndIsLast, StdinKept, InputCounted, InputTracked
<1> QED BY <1>1, <1>2, <1>3

\* A step of the client is one at its own connection only.
LEMMA UnseenIsAside ==
  ASSUME Unseen, NEW d \in Conns PROVE ServerSame(d) /\ UNCHANGED main
BY DEF Unseen, vars, mainVars, handlerVars, bridgeVars, wireVars, clientVars, groupVars,
       ServerSame, Untouched, SocketSame

LEMMA ClientIsAside ==
  ASSUME TypeOK, NEW c \in Conns, NEW step,
         step => Connect(c) \/ ClientSends(c) \/ ClientReads(c) \/ ClientCloses(c, "gone"),
         AsClient(c, step) \/ WhileOpen(c, step), NEW d \in Conns, d # c
  PROVE  ServerSame(d) /\ UNCHANGED main
<1>1. CASE AsClient(c, step)
  <2>1. Connect(c) \/ ClientSends(c) \/ ClientReads(c) \/ ClientCloses(c, "gone")
    BY <1>1 DEF AsClient
  <2>2. UNCHANGED <<mainVars, reply, bridgeVars, sent, groupVars>>
    BY <1>1 DEF AsClient
  <2>3. inbox'[d] = inbox[d] /\ read'[d] = read[d] /\ client'[d] = client[d] /\ conn'[d] = conn[d]
    BY <2>1 DEF Connect, ClientSends, ClientReads, ClientCloses, GoTo, TypeOK
  <2> QED BY <2>2, <2>3 DEF mainVars, bridgeVars, groupVars, ServerSame, Untouched, SocketSame
<1>2. CASE Unseen
  BY <1>2, UnseenIsAside
<1> QED BY <1>1, <1>2 DEF WhileOpen

LEMMA SessionTouchesOne ==
  ASSUME TypeOK, SessionTypeOK, NEW c \in Conns,
         NoSession(c) \/ Connects(c) \/ Loop(c) \/ Thread(c) \/ Host(c),
         NEW d \in Conns, d # c
  PROVE  SessionSame(d) /\ ServerSame(d) /\ UNCHANGED main
<1> USE DEF SessionTypeOK, SessionSame, stdinVars, signalVars, loopVars, MoveTo, Ends
<1>1. CASE NoSession(c)
  BY <1>1, UnseenIsAside DEF NoSession
<1>2. CASE Connects(c)
  <2>1. SessionSame(d)
    BY <1>2 DEF Connects
  <2>2. ServerSame(d) /\ UNCHANGED main
    BY <1>2, ClientIsAside DEF Connects
  <2> QED BY <2>1, <2>2
<1>3. CASE Loop(c)
  <2>1. CASE Sent(c)
    <3>1. SessionSame(d)
      BY <2>1 DEF Sent
    <3>2. ServerSame(d) /\ UNCHANGED main
      BY <2>1, ClientIsAside DEF Sent, Sends
    <3> QED BY <3>1, <3>2
  <2>2. CASE TakeFrame(c)
    <3>1. /\ got' = [got EXCEPT ![c] = @ + 1] /\ UNCHANGED <<stdinVars, signalVars, torn>>
          /\ Handles(c, sent[c][got[c] + 1])
      BY <2>2, Zenon DEF TakeFrame
    <3>2. \/ MoveTo(c, "write") \/ Ends(c, "status")
          \/ Ends(c, "stopped") \/ Ends(c, "told")
      BY <3>1, HandlesAs
    <3>3. SessionSame(d)
      BY <3>1, <3>2
    <3>4. ServerSame(d) /\ UNCHANGED main
      BY <2>2, ClientIsAside DEF TakeFrame
    <3> QED BY <3>3, <3>4
  <2>3. CASE Leave(c)
    <3>1. SessionSame(d)
      BY <2>3 DEF Leave
    <3>2. ServerSame(d) /\ UNCHANGED main
      BY <2>3, ClientIsAside DEF Leave
    <3> QED BY <3>1, <3>2
  <2>4. CASE SendFails(c) \/ TakeEnd(c) \/ TakeFeed(c) \/ RelaySignal(c)
    BY <2>4, UnseenIsAside DEF SendFails, TakeEnd, TakeFeed, RelaySignal
  <2> QED BY <1>3, <2>1, <2>2, <2>3, <2>4 DEF Loop
<1>4. CASE Thread(c)
  BY <1>4, UnseenIsAside DEF Thread, ThreadReads, ThreadEnds
<1>5. CASE Host(c)
  <2>1. CASE Interrupt(c) \/ Written(c) \/ WriteFails(c)
    BY <2>1, UnseenIsAside DEF Interrupt, Written, WriteFails
  <2>2. CASE Kill(c) \/ CutOff(c)
    <3>1. SessionSame(d)
      BY <2>2 DEF Kill, CutOff
    <3>2. ServerSame(d) /\ UNCHANGED main
      BY <2>2, ClientIsAside DEF Kill, CutOff
    <3> QED BY <3>1, <3>2
  <2>3. CASE KillMidFrame(c)
    <3>1. SessionSame(d)
      BY <2>3 DEF KillMidFrame
    <3>2. ServerSame(d) /\ UNCHANGED main
      BY <2>3, ClientIsAside DEF KillMidFrame, Sends
    <3> QED BY <3>1, <3>2
  <2> QED BY <1>5, <2>1, <2>2, <2>3 DEF Host
<1> QED BY <1>1, <1>2, <1>3, <1>4, <1>5

-----------------------------------------------------------------------------
(* The session's steps, at its own connection. *)

InputSame(c) ==
  /\ thread'[c] = thread[c] /\ typed'[c] = typed[c] /\ feed'[c] = feed[c]
  /\ stdinOpen'[c] = stdinOpen[c]
SignalsSame(c) == pending'[c] = pending[c] /\ raised'[c] = raised[c]

\* A session that ends, or has ended and leaves.
LEMMA SessionIsOver ==
  ASSUME TypeOK, NEW c \in Conns, SessionAt(c), Untouched(c), UNCHANGED main,
         InputSame(c), SignalsSame(c),
         inbox'[c] \in {inbox[c], Append(inbox[c], "Junk")},
         at'[c] \in {"leaving", "cut", "over"}, result'[c] # "none",
         client'[c] = client[c] \/ (client'[c] = "gone" /\ at'[c] = "over"),
         client[c] = "gone" => at'[c] = "over",
         got'[c] <= Len(sent[c]), ~Closed(c) => got'[c] = read'[c],
         result'[c] = "status" => got'[c] > 0 /\ sent[c][got'[c]] = Frame("Exit"),
         result'[c] = "send" =>
           typed[c] # 0 \/ raised[c] # 0 \/ (Closed(c) /\ child[c] = "none")
  PROVE  SessionAt(c)'
<1> USE DEF SessionAt, Untouched, InputSame, SignalsSame
<1>1. inbox[c] \in Seq(ClientFrames)
  BY DEF TypeOK
<1>2. SessionMatchesClient(c)' /\ ReadsInStep(c)' /\ HeardSoFar(c)' /\ JunkIsCut(c)'
  BY DEF SessionMatchesClient, ReadsInStep, HeardSoFar, JunkIsCut, Closed, Sendings
<1>3. LastWordSaid(c)'
  BY DEF LastWordSaid, IsSent, Gone, Stopping
<1>4. SendHasCause(c)'
  BY DEF SendHasCause, Closed
<1>5. EndIsLast(c)'
  <2>1. ASSUME NEW i \in DOMAIN inbox'[c], inbox'[c][i] = "StdinEof"
        PROVE  ~stdinOpen[c] /\ \A j \in i + 1 .. Len(inbox'[c]) : inbox'[c][j] # "Stdin"
    <3>1. CASE inbox'[c] = inbox[c]
      BY <2>1, <3>1 DEF EndIsLast
    <3>2. CASE inbox'[c] = Append(inbox[c], "Junk")
      <4>1. /\ i \in DOMAIN inbox[c] /\ inbox[c][i] = "StdinEof"
            /\ \A j \in i + 1 .. Len(inbox'[c]) :
                 inbox'[c][j] = "Junk" \/ (j \in i + 1 .. Len(inbox[c]) /\ inbox'[c][j] = inbox[c][j])
        BY <1>1, <2>1, <3>2
      <4> QED BY <4>1 DEF EndIsLast
    <3> QED BY <3>1, <3>2
  <2> QED BY <2>1 DEF EndIsLast
<1>6. StdinKept(c)' /\ InputCounted(c)'
  BY DEF StdinKept, InputCounted, InputTracked
<1> QED BY <1>2, <1>3, <1>4, <1>5, <1>6

\* What becomes of the socket, at its own connection.
LEMMA CloseAt ==
  ASSUME TypeOK, NEW c \in Conns, WhileOpen(c, ClientCloses(c, "gone"))
  PROVE  /\ Untouched(c) /\ UNCHANGED main /\ inbox'[c] = inbox[c] /\ read'[c] = read[c]
         /\ client'[c] \in {client[c], "gone"}
         /\ Closed(c) => client'[c] = client[c]
<1>1. CASE AsClient(c, ClientCloses(c, "gone")) /\ ~Closed(c)
  BY <1>1 DEF AsClient, ClientCloses, mainVars, bridgeVars, groupVars, Untouched, TypeOK
<1>2. CASE Unseen
  BY <1>2, UnseenIsAside DEF ServerSame, SocketSame
<1> QED BY <1>1, <1>2 DEF WhileOpen, AsClient

LEMMA ReadAt ==
  ASSUME TypeOK, NEW c \in Conns, WhileOpen(c, ClientReads(c))
  PROVE  /\ Untouched(c) /\ UNCHANGED main
         /\ inbox'[c] = inbox[c] /\ client'[c] = client[c]
         /\ ~Closed(c) => read'[c] = read[c] + 1
<1>1. CASE AsClient(c, ClientReads(c)) /\ ~Closed(c)
  BY <1>1 DEF AsClient, ClientReads, mainVars, bridgeVars, groupVars, Untouched, TypeOK
<1>2. CASE Unseen /\ Closed(c)
  BY <1>2, UnseenIsAside DEF ServerSame, SocketSame
<1> QED BY <1>1, <1>2 DEF WhileOpen, AsClient

LEMMA SendAt ==
  ASSUME TypeOK, NEW c \in Conns, NEW f, AsClient(c, Sends(c, f))
  PROVE  /\ Untouched(c) /\ UNCHANGED main /\ ~Closed(c) /\ client[c] = "open"
         /\ inbox'[c] = Append(inbox[c], f)
         /\ client'[c] = client[c] /\ read'[c] = read[c]
BY DEF AsClient, Sends, ClientSends, mainVars, bridgeVars, groupVars, Untouched, TypeOK

LEMMA KeptNoSession ==
  ASSUME TypeOK, SessionTypeOK, NEW c \in Conns, SessionAt(c), NoSession(c)
  PROVE  SessionAt(c)'
<1>1. /\ ServerSame(c) /\ UNCHANGED main
      /\ at[c] = "off" /\ at'[c] = "over" /\ result'[c] \in {"local", "connect"}
      /\ got'[c] = got[c] /\ InputSame(c) /\ SignalsSame(c)
  BY UnseenIsAside DEF NoSession, SessionTypeOK, InputSame, SignalsSame, stdinVars, signalVars
<1> QED BY <1>1, SessionIsOver DEF ServerSame, SocketSame, SessionAt, ReadsInStep

LEMMA KeptLeave ==
  ASSUME TypeOK, SessionTypeOK, NEW c \in Conns, SessionAt(c), Leave(c) \/ CutOff(c)
  PROVE  SessionAt(c)'
<1>1. /\ at[c] \in {"leaving", "cut"} /\ at'[c] = "over" /\ result'[c] = result[c]
      /\ got'[c] = got[c] /\ InputSame(c) /\ SignalsSame(c)
      /\ WhileOpen(c, ClientCloses(c, "gone"))
  BY DEF Leave, CutOff, MoveTo, SessionTypeOK, InputSame, SignalsSame, stdinVars, signalVars
<1>2. /\ Untouched(c) /\ UNCHANGED main /\ inbox'[c] = inbox[c] /\ read'[c] = read[c]
      /\ client'[c] \in {client[c], "gone"}
  BY <1>1, CloseAt
<1>3. result[c] # "none"
  BY <1>1 DEF SessionAt, SessionMatchesClient, Sendings
<1> QED BY <1>1, <1>2, <1>3, SessionIsOver
        DEF SessionAt, ReadsInStep, HeardSoFar, SendHasCause

LEMMA KeptKill ==
  ASSUME TypeOK, SessionTypeOK, NEW c \in Conns, SessionAt(c), Kill(c) \/ KillMidFrame(c)
  PROVE  SessionAt(c)'
<1>1. /\ at[c] \notin {"off", "over"} /\ result'[c] = "killed"
      /\ got'[c] = got[c] /\ InputSame(c) /\ SignalsSame(c)
      /\ at'[c] = IF Kill(c) THEN "over" ELSE "cut"
  BY DEF Kill, KillMidFrame, SessionTypeOK, InputSame, SignalsSame, stdinVars, signalVars,
         Sendings
<1>2. CASE Kill(c)
  <2>1. /\ Untouched(c) /\ UNCHANGED main /\ inbox'[c] = inbox[c] /\ read'[c] = read[c]
        /\ client'[c] \in {client[c], "gone"}
    BY <1>2, CloseAt DEF Kill
  <2> QED BY <1>1, <1>2, <2>1, SessionIsOver DEF SessionAt, ReadsInStep
<1>3. CASE KillMidFrame(c) /\ ~Kill(c)
  <2>1. /\ Untouched(c) /\ UNCHANGED main /\ client[c] = "open"
        /\ inbox'[c] = Append(inbox[c], "Junk")
        /\ client'[c] = client[c] /\ read'[c] = read[c]
    BY <1>3, SendAt DEF KillMidFrame
  <2> QED BY <1>1, <1>3, <2>1, SessionIsOver DEF SessionAt, ReadsInStep
<1> QED BY <1>2, <1>3

\* A session that goes on, at a place where it sends no input.
LEMMA SessionMovesOn ==
  ASSUME TypeOK, SessionTypeOK, NEW c \in Conns, SessionAt(c), UNCHANGED main,
         Untouched(c), inbox'[c] = inbox[c], client'[c] = client[c],
         InputSame(c), SignalsSame(c), result[c] = "none", result'[c] = "none",
         at[c] \in {"select", "write"}, at'[c] \in {"select", "write", "Signal"},
         at'[c] = "Signal" => raised[c] # 0,
         got'[c] <= Len(sent[c]), ~Closed(c) => got'[c] = read'[c],
         \A i \in 1 .. got'[c] : sent[c][i].type \in Streams
  PROVE  SessionAt(c)'
<1> USE DEF SessionAt, Untouched, InputSame, SignalsSame
<1>1. SessionMatchesClient(c)' /\ ReadsInStep(c)' /\ HeardSoFar(c)' /\ JunkIsCut(c)'
  BY DEF SessionMatchesClient, ReadsInStep, HeardSoFar, JunkIsCut, Closed, Sendings
<1>2. LastWordSaid(c)'
  BY DEF LastWordSaid, IsSent, Gone, Stopping
<1>3. SendHasCause(c)'
  BY DEF SendHasCause, Closed
<1>4. EndIsLast(c)' /\ StdinKept(c)'
  BY DEF EndIsLast, StdinKept
<1>5. InputCounted(c)'
  BY DEF InputCounted, InputTracked, OneIf
<1> QED BY <1>1, <1>2, <1>3, <1>4, <1>5

LEMMA KeptWrite ==
  ASSUME TypeOK, SessionTypeOK, NEW c \in Conns, SessionAt(c), Written(c) \/ WriteFails(c)
  PROVE  SessionAt(c)'
<1>1. /\ ServerSame(c) /\ UNCHANGED main /\ at[c] = "write"
      /\ got'[c] = got[c] /\ InputSame(c) /\ SignalsSame(c)
      /\ \/ at'[c] = "select" /\ result'[c] = result[c]
         \/ at'[c] = "leaving" /\ result'[c] = "write"
  BY UnseenIsAside DEF Written, WriteFails, MoveTo, Ends, SessionTypeOK, InputSame,
                       SignalsSame, stdinVars, signalVars
<1>2. result[c] = "none" /\ client[c] # "gone"
  BY <1>1 DEF SessionAt, SessionMatchesClient
<1>3. CASE at'[c] = "select" /\ result'[c] = result[c]
  BY <1>1, <1>2, <1>3, SessionMovesOn
     DEF SessionAt, ReadsInStep, HeardSoFar, ServerSame, SocketSame
<1>4. CASE at'[c] = "leaving" /\ result'[c] = "write"
  BY <1>1, <1>2, <1>4, SessionIsOver DEF SessionAt, ReadsInStep, ServerSame, SocketSame
<1> QED BY <1>1, <1>3, <1>4

LEMMA KeptRelaySignal ==
  ASSUME TypeOK, SessionTypeOK, NEW c \in Conns, SessionAt(c), RelaySignal(c)
  PROVE  SessionAt(c)'
<1>1. /\ ServerSame(c) /\ UNCHANGED main /\ at[c] = "select" /\ at'[c] = "Signal"
      /\ result'[c] = result[c] /\ got'[c] = got[c] /\ InputSame(c)
      /\ raised'[c] = raised[c] /\ pending[c] # {}
  BY UnseenIsAside DEF RelaySignal, MoveTo, SessionTypeOK, InputSame, stdinVars
<1>2. result[c] = "none" /\ raised[c] # 0
  BY <1>1 DEF SessionAt, SessionMatchesClient, SendHasCause
<1> USE DEF SessionAt, ServerSame, SocketSame, Untouched, InputSame
<1>3. SessionMatchesClient(c)' /\ ReadsInStep(c)' /\ HeardSoFar(c)' /\ JunkIsCut(c)'
  BY <1>1, <1>2 DEF SessionMatchesClient, ReadsInStep, HeardSoFar, JunkIsCut, Closed, Sendings
<1>4. LastWordSaid(c)' /\ SendHasCause(c)'
  BY <1>1, <1>2 DEF LastWordSaid, IsSent, Gone, Stopping, SendHasCause, Closed
<1>5. EndIsLast(c)' /\ StdinKept(c)' /\ InputCounted(c)'
  BY <1>1, <1>2 DEF EndIsLast, StdinKept, InputCounted, InputTracked, OneIf
<1> QED BY <1>3, <1>4, <1>5

LEMMA KeptTakeFrame ==
  ASSUME TypeOK, SessionTypeOK, NEW c \in Conns, SessionAt(c), TakeFrame(c)
  PROVE  SessionAt(c)'
<1> DEFINE f == sent[c][got[c] + 1]
<1>1. /\ at[c] = "select" /\ got[c] < Len(sent[c]) /\ got' = [got EXCEPT ![c] = @ + 1]
      /\ Handles(c, f) /\ UNCHANGED <<stdinVars, signalVars, torn>>
  BY Zenon DEF TakeFrame
<1>2. /\ Untouched(c) /\ UNCHANGED main
      /\ inbox'[c] = inbox[c] /\ client'[c] = client[c]
      /\ ~Closed(c) => read'[c] = read[c] + 1
  BY ReadAt DEF TakeFrame
<1>3. /\ got'[c] = got[c] + 1 /\ got'[c] <= Len(sent[c]) /\ got[c] \in Nat
      /\ Len(sent[c]) \in Nat
      /\ InputSame(c) /\ SignalsSame(c)
  BY <1>1 DEF SessionTypeOK, TypeOK, InputSame, SignalsSame, stdinVars, signalVars
<1>4. /\ result[c] = "none" /\ client[c] # "gone"
      /\ \A i \in 1 .. got[c] : sent[c][i].type \in Streams
  BY <1>1 DEF SessionAt, SessionMatchesClient, HeardSoFar
<1>5. ~Closed(c) => got'[c] = read'[c]
  BY <1>2, <1>3 DEF SessionAt, ReadsInStep
<1>6. CASE f.type \in Streams /\ MoveTo(c, "write")
  <2>1. at'[c] = "write" /\ result'[c] = "none"
    BY <1>4, <1>6 DEF MoveTo, SessionTypeOK
  <2>2. \A i \in 1 .. got'[c] : sent[c][i].type \in Streams
    BY <1>3, <1>4, <1>6
  <2> QED BY <1>1, <1>2, <1>3, <1>4, <1>5, <2>1, <2>2, SessionMovesOn
<1>7. CASE \/ f = Frame("Exit") /\ Ends(c, "status")
           \/ Ends(c, "stopped") \/ Ends(c, "told")
  <2>1. /\ at'[c] = "leaving" /\ result'[c] \in {"status", "stopped", "told"}
        /\ result'[c] = "status" => sent[c][got'[c]] = Frame("Exit")
    BY <1>3, <1>7 DEF Ends, SessionTypeOK
  <2> QED BY <1>2, <1>3, <1>4, <1>5, <2>1, SessionIsOver
<1> QED BY <1>1, <1>6, <1>7, HandlesAs

LEMMA KeptTakeEnd ==
  ASSUME TypeOK, SessionTypeOK, NEW c \in Conns, SessionAt(c), TakeEnd(c)
  PROVE  SessionAt(c)'
<1>1. /\ ServerSame(c) /\ UNCHANGED main /\ at[c] = "select" /\ at'[c] = "leaving"
      /\ result'[c] \in {"stopped", "receive"}
      /\ got'[c] = got[c] /\ InputSame(c) /\ SignalsSame(c)
  BY UnseenIsAside DEF TakeEnd, EndOfStream, Ends, SessionTypeOK, InputSame, SignalsSame,
                       stdinVars, signalVars
<1>2. client[c] # "gone"
  BY <1>1 DEF SessionAt, SessionMatchesClient
<1> QED BY <1>1, <1>2, SessionIsOver DEF SessionAt, ReadsInStep, ServerSame, SocketSame

LEMMA KeptInterrupt ==
  ASSUME TypeOK, SessionTypeOK, NEW c \in Conns, SessionAt(c), Interrupt(c)
  PROVE  SessionAt(c)'
<1>1. /\ ServerSame(c) /\ UNCHANGED main /\ at'[c] = at[c] /\ result'[c] = result[c]
      /\ at[c] \notin {"off", "Request"} /\ got'[c] = got[c] /\ InputSame(c)
      /\ raised'[c] = raised[c] + 1 /\ raised[c] \in Nat
  BY UnseenIsAside DEF Interrupt, SessionTypeOK, InputSame, stdinVars, loopVars
<1> USE DEF SessionAt, ServerSame, SocketSame, Untouched, InputSame
<1>2. SessionMatchesClient(c)' /\ ReadsInStep(c)' /\ HeardSoFar(c)' /\ JunkIsCut(c)'
  BY <1>1 DEF SessionMatchesClient, ReadsInStep, HeardSoFar, JunkIsCut, Closed
<1>3. LastWordSaid(c)' /\ SendHasCause(c)'
  BY <1>1 DEF LastWordSaid, IsSent, Gone, Stopping, SendHasCause, Closed
<1>4. EndIsLast(c)' /\ StdinKept(c)' /\ InputCounted(c)'
  BY <1>1 DEF EndIsLast, StdinKept, InputCounted, InputTracked
<1> QED BY <1>2, <1>3, <1>4

LEMMA KeptConnects ==
  ASSUME TypeOK, SessionTypeOK, NEW c \in Conns, SessionAt(c), ChildMatchesHandler,
         Connects(c)
  PROVE  SessionAt(c)'
<1>1. /\ at[c] = "off" /\ at'[c] = "Request" /\ result'[c] = result[c]
      /\ got'[c] = got[c] /\ InputSame(c) /\ SignalsSame(c)
  BY DEF Connects, MoveTo, SessionTypeOK, InputSame, SignalsSame, stdinVars, signalVars
<1>2. /\ conn'[c] = "backlog" /\ client'[c] = "open" /\ UNCHANGED main
      /\ inbox'[c] = inbox[c] /\ read'[c] = read[c] /\ sent'[c] = sent[c]
      /\ child'[c] = child[c] /\ theirs'[c] = theirs[c] /\ ours'[c] = ours[c]
      /\ written'[c] = written[c]
  BY DEF Connects, AsClient, Connect, GoTo, TypeOK, mainVars, bridgeVars, groupVars
<1>3. conn[c] = "none" /\ result[c] = "none"
  BY <1>1 DEF SessionAt, SessionMatchesClient
<1> USE DEF SessionAt, InputSame, SignalsSame
<1>4. SessionMatchesClient(c)' /\ ReadsInStep(c)' /\ HeardSoFar(c)' /\ JunkIsCut(c)'
  BY <1>1, <1>2, <1>3 DEF SessionMatchesClient, ReadsInStep, HeardSoFar, JunkIsCut,
                          Closed, Over, Sendings
<1>5. LastWordSaid(c)' /\ SendHasCause(c)'
  BY <1>1, <1>2, <1>3 DEF LastWordSaid, IsSent, Gone, Stopping, SendHasCause, Closed, Over
<1>6. EndIsLast(c)' /\ StdinKept(c)' /\ InputCounted(c)'
  BY <1>1, <1>2, <1>3 DEF EndIsLast, StdinKept, InputCounted, InputTracked, OneIf, AtBridge
<1> QED BY <1>4, <1>5, <1>6

LEMMA KeptSendFails ==
  ASSUME TypeOK, SessionTypeOK, NEW c \in Conns, SessionAt(c), SendFails(c)
  PROVE  SessionAt(c)'
<1>1. /\ ServerSame(c) /\ UNCHANGED main /\ at[c] \in Sendings /\ Closed(c)
      /\ got'[c] = got[c] /\ thread'[c] = thread[c] /\ typed'[c] = typed[c]
      /\ feed'[c] = feed[c] /\ SignalsSame(c)
      /\ stdinOpen'[c] = (stdinOpen[c] /\ at[c] # "StdinEof")
      /\ IF at[c] = "StdinEof" THEN at'[c] = "select" /\ result'[c] = result[c]
                               ELSE at'[c] = "leaving" /\ result'[c] = "send"
  BY UnseenIsAside DEF SendFails, MoveTo, Ends, SessionTypeOK, SignalsSame, signalVars
<1>2. result[c] = "none" /\ client[c] # "gone"
  BY <1>1 DEF SessionAt, SessionMatchesClient, Sendings
<1>3. CASE at[c] # "StdinEof"
  <2>1. InputSame(c)
    BY <1>1, <1>3 DEF InputSame, SessionTypeOK
  <2>2. typed[c] # 0 \/ raised[c] # 0 \/ (Closed(c) /\ child[c] = "none")
    BY <1>1, <1>3 DEF SessionAt, SendHasCause, Sendings
  <2> QED BY <1>1, <1>2, <1>3, <2>1, <2>2, SessionIsOver
          DEF SessionAt, ReadsInStep, ServerSame, SocketSame
<1>4. CASE at[c] = "StdinEof"
  <2> USE <1>1, <1>2, <1>4 DEF SessionAt, ServerSame, SocketSame, Untouched, SignalsSame
  <2>1. SessionMatchesClient(c)' /\ ReadsInStep(c)' /\ HeardSoFar(c)' /\ JunkIsCut(c)'
    BY DEF SessionMatchesClient, ReadsInStep, HeardSoFar, JunkIsCut, Closed, Sendings
  <2>2. LastWordSaid(c)' /\ SendHasCause(c)'
    BY DEF LastWordSaid, IsSent, Gone, Stopping, SendHasCause, Closed
  <2>3. EndIsLast(c)' /\ StdinKept(c)'
    BY DEF EndIsLast, StdinKept, Closed, Over, AtBridge
  <2>4. InputCounted(c)'
    BY DEF InputCounted, InputTracked, Closed, Over, AtBridge
  <2> QED BY <2>1, <2>2, <2>3, <2>4
<1> QED BY <1>3, <1>4

LEMMA KeptThread ==
  ASSUME TypeOK, SessionTypeOK, NEW c \in Conns, SessionAt(c), Thread(c)
  PROVE  SessionAt(c)'
<1>1. /\ ServerSame(c) /\ UNCHANGED main /\ at'[c] = at[c] /\ result'[c] = result[c]
      /\ got'[c] = got[c] /\ stdinOpen'[c] = stdinOpen[c] /\ SignalsSame(c)
      /\ thread[c] = "reading"
      /\ \/ /\ feed'[c] = Append(feed[c], "Stdin") /\ typed'[c] = typed[c] + 1
            /\ thread'[c] = "reading"
         \/ /\ feed'[c] = Append(feed[c], "StdinEof") /\ typed'[c] = typed[c]
            /\ thread'[c] = "done"
  BY UnseenIsAside DEF Thread, ThreadReads, ThreadEnds, SessionTypeOK, SignalsSame,
                       loopVars, signalVars
<1>2. /\ typed[c] \in Nat /\ written[c]["Stdin"] \in Nat /\ Chunks(inbox[c]) \in Nat
      /\ Chunks(feed[c]) \in Nat /\ feed[c] \in Seq({"Stdin", "StdinEof"})
  BY InputTypes
<1>3. /\ Chunks(Append(feed[c], "Stdin")) = Chunks(feed[c]) + 1
      /\ Chunks(Append(feed[c], "StdinEof")) = Chunks(feed[c])
  BY <1>2, ChunksAppended
<1>4. PICK x \in {"Stdin", "StdinEof"} :
        /\ feed'[c] = Append(feed[c], x)
        /\ x = "Stdin" <=> thread'[c] = "reading"
  BY <1>1
<1>5. /\ DOMAIN feed'[c] = DOMAIN feed[c] \cup {Len(feed[c]) + 1}
       /\ Len(feed'[c]) = Len(feed[c]) + 1
       /\ \A i \in DOMAIN feed[c] : feed'[c][i] = feed[c][i]
       /\ feed'[c][Len(feed[c]) + 1] = x
  BY <1>2, <1>4
<1>6. \A i \in DOMAIN feed[c] : feed[c][i] = "Stdin"
  BY <1>1, <1>2 DEF SessionAt, EndIsLast
<1> USE DEF SessionAt, ServerSame, SocketSame, Untouched, SignalsSame
<1>7. SessionMatchesClient(c)' /\ ReadsInStep(c)' /\ HeardSoFar(c)' /\ JunkIsCut(c)'
  BY <1>1 DEF SessionMatchesClient, ReadsInStep, HeardSoFar, JunkIsCut, Closed
<1>8. LastWordSaid(c)'
  BY <1>1 DEF LastWordSaid, IsSent, Gone, Stopping
<1>9. SendHasCause(c)'
  <2>1. typed[c] = 0 => typed'[c] = 1 \/ (typed'[c] = 0 /\ thread'[c] = "done")
    BY <1>1
  <2>2. typed'[c] = 0 => typed[c] = 0
    BY <1>1, <1>2
  <2>3. typed'[c] = 0 => \A i \in DOMAIN feed'[c] : feed'[c][i] # "Stdin"
    BY <1>1, <1>2, <1>4, <1>5, <2>1, <2>2 DEF SendHasCause
  <2>4. typed[c] # 0 => typed'[c] # 0
    BY <1>1, <1>2
  <2> QED BY <1>1, <2>2, <2>3, <2>4 DEF SendHasCause, Closed
<1>10. EndIsLast(c)'
  BY <1>1, <1>4, <1>6, <1>5 DEF EndIsLast
<1>11. StdinKept(c)'
  BY <1>1 DEF StdinKept
<1>12. InputCounted(c)'
  <2> DEFINE others == OneIf(at[c] = "Stdin") + Chunks(inbox[c]) + OneIf(conn[c] = "feed")
                         + written[c]["Stdin"]
  <2>1. others \in Nat /\ others' = others
    BY <1>1, <1>2 DEF OneIf
  <2>2. InputTracked(c) => typed[c] = Chunks(feed[c]) + others
    BY <1>2 DEF InputTracked, InputCounted, OneIf
  <2>3. InputTracked(c)' => InputTracked(c)
    BY <1>1 DEF InputTracked
  <2> HIDE DEF others
  <2>4. \/ typed'[c] = typed[c] + 1 /\ Chunks(feed'[c]) = Chunks(feed[c]) + 1
        \/ typed'[c] = typed[c] /\ Chunks(feed'[c]) = Chunks(feed[c])
    BY <1>1, <1>3
  <2>5. InputTracked(c)' => typed'[c] = Chunks(feed'[c]) + others
    BY <1>2, <2>1, <2>2, <2>3, <2>4
  <2>6. Chunks(feed'[c]) \in Nat
    BY <1>2, <2>4
  <2> QED BY <1>1, <1>2, <2>5, <2>6 DEF InputCounted, OneIf, others
<1> QED BY <1>7, <1>8, <1>9, <1>10, <1>11, <1>12

LEMMA KeptTakeFeed ==
  ASSUME TypeOK, SessionTypeOK, NEW c \in Conns, SessionAt(c), TakeFeed(c)
  PROVE  SessionAt(c)'
<1>1. /\ ServerSame(c) /\ UNCHANGED main /\ at[c] = "select" /\ result'[c] = result[c]
      /\ stdinOpen[c] /\ stdinOpen'[c] = stdinOpen[c] /\ got'[c] = got[c]
      /\ thread'[c] = thread[c] /\ typed'[c] = typed[c] /\ SignalsSame(c)
      /\ IF feed[c] # <<>>
           THEN at'[c] = Head(feed[c]) /\ feed'[c] = Tail(feed[c])
           ELSE at'[c] = "StdinEof" /\ thread[c] = "done" /\ feed'[c] = feed[c]
  BY UnseenIsAside DEF TakeFeed, MoveTo, SessionTypeOK, SignalsSame, signalVars
<1>2. /\ typed[c] \in Nat /\ written[c]["Stdin"] \in Nat /\ Chunks(inbox[c]) \in Nat
      /\ Chunks(feed[c]) \in Nat /\ feed[c] \in Seq({"Stdin", "StdinEof"})
  BY InputTypes
<1>3. result[c] = "none"
  BY <1>1 DEF SessionAt, SessionMatchesClient
<1>4. /\ at'[c] \in {"Stdin", "StdinEof"}
      /\ at'[c] = "StdinEof" => thread[c] = "done" /\ feed'[c] = <<>>
      /\ at'[c] = "Stdin" => typed[c] # 0
      /\ \A i \in DOMAIN feed'[c] :
           /\ feed'[c][i] = "StdinEof" => i = Len(feed'[c]) /\ thread[c] = "done"
           /\ typed[c] = 0 => feed'[c][i] # "Stdin"
      /\ feed[c] = <<>> => feed'[c] = <<>>
  <2>1. CASE feed[c] # <<>>
    <3>1. /\ Head(feed[c]) = feed[c][1] /\ 1 \in DOMAIN feed[c]
          /\ feed[c][1] \in {"Stdin", "StdinEof"}
          /\ Len(feed'[c]) = Len(feed[c]) - 1 /\ Len(feed[c]) \in Nat
          /\ DOMAIN feed[c] = 1 .. Len(feed[c]) /\ DOMAIN feed'[c] = 1 .. Len(feed[c]) - 1
          /\ Len(feed[c]) = 1 => feed'[c] = <<>>
          /\ \A i \in DOMAIN feed'[c] : feed'[c][i] = feed[c][i + 1]
      <4>1. feed'[c] = Tail(feed[c])
        BY <1>1, <2>1
      <4> QED BY <1>2, <2>1, <4>1, TailIs
    <3>2. feed[c][1] = "StdinEof" => thread[c] = "done" /\ Len(feed[c]) = 1
      BY <3>1 DEF SessionAt, EndIsLast
    <3>3. \A i \in DOMAIN feed'[c] :
            /\ feed'[c][i] = "StdinEof" => i = Len(feed'[c]) /\ thread[c] = "done"
            /\ typed[c] = 0 => feed'[c][i] # "Stdin"
      BY <3>1 DEF SessionAt, EndIsLast, SendHasCause
    <3> QED BY <1>1, <2>1, <3>1, <3>2, <3>3 DEF SessionAt, SendHasCause
  <2>2. CASE feed[c] = <<>>
    BY <1>1, <2>2
  <2> QED BY <2>1, <2>2
<1> USE DEF SessionAt, ServerSame, SocketSame, Untouched, SignalsSame
<1>5. SessionMatchesClient(c)' /\ ReadsInStep(c)' /\ HeardSoFar(c)' /\ JunkIsCut(c)'
  BY <1>1, <1>3, <1>4
     DEF SessionMatchesClient, ReadsInStep, HeardSoFar, JunkIsCut, Closed, Sendings
<1>6. LastWordSaid(c)' /\ SendHasCause(c)'
  BY <1>1, <1>3, <1>4 DEF LastWordSaid, IsSent, Gone, Stopping, SendHasCause, Closed
<1>7. EndIsLast(c)'
  BY <1>1, <1>3, <1>4 DEF EndIsLast
<1>8. StdinKept(c)'
  BY <1>1 DEF StdinKept
<1>9. InputCounted(c)'
  <2> DEFINE others == Chunks(inbox[c]) + OneIf(conn[c] = "feed") + written[c]["Stdin"]
  <2>1. others \in Nat
    BY <1>2 DEF OneIf
  <2>2. InputTracked(c) => typed[c] = Chunks(feed[c]) + others
    <3>1. at[c] # "Stdin" /\ InputCounted(c)
      BY <1>1
    <3> QED BY <1>2, <3>1 DEF InputCounted, OneIf
  <2>3. InputTracked(c)' => InputTracked(c)
    BY <1>1 DEF InputTracked
  <2>4. /\ Chunks(feed'[c]) \in Nat
        /\ \/ at'[c] = "Stdin" /\ Chunks(feed[c]) = Chunks(feed'[c]) + 1
           \/ at'[c] = "StdinEof" /\ Chunks(feed[c]) = Chunks(feed'[c])
    <3>1. CASE feed[c] # <<>>
      <4>1. Chunks(feed[c]) =
              IF Head(feed[c]) = "Stdin" THEN Chunks(Tail(feed[c])) + 1
                                         ELSE Chunks(Tail(feed[c]))
        BY <1>2, <3>1, ChunksTaken
      <4>2. Tail(feed[c]) \in Seq({"Stdin", "StdinEof"})
        BY <1>2, <3>1
      <4>3. Chunks(Tail(feed[c])) \in Nat
        BY <4>2, ChunksAppended
      <4> QED BY <1>1, <1>4, <3>1, <4>1, <4>3
    <3>2. CASE feed[c] = <<>>
      BY <1>1, <1>2, <3>2
    <3> QED BY <3>1, <3>2
  <2> HIDE DEF others
  <2>5. InputTracked(c)' =>
          typed'[c] = Chunks(feed'[c]) + (IF at'[c] = "Stdin" THEN 1 ELSE 0) + others
    BY <1>1, <2>1, <2>2, <2>3, <2>4
  <2> QED BY <1>1, <1>2, <2>4, <2>5 DEF InputCounted, OneIf, others
<1> QED BY <1>5, <1>6, <1>7, <1>8, <1>9

LEMMA KeptSent ==
  ASSUME TypeOK, SessionTypeOK, NEW c \in Conns, SessionAt(c), Sent(c)
  PROVE  SessionAt(c)'
<1>1. /\ at[c] \in Sendings /\ at'[c] = "select" /\ result'[c] = result[c]
      /\ got'[c] = got[c] /\ typed'[c] = typed[c] /\ feed'[c] = feed[c]
      /\ thread'[c] = IF at[c] = "Request" THEN "reading" ELSE thread[c]
      /\ stdinOpen'[c] = (stdinOpen[c] /\ at[c] # "StdinEof") /\ SignalsSame(c)
  BY DEF Sent, MoveTo, SessionTypeOK, SignalsSame, signalVars
<1>2. /\ Untouched(c) /\ UNCHANGED main /\ ~Closed(c) /\ client[c] = "open"
      /\ inbox'[c] = Append(inbox[c], at[c])
      /\ client'[c] = client[c] /\ read'[c] = read[c]
  BY SendAt DEF Sent
<1>3. /\ typed[c] \in Nat /\ written[c]["Stdin"] \in Nat /\ Chunks(inbox[c]) \in Nat
      /\ Chunks(feed[c]) \in Nat /\ inbox[c] \in Seq(ClientFrames)
  BY InputTypes
<1>4. result[c] = "none" /\ at[c] \in ClientFrames
  BY <1>1 DEF SessionAt, SessionMatchesClient, Sendings, ClientFrames
<1>5. /\ DOMAIN inbox'[c] = DOMAIN inbox[c] \cup {Len(inbox[c]) + 1}
      /\ DOMAIN inbox[c] = 1 .. Len(inbox[c]) /\ Len(inbox[c]) \in Nat
      /\ Len(inbox'[c]) = Len(inbox[c]) + 1
      /\ \A i \in DOMAIN inbox[c] : inbox'[c][i] = inbox[c][i]
      /\ inbox'[c][Len(inbox[c]) + 1] = at[c]
  BY <1>2, <1>3, <1>4
<1> USE DEF SessionAt, Untouched, SignalsSame
<1>6. SessionMatchesClient(c)' /\ ReadsInStep(c)' /\ HeardSoFar(c)'
  BY <1>1, <1>2, <1>4 DEF SessionMatchesClient, ReadsInStep, HeardSoFar, Closed, Sendings
<1>7. JunkIsCut(c)'
  BY <1>1, <1>4, <1>5 DEF JunkIsCut, Sendings
<1>8. LastWordSaid(c)' /\ SendHasCause(c)'
  BY <1>1, <1>2, <1>4
     DEF LastWordSaid, IsSent, Gone, Stopping, SendHasCause, Closed
<1>9. EndIsLast(c)'
  <2>1. at[c] = "Stdin" => \A i \in DOMAIN inbox[c] : inbox[c][i] # "StdinEof"
    BY DEF EndIsLast
  <2>2. at[c] = "Request" => thread[c] = "off" /\ feed[c] = <<>> /\ stdinOpen[c]
    BY <1>1 DEF EndIsLast
  <2>4. /\ at[c] = "StdinEof" => ~stdinOpen'[c]
        /\ ~stdinOpen[c] => ~stdinOpen'[c]
    BY <1>1
  <2>3. ASSUME NEW i \in DOMAIN inbox'[c], inbox'[c][i] = "StdinEof"
        PROVE  ~stdinOpen'[c] /\ \A j \in i + 1 .. Len(inbox'[c]) : inbox'[c][j] # "Stdin"
    <3>1. CASE i = Len(inbox[c]) + 1
      BY <1>5, <2>4, <2>3, <3>1
    <3>2. CASE i \in DOMAIN inbox[c]
      <4>1. ~stdinOpen[c] /\ at[c] # "Stdin"
        BY <1>5, <2>3, <3>2, <2>1 DEF EndIsLast
      <4>2. \A j \in i + 1 .. Len(inbox[c]) : inbox[c][j] # "Stdin"
        BY <1>5, <2>3, <3>2 DEF EndIsLast
      <4> QED BY <1>5, <2>4, <3>2, <4>1, <4>2
    <3> QED BY <1>5, <3>1, <3>2
  <2> QED BY <1>1, <2>2, <2>3 DEF EndIsLast
<1>10. StdinKept(c)'
  BY <1>1, <1>2, <1>5 DEF StdinKept, EndIsLast
<1>11. InputCounted(c)'
  <2> DEFINE others == OneIf(conn[c] = "feed") + written[c]["Stdin"]
  <2>1. others \in Nat
    BY <1>3 DEF OneIf
  <2>2. InputTracked(c) =>
          typed[c] = Chunks(feed[c]) + (IF at[c] = "Stdin" THEN 1 ELSE 0)
                       + Chunks(inbox[c]) + others
    <3>1. InputCounted(c)
      OBVIOUS
    <3>2. CASE at[c] = "Stdin"
      BY <1>3, <3>1, <3>2 DEF InputCounted, OneIf
    <3>3. CASE at[c] # "Stdin"
      BY <1>3, <3>1, <3>3 DEF InputCounted, OneIf
    <3> QED BY <3>2, <3>3
  <2>3. InputTracked(c)' => InputTracked(c)
    BY <1>1, <1>2 DEF InputTracked
  <2>4. Chunks(inbox'[c]) = IF at[c] = "Stdin" THEN Chunks(inbox[c]) + 1 ELSE Chunks(inbox[c])
    BY <1>2, <1>3, <1>4, ChunksAppended
  <2> HIDE DEF others
  <2>5. Chunks(inbox'[c]) \in Nat
    BY <1>3, <2>4
  <2>6. InputTracked(c)' => typed'[c] = Chunks(feed[c]) + Chunks(inbox'[c]) + others
    BY <1>1, <1>3, <2>1, <2>2, <2>3, <2>4
  <2> QED BY <1>1, <1>2, <1>3, <2>5, <2>6 DEF InputCounted, OneIf, others
<1> QED BY <1>6, <1>7, <1>8, <1>9, <1>10, <1>11

\* All steps a session takes, at its own connection.
LEMMA SessionKeeps ==
  ASSUME TypeOK, SessionTypeOK, ChildMatchesHandler, NEW c \in Conns, SessionAt(c),
         NoSession(c) \/ Connects(c) \/ Loop(c) \/ Thread(c) \/ Host(c)
  PROVE  SessionAt(c)'
<1>1. CASE Loop(c)
  BY <1>1, KeptSent, KeptSendFails, KeptTakeFrame, KeptTakeEnd, KeptTakeFeed,
     KeptRelaySignal, KeptLeave DEF Loop
<1>2. CASE Host(c)
  BY <1>2, KeptInterrupt, KeptKill, KeptLeave, KeptWrite DEF Host
<1> QED BY <1>1, <1>2, KeptNoSession, KeptConnects, KeptThread

-----------------------------------------------------------------------------
(***************************************************************************)
(* The server's steps.  Six parts of the invariant need to know no more of *)
(* one than this; the last word and the count of the input have more.      *)
(***************************************************************************)
ServerMoves(c) ==
  /\ client'[c] = client[c] /\ read'[c] = read[c]
  /\ inbox'[c] = inbox[c] \/ (inbox[c] # <<>> /\ inbox'[c] = Tail(inbox[c]))
  /\ sent'[c] = sent[c] \/ \E f \in ServerFrames : sent'[c] = Append(sent[c], f)
  /\ conn[c] = "none" => conn'[c] = "none"
  /\ conn[c] \in Over => conn'[c] = conn[c]
  /\ child[c] = "none" =>
       child'[c] = "none" \/ (inbox[c] # <<>> /\ conn[c] \notin Over)

LEMMA InboxMoves ==
  ASSUME TypeOK, NEW c \in Conns, ServerMoves(c)
  PROVE  \/ inbox'[c] = inbox[c]
         \/ /\ DOMAIN inbox[c] = 1 .. Len(inbox[c]) /\ Len(inbox[c]) \in Nat \ {0}
            /\ Len(inbox'[c]) = Len(inbox[c]) - 1
            /\ DOMAIN inbox'[c] = 1 .. Len(inbox[c]) - 1
            /\ \A i \in 1 .. Len(inbox[c]) - 1 : inbox'[c][i] = inbox[c][i + 1]
<1>1. inbox[c] \in Seq(ClientFrames)
  BY DEF TypeOK
<1>2. CASE inbox[c] # <<>> /\ inbox'[c] = Tail(inbox[c])
  BY <1>1, <1>2, TailIs
<1> QED BY <1>2 DEF ServerMoves

LEMMA SentMoves ==
  ASSUME TypeOK, NEW c \in Conns, ServerMoves(c)
  PROVE  /\ Len(sent[c]) \in Nat /\ Len(sent'[c]) \in Nat /\ Len(sent[c]) <= Len(sent'[c])
         /\ \A i \in 1 .. Len(sent[c]) : sent'[c][i] = sent[c][i]
<1>1. sent[c] \in Seq(ServerFrames)
  BY DEF TypeOK
<1> QED BY <1>1 DEF ServerMoves

LEMMA KeptByServer ==
  ASSUME TypeOK, SessionTypeOK, NEW c \in Conns, SessionAt(c), SessionSame(c), ServerMoves(c)
  PROVE  /\ SessionMatchesClient(c)' /\ ReadsInStep(c)' /\ HeardSoFar(c)'
         /\ JunkIsCut(c)' /\ SendHasCause(c)' /\ EndIsLast(c)'
<1> USE DEF SessionAt, SessionSame
<1>1. got[c] \in Nat
  BY DEF SessionTypeOK
<1>2. SessionMatchesClient(c)'
  BY DEF ServerMoves, SessionMatchesClient
<1>3. ReadsInStep(c)' /\ HeardSoFar(c)'
  <2>1. Closed(c) => Closed(c)'
    BY DEF ServerMoves, Closed
  <2>2. ReadsInStep(c)'
    BY <1>1, <2>1, SentMoves DEF ServerMoves, ReadsInStep
  <2>3. got[c] <= Len(sent[c])
    BY DEF ReadsInStep
  <2>4. \A i \in 1 .. got[c] : sent'[c][i] = sent[c][i]
    BY <1>1, <2>3, SentMoves
  <2>5. got[c] > 0 => got[c] \in 1 .. got[c]
    BY <1>1
  <2>6. HeardSoFar(c)'
    BY <2>4, <2>5 DEF HeardSoFar
  <2> QED BY <2>2, <2>6
<1>4. JunkIsCut(c)'
  <2>1. CASE inbox'[c] = inbox[c]
    BY <2>1 DEF JunkIsCut
  <2>2. CASE inbox'[c] # inbox[c]
    <3>1. /\ DOMAIN inbox[c] = 1 .. Len(inbox[c]) /\ Len(inbox[c]) \in Nat \ {0}
          /\ DOMAIN inbox'[c] = 1 .. Len(inbox[c]) - 1
          /\ \A i \in 1 .. Len(inbox[c]) - 1 : inbox'[c][i] = inbox[c][i + 1]
      BY <2>2, InboxMoves
    <3>2. \A i \in DOMAIN inbox'[c] : i + 1 \in DOMAIN inbox[c]
      BY <3>1
    <3> QED BY <3>1, <3>2 DEF JunkIsCut
  <2> QED BY <2>1, <2>2
<1>5. SendHasCause(c)'
  BY DEF ServerMoves, SendHasCause, Closed
<1>6. EndIsLast(c)'
  <2>1. CASE inbox'[c] = inbox[c]
    BY <2>1 DEF EndIsLast
  <2>2. CASE inbox'[c] # inbox[c]
    <3>1. ASSUME NEW i \in DOMAIN inbox'[c], inbox'[c][i] = "StdinEof"
          PROVE  ~stdinOpen[c] /\ \A j \in i + 1 .. Len(inbox'[c]) : inbox'[c][j] # "Stdin"
      <4>0. /\ DOMAIN inbox[c] = 1 .. Len(inbox[c]) /\ Len(inbox[c]) \in Nat \ {0}
            /\ Len(inbox'[c]) = Len(inbox[c]) - 1
            /\ DOMAIN inbox'[c] = 1 .. Len(inbox[c]) - 1
            /\ \A k \in 1 .. Len(inbox[c]) - 1 : inbox'[c][k] = inbox[c][k + 1]
        BY <2>2, InboxMoves
      <4>1. i + 1 \in DOMAIN inbox[c] /\ inbox[c][i + 1] = "StdinEof" /\ i \in Nat
        BY <3>1, <4>0
      <4>2. ~stdinOpen[c] /\ \A j \in (i + 1) + 1 .. Len(inbox[c]) : inbox[c][j] # "Stdin"
        BY <4>1 DEF EndIsLast
      <4>3. \A j \in i + 1 .. Len(inbox'[c]) :
              /\ j + 1 \in (i + 1) + 1 .. Len(inbox[c])
              /\ inbox'[c][j] = inbox[c][j + 1]
        BY <4>0, <4>1
      <4> QED BY <4>2, <4>3
    <3> QED BY <3>1 DEF EndIsLast
  <2> QED BY <2>1, <2>2
<1> QED BY <1>2, <1>3, <1>4, <1>5, <1>6

\* A step without a word: where it leads, and what for.
LEMMA NothingSaid ==
  ASSUME NEW c \in Conns, SessionAt(c), SessionSame(c), Stopping => Stopping',
         sent'[c] = sent[c], client'[c] = client[c],
         conn'[c] \in {"reap", "done"} => conn[c] \in {"reap", "done"} \/ Gone(c),
         conn'[c] = "fault" => conn[c] = "fault" \/ result[c] # "none",
         conn'[c] \in {"announce", "lateAnnounce"} => conn[c] = conn'[c] \/ Stopping,
         conn'[c] = "final" =>
           \/ conn[c] = "final" /\ reply'[c] = reply[c]
           \/ /\ reply'[c].type \notin Streams
              /\ reply'[c] = Frame("ServerStopping") => Stopping,
         conn'[c] = "relay" =>
           \/ conn[c] = "relay" /\ reply'[c] = reply[c]
           \/ reply'[c].type \in Streams,
         conn'[c] = "dropped" => conn[c] = "dropped" \/ Stopping
  PROVE  LastWordSaid(c)'
BY DEF SessionAt, SessionSame, LastWordSaid, IsSent, Gone

\* A step with one.
LEMMA WordSaid ==
  ASSUME TypeOK, NEW c \in Conns, SessionAt(c), SessionSame(c), Stopping => Stopping',
         NEW f \in ServerFrames, Put(c, f), client'[c] = client[c],
         f = Frame("ServerStopping") => Stopping,
         conn'[c] \in {"bridge", "lateWait", "reap", "done"},
         conn'[c] \in {"reap", "done"} => f.type \notin Streams
  PROVE  LastWordSaid(c)'
<1>1. /\ \A g : IsSent(c, g)' <=> IsSent(c, g) \/ g = f
      /\ Len(sent[c]) + 1 \in DOMAIN sent'[c]
      /\ sent'[c][Len(sent[c]) + 1] = f
  BY SentGrows
<1>2. IsSent(c, Frame("ServerStopping"))' => Stopping'
  BY <1>1 DEF SessionAt, LastWordSaid
<1> QED BY <1>1, <1>2 DEF LastWordSaid

\* A step that leaves the input where it is.
LEMMA InputLeft ==
  ASSUME NEW c \in Conns, SessionAt(c), SessionSame(c), inbox'[c] = inbox[c],
         "Stdin" \in ours'[c] <=> "Stdin" \in ours[c],
         "Stdin" \in theirs'[c] => "Stdin" \in theirs[c],
         child'[c] = "none" => child[c] = "none",
         written'[c]["Stdin"] = written[c]["Stdin"],
         conn'[c] = "feed" <=> conn[c] = "feed",
         conn'[c] \in AtBridge \ {"fault"} => conn[c] \in AtBridge \ {"fault"},
         conn'[c] \in {"none", "backlog", "first"} => conn[c] \in {"none", "backlog", "first"}
  PROVE  StdinKept(c)' /\ InputCounted(c)'
<1> USE DEF SessionAt, SessionSame
<1>1. StdinKept(c)'
  BY DEF StdinKept
<1>2. InputTracked(c)' => InputTracked(c)
  BY DEF InputTracked
<1>3. InputCounted(c)'
  <2>1. CASE conn[c] = "feed"
    BY <1>2, <2>1 DEF InputCounted, OneIf
  <2>2. CASE conn[c] # "feed"
    BY <1>2, <2>2 DEF InputCounted, OneIf
  <2> QED BY <2>1, <2>2
<1> QED BY <1>1, <1>3

\* A step after which nobody asks for it.
LEMMA InputGivenUp ==
  ASSUME NEW c \in Conns, SessionAt(c), SessionSame(c),
         \/ conn'[c] \in {"fault", "final", "reap", "wait", "lateAnnounce", "lateWait"} \cup Over
         \/ result[c] # "none" /\ conn'[c] # "feed"
  PROVE  StdinKept(c)' /\ InputCounted(c)'
BY DEF SessionAt, SessionSame, StdinKept, InputCounted, InputTracked, AtBridge, Over

\* A frame that is no chunk of input is taken.
LEMMA ChunksPassed ==
  ASSUME TypeOK, SessionTypeOK, NEW c \in Conns, NEW f, Takes(c, f), f # "Stdin"
  PROVE  Chunks(inbox'[c]) = Chunks(inbox[c])
<1>1. inbox[c] \in Seq(ClientFrames) /\ inbox[c] # <<>> /\ inbox'[c] = Tail(inbox[c])
  BY DEF Takes, TypeOK
<1>2. Chunks(inbox[c]) = Chunks(Tail(inbox[c]))
  <2>1. Head(inbox[c]) # "Stdin"
    BY DEF Takes
  <2> QED BY <1>1, <2>1, ChunksTaken
<1> QED BY <1>1, <1>2

\* The bridge takes one, and gives stdin up only at its end.
LEMMA InputPassed ==
  ASSUME TypeOK, SessionTypeOK, NEW c \in Conns, SessionAt(c), SessionSame(c),
         NEW f, Takes(c, f), f # "Stdin",
         "Stdin" \in ours[c] /\ "Stdin" \notin ours'[c] => f = "StdinEof",
         theirs'[c] = theirs[c], child'[c] = child[c], written'[c] = written[c],
         conn[c] = "bridge", conn'[c] = "bridge"
  PROVE  StdinKept(c)' /\ InputCounted(c)'
<1> USE DEF SessionAt, SessionSame
<1>1. /\ inbox[c] \in Seq(ClientFrames) /\ inbox[c] # <<>> /\ Head(inbox[c]) = f
      /\ inbox'[c] = Tail(inbox[c])
  BY DEF Takes, TypeOK
<1>2. /\ inbox[c][1] = f /\ DOMAIN inbox[c] = 1 .. Len(inbox[c])
      /\ Len(inbox[c]) \in Nat \ {0} /\ DOMAIN inbox'[c] = 1 .. Len(inbox[c]) - 1
      /\ \A i \in 1 .. Len(inbox[c]) - 1 : inbox'[c][i] = inbox[c][i + 1]
  BY <1>1, TailIs
<1>3. StdinKept(c)'
  <2> SUFFICES ASSUME result[c] = "none", "Stdin" \notin ours'[c], "Stdin" \in theirs[c]
               PROVE  ~stdinOpen[c] /\ \A i \in DOMAIN inbox'[c] : inbox'[c][i] # "Stdin"
    BY DEF StdinKept
  <2>1. CASE f = "StdinEof"
    <3>1. ~stdinOpen[c] /\ \A j \in 1 + 1 .. Len(inbox[c]) : inbox[c][j] # "Stdin"
      BY <1>2, <2>1 DEF EndIsLast
    <3> QED BY <1>2, <3>1
  <2>2. CASE "Stdin" \notin ours[c]
    <3>1. ~stdinOpen[c] /\ \A i \in DOMAIN inbox[c] : inbox[c][i] # "Stdin"
      BY <2>2 DEF StdinKept, AtBridge
    <3>2. \A i \in DOMAIN inbox'[c] : i + 1 \in DOMAIN inbox[c]
      BY <1>2
    <3> QED BY <1>2, <3>1, <3>2
  <2> QED BY <2>1, <2>2
<1>4. InputCounted(c)'
  BY ChunksPassed DEF InputCounted, InputTracked, OneIf
<1> QED BY <1>3, <1>4

\* The parts together.
LEMMA SessionKept ==
  ASSUME TypeOK, SessionTypeOK, NEW c \in Conns, SessionAt(c), SessionSame(c),
         ServerMoves(c), LastWordSaid(c)', StdinKept(c)' /\ InputCounted(c)'
  PROVE  SessionAt(c)'
BY KeptByServer DEF SessionAt

LEMMA KeptByFirst ==
  ASSUME TypeOK, SessionTypeOK, NEW c \in Conns, SessionAt(c), SessionSame(c),
         ChildMatchesHandler, UNCHANGED <<mainVars, clientVars>>, First(c)
  PROVE  SessionAt(c)'
<1> USE DEF mainVars, clientVars, bridgeVars, wireVars, groupVars
<1>1. conn[c] = "first" /\ child[c] = "none"
  BY DEF First, ChildMatchesHandler
<1>2. Stopping' = Stopping /\ client'[c] = client[c] /\ read'[c] = read[c]
  BY DEF Stopping
<1>3. CASE FirstAnswered(c)
  <2>1. PICK f \in ClientFrames :
          Takes(c, f) /\ \E t \in Answers(f) : Finish(c, Frame(t))
    BY <1>3 DEF FirstAnswered
  <2>2. Answers(f) \subseteq Terminals
    BY DEF Answers, Terminals
  <2>3. /\ conn'[c] = "final" /\ reply'[c].type \in Terminals
        /\ inbox[c] # <<>> /\ inbox'[c] = Tail(inbox[c]) /\ sent' = sent
        /\ child'[c] = child[c]
    BY <1>3, <2>1, <2>2 DEF Takes, Finish, GoTo, Frame, FirstAnswered, TypeOK
  <2>4. reply'[c].type \notin Streams /\ reply'[c] # Frame("ServerStopping")
    BY <2>3, StreamsAssumption DEF Frame, Terminals
  <2>5. ServerMoves(c)
    BY <1>1, <1>2, <2>3 DEF ServerMoves, Over
  <2>6. LastWordSaid(c)'
    BY <1>2, <2>3, <2>4, NothingSaid
  <2> QED BY <2>3, <2>5, <2>6, InputGivenUp, SessionKept
<1>4. CASE Spawn(c)
  <2>1. /\ conn'[c] = "bridge" /\ child'[c] = "running" /\ "Stdin" \in ours'[c]
        /\ inbox[c] # <<>> /\ inbox'[c] = Tail(inbox[c]) /\ sent' = sent
        /\ written' = written
    BY <1>4, PipeNames DEF Spawn, Takes, GoTo, TypeOK
  <2>2. ServerMoves(c)
    BY <1>1, <1>2, <2>1 DEF ServerMoves, Over
  <2>3. LastWordSaid(c)'
    BY <1>2, <2>1, NothingSaid
  <2>4. StdinKept(c)'
    BY <2>1 DEF StdinKept
  <2>5. Chunks(inbox'[c]) = Chunks(inbox[c])
    BY <1>4, ChunksPassed DEF Spawn
  <2>6. InputTracked(c)' => InputTracked(c)
    BY <1>1 DEF InputTracked, SessionSame
  <2>7. InputCounted(c)'
    BY <1>1, <2>1, <2>5, <2>6 DEF InputCounted, OneIf, SessionAt, SessionSame
  <2> QED BY <2>2, <2>3, <2>4, <2>7, SessionKept
<1>5. CASE FirstIsEof(c)
  <2>1. /\ conn'[c] = "done" /\ sent' = sent /\ inbox' = inbox /\ child' = child
        /\ client[c] \in {"half", "gone"}
    BY <1>5 DEF FirstIsEof, AtEof, GoTo, TypeOK
  <2>2. Gone(c)
    BY <2>1 DEF Gone, SessionAt, SessionMatchesClient
  <2>3. ServerMoves(c)
    BY <1>1, <1>2, <2>1 DEF ServerMoves, Over
  <2>4. LastWordSaid(c)'
    BY <1>2, <2>1, <2>2, NothingSaid
  <2> QED BY <2>1, <2>3, <2>4, InputGivenUp, SessionKept DEF Over
<1>6. CASE FirstIsStopping(c)
  <2>1. /\ conn'[c] = "final" /\ reply'[c] = Frame("ServerStopping") /\ Stopping
        /\ sent' = sent /\ inbox' = inbox /\ child' = child
    BY <1>6 DEF FirstIsStopping, Finish, GoTo, TypeOK
  <2>2. reply'[c].type \notin Streams
    BY <2>1, StreamsAssumption DEF Frame
  <2>3. ServerMoves(c)
    BY <1>1, <1>2, <2>1 DEF ServerMoves, Over
  <2>4. LastWordSaid(c)'
    BY <1>2, <2>1, <2>2, NothingSaid
  <2> QED BY <2>1, <2>3, <2>4, InputGivenUp, SessionKept
<1> QED BY <1>3, <1>4, <1>5, <1>6 DEF First

\* A step of the bridge that leaves the wires alone, or its input.
LEMMA BridgeQuiet ==
  ASSUME TypeOK, SessionTypeOK, NEW c \in Conns, SessionAt(c), SessionSame(c),
         UNCHANGED <<main, clientVars, wireVars, child>>,
         conn[c] \in AtBridge, conn'[c] \in {"bridge", "relay", "announce", "wait"},
         conn'[c] = "announce" => Stopping,
         conn'[c] = "relay" => reply'[c].type \in Streams
  PROVE  ServerMoves(c) /\ LastWordSaid(c)'
<1>1. ServerMoves(c)
  BY DEF ServerMoves, AtBridge, Over, clientVars, wireVars
<1>2. LastWordSaid(c)'
  BY NothingSaid DEF clientVars, wireVars, Stopping
<1> QED BY <1>1, <1>2

LEMMA KeptByOutput ==
  ASSUME TypeOK, SessionTypeOK, NEW c \in Conns, SessionAt(c), SessionSame(c),
         EndsAt(c), UNCHANGED <<mainVars, clientVars>>, conn[c] = "bridge",
         TakeOutput(c) \/ BridgeDrained(c) \/ TakeStopping(c)
  PROVE  SessionAt(c)'
<1> USE DEF mainVars, groupVars
<1>1. CASE TakeOutput(c)
  <2>1. /\ conn'[c] = "relay" /\ reply'[c] = Head(chan[c])
        /\ UNCHANGED <<main, wireVars, child, theirs, written, ours>>
    BY <1>1 DEF TakeOutput, GoTo, TypeOK
  <2>2. reply'[c].type \in Streams
    <3>1. chan[c] \in Seq(ServerFrames) /\ chan[c] # <<>>
      BY <1>1 DEF TakeOutput, TypeOK
    <3>2. Head(chan[c]) = chan[c][1] /\ 1 \in DOMAIN chan[c]
      BY <3>1, TailIs
    <3> QED BY <2>1, <3>2 DEF EndsAt
  <2>3. ServerMoves(c) /\ LastWordSaid(c)'
    BY <2>1, <2>2, BridgeQuiet DEF AtBridge
  <2>4. StdinKept(c)' /\ InputCounted(c)'
    BY <2>1, InputLeft DEF AtBridge, wireVars
  <2> QED BY <2>3, <2>4, SessionKept
<1>2. CASE BridgeDrained(c)
  <2>1. conn'[c] = "wait" /\ UNCHANGED <<main, wireVars, child>>
    BY <1>2 DEF BridgeDrained, GoTo, TypeOK
  <2>2. ServerMoves(c) /\ LastWordSaid(c)'
    BY <2>1, BridgeQuiet DEF AtBridge
  <2> QED BY <2>1, <2>2, InputGivenUp, SessionKept
<1>3. CASE TakeStopping(c)
  <2>1. /\ conn'[c] = "announce" /\ Stopping
        /\ UNCHANGED <<main, wireVars, child, theirs, written, ours>>
    BY <1>3 DEF TakeStopping, GoTo, TypeOK
  <2>2. ServerMoves(c) /\ LastWordSaid(c)'
    BY <2>1, BridgeQuiet DEF AtBridge
  <2>3. StdinKept(c)' /\ InputCounted(c)'
    BY <2>1, InputLeft DEF AtBridge, wireVars
  <2> QED BY <2>2, <2>3, SessionKept
<1> QED BY <1>1, <1>2, <1>3

\* The bridge stays where it is and takes a frame.
LEMMA BridgeTakes ==
  ASSUME TypeOK, SessionTypeOK, NEW c \in Conns, SessionAt(c), SessionSame(c),
         UNCHANGED <<main, clientVars, child>>, NEW f, Takes(c, f),
         conn[c] = "bridge", conn'[c] \in {"bridge", "feed", "fault"},
         conn'[c] = "fault" => result[c] # "none"
  PROVE  ServerMoves(c) /\ LastWordSaid(c)'
<1>1. inbox[c] # <<>> /\ inbox'[c] = Tail(inbox[c]) /\ sent' = sent
  BY DEF Takes, TypeOK
<1>2. ServerMoves(c)
  BY <1>1 DEF ServerMoves, Over, clientVars
<1>3. LastWordSaid(c)'
  BY <1>1, NothingSaid DEF clientVars, Stopping
<1> QED BY <1>2, <1>3

LEMMA KeptByTakeStdin ==
  ASSUME TypeOK, SessionTypeOK, NEW c \in Conns, SessionAt(c), SessionSame(c),
         ChildMatchesHandler, UNCHANGED <<mainVars, clientVars>>, conn[c] = "bridge",
         TakeStdin(c)
  PROVE  SessionAt(c)'
<1>1. /\ conn'[c] = IF "Stdin" \in ours[c] THEN "feed" ELSE "bridge"
      /\ UNCHANGED <<main, child, theirs, written, ours>> /\ Takes(c, "Stdin")
      /\ inbox[c] # <<>> /\ Head(inbox[c]) = "Stdin" /\ inbox'[c] = Tail(inbox[c])
  BY DEF TakeStdin, Takes, GoTo, TypeOK, mainVars, bridgeVars, groupVars
<1>2. ServerMoves(c) /\ LastWordSaid(c)'
  BY <1>1, BridgeTakes
<1>3. /\ typed[c] \in Nat /\ written[c]["Stdin"] \in Nat /\ Chunks(inbox[c]) \in Nat
      /\ Chunks(feed[c]) \in Nat /\ inbox[c] \in Seq(ClientFrames)
  BY InputTypes
<1>4. /\ inbox[c][1] = "Stdin" /\ 1 \in DOMAIN inbox[c]
      /\ Chunks(inbox[c]) = Chunks(inbox'[c]) + 1 /\ Chunks(inbox'[c]) \in Nat
  <2>1. Chunks(inbox[c]) = Chunks(Tail(inbox[c])) + 1
    BY <1>1, <1>3, ChunksTaken
  <2>2. Tail(inbox[c]) \in Seq(ClientFrames) /\ inbox[c][1] = "Stdin" /\ 1 \in DOMAIN inbox[c]
    BY <1>1, <1>3, TailIs
  <2>3. Chunks(Tail(inbox[c])) \in Nat
    <3>1. "Stdin" \in ClientFrames
      BY DEF ClientFrames
    <3> QED BY <2>2, <3>1, ChunksAppended
  <2> QED BY <1>1, <2>1, <2>2, <2>3
<1>5. "Stdin" \in theirs[c] /\ result[c] = "none" => "Stdin" \in ours[c]
  BY <1>4 DEF SessionAt, StdinKept, AtBridge
<1>6. child[c] # "none"
  BY DEF ChildMatchesHandler, AtBridge
<1> USE DEF SessionAt, SessionSame
<1>7. StdinKept(c)'
  BY <1>1, <1>5 DEF StdinKept
<1>8. InputCounted(c)'
  <2> DEFINE others == Chunks(feed[c]) + OneIf(at[c] = "Stdin")
  <2>1. others \in Nat
    BY <1>3 DEF OneIf
  <2>2. InputTracked(c) => typed[c] = others + Chunks(inbox[c]) + written[c]["Stdin"]
    BY <1>3 DEF InputCounted, OneIf
  <2>3. InputTracked(c)' => InputTracked(c) /\ conn'[c] = "feed"
    BY <1>1, <1>5, <1>6 DEF InputTracked, AtBridge
  <2> HIDE DEF others
  <2>4. InputTracked(c)' => typed[c] = others + Chunks(inbox'[c]) + 1 + written[c]["Stdin"]
    BY <1>3, <1>4, <2>1, <2>2, <2>3
  <2> QED BY <1>1, <1>3, <1>4, <2>3, <2>4 DEF InputCounted, OneIf, others
<1> QED BY <1>2, <1>7, <1>8, SessionKept

LEMMA KeptByFrameArm ==
  ASSUME TypeOK, SessionTypeOK, NEW c \in Conns, SessionAt(c), SessionSame(c),
         ChildMatchesHandler, UNCHANGED <<mainVars, clientVars>>, conn[c] = "bridge",
         FrameArm(c)
  PROVE  SessionAt(c)'
<1> USE DEF mainVars, groupVars, bridgeVars
<1>1. CASE TakeStdin(c)
  BY <1>1, KeptByTakeStdin
<1>2. CASE TakeStdinEof(c) \/ TakeSignal(c) \/ TakeMisdirected(c)
  <2>1. PICK f \in {"StdinEof", "Signal", "Request", "RequestVersion"} :
          Takes(c, f) /\ ("Stdin" \in ours[c] /\ "Stdin" \notin ours'[c] => f = "StdinEof")
    BY <1>2 DEF TakeStdinEof, TakeSignal, TakeMisdirected
  <2>2. UNCHANGED <<main, conn, child, theirs, written>>
    BY <1>2 DEF TakeStdinEof, TakeSignal, TakeMisdirected
  <2>3. ServerMoves(c) /\ LastWordSaid(c)'
    BY <2>1, <2>2, BridgeTakes
  <2>4. StdinKept(c)' /\ InputCounted(c)'
    BY <2>1, <2>2, InputPassed
  <2> QED BY <2>3, <2>4, SessionKept
<1>3. CASE TakeEof(c)
  <2>1. /\ UNCHANGED <<main, conn, wireVars, child>>
        /\ client[c] \in {"half", "gone"}
    BY <1>3 DEF TakeEof, AtEof
  <2>2. result[c] # "none"
    BY <2>1 DEF SessionAt, SessionMatchesClient, Sendings
  <2>3. ServerMoves(c) /\ LastWordSaid(c)'
    BY <2>1, BridgeQuiet DEF AtBridge
  <2> QED BY <2>1, <2>2, <2>3, InputGivenUp, SessionKept
<1>4. CASE TakeJunk(c)
  <2>1. /\ conn'[c] = "fault" /\ UNCHANGED <<main, child>> /\ Takes(c, "Junk")
        /\ inbox[c] # <<>> /\ Head(inbox[c]) = "Junk" /\ inbox[c] \in Seq(ClientFrames)
    BY <1>4 DEF TakeJunk, Takes, Fault, GoTo, TypeOK
  <2>2. result[c] # "none"
    <3>1. inbox[c][1] = "Junk" /\ 1 \in DOMAIN inbox[c]
      BY <2>1, TailIs
    <3> QED BY <3>1 DEF SessionAt, JunkIsCut
  <2>3. ServerMoves(c) /\ LastWordSaid(c)'
    BY <2>1, <2>2, BridgeTakes
  <2> QED BY <2>1, <2>3, InputGivenUp, SessionKept
<1>5. CASE TakeReset(c)
  <2>1. conn'[c] = "fault" /\ UNCHANGED <<main, wireVars, child>> /\ Gone(c)
    BY <1>5 DEF TakeReset, Fault, GoTo, TypeOK
  <2>2. result[c] # "none"
    BY <2>1 DEF SessionAt, SessionMatchesClient, Gone, Sendings
  <2>3. ServerMoves(c)
    BY <2>1 DEF ServerMoves, Over, clientVars, wireVars
  <2>4. LastWordSaid(c)'
    BY <2>1, <2>2, NothingSaid DEF clientVars, wireVars, Stopping
  <2> QED BY <2>1, <2>3, <2>4, InputGivenUp, SessionKept
<1> QED BY <1>1, <1>2, <1>3, <1>4, <1>5 DEF FrameArm

LEMMA KeptByFeed ==
  ASSUME TypeOK, SessionTypeOK, NEW c \in Conns, SessionAt(c), SessionSame(c),
         ChildMatchesHandler, UNCHANGED <<mainVars, clientVars>>,
         FeedWritten(c) \/ FeedFails(c)
  PROVE  SessionAt(c)'
<1> USE DEF mainVars, groupVars, bridgeVars
<1>1. /\ conn[c] = "feed" /\ conn'[c] = "bridge"
      /\ UNCHANGED <<main, wireVars, child, theirs>>
  BY DEF FeedWritten, FeedFails, GoTo, TypeOK
<1>2. ServerMoves(c) /\ LastWordSaid(c)'
  BY <1>1, BridgeQuiet DEF AtBridge
<1>3. child[c] # "none"
  BY <1>1 DEF ChildMatchesHandler, AtBridge
<1>4. "Stdin" \in ours[c]
  BY <1>1 DEF SessionAt, StdinKept
<1>5. CASE FeedWritten(c)
  <2>1. written'[c]["Stdin"] = written[c]["Stdin"] + 1 /\ UNCHANGED ours
    BY <1>5, PipeNames DEF FeedWritten, TypeOK
  <2>2. StdinKept(c)'
    BY <1>1, <1>4, <2>1 DEF StdinKept
  <2>3. /\ typed[c] \in Nat /\ written[c]["Stdin"] \in Nat /\ Chunks(inbox[c]) \in Nat
        /\ Chunks(feed[c]) \in Nat
    BY InputTypes
  <2>4. InputCounted(c)'
    <3> DEFINE others == Chunks(feed[c]) + OneIf(at[c] = "Stdin") + Chunks(inbox[c])
    <3>1. others \in Nat
      BY <2>3 DEF OneIf
    <3>2. InputTracked(c) => typed[c] = others + 1 + written[c]["Stdin"]
      BY <1>1, <2>3 DEF InputCounted, OneIf, SessionAt
    <3>3. InputTracked(c)' => InputTracked(c)
      BY <1>1 DEF InputTracked, AtBridge, SessionSame
    <3> HIDE DEF others
    <3>4. InputTracked(c)' => typed[c] = others + written'[c]["Stdin"]
      BY <2>1, <2>3, <3>1, <3>2, <3>3
    <3> QED BY <1>1, <2>1, <2>3, <3>4 DEF InputCounted, OneIf, others, SessionSame, wireVars
  <2> QED BY <1>2, <2>2, <2>4, SessionKept
<1>6. CASE FeedFails(c)
  <2>1. "Stdin" \notin theirs[c]
    BY <1>6 DEF FeedFails
  <2>2. StdinKept(c)' /\ InputCounted(c)'
    BY <1>1, <1>3, <2>1 DEF StdinKept, InputCounted, InputTracked
  <2> QED BY <1>2, <2>2, SessionKept
<1> QED BY <1>5, <1>6

\* A handler that sends, or finds nobody to send to.
LEMMA HandlerSends ==
  ASSUME TypeOK, SessionTypeOK, NEW c \in Conns, SessionAt(c), SessionSame(c),
         UNCHANGED <<main, clientVars, inbox, child>>, NEW f \in ServerFrames,
         PutOrFail(c, f), f = Frame("ServerStopping") => Stopping,
         conn[c] \in Live, conn'[c] \in {"bridge", "lateWait", "reap", "done"},
         conn'[c] \in {"reap", "done"} => f.type \notin Streams
  PROVE  ServerMoves(c) /\ LastWordSaid(c)'
<1>1. sent'[c] = sent[c] \/ sent'[c] = Append(sent[c], f)
  BY DEF PutOrFail, Put, TypeOK
<1>2. ServerMoves(c)
  BY <1>1 DEF ServerMoves, Over, Live, AtBridge, AfterBridge, clientVars
<1>3. LastWordSaid(c)'
  <2>1. CASE Put(c, f)
    BY <2>1, WordSaid DEF clientVars, Stopping
  <2>2. CASE Gone(c) /\ UNCHANGED sent
    BY <2>2, NothingSaid DEF clientVars, Stopping
  <2> QED BY <2>1, <2>2 DEF PutOrFail
<1> QED BY <1>2, <1>3

LEMMA KeptByAnnounce ==
  ASSUME TypeOK, SessionTypeOK, NEW c \in Conns, SessionAt(c), SessionSame(c),
         UNCHANGED <<mainVars, clientVars>>,
         Announce(c, "announce", "bridge") \/ Announce(c, "lateAnnounce", "lateWait")
  PROVE  SessionAt(c)'
<1>1. /\ PutOrFail(c, Frame("ServerStopping"))
      /\ UNCHANGED <<main, inbox, child, ours, theirs, written>>
      /\ \/ conn[c] = "announce" /\ conn'[c] = "bridge"
         \/ conn[c] = "lateAnnounce" /\ conn'[c] = "lateWait"
  BY DEF Announce, GoTo, TypeOK, groupVars, mainVars
<1>2. Stopping
  BY <1>1 DEF SessionAt, LastWordSaid
<1>3. ServerMoves(c) /\ LastWordSaid(c)'
  BY <1>1, <1>2, FrameTypes, HandlerSends DEF Live, AtBridge, AfterBridge
<1>4. StdinKept(c)' /\ InputCounted(c)'
  BY <1>1, InputLeft DEF AtBridge
<1> QED BY <1>3, <1>4, SessionKept

LEMMA KeptByRelay ==
  ASSUME TypeOK, SessionTypeOK, NEW c \in Conns, SessionAt(c), SessionSame(c),
         UNCHANGED <<mainVars, clientVars>>, RelaySent(c) \/ RelayFails(c)
  PROVE  SessionAt(c)'
<1> USE DEF mainVars, groupVars, bridgeVars
<1>1. conn[c] = "relay"
  BY DEF RelaySent, RelayFails
<1>2. CASE RelaySent(c)
  <2>1. /\ PutOrFail(c, reply[c]) /\ conn'[c] = "bridge"
        /\ UNCHANGED <<main, inbox, child, ours, theirs, written>>
    BY <1>2 DEF RelaySent, PutOrFail, GoTo, TypeOK
  <2>2. reply[c] \in ServerFrames /\ reply[c] # Frame("ServerStopping")
    BY <1>1, StreamsAssumption DEF SessionAt, LastWordSaid, TypeOK, Frame
  <2>3. ServerMoves(c) /\ LastWordSaid(c)'
    BY <1>1, <2>1, <2>2, HandlerSends DEF Live, AtBridge
  <2>4. StdinKept(c)' /\ InputCounted(c)'
    BY <1>1, <2>1, InputLeft DEF AtBridge
  <2> QED BY <2>3, <2>4, SessionKept
<1>3. CASE RelayFails(c)
  <2>1. /\ Gone(c) /\ UNCHANGED <<main, sent, inbox, child>> /\ conn'[c] = "reap"
    BY <1>3 DEF RelayFails, Abandon, GoTo, TypeOK
  <2>2. ServerMoves(c)
    BY <1>1, <2>1 DEF ServerMoves, Over, clientVars
  <2>3. LastWordSaid(c)'
    BY <2>1, NothingSaid DEF clientVars, Stopping
  <2> QED BY <2>1, <2>2, <2>3, InputGivenUp, SessionKept
<1> QED BY <1>2, <1>3

LEMMA KeptByLastFrame ==
  ASSUME TypeOK, SessionTypeOK, NEW c \in Conns, SessionAt(c), SessionSame(c),
         LastWords(c), UNCHANGED <<mainVars, clientVars>>,
         FaultAnswered(c) \/ SendFinal(c)
  PROVE  SessionAt(c)'
<1>1. /\ PutOrFail(c, reply[c]) /\ UNCHANGED <<main, inbox, child>>
      /\ \/ conn[c] = "fault" /\ conn'[c] = "reap"
         \/ conn[c] = "final" /\ conn'[c] = "done"
  BY DEF FaultAnswered, SendFinal, Abandon, GoTo, TypeOK, groupVars, mainVars
<1>2. /\ reply[c] \in ServerFrames /\ reply[c].type \notin Streams
      /\ reply[c] = Frame("ServerStopping") => Stopping
  <2>1. CASE conn[c] = "fault"
    <3>1. reply[c] = Frame("Error")
      BY <2>1 DEF LastWords
    <3>2. Frame("Error").type \notin Streams /\ Frame("Error") # Frame("ServerStopping")
      BY StreamsAssumption DEF Frame, Terminals
    <3> QED BY <3>1, <3>2 DEF TypeOK
  <2>2. CASE conn[c] = "final"
    BY <2>2 DEF SessionAt, LastWordSaid, TypeOK
  <2> QED BY <1>1, <2>1, <2>2
<1>3. ServerMoves(c) /\ LastWordSaid(c)'
  BY <1>1, <1>2, HandlerSends DEF Live, AtBridge
<1> QED BY <1>1, <1>3, InputGivenUp, SessionKept DEF Over

LEMMA KeptByAfter ==
  ASSUME TypeOK, SessionTypeOK, NEW c \in Conns, SessionAt(c), SessionSame(c),
         ChildMatchesHandler, UNCHANGED <<mainVars, clientVars>>, After(c)
  PROVE  SessionAt(c)'
<1> USE DEF mainVars, bridgeVars, groupVars
<1>1. CASE WaitReaps(c) \/ WaitFails(c) \/ WaitStopping(c) \/ ReapAbandoned(c)
  <2>1. /\ UNCHANGED <<main, wireVars>>
        /\ \/ /\ conn[c] \in {"wait", "lateWait"} /\ conn'[c] = "final"
              /\ reply'[c] \in {Frame("Exit"), Frame("Error")}
           \/ conn[c] = "wait" /\ conn'[c] = "lateAnnounce" /\ Stopping
           \/ conn[c] = "reap" /\ conn'[c] = "done"
    BY <1>1 DEF WaitReaps, WaitFails, WaitStopping, ReapAbandoned, Finish, GoTo, TypeOK
  <2>2. \A t \in {"Exit", "Error"} :
          Frame(t).type \notin Streams /\ Frame(t) # Frame("ServerStopping")
    BY StreamsAssumption DEF Frame, Terminals
  <2>3. child[c] # "none"
    BY <2>1 DEF ChildMatchesHandler, AfterBridge
  <2>4. ServerMoves(c)
    BY <2>1, <2>3 DEF ServerMoves, Over, clientVars, wireVars
  <2>5. LastWordSaid(c)'
    BY <2>1, <2>2, NothingSaid DEF clientVars, wireVars, Stopping
  <2> QED BY <2>1, <2>4, <2>5, InputGivenUp, SessionKept DEF Over
<1>2. CASE Announce(c, "lateAnnounce", "lateWait")
  BY <1>2, KeptByAnnounce
<1> QED BY <1>1, <1>2 DEF After

LEMMA KeptByHandler ==
  ASSUME TypeOK, SessionTypeOK, NEW c \in Conns, SessionAt(c), SessionSame(c),
         ChildMatchesHandler, EndsAt(c), FlowAt(c), Handler(c)
  PROVE  SessionAt(c)'
<1>1. LastWords(c) /\ UNCHANGED <<mainVars, clientVars>>
  BY DEF FlowAt, Handler
<1>2. CASE Bridge(c)
  BY <1>1, <1>2, KeptByOutput, KeptByFrameArm, KeptByRelay, KeptByFeed, KeptByLastFrame,
     KeptByAnnounce DEF Bridge
<1> QED BY <1>1, <1>2, KeptByFirst, KeptByAfter, KeptByLastFrame DEF Handler

LEMMA KeptByPump ==
  ASSUME TypeOK, SessionTypeOK, NEW c \in Conns, SessionAt(c), SessionSame(c),
         NEW d \in Conns, NEW s \in Streams, Pump(d, s)
  PROVE  SessionAt(c)'
<1>1. /\ UNCHANGED <<main, conn, reply, wireVars, clientVars, child, theirs, written>>
      /\ ("Stdin" \in ours'[c]) <=> ("Stdin" \in ours[c])
  <2>1. CASE PumpForwards(d, s)
    BY <2>1 DEF Pump, PumpForwards, mainVars
  <2>2. CASE PumpEnds(d, s)
    <3>1. s # "Stdin"
      BY StreamsAssumption
    <3>2. ours'[c] = ours[c] \/ ours'[c] = ours[c] \ {s}
      BY <2>2 DEF PumpEnds, TypeOK
    <3>3. ("Stdin" \in ours'[c]) <=> ("Stdin" \in ours[c])
      BY <3>1, <3>2
    <3> QED BY <3>3 DEF Pump, mainVars
  <2> QED BY <2>1, <2>2 DEF Pump
<1>2. ServerMoves(c)
  BY <1>1 DEF ServerMoves, wireVars, clientVars
<1>3. LastWordSaid(c)'
  BY <1>1, NothingSaid DEF wireVars, clientVars, Stopping
<1>4. StdinKept(c)' /\ InputCounted(c)'
  BY <1>1, InputLeft DEF wireVars
<1> QED BY <1>2, <1>3, <1>4, SessionKept

LEMMA KeptByGroup ==
  ASSUME TypeOK, SessionTypeOK, NEW c \in Conns, SessionAt(c), SessionSame(c),
         NEW d \in Conns, Group(d)
  PROVE  SessionAt(c)'
<1>1. UNCHANGED <<main, conn, reply, ours, wireVars, clientVars>>
  BY DEF Group, mainVars, handlerVars, bridgeVars
<1>2. /\ theirs'[c] \subseteq theirs[c] /\ (child'[c] = "none" <=> child[c] = "none")
      /\ written'[c]["Stdin"] = written[c]["Stdin"]
  <2>1. ASSUME NEW s \in Streams, GroupWrites(d, s)
        PROVE  UNCHANGED <<theirs, child>> /\ written'[c]["Stdin"] = written[c]["Stdin"]
    BY <2>1, StreamsAssumption, PipeNames DEF GroupWrites, TypeOK
  <2>2. CASE GroupReads(d)
    BY <2>2 DEF GroupReads
  <2>3. ASSUME NEW p \in Pipes, GroupCloses(d, p)
        PROVE  UNCHANGED <<child, written>> /\ theirs'[c] \subseteq theirs[c]
    BY <2>3 DEF GroupCloses, TypeOK
  <2>4. CASE ChildDies(d)
    <3>1. PICK kept \in SUBSET theirs[d] : theirs' = [theirs EXCEPT ![d] = kept]
      BY <2>4 DEF ChildDies
    <3>2. theirs'[c] \subseteq theirs[c]
      BY <3>1 DEF TypeOK
    <3>3. written' = written /\ (child'[c] = "none" <=> child[c] = "none")
      BY <2>4 DEF ChildDies, TypeOK
    <3> QED BY <3>2, <3>3
  <2> QED BY <2>1, <2>2, <2>3, <2>4 DEF Group
<1>3. ServerMoves(c)
  BY <1>1, <1>2 DEF ServerMoves, wireVars, clientVars
<1>4. LastWordSaid(c)'
  BY <1>1, NothingSaid DEF wireVars, clientVars, Stopping
<1>5. StdinKept(c)' /\ InputCounted(c)'
  BY <1>1, <1>2, InputLeft DEF wireVars
<1> QED BY <1>3, <1>4, <1>5, SessionKept

LEMMA KeptByAcceptor ==
  ASSUME TypeOK, SessionTypeOK, NEW c \in Conns, SessionAt(c), SessionSame(c), Acceptor
  PROVE  SessionAt(c)'
<1>1. /\ UNCHANGED <<main, reply, ours, wireVars, clientVars, groupVars>>
      /\ \/ conn'[c] = conn[c]
         \/ conn[c] = "backlog" /\ conn'[c] \in {"first", "refused"}
  BY DEF Acceptor, Accept, Register, AcceptFails, AcceptorCancelled, AcceptorEnds, GoTo,
         TypeOK, bridgeVars
<1>2. ServerMoves(c)
  BY <1>1 DEF ServerMoves, wireVars, clientVars, groupVars, Over
<1>3. LastWordSaid(c)'
  BY <1>1, NothingSaid DEF wireVars, clientVars, Stopping
<1>4. StdinKept(c)' /\ InputCounted(c)'
  BY <1>1, InputLeft DEF wireVars, groupVars, AtBridge
<1> QED BY <1>2, <1>3, <1>4, SessionKept

LEMMA KeptByMain ==
  ASSUME TypeOK, SessionTypeOK, NEW c \in Conns, SessionAt(c), SessionSame(c), Main
  PROVE  SessionAt(c)'
<1>1. /\ UNCHANGED <<reply, wireVars, clientVars, groupVars>> /\ Stopping'
      /\ \/ conn'[c] = conn[c] /\ ours'[c] = ours[c]
         \/ /\ Stopping
            /\ \/ conn[c] \in Live /\ conn'[c] = "dropped"
               \/ conn[c] \notin Live /\ conn'[c] = conn[c]
  BY DEF Main, Stop, BeginDrain, DrainDone, DrainExpires, ExitProcess, Stopping, TypeOK
<1>2. ServerMoves(c)
  BY <1>1 DEF ServerMoves, wireVars, clientVars, groupVars, Over, Live, AtBridge, AfterBridge
<1>3. LastWordSaid(c)'
  BY <1>1, NothingSaid DEF wireVars, clientVars
<1>4. StdinKept(c)' /\ InputCounted(c)'
  <2>1. CASE conn'[c] = conn[c] /\ ours'[c] = ours[c]
    BY <1>1, <2>1, InputLeft DEF wireVars, groupVars
  <2>2. CASE conn'[c] = "dropped"
    BY <2>2, InputGivenUp DEF Over
  <2>3. CASE conn[c] \notin Live /\ conn'[c] = conn[c]
    <3>1. StdinKept(c)'
      BY <2>3 DEF StdinKept, Live, AtBridge
    <3>2. InputTracked(c)' => InputTracked(c)
      BY <1>1, <2>3 DEF InputTracked, SessionSame, groupVars
    <3>3. InputCounted(c)'
      BY <1>1, <2>3, <3>2
         DEF SessionAt, SessionSame, InputCounted, OneIf, Live, AtBridge, groupVars, wireVars
    <3> QED BY <3>1, <3>3
  <2> QED BY <1>1, <2>1, <2>2, <2>3
<1> QED BY <1>2, <1>3, <1>4, SessionKept

\* A handler reads from its own socket only.
LEMMA HandlerInbox ==
  ASSUME TypeOK, NEW c \in Conns, NEW d \in Conns, d # c, Handler(d)
  PROVE  inbox'[c] = inbox[c]
<1> USE DEF TypeOK, Takes, wireVars
<1>1. CASE First(d)
  BY <1>1 DEF First, FirstAnswered, Spawn, FirstIsEof, FirstIsStopping
<1>2. CASE Bridge(d)
  <2>1. CASE TakeOutput(d) \/ BridgeDrained(d) \/ TakeStopping(d)
    BY <2>1 DEF TakeOutput, BridgeDrained, TakeStopping
  <2>2. CASE FrameArm(d)
    BY <2>2 DEF FrameArm, TakeStdin, TakeStdinEof, TakeSignal, TakeMisdirected, TakeEof,
                TakeJunk, TakeReset
  <2>3. CASE RelaySent(d) \/ FeedWritten(d) \/ FeedFails(d)
    BY <2>3 DEF RelaySent, FeedWritten, FeedFails
  <2>4. CASE RelayFails(d) \/ FaultAnswered(d) \/ Announce(d, "announce", "bridge")
    BY <2>4 DEF RelayFails, FaultAnswered, Abandon, Announce
  <2> QED BY <1>2, <2>1, <2>2, <2>3, <2>4 DEF Bridge
<1>3. CASE After(d)
  BY <1>3 DEF After, WaitReaps, WaitFails, WaitStopping, ReapAbandoned, Announce
<1>4. CASE SendFinal(d)
  BY <1>4 DEF SendFinal
<1> QED BY <1>1, <1>2, <1>3, <1>4 DEF Handler

\* A handler's step at the connections of the others.
LEMMA HandlerIsAside ==
  ASSUME TypeOK, SessionTypeOK, NEW c \in Conns, NEW d \in Conns, d # c, Handler(d),
         SessionAt(c), SessionSame(c)
  PROVE  SessionAt(c)'
<1>1. Untouched(c) /\ UNCHANGED <<mainVars, clientVars>>
  BY HandlerKeepsOthers DEF Handler
<1>2. inbox'[c] = inbox[c]
  BY HandlerInbox
<1> QED BY <1>1, <1>2, SessionUntouched
        DEF ServerSame, SocketSame, mainVars, clientVars, Stopping

LEMMA KeptByOthers ==
  ASSUME TypeOK, SessionTypeOK, ChildMatchesHandler, TerminalEnds, FlowInv,
         NEW c \in Conns, SessionAt(c), MainStep \/ ServerStep
  PROVE  SessionAt(c)'
<1>1. CASE MainStep
  <2>1. SessionSame(c)
    BY <1>1 DEF MainStep, SessionSame, loopVars, stdinVars, signalVars
  <2> QED BY <1>1, <2>1, KeptByMain DEF MainStep
<1>2. CASE ServerStep
  <2>1. SessionSame(c)
    BY <1>2 DEF ServerStep, SessionSame, sessionVars, loopVars, stdinVars, signalVars
  <2>2. ASSUME NEW d \in Conns, Handler(d) PROVE SessionAt(c)'
    <3>1. EndsAt(c) /\ FlowAt(c)
      BY EndsEverywhere DEF FlowInv
    <3> QED BY <2>1, <2>2, <3>1, KeptByHandler, HandlerIsAside
  <2> QED BY <1>2, <2>1, <2>2, KeptByAcceptor, KeptByGroup, KeptByPump DEF ServerStep
<1> QED BY <1>1, <1>2

LEMMA SessionStep ==
  ASSUME TypeOK, ChildMatchesHandler, TerminalEnds, FlowInv, SessionInv,
         [ExecNext]_execVars
  PROVE  SessionInv'
<1>1. SessionTypeOK /\ \A c \in Conns : SessionAt(c)
  BY SessionEverywhere
<1>2. SessionTypeOK'
  BY <1>1, SessionType
<1>3. ASSUME NEW c \in Conns PROVE SessionAt(c)'
  <2>1. ASSUME NEW d \in Conns,
               NoSession(d) \/ Connects(d) \/ Loop(d) \/ Thread(d) \/ Host(d)
        PROVE  SessionAt(c)'
    <3>1. CASE d = c
      BY <1>1, <2>1, <3>1, SessionKeeps
    <3>2. CASE d # c
      <4>1. SessionSame(c) /\ ServerSame(c) /\ UNCHANGED main
        BY <1>1, <2>1, <3>2, SessionTouchesOne
      <4> QED BY <1>1, <4>1, SessionUntouched DEF Stopping
    <3> QED BY <3>1, <3>2
  <2>2. CASE UNCHANGED execVars
    <3>1. SessionSame(c) /\ ServerSame(c) /\ UNCHANGED main
      BY <2>2, UnseenIsAside
         DEF execVars, sessionVars, loopVars, stdinVars, signalVars, SessionSame, Unseen
    <3> QED BY <1>1, <3>1, SessionUntouched DEF Stopping
  <2> QED BY <1>1, <2>1, <2>2, KeptByOthers DEF ExecNext
<1>4. (\A c \in Conns : SessionAt(c))'
  BY <1>3
<1> QED BY <1>2, <1>4, SessionEverywhere, PTL

-----------------------------------------------------------------------------
(* What it gives. *)

\* The session's view of its socket, its channel and its child agrees with the
\* server's in every reachable state, for any number of connections and any
\* capacity (session, pump_stdin, handle_conn, bridge).
THEOREM SessionInvariant == ExecSpec => []SessionInv
<1>1. ServerInv /\ FlowInv /\ SessionInv /\ [ExecNext]_execVars => SessionInv'
  BY SessionStep DEF ServerInv
<1> QED BY SessionStart, ServerHoldsInExec, <1>1, PTL DEF ExecSpec

\* A host that is told the child's status was given all output before it: the
\* session takes frames in order, and an Exit is the last of them.
THEOREM OutputBeforeStatus == ExecSpec => []StatusAfterOutput
<1>1. ServerInv /\ FlowInv /\ SessionInv => StatusAfterOutput
  <2> SUFFICES ASSUME TypeOK, TerminalEnds, FlowInv, SessionInv, NEW c \in Conns,
                      result[c] = "status"
               PROVE  \A s \in Streams : \A n \in 1 .. written[c][s] :
                        \E i \in 1 .. got[c] : sent[c][i] = Chunk(s, n)
    BY DEF ServerInv, StatusAfterOutput
  <2>0. HeardSoFar(c) /\ ReadsInStep(c) /\ got[c] \in Nat /\ sent[c] \in Seq(ServerFrames)
    BY DEF SessionInv, SessionTypeOK, TypeOK
  <2>1. got[c] \in DOMAIN sent[c] /\ DOMAIN sent[c] = 1 .. Len(sent[c])
        /\ sent[c][got[c]] = Frame("Exit")
    BY <2>0 DEF HeardSoFar, ReadsInStep
  <2>2. got[c] = Len(sent[c])
    BY <2>1 DEF TerminalEnds, Terminals, Frame
  <2>3. AllSent(c)
    BY <2>1 DEF FlowInv, FlowAt, ExitIsComplete, IsSent
  <2> QED BY <2>1, <2>2, <2>3 DEF AllSent, IsSent
<1> QED BY ServerHoldsInExec, SessionInvariant, <1>1, PTL

\* The host's input reaches a child whole: the end of it overtakes no chunk in
\* the thread's channel, on the socket, or at the bridge.
THEOREM InputArrivesWhole == ExecSpec => []InputIsWhole
<1>1. ServerInv /\ SessionInv => InputIsWhole
  <2> SUFFICES ASSUME TypeOK, SessionInv, NEW c \in Conns,
                      conn[c] \in AtBridge \ {"fault"}, "Stdin" \notin ours[c],
                      "Stdin" \in theirs[c], result[c] = "none"
               PROVE  thread[c] = "done" /\ written[c]["Stdin"] = typed[c]
    BY DEF ServerInv, InputIsWhole
  <2> USE DEF SessionInv
  <2>1. ~stdinOpen[c] /\ (\A i \in DOMAIN inbox[c] : inbox[c][i] # "Stdin")
        /\ conn[c] # "feed"
    BY DEF StdinKept
  <2>2. thread[c] = "done" /\ feed[c] = <<>> /\ at[c] # "Stdin"
    BY <2>1 DEF EndIsLast
  <2>3. Chunks(inbox[c]) = 0 /\ Chunks(feed[c]) = 0
    <3>1. {i \in DOMAIN inbox[c] : inbox[c][i] = "Stdin"} = {}
      BY <2>1
    <3>2. Chunks(inbox[c]) = 0
      BY <3>1, FS_EmptySet DEF Chunks
    <3> QED BY <2>2, <3>2, ChunksNone
  <2>4. typed[c] = 0 + 0 + 0 + 0 + written[c]["Stdin"]
    BY <2>1, <2>2, <2>3 DEF InputCounted, InputTracked, OneIf
  <2> QED BY <2>2, <2>4, InputTypes
<1> QED BY ServerHoldsInExec, SessionInvariant, <1>1, PTL

\* ncap never makes the server's bridge fault while it goes on itself: what it
\* sends is what the server takes (session's sends, bridge's frame arm).
THEOREM FaultsAreCuts == ExecSpec => []FaultOnlyIfCut
<1>1. SessionInv => FaultOnlyIfCut
  BY DEF SessionInv, LastWordSaid, FaultOnlyIfCut
<1> QED BY SessionInvariant, <1>1, PTL

\* An end of stdin that comes too late is no failure: without input and signals
\* no send fails once the child was waited for (session's stdin arm).
THEOREM LateEofIsHarmless == ExecSpec => []EofIsBestEffort
<1>1. SessionInv => EofIsBestEffort
  BY DEF SessionInv, SendHasCause, EofIsBestEffort
<1> QED BY SessionInvariant, <1>1, PTL

LEMMA StoppingStays == ASSUME [Next]_vars, Stopping PROVE Stopping'
<1>1. CASE Main
  BY <1>1 DEF Main, Stop, BeginDrain, DrainDone, DrainExpires, ExitProcess, Stopping
<1>2. CASE Acceptor
  BY <1>2 DEF Acceptor, Accept, Register, AcceptFails, AcceptorCancelled, AcceptorEnds, Stopping
<1>3. ASSUME NEW c \in Conns,
             Handler(c) \/ (\E s \in Streams : Pump(c, s)) \/ Client(c) \/ Group(c)
      PROVE  UNCHANGED main
  BY <1>3 DEF Handler, Pump, Client, Group, mainVars
<1> QED BY <1>1, <1>2, <1>3 DEF Next, Stopping, vars, mainVars

\* How the session came by the exit code of a shutdown.
LEMMA StoppedWhenHeard ==
  ASSUME TypeOK, SessionInv, NEW c \in Conns, TakeFrame(c) \/ TakeEnd(c),
         result'[c] = "stopped"
  PROVE  Stopping
<1> USE DEF SessionInv
<1>1. result[c] = "none" /\ ~Gone(c)
  BY DEF TakeFrame, TakeEnd, SessionMatchesClient, Gone
<1>2. CASE TakeFrame(c)
  <2>1. got[c] + 1 \in DOMAIN sent[c]
    BY <1>2 DEF TakeFrame, SessionTypeOK, TypeOK
  <2>2. sent[c][got[c] + 1] = Frame("ServerStopping")
    BY <1>1, <1>2 DEF TakeFrame, Handles, MoveTo, Ends, Verdict, SessionTypeOK
  <2> QED BY <2>1, <2>2 DEF LastWordSaid, IsSent
<1>3. CASE TakeEnd(c)
  <2>1. conn[c] \in {"done", "dropped"} /\ got[c] = Len(sent[c])
    BY <1>1, <1>3 DEF TakeEnd, EndOfStream, Ends, Closed, Over, SessionTypeOK
  <2>2. sent[c] \in Seq(ServerFrames)
    BY DEF TypeOK
  <2>3. HeardSoFar(c)
    OBVIOUS
  <2>4. \A i \in DOMAIN sent[c] : sent[c][i].type \in Streams
    BY <1>1, <2>1, <2>2, <2>3 DEF HeardSoFar
  <2> QED BY <1>1, <2>1, <2>4 DEF LastWordSaid
<1> QED BY <1>2, <1>3

LEMMA StoppedNoOtherWay ==
  ASSUME SessionTypeOK, [ExecNext]_execVars, NEW c \in Conns,
         result[c] # "stopped", result'[c] = "stopped"
  PROVE  TakeFrame(c) \/ TakeEnd(c)
<1> USE DEF SessionTypeOK, MoveTo, Ends, loopVars, stdinVars, signalVars
<1>1. ASSUME NEW d \in Conns, NoSession(d) \/ Connects(d) \/ Thread(d) PROVE FALSE
  BY <1>1 DEF NoSession, Connects, Thread
<1>2. ASSUME NEW d \in Conns, Host(d) PROVE FALSE
  BY <1>2 DEF Host, Interrupt, Kill, KillMidFrame, CutOff, Written, WriteFails
<1>3. ASSUME NEW d \in Conns, Loop(d) PROVE TakeFrame(c) \/ TakeEnd(c)
  <2>1. CASE Sent(d) \/ SendFails(d) \/ TakeFeed(d) \/ RelaySignal(d) \/ Leave(d)
    BY <2>1 DEF Sent, SendFails, TakeFeed, RelaySignal, Leave
  <2>2. CASE TakeFrame(d)
    <3>1. Handles(d, sent[d][got[d] + 1])
      BY <2>2 DEF TakeFrame
    <3>2. result' = result \/ \E how : result' = [result EXCEPT ![d] = how]
      BY <3>1, HandlesAs
    <3>3. d = c
      BY <3>2
    <3> QED BY <2>2, <3>3
  <2>3. CASE TakeEnd(d)
    <3>1. \E how : result' = [result EXCEPT ![d] = how]
      BY <2>3 DEF TakeEnd
    <3>2. d = c
      BY <3>1
    <3> QED BY <2>3, <3>2
  <2> QED BY <1>3, <2>1, <2>2, <2>3 DEF Loop
<1>4. CASE MainStep \/ ServerStep \/ UNCHANGED execVars
  BY <1>4 DEF MainStep, ServerStep, execVars, sessionVars
<1> QED BY <1>1, <1>2, <1>3, <1>4 DEF ExecNext

\* The exit code of a shutdown, also when it stands for a clean close of the
\* socket, means that the server was asked to stop (session's None arm).
THEOREM StoppedMeansShutdown == ExecSpec => []StoppedOnlyByShutdown
<1>1. ExecInit => StoppedOnlyByShutdown
  BY DEF ExecInit, StoppedOnlyByShutdown
<1>2. TypeOK /\ SessionInv /\ StoppedOnlyByShutdown /\ [ExecNext]_execVars
        => StoppedOnlyByShutdown'
  <2> SUFFICES ASSUME TypeOK, SessionInv, StoppedOnlyByShutdown, [ExecNext]_execVars,
                      NEW c \in Conns, result'[c] = "stopped"
               PROVE  Stopping'
    BY DEF StoppedOnlyByShutdown, Stopping
  <2>1. Stopping => Stopping'
    BY ExecStep, StoppingStays
  <2>2. CASE result[c] = "stopped"
    BY <2>1, <2>2 DEF StoppedOnlyByShutdown
  <2>3. CASE result[c] # "stopped"
    BY <2>1, <2>3, StoppedWhenHeard, StoppedNoOtherWay DEF SessionInv
  <2> QED BY <2>2, <2>3
<1>3. ServerInv => TypeOK
  BY DEF ServerInv
<1> QED BY <1>1, <1>2, <1>3, ServerHoldsInExec, SessionInvariant, PTL DEF ExecSpec
=============================================================================
