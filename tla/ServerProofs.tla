---------------------------- MODULE ServerProofs ----------------------------
(* What is proved of ncap-server for every value of the constants. *)
EXTENDS ServerProps, TLAPS

(***************************************************************************)
(* Type correctness: one step per actor, and under the handler one per     *)
(* action.                                                                 *)
(***************************************************************************)
LEMMA InitType == Init => TypeOK
<1> SUFFICES ASSUME Init PROVE TypeOK
  OBVIOUS
<1> QED BY DEF Init, TypeOK, ServerFrames, Frame, Terminals, Pipes

LEMMA FrameTypes ==
  /\ \A t \in Terminals \cup {"ServerStopping"} : Frame(t) \in ServerFrames
  /\ \A s \in Streams : \A n \in Nat : Chunk(s, n) \in ServerFrames
BY DEF Frame, Chunk, ServerFrames

LEMMA MainType == TypeOK /\ Main => TypeOK'
<1> SUFFICES ASSUME TypeOK, Main PROVE TypeOK'
  OBVIOUS
<1> USE DEF TypeOK, mainVars, wireVars, clientVars, groupVars, Live, Over,
        AtBridge, AfterBridge
<1>1. CASE Stop BY <1>1 DEF Stop, Main
<1>2. CASE BeginDrain BY <1>2 DEF BeginDrain, Main
<1>3. CASE DrainDone BY <1>3 DEF DrainDone, ExitProcess, Main
<1>4. CASE DrainExpires BY <1>4 DEF DrainExpires, ExitProcess, Main
<1> QED BY <1>1, <1>2, <1>3, <1>4 DEF Main

LEMMA AcceptorType == TypeOK /\ Acceptor => TypeOK'
<1> SUFFICES ASSUME TypeOK, Acceptor PROVE TypeOK'
  OBVIOUS
<1> USE DEF TypeOK, bridgeVars, wireVars, clientVars, groupVars, Live, Over,
        AtBridge, AfterBridge
<1>1. ASSUME NEW c \in Conns, Accept(c) PROVE TypeOK'
  BY <1>1 DEF Accept, GoTo, Acceptor
<1>2. CASE Register BY <1>2 DEF Register, Acceptor
<1>3. CASE AcceptFails BY <1>3 DEF AcceptFails, AcceptorEnds, Acceptor
<1>4. CASE AcceptorCancelled
  BY <1>4 DEF AcceptorCancelled, AcceptorEnds, Acceptor
<1> QED BY <1>1, <1>2, <1>3, <1>4 DEF Acceptor

LEMMA PipeNames == "Stdin" \in Pipes /\ Streams \subseteq Pipes
BY DEF Pipes

LEMMA CountType ==
  ASSUME NEW f \in [Conns -> [Pipes -> Nat]], NEW c \in Conns, NEW p \in Pipes
  PROVE  [f EXCEPT ![c][p] = @ + 1] \in [Conns -> [Pipes -> Nat]]
OBVIOUS

LEMMA PumpType ==
  ASSUME TypeOK, NEW c \in Conns, NEW s \in Streams, Pump(c, s)
  PROVE  TypeOK'
<1> USE PipeNames DEF TypeOK, mainVars, wireVars, clientVars, Pump
<1>1. CASE PumpForwards(c, s)
  <2>1. Chunk(s, taken[c][s] + 1) \in ServerFrames
    BY FrameTypes
  <2>2. chan' \in [Conns -> Seq(ServerFrames)]
    BY <1>1, <2>1 DEF PumpForwards
  <2>3. taken' \in [Conns -> [Pipes -> Nat]]
    BY <1>1, CountType DEF PumpForwards
  <2> QED BY <1>1, <2>2, <2>3 DEF PumpForwards
<1>2. CASE PumpEnds(c, s) BY <1>2 DEF PumpEnds
<1> QED BY <1>1, <1>2

LEMMA ClientType == ASSUME TypeOK, NEW c \in Conns, Client(c) PROVE TypeOK'
<1> USE DEF TypeOK, mainVars, bridgeVars, groupVars, Client
<1>1. CASE Connect(c) BY <1>1 DEF Connect, GoTo
<1>2. CASE ClientSends(c)
  <2>1. PICK f \in ClientFrames : inbox' = [inbox EXCEPT ![c] = Append(@, f)]
    BY <1>2, BoundsAssumption DEF ClientSends
  <2>2. inbox' \in [Conns -> Seq(ClientFrames)]
    BY <2>1
  <2>3. asked' \in [Conns -> Nat]
    BY <1>2 DEF ClientSends
  <2> QED BY <1>2, <2>2, <2>3 DEF ClientSends
<1>3. CASE ClientReads(c)
  <2>1. read' \in [Conns -> Nat]
    BY <1>3 DEF ClientReads
  <2> QED BY <1>3, <2>1 DEF ClientReads
<1>4. CASE ClientCloses(c, "half") BY <1>4 DEF ClientCloses
<1>5. CASE ClientCloses(c, "gone") BY <1>5 DEF ClientCloses
<1> QED BY <1>1, <1>2, <1>3, <1>4, <1>5

LEMMA GroupType == ASSUME TypeOK, NEW c \in Conns, Group(c) PROVE TypeOK'
<1> USE PipeNames DEF TypeOK, mainVars, handlerVars, bridgeVars, wireVars,
        clientVars, Group
<1>1. ASSUME NEW s \in Streams, GroupWrites(c, s) PROVE TypeOK'
  <2>1. written' \in [Conns -> [Pipes -> Nat]]
    BY <1>1, CountType DEF GroupWrites
  <2> QED BY <1>1, <2>1 DEF GroupWrites
<1>2. ASSUME NEW p \in Pipes, GroupCloses(c, p) PROVE TypeOK'
  BY <1>2 DEF GroupCloses
<1>3. CASE GroupReads(c)
  <2>1. taken' \in [Conns -> [Pipes -> Nat]]
    BY <1>3, CountType DEF GroupReads
  <2> QED BY <1>3, <2>1 DEF GroupReads
<1>4. CASE ChildDies(c)
  <2>1. PICK kept \in SUBSET theirs[c] : theirs' = [theirs EXCEPT ![c] = kept]
    BY <1>4 DEF ChildDies
  <2>2. theirs' \in [Conns -> SUBSET Pipes]
    BY <2>1
  <2> QED BY <1>4, <2>2 DEF ChildDies
<1> QED BY <1>1, <1>2, <1>3, <1>4

(***************************************************************************)
(* What the pieces of a handler's action do to the type of one variable.   *)
(***************************************************************************)
LEMMA SendType ==
  ASSUME TypeOK, NEW c \in Conns, NEW f \in ServerFrames,
         Put(c, f) \/ PutOrFail(c, f)
  PROVE  sent' \in [Conns -> Seq(ServerFrames)]
<1>1. sent \in [Conns -> Seq(ServerFrames)]
  BY DEF TypeOK
<1>2. CASE Put(c, f)
  BY <1>1, <1>2 DEF Put
<1>3. CASE UNCHANGED sent
  BY <1>1, <1>3
<1> QED BY <1>2, <1>3 DEF PutOrFail

LEMMA TakeType ==
  ASSUME TypeOK, NEW c \in Conns, NEW f, Takes(c, f)
  PROVE  inbox' \in [Conns -> Seq(ClientFrames)]
BY DEF TypeOK, Takes

LEMMA SignalType ==
  ASSUME TypeOK, NEW c \in Conns, NEW by \in {"TERM", "client"}, SignalGroup(c, by)
  PROVE  killed' \in [Conns -> Seq({"TERM", "client"})]
BY DEF TypeOK, SignalGroup

LEMMA FinishType ==
  ASSUME TypeOK, NEW c \in Conns, NEW f \in ServerFrames, Finish(c, f)
  PROVE  /\ conn' \in [Conns -> {"none", "backlog"} \cup Live \cup Over]
         /\ reply' \in [Conns -> ServerFrames]
BY DEF TypeOK, Finish, GoTo, Live

LEMMA FirstType ==
  ASSUME TypeOK, NEW c \in Conns, First(c), UNCHANGED <<mainVars, clientVars>>
  PROVE  TypeOK'
<1> USE DEF mainVars, clientVars, bridgeVars, groupVars, wireVars
<1>1. CASE FirstAnswered(c)
  <2>0. PICK f \in ClientFrames :
          Takes(c, f) /\ \E t \in Answers(f) : Finish(c, Frame(t))
    BY <1>1 DEF FirstAnswered
  <2>1. PICK t \in Answers(f) : Takes(c, f) /\ Finish(c, Frame(t))
    BY <2>0
  <2>2. Frame(t) \in ServerFrames
    BY FrameTypes DEF Answers, Terminals
  <2>3. inbox' \in [Conns -> Seq(ClientFrames)] /\ UNCHANGED sent
    BY <2>1, TakeType DEF Takes
  <2>4. /\ conn' \in [Conns -> {"none", "backlog"} \cup Live \cup Over]
        /\ reply' \in [Conns -> ServerFrames]
    BY <2>1, <2>2, FinishType
  <2> QED BY <1>1, <2>3, <2>4 DEF TypeOK, FirstAnswered
<1>2. CASE Spawn(c)
  <2>1. inbox' \in [Conns -> Seq(ClientFrames)] /\ UNCHANGED sent
    BY <1>2, TakeType DEF Spawn, Takes
  <2>2. conn' \in [Conns -> {"none", "backlog"} \cup Live \cup Over]
    BY <1>2 DEF Spawn, GoTo, TypeOK, Live, AtBridge
  <2>3. /\ child' \in [Conns -> {"none", "running", "zombie", "reaped", "lost"}]
        /\ theirs' \in [Conns -> SUBSET Pipes]
        /\ ours' \in [Conns -> SUBSET Pipes]
    BY <1>2 DEF Spawn, TypeOK
  <2> QED BY <1>2, <2>1, <2>2, <2>3 DEF Spawn, TypeOK
<1>3. CASE FirstIsEof(c) BY <1>3 DEF FirstIsEof, TypeOK, GoTo, Over
<1>4. CASE FirstIsStopping(c)
  <2>1. Frame("ServerStopping") \in ServerFrames
    BY FrameTypes
  <2>2. /\ conn' \in [Conns -> {"none", "backlog"} \cup Live \cup Over]
        /\ reply' \in [Conns -> ServerFrames]
    BY <1>4, <2>1, FinishType DEF FirstIsStopping
  <2> QED BY <1>4, <2>2 DEF FirstIsStopping, TypeOK
<1> QED BY <1>1, <1>2, <1>3, <1>4 DEF First

LEMMA FrameArmType ==
  ASSUME TypeOK, NEW c \in Conns, FrameArm(c), UNCHANGED <<mainVars, clientVars>>
  PROVE  TypeOK'
<1> USE DEF mainVars, clientVars, bridgeVars, groupVars, wireVars
<1>1. CASE TakeStdin(c)
  <2>1. inbox' \in [Conns -> Seq(ClientFrames)] /\ UNCHANGED sent
    BY <1>1, TakeType DEF TakeStdin, Takes
  <2>2. conn' \in [Conns -> {"none", "backlog"} \cup Live \cup Over]
    BY <1>1 DEF TakeStdin, GoTo, TypeOK, Live, AtBridge
  <2> QED BY <1>1, <2>1, <2>2 DEF TakeStdin, TypeOK
<1>2. CASE TakeStdinEof(c)
  <2>1. inbox' \in [Conns -> Seq(ClientFrames)] /\ UNCHANGED sent
    BY <1>2, TakeType DEF TakeStdinEof, Takes
  <2> QED BY <1>2, <2>1 DEF TakeStdinEof, DropStdin, TypeOK
<1>3. CASE TakeSignal(c)
  <2>1. inbox' \in [Conns -> Seq(ClientFrames)] /\ UNCHANGED sent
    BY <1>3, TakeType DEF TakeSignal, Takes
  <2>2. killed' \in [Conns -> Seq({"TERM", "client"})]
    BY <1>3, SignalType DEF TakeSignal
  <2> QED BY <1>3, <2>1, <2>2 DEF TakeSignal, TypeOK
<1>4. CASE TakeMisdirected(c)
  <2>1. inbox' \in [Conns -> Seq(ClientFrames)] /\ UNCHANGED sent
    BY <1>4, TakeType DEF TakeMisdirected, Takes
  <2> QED BY <1>4, <2>1 DEF TakeMisdirected, TypeOK
<1>5. CASE TakeEof(c)
  BY <1>5 DEF TakeEof, Disarm, DropStdin, TypeOK
<1>6. ASSUME Fault(c), inbox' \in [Conns -> Seq(ClientFrames)], UNCHANGED sent
      PROVE  TypeOK'
  <2>1. Frame("Error") \in ServerFrames
    BY FrameTypes DEF Terminals
  <2>2. conn' \in [Conns -> {"none", "backlog"} \cup Live \cup Over]
    BY <1>6 DEF Fault, GoTo, TypeOK, Live, AtBridge
  <2> QED BY <1>6, <2>1, <2>2 DEF Fault, TypeOK
<1>7. CASE TakeJunk(c) BY <1>6, <1>7, TakeType DEF TakeJunk, Takes
<1>8. CASE TakeReset(c) BY <1>6, <1>8 DEF TakeReset, TypeOK
<1> QED BY <1>1, <1>2, <1>3, <1>4, <1>5, <1>7, <1>8 DEF FrameArm

LEMMA AbandonType ==
  ASSUME TypeOK, NEW c \in Conns, Abandon(c),
         sent' \in [Conns -> Seq(ServerFrames)], UNCHANGED <<mainVars, clientVars>>
  PROVE  TypeOK'
<1> USE DEF mainVars, clientVars, groupVars
<1>1. killed' \in [Conns -> Seq({"TERM", "client"})]
  BY SignalType DEF Abandon
<1>2. conn' \in [Conns -> {"none", "backlog"} \cup Live \cup Over]
  BY DEF Abandon, GoTo, TypeOK, Live, AfterBridge
<1> QED BY <1>1, <1>2 DEF Abandon, DropStdin, TypeOK

LEMMA AnnounceType ==
  ASSUME TypeOK, NEW c \in Conns, NEW from, NEW to \in Live, Announce(c, from, to),
         UNCHANGED <<mainVars, clientVars>>
  PROVE  TypeOK'
<1> USE DEF mainVars, clientVars, groupVars
<1>1. killed' \in [Conns -> Seq({"TERM", "client"})]
  BY SignalType DEF Announce
<1>2. sent' \in [Conns -> Seq(ServerFrames)]
  BY SendType, FrameTypes DEF Announce
<1>3. conn' \in [Conns -> {"none", "backlog"} \cup Live \cup Over]
  BY DEF Announce, GoTo, TypeOK
<1> QED BY <1>1, <1>2, <1>3 DEF Announce, TypeOK
LEMMA BridgeType ==
  ASSUME TypeOK, NEW c \in Conns, Bridge(c), UNCHANGED <<mainVars, clientVars>>
  PROVE  TypeOK'
<1> USE DEF mainVars, clientVars, bridgeVars, groupVars, wireVars
<1> DEFINE Places == {"none", "backlog"} \cup Live \cup Over
<1>a. \A w \in AtBridge \cup AfterBridge : GoTo(c, w) => conn' \in [Conns -> Places]
  BY DEF GoTo, TypeOK, Live
<1>b. {"bridge", "relay", "announce"} \subseteq AtBridge /\ "wait" \in AfterBridge
  BY DEF AtBridge, AfterBridge
<1> HIDE DEF Places
<1>1. CASE TakeOutput(c)
  <2>1. Head(chan[c]) \in ServerFrames /\ Tail(chan[c]) \in Seq(ServerFrames)
    BY <1>1 DEF TakeOutput, TypeOK
  <2> QED BY <1>1, <1>a, <1>b, <2>1 DEF TakeOutput, TypeOK, Places
<1>2. CASE BridgeDrained(c)
  BY <1>2, <1>a, <1>b DEF BridgeDrained, DropStdin, TypeOK, Places
<1>3. CASE FrameArm(c) BY <1>3, FrameArmType
<1>4. CASE TakeStopping(c)
  BY <1>4, <1>a, <1>b DEF TakeStopping, Disarm, TypeOK, Places
<1>5. CASE RelaySent(c)
  <2>1. sent' \in [Conns -> Seq(ServerFrames)]
    BY <1>5, SendType DEF RelaySent, TypeOK
  <2> QED BY <1>5, <1>a, <1>b, <2>1 DEF RelaySent, TypeOK, Places
<1>6. CASE RelayFails(c) BY <1>6, AbandonType DEF RelayFails, TypeOK
<1>7. CASE FeedWritten(c)
  <2>1. written' \in [Conns -> [Pipes -> Nat]]
    BY <1>7, CountType, PipeNames DEF FeedWritten, TypeOK
  <2> QED BY <1>7, <1>a, <1>b, <2>1 DEF FeedWritten, TypeOK, Places
<1>8. CASE FeedFails(c)
  BY <1>8, <1>a, <1>b DEF FeedFails, DropStdin, TypeOK, Places
<1>9. CASE FaultAnswered(c)
  <2>1. sent' \in [Conns -> Seq(ServerFrames)]
    BY <1>9, SendType DEF FaultAnswered, TypeOK
  <2> QED BY <1>9, <2>1, AbandonType DEF FaultAnswered
<1>10. CASE Announce(c, "announce", "bridge")
  BY <1>10, <1>b, AnnounceType DEF Live
<1> QED BY <1>1, <1>2, <1>3, <1>4, <1>5, <1>6, <1>7, <1>8, <1>9, <1>10 DEF Bridge

LEMMA AfterType ==
  ASSUME TypeOK, NEW c \in Conns, After(c), UNCHANGED <<mainVars, clientVars>>
  PROVE  TypeOK'
<1> USE DEF mainVars, clientVars, bridgeVars, wireVars
<1>1. ASSUME NEW t \in Terminals, Finish(c, Frame(t))
      PROVE  /\ conn' \in [Conns -> {"none", "backlog"} \cup Live \cup Over]
             /\ reply' \in [Conns -> ServerFrames]
  BY <1>1, FinishType, FrameTypes
<1>2. CASE WaitReaps(c)
  BY <1>1, <1>2 DEF WaitReaps, Reap, Terminals, TypeOK
<1>3. CASE WaitFails(c)
  BY <1>1, <1>3 DEF WaitFails, Terminals, TypeOK
<1>4. CASE WaitStopping(c)
  BY <1>4 DEF WaitStopping, GoTo, groupVars, TypeOK, Live, AfterBridge
<1>5. CASE ReapAbandoned(c)
  BY <1>5 DEF ReapAbandoned, Reap, GoTo, TypeOK, Over
<1>6. CASE Announce(c, "lateAnnounce", "lateWait")
  BY <1>6, AnnounceType DEF Live, AfterBridge
<1> QED BY <1>2, <1>3, <1>4, <1>5, <1>6 DEF After

LEMMA HandlerType == ASSUME TypeOK, NEW c \in Conns, Handler(c) PROVE TypeOK'
<1>1. CASE First(c) BY <1>1, FirstType DEF Handler
<1>2. CASE Bridge(c) BY <1>2, BridgeType DEF Handler
<1>3. CASE After(c) BY <1>3, AfterType DEF Handler
<1>4. CASE SendFinal(c)
  <2>1. sent' \in [Conns -> Seq(ServerFrames)]
    BY <1>4, SendType DEF SendFinal, TypeOK
  <2> QED BY <1>4, <2>1 DEF SendFinal, GoTo, Handler, mainVars, clientVars,
             bridgeVars, groupVars, TypeOK, Over
<1> QED BY <1>1, <1>2, <1>3, <1>4 DEF Handler

LEMMA StutterType == TypeOK /\ UNCHANGED vars => TypeOK'
BY DEF vars, mainVars, handlerVars, bridgeVars, wireVars, clientVars, groupVars, TypeOK

\* Every variable stays in its type, whatever the number of connections and
\* the capacities (all of src/server.rs that module Server models).
THEOREM TypeCorrect == Spec => []TypeOK
<1>1. TypeOK /\ [Next]_vars => TypeOK'
  <2> SUFFICES ASSUME TypeOK, [Next]_vars PROVE TypeOK'
    OBVIOUS
  <2> QED BY MainType, AcceptorType, HandlerType, PumpType, ClientType, GroupType,
             StutterType DEF Next
<1> QED BY InitType, <1>1, PTL DEF Spec
-----------------------------------------------------------------------------
(***************************************************************************)
(* The child.  ChildMatchesHandler is inductive given the types.           *)
(***************************************************************************)
LEMMA ChildInit == Init => ChildMatchesHandler
BY DEF Init, ChildMatchesHandler, AtBridge, AfterBridge

LEMMA ChildMain ==
  TypeOK /\ ChildMatchesHandler /\ Main => ChildMatchesHandler'
<1> SUFFICES ASSUME TypeOK, ChildMatchesHandler, Main PROVE ChildMatchesHandler'
  OBVIOUS
<1> USE DEF TypeOK, ChildMatchesHandler, Live, AtBridge, AfterBridge, clientVars,
        groupVars, Main
<1>1. CASE Stop \/ BeginDrain BY <1>1 DEF Stop, BeginDrain
<1>2. CASE DrainDone \/ DrainExpires
  BY <1>2 DEF DrainDone, DrainExpires, ExitProcess
<1> QED BY <1>1, <1>2

LEMMA ChildAcceptor ==
  TypeOK /\ ChildMatchesHandler /\ Acceptor => ChildMatchesHandler'
<1> SUFFICES ASSUME TypeOK, ChildMatchesHandler, Acceptor
             PROVE ChildMatchesHandler'
  OBVIOUS
<1> USE DEF TypeOK, ChildMatchesHandler, AtBridge, AfterBridge, clientVars,
        groupVars, Acceptor
<1>1. ASSUME NEW c \in Conns, Accept(c) PROVE ChildMatchesHandler'
  BY <1>1 DEF Accept, GoTo
<1>2. CASE Register BY <1>2 DEF Register
<1>3. CASE AcceptFails \/ AcceptorCancelled
  BY <1>3 DEF AcceptFails, AcceptorCancelled, AcceptorEnds
<1> QED BY <1>1, <1>2, <1>3

LEMMA ChildHandler ==
  ASSUME TypeOK, ChildMatchesHandler, NEW c \in Conns, Handler(c)
  PROVE  ChildMatchesHandler'
<1> USE DEF TypeOK, ChildMatchesHandler, clientVars, groupVars, GoTo, AtBridge,
        AfterBridge, Handler
<1>1. CASE First(c)
  <2>1. CASE FirstAnswered(c) \/ FirstIsStopping(c)
    BY <1>1, <2>1 DEF First, FirstAnswered, FirstIsStopping, Finish
  <2>2. CASE Spawn(c) BY <1>1, <2>2 DEF First, Spawn
  <2>3. CASE FirstIsEof(c) BY <1>1, <2>3 DEF First, FirstIsEof
  <2> QED BY <1>1, <2>1, <2>2, <2>3 DEF First
<1>2. CASE Bridge(c)
  <2>1. CASE conn[c] = "bridge" /\ (TakeOutput(c) \/ BridgeDrained(c))
    BY <2>1 DEF TakeOutput, BridgeDrained
  <2>2. CASE conn[c] = "bridge" /\ FrameArm(c)
    BY <2>2 DEF FrameArm, TakeStdin, TakeStdinEof, TakeSignal, TakeMisdirected,
                TakeEof, TakeJunk, TakeReset, Fault, handlerVars
  <2>3. CASE conn[c] = "bridge" /\ TakeStopping(c)
    BY <2>3 DEF TakeStopping
  <2>4. CASE RelaySent(c) \/ FeedWritten(c) \/ FeedFails(c)
    BY <2>4 DEF RelaySent, FeedWritten, FeedFails
  <2>5. CASE RelayFails(c) \/ FaultAnswered(c)
    BY <2>5 DEF RelayFails, FaultAnswered, Abandon
  <2>6. CASE Announce(c, "announce", "bridge")
    BY <2>6 DEF Announce
  <2> QED BY <1>2, <2>1, <2>2, <2>3, <2>4, <2>5, <2>6 DEF Bridge
<1>3. CASE After(c)
  <2>1. CASE WaitReaps(c) \/ WaitFails(c)
    <3>1. child'[c] \in {"reaped", "lost"} /\ conn'[c] = "final"
      BY <2>1 DEF WaitReaps, WaitFails, Reap, Finish
    <3>2. /\ client[c] # "none"
          /\ \A d \in Conns \ {c} : child'[d] = child[d] /\ conn'[d] = conn[d]
      BY <2>1 DEF WaitReaps, WaitFails, Reap, Finish
    <3> QED BY <3>1, <3>2
  <2>2. CASE WaitStopping(c) BY <2>2 DEF WaitStopping
  <2>3. CASE ReapAbandoned(c) BY <2>3 DEF ReapAbandoned, Reap
  <2>4. CASE Announce(c, "lateAnnounce", "lateWait")
    BY <2>4 DEF Announce
  <2> QED BY <1>3, <2>1, <2>2, <2>3, <2>4 DEF After
<1>4. CASE SendFinal(c) BY <1>4 DEF SendFinal
<1> QED BY <1>1, <1>2, <1>3, <1>4

LEMMA ChildOthers ==
  ASSUME TypeOK, ChildMatchesHandler, NEW c \in Conns,
         (\E s \in Streams : Pump(c, s)) \/ Client(c) \/ Group(c)
  PROVE  ChildMatchesHandler'
<1> USE DEF TypeOK, ChildMatchesHandler
<1>1. CASE \E s \in Streams : Pump(c, s) BY <1>1 DEF Pump, clientVars
<1>2. CASE Client(c)
  <2>1. CASE Connect(c)
    BY <1>2, <2>1 DEF Client, Connect, GoTo, groupVars, AtBridge, AfterBridge
  <2>2. CASE ClientSends(c) \/ ClientReads(c)
    BY <1>2, <2>2 DEF Client, ClientSends, ClientReads, groupVars
  <2>3. CASE ClientCloses(c, "half") \/ ClientCloses(c, "gone")
    BY <1>2, <2>3 DEF Client, ClientCloses, groupVars
  <2> QED BY <1>2, <2>1, <2>2, <2>3 DEF Client
<1>3. CASE Group(c)
  <2>1. CASE ChildDies(c)
    BY <1>3, <2>1 DEF Group, ChildDies, handlerVars, clientVars, AtBridge, AfterBridge, Over
  <2>2. CASE UNCHANGED child
    BY <1>3, <2>2 DEF Group, handlerVars, clientVars
  <2> QED BY <1>3, <2>1, <2>2 DEF Group, GroupWrites, GroupCloses, GroupReads
<1> QED BY <1>1, <1>2, <1>3
LEMMA ChildStutter ==
  ChildMatchesHandler /\ UNCHANGED vars => ChildMatchesHandler'
BY DEF ChildMatchesHandler, vars, handlerVars, clientVars, groupVars

LEMMA ChildAlways == Spec => []ChildMatchesHandler
<1>1. TypeOK /\ ChildMatchesHandler /\ [Next]_vars => ChildMatchesHandler'
  BY ChildMain, ChildAcceptor, ChildHandler, ChildOthers, ChildStutter DEF Next
<1> QED BY ChildInit, TypeCorrect, <1>1, PTL DEF Spec

\* No handler returns leaving a child nobody waits for: at every return of
\* handle_conn the child was never started, or has been waited for.
THEOREM NoZombies == Spec => []NoZombieLeft
<1>1. ChildMatchesHandler => NoZombieLeft
  BY DEF ChildMatchesHandler, NoZombieLeft
<1> QED BY ChildAlways, <1>1, PTL

\* Every kill(2) on a child's group comes before the wait that frees the
\* number: bridge's client signals and TERM, the TERM of the late
\* announcement, and the TERM of the abandoned bridge.
THEOREM KillsAreSafe == Spec => KillsOwnGroup
<1>1. ASSUME TypeOK, ChildMatchesHandler, [Next]_vars,
             NEW d \in Conns, killed'[d] # killed[d]
      PROVE  child[d] \in {"running", "zombie"}
  <2>1. ASSUME NEW c \in Conns, Handler(c) PROVE child[d] \in {"running", "zombie"}
    <3> USE DEF TypeOK, ChildMatchesHandler, AtBridge, AfterBridge, bridgeVars
    <3>1. CASE First(c)
      BY <1>1, <3>1 DEF First, FirstAnswered, Spawn, FirstIsEof, FirstIsStopping
    <3>2. CASE conn[c] = "bridge" /\ c = d
      BY <1>1, <3>2
    <3>3. CASE Bridge(c) /\ conn[c] # "bridge"
      BY <1>1, <3>3 DEF Bridge, RelaySent, RelayFails, FeedWritten, FeedFails,
                        FaultAnswered, Abandon, Announce, SignalGroup
    <3>4. CASE Bridge(c) /\ c # d
      BY <1>1, <3>4 DEF Bridge, TakeOutput, BridgeDrained, FrameArm, TakeStdin,
                        TakeStdinEof, TakeSignal, TakeMisdirected, TakeEof, TakeJunk,
                        TakeReset, Fault, TakeStopping, RelaySent, RelayFails,
                        FeedWritten, FeedFails, FaultAnswered, Abandon, Announce,
                        SignalGroup
    <3>5. CASE After(c)
      BY <1>1, <3>5 DEF After, WaitReaps, WaitFails, WaitStopping, ReapAbandoned,
                        Announce, SignalGroup
    <3>6. CASE SendFinal(c) BY <1>1, <3>6 DEF SendFinal
    <3> QED BY <2>1, <3>1, <3>2, <3>3, <3>4, <3>5, <3>6 DEF Handler
  <2>2. CASE Main \/ Acceptor \/ UNCHANGED vars
    BY <1>1, <2>2 DEF Main, Acceptor, vars, handlerVars, bridgeVars
  <2>3. ASSUME NEW c \in Conns,
               (\E s \in Streams : Pump(c, s)) \/ Client(c) \/ Group(c)
        PROVE  FALSE
    BY <1>1, <2>3 DEF Pump, Client, Group, handlerVars, bridgeVars
  <2> QED BY <1>1, <2>1, <2>2, <2>3 DEF Next
<1>2. TypeOK /\ ChildMatchesHandler /\ [Next]_vars =>
        [\A c \in Conns : killed'[c] # killed[c] => child[c] \in {"running", "zombie"}]_vars
  BY <1>1
<1> QED BY TypeCorrect, ChildAlways, <1>2, PTL DEF Spec, KillsOwnGroup
-----------------------------------------------------------------------------
(***************************************************************************)
(* The drain.  HandlesAreKept needs no more than the types: where handlers *)
(* are is all it reads of them, and no handler leaves the places in which  *)
(* its handle must be known.                                               *)
(***************************************************************************)
LEMMA HandlesInit == Init => HandlesAreKept
BY DEF Init, HandlesAreKept, Live, AtBridge, AfterBridge

LEMMA HandlesMain == TypeOK /\ HandlesAreKept /\ Main => HandlesAreKept'
<1> SUFFICES ASSUME TypeOK, HandlesAreKept, Main PROVE HandlesAreKept'
  OBVIOUS
<1> USE ConnsAssumption DEF TypeOK, HandlesAreKept, Main
<1>1. CASE Stop BY <1>1 DEF Stop
<1>2. CASE BeginDrain BY <1>2 DEF BeginDrain, AcceptorJoined
<1>3. CASE DrainDone
  <2>1. \A c \in Conns : conn[c] \notin Live
    BY <1>3 DEF DrainDone, Live, AtBridge, AfterBridge
  <2>2. conn' = conn
    BY <1>3, <2>1 DEF DrainDone, ExitProcess
  <2> QED BY <1>3, <2>2 DEF DrainDone, ExitProcess
<1>4. CASE DrainExpires
  <2>1. \A c \in Conns :
          conn'[c] \in Live \cup {"done", "dropped"} =>
            conn[c] \in Live \cup {"done", "dropped"}
    BY <1>4 DEF DrainExpires, ExitProcess
  <2> QED BY <1>4, <2>1 DEF DrainExpires, ExitProcess
<1> QED BY <1>1, <1>2, <1>3, <1>4

LEMMA HandlesAcceptor == TypeOK /\ HandlesAreKept /\ Acceptor => HandlesAreKept'
<1> SUFFICES ASSUME TypeOK, HandlesAreKept, Acceptor PROVE HandlesAreKept'
  OBVIOUS
<1> USE ConnsAssumption DEF TypeOK, HandlesAreKept, Acceptor
<1>1. ASSUME NEW c \in Conns, Accept(c) PROVE HandlesAreKept'
  BY <1>1 DEF Accept, GoTo
<1>2. CASE Register BY <1>2 DEF Register
<1>3. CASE AcceptFails \/ AcceptorCancelled
  BY <1>3 DEF AcceptFails, AcceptorCancelled, AcceptorEnds, Live, AtBridge, AfterBridge
<1> QED BY <1>1, <1>2, <1>3

\* A handler's step starts at a live place and ends at a live place or "done".
LEMMA HandlerMoves ==
  ASSUME TypeOK, NEW c \in Conns, Handler(c)
  PROVE  /\ conn[c] \in Live
         /\ conn'[c] \in Live \cup {"done"}
         /\ \A d \in Conns \ {c} : conn'[d] = conn[d]
<1> USE DEF TypeOK, GoTo, Live, AtBridge, AfterBridge
<1>1. CASE First(c)
  BY <1>1 DEF First, FirstAnswered, Spawn, FirstIsEof, FirstIsStopping, Finish
<1>2. CASE Bridge(c)
  <2>1. CASE conn[c] = "bridge" /\ (TakeOutput(c) \/ BridgeDrained(c) \/ TakeStopping(c))
    BY <2>1 DEF TakeOutput, BridgeDrained, TakeStopping
  <2>2. CASE conn[c] = "bridge" /\ FrameArm(c)
    BY <2>2 DEF FrameArm, TakeStdin, TakeStdinEof, TakeSignal, TakeMisdirected,
                TakeEof, TakeJunk, TakeReset, Fault
  <2>3. CASE RelaySent(c) \/ FeedWritten(c) \/ FeedFails(c)
    BY <2>3 DEF RelaySent, FeedWritten, FeedFails
  <2>4. CASE RelayFails(c) \/ FaultAnswered(c) \/ Announce(c, "announce", "bridge")
    BY <2>4 DEF RelayFails, FaultAnswered, Abandon, Announce
  <2> QED BY <1>2, <2>1, <2>2, <2>3, <2>4 DEF Bridge
<1>3. CASE After(c)
  BY <1>3 DEF After, WaitReaps, WaitFails, WaitStopping, ReapAbandoned, Announce, Finish
<1>4. CASE SendFinal(c) BY <1>4 DEF SendFinal
<1> QED BY <1>1, <1>2, <1>3, <1>4 DEF Handler

LEMMA HandlesOthers ==
  ASSUME TypeOK, HandlesAreKept, NEW c \in Conns,
         Handler(c) \/ (\E s \in Streams : Pump(c, s)) \/ Client(c) \/ Group(c)
  PROVE  HandlesAreKept'
<1> USE DEF HandlesAreKept, mainVars
<1>1. CASE Handler(c)
  <2>1. UNCHANGED mainVars
    BY <1>1 DEF Handler
  <2>2. /\ conn[c] \in Live
        /\ conn'[c] \in Live \cup {"done"}
        /\ \A d \in Conns \ {c} : conn'[d] = conn[d]
    BY <1>1, HandlerMoves
  <2>3. "dropped" \notin Live \cup {"done"}
    BY DEF Live, AtBridge, AfterBridge
  <2> QED BY <2>1, <2>2, <2>3
<1>2. CASE (\E s \in Streams : Pump(c, s)) \/ Group(c)
  BY <1>2 DEF Pump, Group, handlerVars
<1>3. CASE Client(c)
  <2>1. \A d \in Conns :
          conn'[d] = conn[d] \/ (conn'[d] = "backlog" /\ conn[d] \in {"none", "backlog"} \cup Live)
    BY <1>3 DEF Client, Connect, ClientSends, ClientReads, ClientCloses, GoTo, TypeOK, Over
  <2>2. "backlog" \notin Live
    BY DEF Live, AtBridge, AfterBridge
  <2> QED BY <1>3, <2>1, <2>2 DEF Client
<1> QED BY <1>1, <1>2, <1>3

LEMMA HandlesAlways == Spec => []HandlesAreKept
<1>1. TypeOK /\ HandlesAreKept /\ [Next]_vars => HandlesAreKept'
  <2>1. HandlesAreKept /\ UNCHANGED vars => HandlesAreKept'
    BY DEF HandlesAreKept, vars, mainVars, handlerVars
  <2> QED BY <2>1, HandlesMain, HandlesAcceptor, HandlesOthers DEF Next
<1> QED BY HandlesInit, TypeCorrect, <1>1, PTL DEF Spec

\* A drain that ends in time has waited for every connection there was: the
\* abort of the acceptor cannot lose a handle, because run awaits it first.
THEOREM DrainIsComplete == Spec => []DrainForgetsNobody
<1>1. HandlesAreKept => DrainForgetsNobody
  BY DEF HandlesAreKept, DrainForgetsNobody
<1> QED BY HandlesAlways, <1>1, PTL
-----------------------------------------------------------------------------
(***************************************************************************)
(* The terminal frame.  At each connection a step leaves the socket alone, *)
(* or puts one frame in it; EndsAt says what one connection contributes to *)
(* TerminalEnds.                                                           *)
(***************************************************************************)
EndsAt(c) ==
  /\ \A i \in DOMAIN chan[c] : chan[c][i].type \in Streams
  /\ conn[c] = "relay" => reply[c].type \in Streams
  /\ \A i \in DOMAIN sent[c] :
       sent[c][i].type \in Terminals =>
         i = Len(sent[c]) /\ conn[c] \in {"reap", "done", "dropped"}

LEMMA EndsEverywhere == TerminalEnds <=> \A c \in Conns : EndsAt(c)
BY DEF TerminalEnds, EndsAt

\* A connection whose channel, place, reply and socket are left alone.
LEMMA EndsUntouched ==
  ASSUME NEW d \in Conns, EndsAt(d), chan'[d] = chan[d], conn'[d] = conn[d],
         reply'[d] = reply[d], sent'[d] = sent[d]
  PROVE  EndsAt(d)'
BY DEF EndsAt

\* A step that sends nothing, relays nothing and does not reopen a dialogue.
LEMMA EndsQuiet ==
  ASSUME NEW d \in Conns, EndsAt(d), chan'[d] = chan[d], sent'[d] = sent[d],
         conn'[d] # "relay",
         conn[d] \in {"reap", "done", "dropped"} =>
           conn'[d] \in {"reap", "done", "dropped"}
  PROVE  EndsAt(d)'
BY DEF EndsAt

\* One frame is sent; if it is terminal, the dialogue ends with it.
LEMMA EndsSending ==
  ASSUME TypeOK, NEW d \in Conns, EndsAt(d), NEW f \in ServerFrames, Put(d, f),
         chan'[d] = chan[d], conn'[d] # "relay",
         conn[d] \notin {"reap", "done", "dropped"},
         f.type \in Terminals => conn'[d] \in {"reap", "done", "dropped"}
  PROVE  EndsAt(d)'
<1>1. sent[d] \in Seq(ServerFrames) /\ sent'[d] = Append(sent[d], f)
  BY DEF TypeOK, Put
<1>2. ASSUME NEW i \in DOMAIN sent'[d], sent'[d][i].type \in Terminals
      PROVE  i = Len(sent'[d]) /\ conn'[d] \in {"reap", "done", "dropped"}
  <2>1. CASE i = Len(sent[d]) + 1
    BY <1>1, <1>2, <2>1
  <2>2. CASE i \in DOMAIN sent[d]
    <3>1. sent'[d][i] = sent[d][i]
      BY <1>1, <2>2
    <3> QED BY <1>2, <2>2, <3>1 DEF EndsAt
  <2> QED BY <1>1, <2>1, <2>2
<1> QED BY <1>2 DEF EndsAt

LEMMA EndsSendingOrNot ==
  ASSUME TypeOK, NEW d \in Conns, EndsAt(d), NEW f \in ServerFrames,
         PutOrFail(d, f),
         chan'[d] = chan[d], conn'[d] # "relay",
         conn[d] \notin {"reap", "done", "dropped"},
         f.type \in Terminals => conn'[d] \in {"reap", "done", "dropped"}
  PROVE  EndsAt(d)'
BY EndsSending, EndsQuiet DEF PutOrFail

\* A handler touches no connection but its own.
LEMMA HandlerTouchesOne ==
  ASSUME TypeOK, NEW c \in Conns, Handler(c), NEW d \in Conns, d # c
  PROVE  /\ chan'[d] = chan[d] /\ conn'[d] = conn[d]
         /\ reply'[d] = reply[d] /\ sent'[d] = sent[d]
<1> USE DEF TypeOK, GoTo, Put, PutOrFail, Takes, Finish, bridgeVars, wireVars
<1>1. CASE First(c)
  BY <1>1 DEF First, FirstAnswered, Spawn, FirstIsEof, FirstIsStopping
<1>2. CASE Bridge(c)
  <2>1. CASE TakeOutput(c) \/ BridgeDrained(c) \/ TakeStopping(c)
    BY <2>1 DEF TakeOutput, BridgeDrained, TakeStopping
  <2>2. CASE FrameArm(c)
    BY <2>2 DEF FrameArm, TakeStdin, TakeStdinEof, TakeSignal, TakeMisdirected,
                TakeEof, TakeJunk, TakeReset, Fault
  <2>3. CASE RelaySent(c) \/ FeedWritten(c) \/ FeedFails(c)
    BY <2>3 DEF RelaySent, FeedWritten, FeedFails
  <2>4. CASE RelayFails(c) \/ FaultAnswered(c) \/ Announce(c, "announce", "bridge")
    BY <2>4 DEF RelayFails, FaultAnswered, Abandon, Announce
  <2> QED BY <1>2, <2>1, <2>2, <2>3, <2>4 DEF Bridge
<1>3. CASE After(c)
  BY <1>3 DEF After, WaitReaps, WaitFails, WaitStopping, ReapAbandoned, Announce
<1>4. CASE SendFinal(c) BY <1>4 DEF SendFinal
<1> QED BY <1>1, <1>2, <1>3, <1>4 DEF Handler
LEMMA EndsHandler ==
  ASSUME TypeOK, NEW c \in Conns, EndsAt(c), Handler(c)
  PROVE  EndsAt(c)'
<1> USE DEF TypeOK, GoTo, Takes, Finish, bridgeVars, wireVars
<1>1. CASE First(c)
  BY <1>1, EndsQuiet
     DEF First, FirstAnswered, Spawn, FirstIsEof, FirstIsStopping
<1>2. CASE conn[c] = "bridge" /\ TakeOutput(c)
  <2>1. chan[c] \in Seq(ServerFrames) /\ chan[c] # <<>>
    BY <1>2 DEF TakeOutput
  <2>2. reply'[c] = chan[c][1] /\ chan'[c] = Tail(chan[c])
    BY <1>2, <2>1 DEF TakeOutput
  <2>3. \A i \in DOMAIN Tail(chan[c]) :
          i + 1 \in DOMAIN chan[c] /\ Tail(chan[c])[i] = chan[c][i + 1]
    BY <2>1
  <2>4. conn'[c] = "relay" /\ sent'[c] = sent[c]
    BY <1>2 DEF TakeOutput
  <2>5. 1 \in DOMAIN chan[c]
    BY <2>1
  <2> QED BY <1>2, <2>2, <2>3, <2>4, <2>5 DEF EndsAt
<1>3. CASE conn[c] = "bridge" /\ (BridgeDrained(c) \/ TakeStopping(c))
  BY <1>3, EndsQuiet DEF BridgeDrained, TakeStopping
<1>4. CASE conn[c] = "bridge" /\ FrameArm(c)
  BY <1>4, EndsQuiet
     DEF FrameArm, TakeStdin, TakeStdinEof, TakeSignal, TakeMisdirected, TakeEof,
         TakeJunk, TakeReset, Fault
<1>5. CASE FeedWritten(c) \/ FeedFails(c)
  BY <1>5, EndsQuiet DEF FeedWritten, FeedFails
<1>6. CASE RelaySent(c)
  <2>1. reply[c] \in ServerFrames /\ reply[c].type \notin Terminals
    BY <1>6, StreamsAssumption DEF RelaySent, EndsAt
  <2> QED BY <1>6, <2>1, EndsSending DEF RelaySent
<1>7. CASE RelayFails(c) BY <1>7, EndsQuiet DEF RelayFails, Abandon
<1>8. CASE FaultAnswered(c)
  BY <1>8, EndsSendingOrNot DEF FaultAnswered, Abandon
<1>9. ASSUME NEW from \in {"announce", "lateAnnounce"}, NEW to \in {"bridge", "lateWait"},
             Announce(c, from, to)
      PROVE  EndsAt(c)'
  <2>1. /\ Frame("ServerStopping") \in ServerFrames
        /\ Frame("ServerStopping").type \notin Terminals
    BY FrameTypes DEF Frame, Terminals
  <2> QED BY <1>9, <2>1, EndsSendingOrNot DEF Announce
<1>10. CASE After(c)
  BY <1>9, <1>10, EndsQuiet
     DEF After, WaitReaps, WaitFails, WaitStopping, ReapAbandoned, Reap
<1>11. CASE SendFinal(c)
  BY <1>11, EndsSendingOrNot DEF SendFinal
<1> QED BY <1>1, <1>2, <1>3, <1>4, <1>5, <1>6, <1>7, <1>8, <1>9, <1>10, <1>11
        DEF Handler, Bridge

LEMMA EndsPump ==
  ASSUME TypeOK, NEW d \in Conns, EndsAt(d),
         NEW c \in Conns, NEW s \in Streams, Pump(c, s)
  PROVE  EndsAt(d)'
<1> USE DEF Pump, wireVars, TypeOK
<1>1. CASE PumpForwards(c, s) /\ c = d
  <2>1. /\ chan[d] \in Seq(ServerFrames)
        /\ Chunk(s, taken[c][s] + 1) \in ServerFrames
        /\ chan'[d] = Append(chan[d], Chunk(s, taken[c][s] + 1))
    BY <1>1, FrameTypes, PipeNames DEF PumpForwards
  <2>2. \A i \in DOMAIN chan'[d] : chan'[d][i].type \in Streams
    <3>1. Chunk(s, taken[c][s] + 1).type = s
      BY DEF Chunk
    <3> SUFFICES ASSUME NEW i \in DOMAIN chan'[d] PROVE chan'[d][i].type \in Streams
      OBVIOUS
    <3>2. CASE i = Len(chan[d]) + 1
      BY <2>1, <3>1, <3>2
    <3>3. CASE i \in DOMAIN chan[d]
      <4>1. chan'[d][i] = chan[d][i]
        BY <2>1, <3>3
      <4> QED BY <3>3, <4>1 DEF EndsAt
    <3> QED BY <2>1, <3>2, <3>3
  <2> QED BY <2>2 DEF EndsAt
<1>2. CASE PumpEnds(c, s) \/ c # d
  BY <1>2, EndsUntouched DEF PumpEnds, PumpForwards
<1> QED BY <1>1, <1>2

LEMMA EndsOthers ==
  ASSUME TypeOK, NEW d \in Conns, EndsAt(d), Main \/ Acceptor \/ UNCHANGED vars
  PROVE  EndsAt(d)'
<1> USE DEF TypeOK, bridgeVars, wireVars
<1>1. CASE Main
  <2>1. /\ conn'[d] # "relay" \/ conn'[d] = conn[d]
        /\ conn[d] \in {"reap", "done", "dropped"} => conn'[d] \in {"reap", "done", "dropped"}
    BY <1>1 DEF Main, Stop, BeginDrain, DrainDone, DrainExpires, ExitProcess
  <2> QED BY <1>1, <2>1, EndsQuiet, EndsUntouched DEF Main
<1>2. CASE Acceptor
  BY <1>2, EndsQuiet, EndsUntouched
     DEF Acceptor, Accept, Register, AcceptFails, AcceptorCancelled, AcceptorEnds, GoTo
<1>3. CASE UNCHANGED vars
  BY <1>3, EndsUntouched DEF vars, handlerVars
<1> QED BY <1>1, <1>2, <1>3

LEMMA EndsEnvironment ==
  ASSUME TypeOK, NEW d \in Conns, EndsAt(d), NEW c \in Conns, Client(c) \/ Group(c),
         ChildMatchesHandler
  PROVE  EndsAt(d)'
<1> USE DEF TypeOK, bridgeVars, wireVars, handlerVars
<1>1. CASE Client(c)
  <2>1. /\ chan'[d] = chan[d] /\ reply'[d] = reply[d] /\ sent'[d] = sent[d]
        /\ conn'[d] = conn[d] \/ (conn[d] = "none" /\ conn'[d] = "backlog")
    BY <1>1 DEF Client, Connect, ClientSends, ClientReads, ClientCloses, GoTo,
                ChildMatchesHandler
  <2> QED BY <2>1, EndsQuiet, EndsUntouched
<1>2. CASE Group(c) BY <1>2, EndsUntouched DEF Group
<1> QED BY <1>1, <1>2

LEMMA EndsAlways == Spec => []TerminalEnds
<1>1. Init => TerminalEnds
  BY DEF Init, TerminalEnds
<1>2. TypeOK /\ ChildMatchesHandler /\ TerminalEnds /\ [Next]_vars => TerminalEnds'
  <2> SUFFICES ASSUME TypeOK, ChildMatchesHandler, TerminalEnds, [Next]_vars,
                      NEW d \in Conns
               PROVE  EndsAt(d)'
    BY EndsEverywhere DEF TerminalEnds, EndsAt
  <2>1. EndsAt(d)
    BY EndsEverywhere
  <2>2. ASSUME NEW c \in Conns, Handler(c) PROVE EndsAt(d)'
    BY <2>1, <2>2, EndsHandler, HandlerTouchesOne, EndsUntouched
  <2> QED BY <2>1, <2>2, EndsPump, EndsOthers, EndsEnvironment DEF Next
<1> QED BY <1>1, <1>2, TypeCorrect, ChildAlways, PTL DEF Spec

\* Nothing follows a terminal frame on any connection, in any interleaving of
\* the handler with the shutdown, the pumps, its client and its child.
THEOREM TerminalDiscipline == Spec => []TerminalIsLast
<1>1. TerminalEnds => TerminalIsLast
  BY DEF TerminalEnds, TerminalIsLast
<1> QED BY EndsAlways, <1>1, PTL

\* The inductive invariant as a whole, which the TLC runs evaluate too.
THEOREM ServerInvariant == Spec => []ServerInv
BY TypeCorrect, EndsAlways, ChildAlways, HandlesAlways, PTL DEF ServerInv
=============================================================================
