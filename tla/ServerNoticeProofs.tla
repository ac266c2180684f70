------------------------- MODULE ServerNoticeProofs -------------------------
(***************************************************************************)
(* The TERM signals and the announcements of a shutdown: no client loses   *)
(* output whose group was not TERMed, and nobody is told or TERMed three   *)
(* times.                                                                  *)
(***************************************************************************)
EXTENDS ServerFlowProofs, FiniteSetTheorems

Termed(c) == \E i \in DOMAIN killed[c] : killed[c][i] = "TERM"

\* A bridge that was given up left a TERM behind, one that was not, nothing.
TermedAt(c) ==
  /\ conn[c] = "reap" => Termed(c)
  /\ conn[c] = "done" => Termed(c) \/ AllSent(c)

TermedInv == \A c \in Conns : TermedAt(c)

LEMMA TermedInit == Init => TermedInv
BY DEF Init, TermedInv, TermedAt

\* Who is TERMed stays so, and the TERM of Abandon counts.
LEMMA TermStays ==
  ASSUME TypeOK, NEW c \in Conns,
         \/ killed'[c] = killed[c]
         \/ \E by \in {"TERM", "client"} : SignalGroup(c, by)
  PROVE  Termed(c) => Termed(c)'
<1>1. killed[c] \in Seq({"TERM", "client"})
  BY DEF TypeOK
<1>2. CASE killed'[c] = killed[c]
  BY <1>2 DEF Termed
<1>3. ASSUME NEW by \in {"TERM", "client"}, SignalGroup(c, by)
      PROVE  Termed(c) => Termed(c)'
  <2>1. killed'[c] = Append(killed[c], by)
    BY <1>3 DEF SignalGroup, TypeOK
  <2> QED BY <1>1, <2>1 DEF Termed
<1> QED BY <1>2, <1>3

LEMMA AbandonTerms ==
  ASSUME TypeOK, NEW c \in Conns, SignalGroup(c, "TERM")
  PROVE  Termed(c)'
<1>1. killed[c] \in Seq({"TERM", "client"}) /\ killed'[c] = Append(killed[c], "TERM")
  BY DEF SignalGroup, TypeOK
<1>2. /\ Len(killed[c]) + 1 \in DOMAIN killed'[c]
      /\ killed'[c][Len(killed[c]) + 1] = "TERM"
  BY <1>1
<1> QED BY <1>2 DEF Termed

LEMMA HandlerSignalsItsOwn ==
  ASSUME TypeOK, NEW c \in Conns, Handler(c), NEW d \in Conns, d # c
  PROVE  killed'[d] = killed[d] /\ arms'[d] = arms[d]
<1> USE DEF TypeOK, bridgeVars, SignalGroup, Disarm
<1>1. CASE First(c)
  BY <1>1 DEF First, FirstAnswered, Spawn, FirstIsEof, FirstIsStopping
<1>2. CASE Bridge(c)
  <2>1. CASE TakeOutput(c) \/ BridgeDrained(c) \/ TakeStopping(c)
    BY <2>1 DEF TakeOutput, BridgeDrained, TakeStopping
  <2>2. CASE FrameArm(c)
    BY <2>2 DEF FrameArm, TakeStdin, TakeStdinEof, TakeSignal, TakeMisdirected,
                TakeEof, TakeJunk, TakeReset, Fault
  <2>3. CASE RelaySent(c) \/ FeedWritten(c) \/ FeedFails(c)
    BY <2>3 DEF RelaySent, FeedWritten, FeedFails
  <2>4. CASE RelayFails(c) \/ FaultAnswered(c) \/ Announce(c, "announce", "bridge")
    BY <2>4 DEF RelayFails, FaultAnswered, Abandon, Announce
  <2> QED BY <1>2, <2>1, <2>2, <2>3, <2>4 DEF Bridge
<1>3. CASE After(c)
  BY <1>3 DEF After, WaitReaps, WaitFails, WaitStopping, ReapAbandoned, Announce
<1>4. CASE SendFinal(c)
  BY <1>4 DEF SendFinal
<1> QED BY <1>1, <1>2, <1>3, <1>4 DEF Handler

LEMMA TermedHandler ==
  ASSUME TypeOK, NEW c \in Conns, FlowAt(c), TermedAt(c), Handler(c)
  PROVE  TermedAt(c)'
<1> USE DEF TypeOK, GoTo, Finish, bridgeVars, groupVars
<1>1. CASE First(c)
  <2>1. /\ conn'[c] # "reap"
        /\ conn'[c] = "done" =>
             Asking(c) /\ sent' = sent /\ written' = written
    BY <1>1 DEF First, FirstAnswered, Spawn, FirstIsEof, FirstIsStopping, Asking, wireVars
  <2>2. Asking(c) => AllSent(c)
    BY DEF FlowAt, QuietBefore, AllSent
  <2> QED BY <2>1, <2>2 DEF TermedAt, AllSent, IsSent
<1>2. CASE Bridge(c)
  <2>1. CASE RelayFails(c) \/ FaultAnswered(c)
    <3>1. conn'[c] = "reap" /\ SignalGroup(c, "TERM")
      BY <2>1 DEF RelayFails, FaultAnswered, Abandon
    <3> QED BY <3>1, AbandonTerms DEF TermedAt
  <2>2. CASE conn[c] = "bridge" /\ (TakeOutput(c) \/ BridgeDrained(c) \/ TakeStopping(c))
    BY <2>2 DEF TakeOutput, BridgeDrained, TakeStopping, TermedAt
  <2>3. CASE conn[c] = "bridge" /\ FrameArm(c)
    BY <2>3 DEF FrameArm, TakeStdin, TakeStdinEof, TakeSignal, TakeMisdirected, TakeEof,
                TakeJunk, TakeReset, Fault, TermedAt
  <2>4. CASE RelaySent(c) \/ FeedWritten(c) \/ FeedFails(c) \/ Announce(c, "announce", "bridge")
    BY <2>4 DEF RelaySent, FeedWritten, FeedFails, Announce, TermedAt
  <2> QED BY <1>2, <2>1, <2>2, <2>3, <2>4 DEF Bridge
<1>3. CASE WaitReaps(c) \/ WaitFails(c) \/ WaitStopping(c)
           \/ Announce(c, "lateAnnounce", "lateWait")
  BY <1>3 DEF WaitReaps, WaitFails, WaitStopping, Announce, TermedAt
<1>4. CASE ReapAbandoned(c)
  <2>1. conn[c] = "reap" /\ conn'[c] = "done" /\ killed'[c] = killed[c]
    BY <1>4 DEF ReapAbandoned
  <2> QED BY <2>1, TermStays DEF TermedAt
<1>5. CASE SendFinal(c)
  <2>1. conn[c] = "final" /\ conn'[c] = "done" /\ written' = written
    BY <1>5 DEF SendFinal
  <2>2. PutOrFail(c, reply[c]) /\ reply[c] \in ServerFrames
    BY <1>5 DEF SendFinal
  <2>3. AllSent(c)
    <3>1. CASE Asking(c)
      BY <3>1 DEF FlowAt, QuietBefore, AllSent
    <3>2. CASE Settled(c)
      BY <3>2 DEF FlowAt, SettledIsComplete
    <3> QED BY <2>1, <3>1, <3>2 DEF Asking, Settled
  <2>4. \A g : IsSent(c, g) => IsSent(c, g)'
    BY <2>2, SentGrows DEF PutOrFail, IsSent
  <2> QED BY <2>1, <2>3, <2>4 DEF TermedAt, AllSent
<1> QED BY <1>1, <1>2, <1>3, <1>4, <1>5 DEF Handler, After

\* Nobody but the handler signals, ends the handler, or writes once it ended.
LEMMA TermedUntouched ==
  ASSUME NEW d \in Conns, TermedAt(d), killed'[d] = killed[d], sent'[d] = sent[d],
         conn'[d] \in {"reap", "done"} =>
           conn'[d] = conn[d] /\ (conn[d] = "done" => written'[d] = written[d])
  PROVE  TermedAt(d)'
BY DEF TermedAt, Termed, AllSent, IsSent

LEMMA TermedAlways == Spec => []TermedInv
<1>1. TypeOK /\ FlowInv /\ TermedInv /\ [Next]_vars => TermedInv'
  <2> SUFFICES ASSUME TypeOK, FlowInv, TermedInv, [Next]_vars, NEW d \in Conns
               PROVE  TermedAt(d)'
    BY DEF TermedInv
  <2>1. FlowAt(d) /\ TermedAt(d)
    BY DEF FlowInv, TermedInv
  <2>2. ASSUME NEW c \in Conns, Handler(c) PROVE TermedAt(d)'
    <3>1. CASE c = d
      BY <2>1, <2>2, <3>1, TermedHandler
    <3>2. CASE c # d
      <4>1. Untouched(d)
        BY <2>2, <3>2, HandlerKeepsOthers
      <4>2. killed'[d] = killed[d]
        BY <2>2, <3>2, HandlerSignalsItsOwn
      <4> QED BY <2>1, <4>1, <4>2, TermedUntouched DEF Untouched
    <3> QED BY <3>1, <3>2
  <2>3. CASE Main
    BY <2>1, <2>3, TermedUntouched
       DEF Main, Stop, BeginDrain, DrainDone, DrainExpires, ExitProcess, wireVars, groupVars
  <2>4. CASE Acceptor
    BY <2>1, <2>4, TermedUntouched
       DEF Acceptor, Accept, Register, AcceptFails, AcceptorCancelled, AcceptorEnds, GoTo,
           TypeOK, bridgeVars, wireVars, groupVars
  <2>5. ASSUME NEW c \in Conns, NEW s \in Streams, Pump(c, s) PROVE TermedAt(d)'
    BY <2>1, <2>5, TermedUntouched DEF Pump, wireVars
  <2>6. ASSUME NEW c \in Conns, Client(c) PROVE TermedAt(d)'
    BY <2>1, <2>6, TermedUntouched
       DEF Client, Connect, ClientSends, ClientReads, ClientCloses, GoTo, TypeOK,
           bridgeVars, groupVars
  <2>7. ASSUME NEW c \in Conns, Group(c) PROVE TermedAt(d)'
    <3>1. /\ conn'[d] = conn[d] /\ killed'[d] = killed[d] /\ sent'[d] = sent[d]
          /\ conn[d] = "done" => written'[d] = written[d]
      BY <2>7 DEF Group, GroupWrites, GroupReads, GroupCloses, ChildDies, Over, TypeOK,
                  handlerVars, bridgeVars, wireVars
    <3> QED BY <2>1, <3>1, TermedUntouched
  <2>8. CASE UNCHANGED vars
    BY <2>1, <2>8, TermedUntouched DEF vars, handlerVars, bridgeVars, wireVars, groupVars
  <2> QED BY <2>2, <2>3, <2>4, <2>5, <2>6, <2>7, <2>8 DEF Next
<1> QED BY TermedInit, TypeCorrect, OutputFlow, <1>1, PTL DEF Spec

\* What a client does not get of its command's output, it does not get because
\* the group was TERMed (handle_conn's else branch).
THEOREM WithholdingTerms == Spec => []WithheldOnlyIfTermed
<1>1. TermedInv => WithheldOnlyIfTermed
  BY DEF TermedInv, TermedAt, Termed, AllSent, WithheldOnlyIfTermed
<1> QED BY TermedAlways, <1>1, PTL

-----------------------------------------------------------------------------
(***************************************************************************)
(* The announcements.  A handler can announce in two places, which it      *)
(* passes in order and once: its stage bounds what was said and signalled. *)
(***************************************************************************)
Times(q, x) == Cardinality({i \in DOMAIN q : q[i] = x})

LEMMA TimesNone == \A x : Times(<<>>, x) = 0
<1>1. \A x : {i \in DOMAIN <<>> : <<>>[i] = x} = {}
  OBVIOUS
<1> QED BY <1>1, FS_EmptySet DEF Times

LEMMA TimesType ==
  ASSUME NEW S, NEW q \in Seq(S), NEW x
  PROVE  /\ IsFiniteSet({i \in DOMAIN q : q[i] = x})
         /\ Times(q, x) \in Nat
<1>1. IsFiniteSet(1 .. Len(q))
  BY FS_Interval
<1>2. {i \in DOMAIN q : q[i] = x} \in SUBSET (1 .. Len(q))
  OBVIOUS
<1>3. IsFiniteSet({i \in DOMAIN q : q[i] = x})
  BY <1>1, <1>2, FS_Subset
<1> QED BY <1>3, FS_CardinalityType DEF Times

LEMMA TimesAppended ==
  ASSUME NEW S, NEW q \in Seq(S), NEW y \in S, NEW x
  PROVE  Times(Append(q, y), x) = IF y = x THEN Times(q, x) + 1 ELSE Times(q, x)
<1> DEFINE at(p) == {i \in DOMAIN p : p[i] = x}
           new == Len(q) + 1
<1>1. IsFiniteSet(at(q))
  BY TimesType
<1>2. at(Append(q, y)) = IF y = x THEN at(q) \cup {new} ELSE at(q)
  OBVIOUS
<1>3. new \notin at(q)
  OBVIOUS
<1>4. Cardinality(at(q) \cup {new}) = Cardinality(at(q)) + 1
  BY <1>1, <1>3, FS_AddElement
<1> QED BY <1>2, <1>4 DEF Times

Notices(c) == Times(sent[c], Frame("ServerStopping"))
Terms(c) == Times(killed[c], "TERM")

\* How many announcements a handler may have made where it is.
Stage(c) ==
  IF Asking(c) \/ conn[c] = "announce" \/ (conn[c] \in AtBridge /\ "stopping" \in arms[c])
    THEN 0
    ELSE IF conn[c] \in AtBridge \cup {"wait", "lateAnnounce"} THEN 1 ELSE 2

NoticeAt(c) ==
  /\ Notices(c) <= Stage(c) /\ Terms(c) <= Stage(c)
  /\ conn[c] = "announce" => "stopping" \notin arms[c]

NoticeInv == \A c \in Conns : NoticeAt(c)

LEMMA NoticeCounts ==
  ASSUME TypeOK, NEW c \in Conns
  PROVE  Notices(c) \in Nat /\ Terms(c) \in Nat
<1>1. Notices(c) \in Nat
  BY TimesType DEF Notices, TypeOK
<1>2. Terms(c) \in Nat
  BY TimesType DEF Terms, TypeOK
<1> QED BY <1>1, <1>2

LEMMA NoticeInit == Init => NoticeInv
<1> SUFFICES ASSUME Init, NEW c \in Conns PROVE NoticeAt(c)
  BY DEF NoticeInv
<1>1. conn[c] = "none" /\ sent[c] = <<>> /\ killed[c] = <<>>
  BY DEF Init
<1>2. Notices(c) = 0 /\ Terms(c) = 0
  BY <1>1, TimesNone DEF Notices, Terms
<1> QED BY <1>1, <1>2 DEF NoticeAt, Stage, AtBridge

\* Another frame, or a signal of the client's, is no announcement.
LEMMA NoticesGrow ==
  ASSUME TypeOK, NEW c \in Conns, NEW f \in ServerFrames, PutOrFail(c, f) \/ Put(c, f)
  PROVE  /\ Notices(c)' \in {Notices(c), Notices(c) + 1}
         /\ f # Frame("ServerStopping") => Notices(c)' = Notices(c)
<1>1. sent[c] \in Seq(ServerFrames)
  BY DEF TypeOK
<1>2. sent'[c] \in {sent[c], Append(sent[c], f)}
  BY DEF PutOrFail, Put, TypeOK
<1>3. Times(Append(sent[c], f), Frame("ServerStopping")) =
        IF f = Frame("ServerStopping") THEN Notices(c) + 1 ELSE Notices(c)
  BY <1>1, TimesAppended DEF Notices
<1> QED BY <1>2, <1>3 DEF Notices

LEMMA TermsGrow ==
  ASSUME TypeOK, NEW c \in Conns, NEW by \in {"TERM", "client"}, SignalGroup(c, by)
  PROVE  Terms(c)' = IF by = "TERM" THEN Terms(c) + 1 ELSE Terms(c)
<1>1. /\ killed[c] \in Seq({"TERM", "client"})
      /\ killed'[c] = Append(killed[c], by)
  BY DEF SignalGroup, TypeOK
<1> QED BY <1>1, TimesAppended DEF Terms

\* A step that announces nothing and does not go back a stage.
LEMMA NoticeQuiet ==
  ASSUME NEW d \in Conns, NoticeAt(d), Notices(d)' = Notices(d), Terms(d)' = Terms(d),
         Stage(d) <= Stage(d)', conn'[d] = "announce" => "stopping" \notin arms'[d],
         Notices(d) \in Nat, Terms(d) \in Nat
  PROVE  NoticeAt(d)'
BY DEF NoticeAt, Stage

\* A step that announces, on the way to the next stage.
LEMMA NoticeLoud ==
  ASSUME TypeOK, NEW d \in Conns, NoticeAt(d), Stage(d) < Stage(d)',
         Notices(d)' \in {Notices(d), Notices(d) + 1},
         Terms(d)' \in {Terms(d), Terms(d) + 1}, conn'[d] # "announce"
  PROVE  NoticeAt(d)'
<1>1. Notices(d) \in Nat /\ Terms(d) \in Nat
  BY NoticeCounts
<1>2. Stage(d) \in 0 .. 2 /\ Stage(d)' \in 0 .. 2
  BY DEF Stage
<1> QED BY <1>1, <1>2 DEF NoticeAt

\* The stage as far as the handler's place tells it.
LEMMA StageIs ==
  ASSUME NEW c \in Conns
  PROVE  /\ Asking(c) => Stage(c) = 0
         /\ conn[c] = "announce" => Stage(c) = 0
         /\ conn[c] \in AtBridge \ {"announce"} =>
              Stage(c) = IF "stopping" \in arms[c] THEN 0 ELSE 1
         /\ conn[c] \in {"wait", "lateAnnounce"} => Stage(c) = 1
         /\ conn[c] \in {"lateWait", "reap", "done", "dropped"} => Stage(c) = 2
         /\ conn[c] = "final" /\ child[c] # "none" => Stage(c) = 2
BY DEF Stage, Asking, AtBridge

LEMMA StageBecomes ==
  ASSUME NEW c \in Conns
  PROVE  /\ Asking(c)' => Stage(c)' = 0
         /\ conn'[c] = "announce" => Stage(c)' = 0
         /\ conn'[c] \in AtBridge \ {"announce"} =>
              Stage(c)' = IF "stopping" \in arms'[c] THEN 0 ELSE 1
         /\ conn'[c] \in {"wait", "lateAnnounce"} => Stage(c)' = 1
         /\ conn'[c] \in {"lateWait", "reap", "done", "dropped"} => Stage(c)' = 2
         /\ conn'[c] = "final" /\ child'[c] # "none" => Stage(c)' = 2
         /\ Stage(c)' \in 0 .. 2
BY DEF Stage, Asking, AtBridge

LEMMA NoticeFirst ==
  ASSUME TypeOK, NEW c \in Conns, NoticeAt(c), First(c)
  PROVE  NoticeAt(c)'
<1>1. sent' = sent /\ killed' = killed /\ conn'[c] # "announce" /\ Asking(c)
  BY DEF First, FirstAnswered, Spawn, FirstIsEof, FirstIsStopping, Asking, GoTo, Takes,
         Finish, TypeOK, bridgeVars, wireVars
<1>2. Notices(c)' = Notices(c) /\ Terms(c)' = Terms(c)
  BY <1>1 DEF Notices, Terms
<1>3. Stage(c) <= Stage(c)'
  BY <1>1, StageIs, StageBecomes
<1> QED BY <1>1, <1>2, <1>3, NoticeCounts, NoticeQuiet

LEMMA NoticeBridge ==
  ASSUME TypeOK, NEW c \in Conns, FlowAt(c), EndsAt(c), NoticeAt(c), Bridge(c)
  PROVE  NoticeAt(c)'
<1>1. reply[c] \in ServerFrames
  BY DEF TypeOK
<1>2. CASE conn[c] = "bridge" /\ (TakeOutput(c) \/ BridgeDrained(c))
  <2>1. /\ sent' = sent /\ killed' = killed /\ arms' = arms
        /\ conn'[c] \in {"relay", "wait"}
    BY <1>2 DEF TakeOutput, BridgeDrained, GoTo, TypeOK, bridgeVars, wireVars
  <2>2. Notices(c)' = Notices(c) /\ Terms(c)' = Terms(c)
    BY <2>1 DEF Notices, Terms
  <2>3. Stage(c) <= Stage(c)'
    BY <1>2, <2>1, StageIs, StageBecomes DEF AtBridge
  <2> QED BY <2>1, <2>2, <2>3, NoticeCounts, NoticeQuiet
<1>3. CASE conn[c] = "bridge" /\ "stopping" \in arms[c] /\ TakeStopping(c)
  <2>1. /\ sent' = sent /\ killed' = killed /\ "stopping" \notin arms'[c]
        /\ conn'[c] = "announce"
    BY <1>3 DEF TakeStopping, Disarm, GoTo, TypeOK, bridgeVars, wireVars
  <2>2. Notices(c)' = Notices(c) /\ Terms(c)' = Terms(c)
    BY <2>1 DEF Notices, Terms
  <2>3. Stage(c) <= Stage(c)'
    BY <1>3, <2>1, StageIs, StageBecomes DEF AtBridge
  <2> QED BY <2>1, <2>2, <2>3, NoticeCounts, NoticeQuiet
<1>4. CASE conn[c] = "bridge" /\ FrameArm(c)
  <2>1. /\ sent' = sent /\ arms'[c] \subseteq arms[c]
        /\ "stopping" \in arms[c] => "stopping" \in arms'[c]
        /\ conn'[c] \in {"bridge", "feed", "fault"}
        /\ killed' = killed \/ SignalGroup(c, "client")
    BY <1>4 DEF FrameArm, TakeStdin, TakeStdinEof, TakeSignal, TakeMisdirected, TakeEof,
                TakeJunk, TakeReset, Fault, Disarm, GoTo, Takes, TypeOK, bridgeVars,
                wireVars
  <2>2. Notices(c)' = Notices(c) /\ Terms(c)' = Terms(c)
    BY <2>1, TermsGrow DEF Notices, Terms
  <2>3. Stage(c) <= Stage(c)'
    BY <1>4, <2>1, StageIs, StageBecomes DEF AtBridge
  <2> QED BY <2>1, <2>2, <2>3, NoticeCounts, NoticeQuiet
<1>5. CASE RelaySent(c) \/ FeedWritten(c) \/ FeedFails(c)
  <2>1. /\ killed' = killed /\ arms' = arms
        /\ conn[c] \in {"relay", "feed"} /\ conn'[c] = "bridge"
        /\ sent' = sent \/ (conn[c] = "relay" /\ Put(c, reply[c]))
    BY <1>5 DEF RelaySent, FeedWritten, FeedFails, GoTo, TypeOK, bridgeVars, wireVars
  <2>2. conn[c] = "relay" => reply[c] # Frame("ServerStopping")
    BY StreamsAssumption DEF EndsAt, Frame
  <2>3. Notices(c)' = Notices(c) /\ Terms(c)' = Terms(c)
    BY <1>1, <2>1, <2>2, NoticesGrow DEF Notices, Terms
  <2>4. Stage(c) <= Stage(c)'
    BY <2>1, StageIs, StageBecomes DEF AtBridge
  <2> QED BY <2>1, <2>3, <2>4, NoticeCounts, NoticeQuiet
<1>6. CASE RelayFails(c) \/ FaultAnswered(c)
  <2>1. /\ conn[c] \in {"relay", "fault"} /\ conn'[c] = "reap"
        /\ SignalGroup(c, "TERM")
        /\ sent' = sent \/ (conn[c] = "fault" /\ Put(c, reply[c]))
    BY <1>6 DEF RelayFails, FaultAnswered, Abandon, PutOrFail, GoTo, TypeOK,
                bridgeVars, wireVars
  <2>2. Notices(c)' \in {Notices(c), Notices(c) + 1}
    BY <1>1, <2>1, NoticesGrow, NoticeCounts DEF Notices
  <2>3. Terms(c)' = Terms(c) + 1
    BY <2>1, TermsGrow
  <2>4. Stage(c) < Stage(c)'
    BY <2>1, StageIs, StageBecomes DEF AtBridge
  <2> QED BY <2>1, <2>2, <2>3, <2>4, NoticeLoud
<1>7. CASE Announce(c, "announce", "bridge")
  <2>1. /\ conn[c] = "announce" /\ conn'[c] = "bridge" /\ arms' = arms
        /\ SignalGroup(c, "TERM") /\ PutOrFail(c, Frame("ServerStopping"))
        /\ Frame("ServerStopping") \in ServerFrames
    BY <1>7, FrameTypes DEF Announce, GoTo, TypeOK
  <2>2. /\ Notices(c)' \in {Notices(c), Notices(c) + 1}
        /\ Terms(c)' = Terms(c) + 1
    BY <2>1, NoticesGrow, TermsGrow
  <2>3. Stage(c) < Stage(c)'
    BY <2>1, StageIs, StageBecomes DEF NoticeAt, AtBridge
  <2> QED BY <2>1, <2>2, <2>3, NoticeLoud
<1> QED BY <1>2, <1>3, <1>4, <1>5, <1>6, <1>7 DEF Bridge

LEMMA NoticeAfter ==
  ASSUME TypeOK, NEW c \in Conns, NoticeAt(c), After(c)
  PROVE  NoticeAt(c)'
<1> USE DEF TypeOK, GoTo, Finish, bridgeVars, wireVars
<1>1. CASE WaitReaps(c) \/ WaitFails(c) \/ WaitStopping(c) \/ ReapAbandoned(c)
  <2>1. /\ sent' = sent /\ killed' = killed
        /\ \/ /\ conn[c] \in {"wait", "lateWait"}
              /\ conn'[c] = "final" /\ child'[c] # "none"
           \/ conn[c] = "wait" /\ conn'[c] = "lateAnnounce"
           \/ conn[c] = "reap" /\ conn'[c] = "done"
    BY <1>1 DEF WaitReaps, WaitFails, WaitStopping, ReapAbandoned, Reap
  <2>2. Notices(c)' = Notices(c) /\ Terms(c)' = Terms(c)
    BY <2>1 DEF Notices, Terms
  <2>3. Stage(c) <= Stage(c)'
    BY <2>1, StageIs, StageBecomes
  <2> QED BY <2>1, <2>2, <2>3, NoticeCounts, NoticeQuiet
<1>2. CASE Announce(c, "lateAnnounce", "lateWait")
  <2>1. /\ conn[c] = "lateAnnounce" /\ conn'[c] = "lateWait"
        /\ SignalGroup(c, "TERM") /\ PutOrFail(c, Frame("ServerStopping"))
        /\ Frame("ServerStopping") \in ServerFrames
    BY <1>2, FrameTypes DEF Announce
  <2>2. /\ Notices(c)' \in {Notices(c), Notices(c) + 1}
        /\ Terms(c)' = Terms(c) + 1
    BY <2>1, NoticesGrow, TermsGrow
  <2>3. Stage(c) < Stage(c)'
    BY <2>1, StageIs, StageBecomes
  <2> QED BY <2>1, <2>2, <2>3, NoticeLoud
<1> QED BY <1>1, <1>2 DEF After

LEMMA NoticeFinal ==
  ASSUME TypeOK, NEW c \in Conns, FlowAt(c), NoticeAt(c), SendFinal(c)
  PROVE  NoticeAt(c)'
<1>1. /\ conn[c] = "final" /\ conn'[c] = "done" /\ PutOrFail(c, reply[c])
      /\ killed' = killed /\ reply[c] \in ServerFrames
  BY DEF SendFinal, GoTo, TypeOK, bridgeVars
<1>2. Terms(c)' = Terms(c) /\ Stage(c)' = 2
  BY <1>1, StageBecomes DEF Terms
<1>3. CASE child[c] = "none"
  <2>1. Stage(c) = 0
    BY <1>1, <1>3, StageIs DEF Asking
  <2> QED BY <1>1, <1>2, <2>1, NoticesGrow, NoticeLoud
<1>4. CASE child[c] # "none"
  <2>1. reply[c] # Frame("ServerStopping")
    BY <1>1, <1>4 DEF FlowAt, LastWords, Frame
  <2>2. Notices(c)' = Notices(c)
    BY <1>1, <2>1, NoticesGrow
  <2>3. Stage(c) <= Stage(c)'
    BY <1>1, <1>2, <1>4, StageIs
  <2> QED BY <1>1, <1>2, <2>2, <2>3, NoticeCounts, NoticeQuiet
<1> QED BY <1>3, <1>4

LEMMA NoticeUntouched ==
  ASSUME NEW d \in Conns, NoticeAt(d), killed'[d] = killed[d], sent'[d] = sent[d],
         arms'[d] = arms[d], (child'[d] = "none") <=> (child[d] = "none"),
         conn'[d] = conn[d]
  PROVE  NoticeAt(d)'
BY DEF NoticeAt, Notices, Terms, Stage, Asking

LEMMA NoticeAlways == Spec => []NoticeInv
<1>1. TypeOK /\ ChildMatchesHandler /\ TerminalEnds /\ FlowInv /\ NoticeInv /\ [Next]_vars
        => NoticeInv'
  <2> SUFFICES ASSUME TypeOK, ChildMatchesHandler, TerminalEnds, FlowInv, NoticeInv,
                      [Next]_vars, NEW d \in Conns
               PROVE  NoticeAt(d)'
    BY DEF NoticeInv
  <2>1. FlowAt(d) /\ EndsAt(d) /\ NoticeAt(d) /\ Notices(d) \in Nat /\ Terms(d) \in Nat
    BY EndsEverywhere, NoticeCounts DEF FlowInv, NoticeInv
  <2>2. ASSUME NEW c \in Conns, Handler(c) PROVE NoticeAt(d)'
    <3>1. CASE c = d
      BY <2>1, <2>2, <3>1, NoticeFirst, NoticeBridge, NoticeAfter, NoticeFinal DEF Handler
    <3>2. CASE c # d
      <4>1. Untouched(d) /\ killed'[d] = killed[d] /\ arms'[d] = arms[d]
        BY <2>2, <3>2, HandlerKeepsOthers, HandlerSignalsItsOwn
      <4> QED BY <2>1, <4>1, NoticeUntouched DEF Untouched
    <3> QED BY <3>1, <3>2
  <2>3. CASE Main \/ Acceptor
    <3>1. /\ sent'[d] = sent[d] /\ killed'[d] = killed[d] /\ arms'[d] = arms[d]
          /\ child'[d] = child[d]
          /\ \/ conn'[d] = conn[d] \/ conn'[d] = "dropped"
             \/ conn[d] = "backlog" /\ conn'[d] \in {"first", "refused"}
      BY <2>3 DEF Main, Stop, BeginDrain, DrainDone, DrainExpires, ExitProcess, Acceptor,
                  Accept, Register, AcceptFails, AcceptorCancelled, AcceptorEnds, GoTo,
                  TypeOK, bridgeVars, wireVars, groupVars
    <3>2. Notices(d)' = Notices(d) /\ Terms(d)' = Terms(d)
      BY <3>1 DEF Notices, Terms
    <3>3. CASE conn'[d] = conn[d]
      BY <2>1, <3>1, <3>3, NoticeUntouched
    <3>4. CASE conn'[d] = "dropped"
      <4>1. Stage(d) <= Stage(d)'
        BY <3>4, StageBecomes DEF Stage
      <4> QED BY <2>1, <3>2, <3>4, <4>1, NoticeQuiet
    <3>5. CASE conn[d] = "backlog" /\ conn'[d] \in {"first", "refused"}
      <4>1. Stage(d) <= Stage(d)'
        BY <3>5, StageIs, StageBecomes DEF Asking
      <4> QED BY <2>1, <3>2, <3>5, <4>1, NoticeQuiet
    <3> QED BY <3>1, <3>3, <3>4, <3>5
  <2>4. ASSUME NEW c \in Conns, NEW s \in Streams, Pump(c, s) PROVE NoticeAt(d)'
    BY <2>1, <2>4, NoticeUntouched DEF Pump, wireVars
  <2>5. ASSUME NEW c \in Conns, Client(c) PROVE NoticeAt(d)'
    <3>1. /\ sent' = sent /\ killed' = killed /\ arms' = arms /\ child' = child
          /\ \/ conn'[d] = conn[d]
             \/ conn[d] = "none" /\ conn'[d] = "backlog"
      BY <2>5 DEF Client, Connect, ClientSends, ClientReads, ClientCloses, GoTo, TypeOK,
                  ChildMatchesHandler, bridgeVars, groupVars
    <3>2. CASE conn'[d] = conn[d]
      BY <2>1, <3>1, <3>2, NoticeUntouched
    <3>3. CASE conn[d] = "none" /\ conn'[d] = "backlog"
      <4>1. Notices(d)' = Notices(d) /\ Terms(d)' = Terms(d)
        BY <3>1 DEF Notices, Terms
      <4>2. Stage(d) <= Stage(d)'
        BY <3>3, StageIs, StageBecomes DEF Asking
      <4> QED BY <2>1, <3>3, <4>1, <4>2, NoticeQuiet
    <3> QED BY <3>1, <3>2, <3>3
  <2>6. ASSUME NEW c \in Conns, Group(c) PROVE NoticeAt(d)'
    <3>1. /\ conn' = conn /\ killed' = killed /\ sent' = sent /\ arms' = arms
          /\ (child'[d] = "none") <=> (child[d] = "none")
      BY <2>6 DEF Group, GroupWrites, GroupReads, GroupCloses, ChildDies, TypeOK,
                  handlerVars, bridgeVars, wireVars
    <3> QED BY <2>1, <3>1, NoticeUntouched
  <2>7. CASE UNCHANGED vars
    BY <2>1, <2>7, NoticeUntouched DEF vars, handlerVars, bridgeVars, wireVars, groupVars
  <2> QED BY <2>2, <2>3, <2>4, <2>5, <2>6, <2>7 DEF Next
<1> QED BY NoticeInit, TypeCorrect, ChildAlways, EndsAlways, OutputFlow, <1>1, PTL
        DEF Spec

\* The announcement at the bridge, the late one and the TERM of an abandoned
\* bridge never add up to three (bridge and handle_conn each announce once).
THEOREM AnnouncementsAreBounded == Spec => []AnnouncedAtMostTwice
<1>1. TypeOK /\ NoticeInv => AnnouncedAtMostTwice
  <2> SUFFICES ASSUME TypeOK, NoticeInv, NEW c \in Conns
               PROVE  Notices(c) <= 2 /\ Terms(c) <= 2
    BY DEF AnnouncedAtMostTwice, Notices, Terms, Times
  <2>1. Notices(c) \in Nat /\ Terms(c) \in Nat /\ Stage(c) \in 0 .. 2
    BY NoticeCounts DEF Stage
  <2> QED BY <2>1 DEF NoticeInv, NoticeAt
<1> QED BY TypeCorrect, NoticeAlways, <1>1, PTL
=============================================================================
