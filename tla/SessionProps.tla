---------------------------- MODULE SessionProps ----------------------------
(* What ncap promises its host, over ncap and ncap-server together. *)
EXTENDS Session, ServerProps

\* ncap is one of the clients module Server admits, so that all that is
\* proved of the server holds of the two together (session; spec/protocol.md,
\* Connection lifecycle).
IsAClient == Spec

\* A status means that all output was taken from the socket before it, what
\* descendants of the child wrote included (session's frame arm, handle_conn).
StatusAfterOutput ==
  \A c \in Conns :
    result[c] = "status" /\ child[c] = "reaped" =>
      \A s \in Streams : \A n \in 1 .. written[c][s] :
        \E i \in 1 .. got[c] : sent[c][i] = Chunk(s, n)

\* The exit code of a shutdown, which a clean close gives as well, is never
\* reported while the server serves (session's None arm; spec/client.md, Exit
\* codes).
StoppedOnlyByShutdown ==
  \A c \in Conns : result[c] = "stopped" => Stopping

\* A child that holds its stdin sees the end of it only behind every chunk
\* the host gave, as long as ncap is there (pump_stdin, session's stdin arm,
\* bridge's frame arm).
InputIsWhole ==
  \A c \in Conns :
    conn[c] \in AtBridge \ {"fault"} /\ "Stdin" \notin ours[c] /\ "Stdin" \in theirs[c]
      /\ result[c] = "none"
    => thread[c] = "done" /\ written[c]["Stdin"] = typed[c]

\* ncap never sends what the server rejects: a bridge faults only once the
\* client is gone, or cut off within a frame (session, bridge).
FaultOnlyIfCut ==
  \A c \in Conns : conn[c] = "fault" => result[c] # "none"

\* That ncap has still to announce the end of stdin when the child is already
\* reported costs the host nothing: the failed send is no failure (session's
\* stdin arm).
EofIsBestEffort ==
  \A c \in Conns :
    typed[c] = 0 /\ raised[c] = 0 /\ child[c] = "reaped" /\ IsSent(c, Frame("Exit"))
      => result[c] # "send"

-----------------------------------------------------------------------------
(***************************************************************************)
(* The inductive invariant behind the proofs of module SessionProofs, next *)
(* to those of the server.                                                 *)
(***************************************************************************)

\* The server's view of a client and the session itself.
SessionMatchesClient(c) ==
  /\ client[c] \in {"none", "open", "gone"}
  /\ at[c] = "off" => client[c] = "none" /\ conn[c] = "none"
  /\ client[c] = "none" => conn[c] = "none"
  /\ client[c] = "gone" => at[c] = "over"
  /\ result[c] = "none" <=> at[c] \in Sendings \cup {"off", "select", "write"}

\* While the socket is open the server knows how far the session has read.
ReadsInStep(c) ==
  /\ got[c] <= Len(sent[c])
  /\ ~Closed(c) => got[c] = read[c]

\* A session that goes on has seen nothing but output, and one that reports
\* a status has just seen it.
HeardSoFar(c) ==
  /\ result[c] = "none" =>
       \A i \in 1 .. got[c] : sent[c][i].type \in Streams
  /\ result[c] = "status" => got[c] > 0 /\ sent[c][got[c]] = Frame("Exit")

\* Half a frame is what a killed session leaves.
JunkIsCut(c) ==
  \A i \in DOMAIN inbox[c] : inbox[c][i] = "Junk" => result[c] # "none"

\* A handler that is through has had its last word, if there was somebody to
\* hear it, and it speaks of a shutdown only after the broadcast.
LastWordSaid(c) ==
  /\ conn[c] \in {"reap", "done"} /\ ~Gone(c) =>
       \E i \in DOMAIN sent[c] : sent[c][i].type \notin Streams
  /\ conn[c] = "fault" => result[c] # "none"
  /\ conn[c] \in {"announce", "lateAnnounce"} => Stopping
  /\ conn[c] = "final" /\ reply[c] = Frame("ServerStopping") => Stopping
  /\ conn[c] = "final" => reply[c].type \notin Streams
  /\ conn[c] = "relay" => reply[c].type \in Streams
  /\ IsSent(c, Frame("ServerStopping")) => Stopping
  /\ conn[c] = "dropped" => Stopping

\* What can make a send fail, other than a request that came too late.
SendHasCause(c) ==
  /\ at[c] \in {"off", "Request"} => inbox[c] = <<>> /\ child[c] = "none"
  /\ at[c] = "Stdin" => typed[c] # 0
  /\ typed[c] = 0 => \A i \in DOMAIN feed[c] : feed[c][i] # "Stdin"
  /\ at[c] = "Signal" => raised[c] # 0
  /\ raised[c] = 0 => pending[c] = {}
  /\ result[c] = "send" =>
       typed[c] # 0 \/ raised[c] # 0 \/ (Closed(c) /\ child[c] = "none")

\* Once the end of stdin was taken from the channel there is no more of it
\* behind it, neither in the channel nor on the socket.
EndIsLast(c) ==
  /\ at[c] \in {"off", "Request"} => thread[c] = "off"
  /\ thread[c] = "off" => typed[c] = 0 /\ feed[c] = <<>>
  /\ \A i \in DOMAIN feed[c] :
       feed[c][i] = "StdinEof" => i = Len(feed[c]) /\ thread[c] = "done"
  /\ at[c] = "StdinEof" \/ ~stdinOpen[c] => thread[c] = "done" /\ feed[c] = <<>>
  /\ ~stdinOpen[c] => at[c] \notin {"Stdin", "StdinEof"}
  /\ \A i \in DOMAIN inbox[c] :
       inbox[c][i] = "StdinEof" =>
         ~stdinOpen[c] /\ \A j \in i + 1 .. Len(inbox[c]) : inbox[c][j] # "Stdin"

\* A bridge that gave up a stdin its child still has was told to.
StdinKept(c) ==
  /\ conn[c] = "feed" => "Stdin" \in ours[c]
  /\ result[c] = "none" /\ conn[c] \in AtBridge \ {"fault"}
       /\ "Stdin" \notin ours[c] /\ "Stdin" \in theirs[c]
     => ~stdinOpen[c] /\ \A i \in DOMAIN inbox[c] : inbox[c][i] # "Stdin"

Chunks(q) == Cardinality({i \in DOMAIN q : q[i] = "Stdin"})
OneIf(p) == IF p THEN 1 ELSE 0

\* Nothing of the input was given up yet: the session goes on, its handler is
\* not through with it, and the child has its stdin.
InputTracked(c) ==
  /\ result[c] = "none"
  /\ conn[c] \in {"none", "backlog", "first"} \cup (AtBridge \ {"fault"})
  /\ child[c] = "none" \/ "Stdin" \in theirs[c]

\* Every chunk the host gave is in the channel, with the session, on the
\* socket, with the bridge, or in the child's pipe.
InputCounted(c) ==
  InputTracked(c) =>
    typed[c] = Chunks(feed[c]) + OneIf(at[c] = "Stdin") + Chunks(inbox[c])
                 + OneIf(conn[c] = "feed") + written[c]["Stdin"]

\* Holds in every reachable state of ncap and ncap-server.
SessionInv ==
  /\ SessionTypeOK
  /\ \A c \in Conns :
       /\ SessionMatchesClient(c) /\ ReadsInStep(c) /\ HeardSoFar(c)
       /\ JunkIsCut(c) /\ LastWordSaid(c) /\ SendHasCause(c)
       /\ EndIsLast(c) /\ StdinKept(c) /\ InputCounted(c)

-----------------------------------------------------------------------------
(***************************************************************************)
(* Fairness.  tokio polls a session whose socket, channel or signal is     *)
(* ready, and its arms in random order; all it can be given is bounded.    *)
(* The host takes what is written to its stdout.                           *)
(***************************************************************************)
SessionFairness ==
  \A c \in Conns :
    /\ WF_execVars(Loop(c))
    /\ WF_execVars(Written(c))
    /\ WF_execVars(CutOff(c))

FairExecSpec ==
  /\ ExecSpec /\ ServerFairness /\ SessionFairness
  /\ \A c \in Conns : WF_vars(GroupReads(c) /\ Group(c))

\* A server nobody asks to stop.
ServingSpec ==
  /\ ExecInit /\ [][ExecNext /\ UNCHANGED main]_execVars
  /\ ServerFairness /\ SessionFairness
  /\ \A c \in Conns : WF_vars(GroupReads(c) /\ Group(c))

\* Once the child is dead and nobody holds its pipes, ncap ends.
ChildsEndReachesHost ==
  \A c \in Conns : child[c] = "zombie" /\ theirs[c] = {} ~> result[c] # "none"

\* Once the server was asked to stop, every ncap ends that has a connection
\* (spec/client.md, Exit codes).
ShutdownReachesHosts ==
  \A c \in Conns : Stopping /\ client[c] = "open" ~> result[c] # "none"

-----------------------------------------------------------------------------
(* Statements of the documentation that the code does not keep. *)

\* "On SIGINT or SIGTERM the Client sends Signal verbatim [...] and keeps
\* streaming until the terminal frame" (spec/client.md, Signals): while its
\* child is bridged, a signal that arrived is taken, unless the session ends.
SignalIsRelayed ==
  \A c \in Conns :
    pending[c] # {} /\ conn[c] \in AtBridge
      ~> pending[c] = {} \/ result[c] # "none" \/ conn[c] \notin AtBridge
=============================================================================
