--------------------------- MODULE ServerDialogue ---------------------------
(* ncap-server, as module Server has it, keeps the contract of Dialogue. *)
EXTENDS ServerProps

\* Where a handler is, to its client.  An announced end that is still being
\* sent is not one yet.
Phase(c) ==
  CASE conn[c] \in {"none", "backlog", "first"} -> "asking"
    [] conn[c] = "final" -> IF child[c] = "none" THEN "asking" ELSE "talking"
    [] conn[c] \in (AtBridge \cup AfterBridge) \ {"reap"} -> "talking"
    [] OTHER -> "over"

phaseBar == [c \in Conns |-> Phase(c)]
madeBar == [c \in Conns |-> [s \in Streams |-> written[c][s]]]

D == INSTANCE Dialogue WITH phase <- phaseBar, said <- sent, made <- madeBar

\* The server implements the contract: every behaviour of acceptor, handler,
\* bridge and pumps is, to the client, one of Dialogue (spec/protocol.md,
\* Connection lifecycle).
KeepsDialogue == D!Spec

-----------------------------------------------------------------------------
(***************************************************************************)
(* The invariant behind the refinement: where each chunk of output is on   *)
(* its way from the pipe to the socket.                                    *)
(***************************************************************************)
Asking(c) == conn[c] \in {"none", "backlog", "first", "refused"}
              \/ (conn[c] = "final" /\ child[c] = "none")

\* Past the bridge, and on the way to a last frame.
Settled(c) == conn[c] \in {"wait", "lateAnnounce", "lateWait"}
               \/ (conn[c] = "final" /\ child[c] # "none")

Held(c, f) == conn[c] = "relay" /\ reply[c] = f
Queued(c, f) == \E i \in DOMAIN chan[c] : chan[c][i] = f
AllSent(c) == \A s \in Streams : \A n \in 1 .. written[c][s] : IsSent(c, Chunk(s, n))

\* Before a child there is no output.
QuietBefore(c) ==
  Asking(c) =>
    /\ sent[c] = <<>> /\ chan[c] = <<>> /\ theirs[c] = {}
    /\ \A s \in Streams : written[c][s] = 0 /\ taken[c][s] = 0

\* A chunk that left the pipe was sent, is being sent, or waits in the channel.
NothingLost(c) ==
  conn[c] \in AtBridge =>
    \A s \in Streams : \A n \in 1 .. taken[c][s] :
      IsSent(c, Chunk(s, n)) \/ Held(c, Chunk(s, n)) \/ Queued(c, Chunk(s, n))

\* It is in one of these places only, and once.
InOnePlace(c) ==
  conn[c] \in AtBridge =>
    /\ \A i, j \in DOMAIN chan[c] : chan[c][i] = chan[c][j] => i = j
    /\ \A i \in DOMAIN chan[c] :
         ~IsSent(c, chan[c][i]) /\ ~Held(c, chan[c][i])
    /\ conn[c] = "relay" => ~IsSent(c, reply[c])

\* Nothing is anywhere that was not taken from the pipe.
NothingForged(c) ==
  conn[c] \in AtBridge =>
    /\ \A i \in DOMAIN chan[c] : chan[c][i].n \in 1 .. taken[c][chan[c][i].type]
    /\ conn[c] = "relay" => reply[c].n \in 1 .. taken[c][reply[c].type]
    /\ \A i \in DOMAIN sent[c] : sent[c][i].type \in Streams =>
         sent[c][i].n \in 1 .. taken[c][sent[c][i].type]

\* What precedes a chunk in its stream is ahead of it on the way.
NothingOvertaken(c) ==
  conn[c] \in AtBridge =>
    /\ \A i \in DOMAIN chan[c] : \A m \in 1 .. chan[c][i].n - 1 :
         LET f == Chunk(chan[c][i].type, m)
         IN  IsSent(c, f) \/ Held(c, f) \/ \E j \in 1 .. i - 1 : chan[c][j] = f
    /\ conn[c] = "relay" =>
         \A m \in 1 .. reply[c].n - 1 : IsSent(c, Chunk(reply[c].type, m))

\* A pump ends at the end of its pipe, and so nothing more is written.
PumpsEndLast(c) ==
  /\ \A s \in Streams : taken[c][s] <= written[c][s]
  /\ conn[c] \in AtBridge \/ Settled(c) =>
       \A s \in Streams \ ours[c] : s \notin theirs[c] /\ taken[c][s] = written[c][s]

SettledIsComplete(c) ==
  Settled(c) => ours[c] \cap Streams = {} /\ AllSent(c)

\* What a handler is about to say for the last time.
LastWords(c) ==
  /\ conn[c] = "fault" => reply[c] = Frame("Error")
  /\ conn[c] = "final" =>
       reply[c] \in {Frame(t) : t \in Terminals \cup {"ServerStopping"}}
  /\ conn[c] = "final" /\ child[c] # "none" =>
       reply[c] \in {Frame("Exit"), Frame("Error")}

ExitIsComplete(c) ==
  IsSent(c, Frame("Exit")) => conn[c] \in Over /\ AllSent(c)

SentInOrder(c) ==
  \A i \in DOMAIN sent[c] :
    sent[c][i].type \in Streams =>
      /\ \A j \in DOMAIN sent[c] : sent[c][j] = sent[c][i] => j = i
      /\ sent[c][i].n > 1 =>
           \E j \in 1 .. i - 1 :
             sent[c][j] = Chunk(sent[c][i].type, sent[c][i].n - 1)

FlowAt(c) ==
  /\ QuietBefore(c) /\ NothingLost(c) /\ InOnePlace(c) /\ NothingForged(c)
  /\ NothingOvertaken(c) /\ PumpsEndLast(c) /\ SettledIsComplete(c)
  /\ LastWords(c) /\ ExitIsComplete(c) /\ SentInOrder(c)

\* Every chunk of output is in one place on its way, behind those written
\* before it, and an Exit leaves none behind.
FlowInv == \A c \in Conns : FlowAt(c)
=============================================================================
