------------------------------- MODULE Server -------------------------------
(***************************************************************************)
(* ncap-server (src/server.rs): it accepts connections, runs one child per *)
(* connection, bridges the child's three pipes to the socket, and shuts    *)
(* down in order on SIGTERM or SIGINT.  The actors that interleave:        *)
(*   - the main task (`run`);                                              *)
(*   - the acceptor task (`accept_loop`);                                  *)
(*   - per connection, a handler (`handle_conn`, with `bridge` inlined)    *)
(*     and two pumps (`pump_output`);                                      *)
(*   - per connection, the client and the child's process group.           *)
(* A step of a handler runs from one .await to the next.  Whatever can     *)
(* block is a place of its own: a send into a socket the client does not   *)
(* read, a write into a stdin the child does not read, a wait for a child  *)
(* that does not die.                                                      *)
(***************************************************************************)
EXTENDS Integers, Sequences, FiniteSets

CONSTANTS
  Conns,     \* connections that may ever be made
  NoConn,    \* stands for no connection
  SockCap,   \* frames a socket buffers, each way
  ChanCap,   \* capacity of the bridge's mpsc channel (64 in the code)
  PipeCap,   \* chunks a pipe buffers
  Streams,   \* the child's output streams, {"Stdout", "Stderr"} in the code
  Expires,   \* whether the drain grace ever runs out
  Speech,    \* bound: the kinds of frame clients send
  MaxAsk,    \* bound: frames one client sends
  MaxOut     \* bound: chunks a child's group writes to one stream

Pipes == Streams \cup {"Stdin"}

(***************************************************************************)
(* Frames, abstracted to what the handler branches on.  "Junk" is a frame  *)
(* that does not decode, at the codec or the message layer; a client that  *)
(* dies half-way through a frame leaves one behind.                        *)
(***************************************************************************)
ClientFrames ==
  {"Request", "RequestVersion", "Stdin", "StdinEof", "Signal", "Junk"}

\* The frames after which the server sends nothing more.
Terminals == {"Exit", "Error", "ServerVersion"}

ASSUME ConnsAssumption == NoConn \notin Conns

ASSUME StreamsAssumption ==
  Streams \cap (Terminals \cup {"ServerStopping", "Stdin"}) = {}

ASSUME CapsAssumption ==
  /\ SockCap \in Nat \ {0}
  /\ ChanCap \in Nat \ {0}
  /\ PipeCap \in Nat \ {0}
  /\ Expires \in BOOLEAN

ASSUME BoundsAssumption ==
  /\ Speech \subseteq ClientFrames
  /\ MaxAsk \in Nat
  /\ MaxOut \in Nat

Chunk(s, n) == [type |-> s, n |-> n]
Frame(t) == [type |-> t, n |-> 0]

ServerFrames ==
  [type : Streams \cup Terminals \cup {"ServerStopping"}, n : Nat]

(***************************************************************************)
(* Where a handler is.  A connection in the "backlog" was completed by the *)
(* kernel and not taken by the acceptor; a "refused" one never will be; a  *)
(* "dropped" one was alive when the process exited.                        *)
(***************************************************************************)
AtBridge == {"bridge", "relay", "feed", "announce", "fault"}
AfterBridge == {"wait", "lateAnnounce", "lateWait", "reap"}
Live == {"first", "final"} \cup AtBridge \cup AfterBridge
Over == {"done", "dropped", "refused"}

VARIABLES
  main,       \* where `run` is; it ends "drained" or "expired"
  acceptor,   \* where `accept_loop` is
  accepted,   \* the connection spawned and not yet pushed, or NoConn
  registered, \* connections whose handle is in the shared Vec
  awaited,    \* connections whose handle the drain took
  conn,       \* where each connection's handler is
  reply,      \* the frame a handler in "relay", "fault" or "final" sends
  arms,       \* arms of the bridge's select whose precondition holds
  chan,       \* the channel from the pumps to the bridge
  ours,       \* pipe ends the server holds
  killed,     \* kill(2) calls on the child's group: "TERM" or "client"
  inbox,      \* frames the client sent and the handler has not read
  sent,       \* every frame the server put in the socket
  read,       \* how many of them the client has read
  client,     \* "none", "open", "half" (write half closed), "gone"
  asked,      \* how many frames the client has sent
  child,      \* "none", "running", "zombie", "reaped", "lost"
  theirs,     \* pipe ends some process of the child's group holds
  written,    \* chunks written to each pipe
  taken       \* chunks read from each pipe

mainVars == <<main, acceptor, accepted, registered, awaited>>
clientVars == <<read, client, asked>>
wireVars == <<inbox, sent>>
groupVars == <<child, theirs, written, taken>>
bridgeVars == <<arms, chan, ours, killed>>
handlerVars == <<conn, reply, bridgeVars>>
vars == <<mainVars, handlerVars, wireVars, clientVars, groupVars>>

TypeOK ==
  /\ main \in {"serving", "aborting", "draining", "drained", "expired"}
  /\ acceptor \in {"accepting", "cancelled", "failed"}
  /\ accepted \in Conns \cup {NoConn}
  /\ registered \subseteq Conns
  /\ awaited \subseteq Conns
  /\ conn \in [Conns -> {"none", "backlog"} \cup Live \cup Over]
  /\ reply \in [Conns -> ServerFrames]
  /\ arms \in [Conns -> SUBSET {"frames", "stopping"}]
  /\ chan \in [Conns -> Seq(ServerFrames)]
  /\ ours \in [Conns -> SUBSET Pipes]
  /\ killed \in [Conns -> Seq({"TERM", "client"})]
  /\ inbox \in [Conns -> Seq(ClientFrames)]
  /\ sent \in [Conns -> Seq(ServerFrames)]
  /\ read \in [Conns -> Nat]
  /\ client \in [Conns -> {"none", "open", "half", "gone"}]
  /\ asked \in [Conns -> Nat]
  /\ child \in [Conns -> {"none", "running", "zombie", "reaped", "lost"}]
  /\ theirs \in [Conns -> SUBSET Pipes]
  /\ written \in [Conns -> [Pipes -> Nat]]
  /\ taken \in [Conns -> [Pipes -> Nat]]

Init ==
  /\ main = "serving"
  /\ acceptor = "accepting"
  /\ accepted = NoConn
  /\ registered = {}
  /\ awaited = {}
  /\ conn = [c \in Conns |-> "none"]
  /\ reply = [c \in Conns |-> Frame("Exit")]
  /\ arms = [c \in Conns |-> {"frames", "stopping"}]
  /\ chan = [c \in Conns |-> <<>>]
  /\ ours = [c \in Conns |-> {}]
  /\ killed = [c \in Conns |-> <<>>]
  /\ inbox = [c \in Conns |-> <<>>]
  /\ sent = [c \in Conns |-> <<>>]
  /\ read = [c \in Conns |-> 0]
  /\ client = [c \in Conns |-> "none"]
  /\ asked = [c \in Conns |-> 0]
  /\ child = [c \in Conns |-> "none"]
  /\ theirs = [c \in Conns |-> {}]
  /\ written = [c \in Conns |-> [p \in Pipes |-> 0]]
  /\ taken = [c \in Conns |-> [p \in Pipes |-> 0]]

GoTo(c, where) == conn' = [conn EXCEPT ![c] = where]

-----------------------------------------------------------------------------
(* The acceptor task. *)

\* The handler is spawned, and may run before its handle is pushed.
Accept(c) ==
  /\ acceptor = "accepting" /\ accepted = NoConn
  /\ conn[c] = "backlog"
  /\ accepted' = c
  /\ GoTo(c, "first")
  /\ UNCHANGED <<main, acceptor, registered, awaited, reply>>

\* Mutant of Register: a push with nothing accepted.
RegisterAnything ==
  /\ registered' = registered \cup {accepted}
  /\ accepted' = NoConn
  /\ UNCHANGED <<main, acceptor, awaited, conn, reply>>

Register ==
  /\ accepted # NoConn
  /\ registered' = registered \cup {accepted}
  /\ accepted' = NoConn
  /\ UNCHANGED <<main, acceptor, awaited, conn, reply>>

\* The listener goes, and the kernel closes the connections it had queued.
\* A task is cancelled where it awaits, which is in accept() and never
\* between a spawn and its push.
AcceptorEnds(how) ==
  /\ acceptor = "accepting" /\ accepted = NoConn
  /\ acceptor' = how
  /\ conn' = [c \in Conns |-> IF conn[c] = "backlog" THEN "refused" ELSE conn[c]]
  /\ UNCHANGED <<main, accepted, registered, awaited, reply>>

\* One failed accept ends the loop; the server goes on without a listener.
AcceptFails == AcceptorEnds("failed")

AcceptorCancelled == main = "aborting" /\ AcceptorEnds("cancelled")

Acceptor ==
  /\ (\E c \in Conns : Accept(c)) \/ Register \/ AcceptFails \/ AcceptorCancelled
  /\ UNCHANGED <<bridgeVars, wireVars, clientVars, groupVars>>

-----------------------------------------------------------------------------
(* The main task. *)

\* The value of the watch channel every handler selects on.
Stopping == main # "serving"

\* SIGTERM or SIGINT: broadcast, and abort the acceptor.
Stop ==
  /\ main = "serving"
  /\ main' = "aborting"
  /\ UNCHANGED <<awaited, conn, ours>>

\* Mutant of AcceptorJoined: the aborted acceptor is not awaited.
AcceptorNotJoined == TRUE

AcceptorJoined == acceptor # "accepting"

\* The acceptor has been awaited: take every handle it pushed.
BeginDrain ==
  /\ main = "aborting"
  /\ AcceptorJoined
  /\ main' = "draining"
  /\ awaited' = registered
  /\ UNCHANGED <<conn, ours>>

\* The process exits, and every task with it.
ExitProcess(how) ==
  /\ main' = how
  /\ conn' = [c \in Conns |-> IF conn[c] \in Live THEN "dropped" ELSE conn[c]]
  /\ ours' = [c \in Conns |-> {}]
  /\ UNCHANGED awaited

DrainDone ==
  /\ main = "draining"
  /\ \A c \in awaited : conn[c] = "done"
  /\ ExitProcess("drained")

\* Mutant of OutOfTime: no timeout around the awaits.
NeverOutOfTime == FALSE

\* The grace runs out; with `--timeout 0` it does at once.
OutOfTime == Expires /\ \E c \in awaited : conn[c] # "done"

DrainExpires ==
  /\ main = "draining"
  /\ OutOfTime
  /\ ExitProcess("expired")

Main ==
  /\ Stop \/ BeginDrain \/ DrainDone \/ DrainExpires
  /\ UNCHANGED <<acceptor, accepted, registered, reply, arms, chan, killed,
                 wireVars, clientVars, groupVars>>

-----------------------------------------------------------------------------
(***************************************************************************)
(* What the handlers share.  A send goes through when the socket has room, *)
(* fails when the client is gone, and blocks otherwise.                    *)
(***************************************************************************)
Gone(c) == client[c] = "gone"
Room(c) == ~Gone(c) /\ Len(sent[c]) - read[c] < SockCap

Put(c, f) == sent' = [sent EXCEPT ![c] = Append(@, f)]

\* A send whose failure is ignored.
PutOrFail(c, f) == (Room(c) /\ Put(c, f)) \/ (Gone(c) /\ UNCHANGED sent)

\* The next frame the handler reads is f.
Takes(c, f) ==
  /\ inbox[c] # <<>>
  /\ Head(inbox[c]) = f
  /\ inbox' = [inbox EXCEPT ![c] = Tail(@)]
  /\ UNCHANGED sent

\* The client closed its write half or left, and all it sent has been read.
AtEof(c) == client[c] \in {"half", "gone"} /\ inbox[c] = <<>>

SignalGroup(c, by) == killed' = [killed EXCEPT ![c] = Append(@, by)]

DropStdin(c) == ours' = [ours EXCEPT ![c] = @ \ {"Stdin"}]

\* The handler sends f and returns.
Finish(c, f) == GoTo(c, "final") /\ reply' = [reply EXCEPT ![c] = f]

SendFinal(c) ==
  /\ conn[c] = "final"
  /\ PutOrFail(c, reply[c])
  /\ GoTo(c, "done")
  /\ UNCHANGED <<reply, bridgeVars, inbox, groupVars>>

-----------------------------------------------------------------------------
(* handle_conn up to the spawn. *)

\* How a connection that never gets a child is answered.  A request fails on
\* a bad cwd, an env entry without `=`, or a spawn error: ENOENT and EACCES
\* answer Exit (127, 126), everything else Error.
Answers(f) ==
  CASE f = "RequestVersion" -> {"ServerVersion"}
    [] f = "Request" -> {"Exit", "Error"}
    [] OTHER -> {"Error"}

FirstAnswered(c) ==
  /\ \E f \in ClientFrames :
       Takes(c, f) /\ \E t \in Answers(f) : Finish(c, Frame(t))
  /\ UNCHANGED <<bridgeVars, groupVars>>

\* The child leads a group of its own.  Both pumps start with the bridge.
Spawn(c) ==
  /\ Takes(c, "Request")
  /\ GoTo(c, "bridge")
  /\ child' = [child EXCEPT ![c] = "running"]
  /\ theirs' = [theirs EXCEPT ![c] = Pipes]
  /\ ours' = [ours EXCEPT ![c] = Pipes]
  /\ UNCHANGED <<reply, arms, chan, killed, written, taken>>

FirstIsEof(c) ==
  /\ AtEof(c)
  /\ GoTo(c, "done")
  /\ UNCHANGED <<reply, bridgeVars, wireVars, groupVars>>

FirstIsStopping(c) ==
  /\ Stopping
  /\ Finish(c, Frame("ServerStopping"))
  /\ UNCHANGED <<bridgeVars, wireVars, groupVars>>

First(c) ==
  /\ conn[c] = "first"
  /\ FirstAnswered(c) \/ Spawn(c) \/ FirstIsEof(c) \/ FirstIsStopping(c)

-----------------------------------------------------------------------------
(***************************************************************************)
(* bridge: one select over the pumps' channel, the client's frames and the *)
(* stopping broadcast.  An arm that is taken runs to its end, blocked or   *)
(* not, before the select is polled again.                                 *)
(***************************************************************************)

\* Mutant of Abandon: the child is awaited without a TERM.
AbandonQuietly(c) ==
  /\ GoTo(c, "reap")
  /\ DropStdin(c)
  /\ UNCHANGED <<reply, arms, chan, killed, inbox, groupVars>>

\* `bridge` returns false: its stdin and receiver are dropped, and
\* handle_conn TERMs the group before it awaits anything.
Abandon(c) ==
  /\ GoTo(c, "reap")
  /\ SignalGroup(c, "TERM")
  /\ DropStdin(c)
  /\ UNCHANGED <<reply, arms, chan, inbox, groupVars>>

\* Mutant of Disarm: an arm stays armed.
KeepArmed(c, arm) == UNCHANGED arms

Disarm(c, arm) == arms' = [arms EXCEPT ![c] = @ \ {arm}]

\* Mutant of TakeOutput: what is sent stays in the channel.
PeekOutput(c) ==
  /\ chan[c] # <<>>
  /\ reply' = [reply EXCEPT ![c] = Head(chan[c])]
  /\ GoTo(c, "relay")
  /\ UNCHANGED <<bridgeVars, wireVars, groupVars>>

TakeOutput(c) ==
  /\ chan[c] # <<>>
  /\ reply' = [reply EXCEPT ![c] = Head(chan[c])]
  /\ chan' = [chan EXCEPT ![c] = Tail(@)]
  /\ GoTo(c, "relay")
  /\ UNCHANGED <<arms, ours, killed, wireVars, groupVars>>

RelaySent(c) ==
  /\ conn[c] = "relay"
  /\ Room(c) /\ Put(c, reply[c])
  /\ GoTo(c, "bridge")
  /\ UNCHANGED <<reply, bridgeVars, inbox, groupVars>>

\* Mutant of RelayFails: the failed send is ignored.
RelayIgnores(c) ==
  /\ conn[c] = "relay"
  /\ Gone(c) /\ UNCHANGED sent
  /\ GoTo(c, "bridge")
  /\ UNCHANGED <<reply, bridgeVars, inbox, groupVars>>

RelayFails(c) ==
  /\ conn[c] = "relay"
  /\ Gone(c) /\ UNCHANGED sent
  /\ Abandon(c)

\* Mutants of Drained: one pump at its end is enough; the client's write
\* half is waited for, too.
HalfDrained(c) == chan[c] = <<>> /\ ~(Streams \subseteq ours[c])
DrainedBothWays(c) ==
  chan[c] = <<>> /\ ours[c] \cap Streams = {} /\ "frames" \notin arms[c]

\* The channel is empty and has no sender left.
Drained(c) == chan[c] = <<>> /\ ours[c] \cap Streams = {}

\* `bridge` returns true.
BridgeDrained(c) ==
  /\ Drained(c)
  /\ GoTo(c, "wait")
  /\ DropStdin(c)
  /\ UNCHANGED <<reply, arms, chan, killed, wireVars, groupVars>>

TakeStdin(c) ==
  /\ Takes(c, "Stdin")
  /\ GoTo(c, IF "Stdin" \in ours[c] THEN "feed" ELSE "bridge")
  /\ UNCHANGED <<reply, bridgeVars, groupVars>>

\* The pipe has room.
FeedWritten(c) ==
  /\ conn[c] = "feed"
  /\ "Stdin" \in theirs[c]
  /\ written[c]["Stdin"] - taken[c]["Stdin"] < PipeCap
  /\ written' = [written EXCEPT ![c]["Stdin"] = @ + 1]
  /\ GoTo(c, "bridge")
  /\ UNCHANGED <<reply, bridgeVars, wireVars, child, theirs, taken>>

\* Nobody can read the pipe any more.
FeedFails(c) ==
  /\ conn[c] = "feed"
  /\ "Stdin" \notin theirs[c]
  /\ DropStdin(c)
  /\ GoTo(c, "bridge")
  /\ UNCHANGED <<reply, arms, chan, killed, wireVars, groupVars>>

TakeStdinEof(c) ==
  /\ Takes(c, "StdinEof")
  /\ DropStdin(c)
  /\ UNCHANGED <<conn, reply, arms, chan, killed, groupVars>>

TakeSignal(c) ==
  /\ Takes(c, "Signal")
  /\ SignalGroup(c, "client")
  /\ UNCHANGED <<conn, reply, arms, chan, ours, groupVars>>

\* A frame that has no business here is ignored.
TakeMisdirected(c) ==
  /\ \E f \in {"Request", "RequestVersion"} : Takes(c, f)
  /\ UNCHANGED <<conn, reply, bridgeVars, groupVars>>

\* The write half is closed: end of stdin, not a disconnect.
TakeEof(c) ==
  /\ AtEof(c)
  /\ Disarm(c, "frames")
  /\ DropStdin(c)
  /\ UNCHANGED <<conn, reply, chan, killed, wireVars, groupVars>>

Fault(c) ==
  /\ GoTo(c, "fault")
  /\ reply' = [reply EXCEPT ![c] = Frame("Error")]
  /\ UNCHANGED <<bridgeVars, groupVars>>

TakeJunk(c) == Takes(c, "Junk") /\ Fault(c)

\* The socket of a client that left frames unread is reset, and the read
\* fails like that of a frame that does not decode.
TakeReset(c) ==
  /\ Gone(c) /\ inbox[c] = <<>> /\ read[c] < Len(sent[c])
  /\ Fault(c)
  /\ UNCHANGED wireVars

\* Mutant of FaultAnswered: the loop goes on after the Error.
FaultSurvived(c) ==
  /\ conn[c] = "fault"
  /\ PutOrFail(c, reply[c])
  /\ GoTo(c, "bridge")
  /\ UNCHANGED <<reply, bridgeVars, inbox, groupVars>>

\* The Error is sent, or nobody is there to send it to.
FaultAnswered(c) ==
  /\ conn[c] = "fault"
  /\ PutOrFail(c, reply[c])
  /\ Abandon(c)

TakeStopping(c) ==
  /\ Stopping
  /\ Disarm(c, "stopping")
  /\ GoTo(c, "announce")
  /\ UNCHANGED <<reply, chan, ours, killed, wireVars, groupVars>>

\* Mutant of Announce: no TERM for the child of a client that is gone.
AnnounceToSomeone(c, from, to) ==
  /\ conn[c] = from
  /\ PutOrFail(c, Frame("ServerStopping"))
  /\ IF Gone(c) THEN UNCHANGED killed ELSE SignalGroup(c, "TERM")
  /\ GoTo(c, to)
  /\ UNCHANGED <<reply, arms, chan, ours, inbox, groupVars>>

\* The client learns first, then the group gets its TERM.
Announce(c, from, to) ==
  /\ conn[c] = from
  /\ PutOrFail(c, Frame("ServerStopping"))
  /\ SignalGroup(c, "TERM")
  /\ GoTo(c, to)
  /\ UNCHANGED <<reply, arms, chan, ours, inbox, groupVars>>

FrameArm(c) ==
  \/ TakeStdin(c) \/ TakeStdinEof(c) \/ TakeSignal(c) \/ TakeMisdirected(c)
  \/ TakeEof(c) \/ TakeJunk(c) \/ TakeReset(c)

Bridge(c) ==
  \/ /\ conn[c] = "bridge"
     /\ \/ TakeOutput(c) \/ BridgeDrained(c)
        \/ "frames" \in arms[c] /\ FrameArm(c)
        \/ "stopping" \in arms[c] /\ TakeStopping(c)
  \/ RelaySent(c) \/ RelayFails(c) \/ FeedWritten(c) \/ FeedFails(c)
  \/ FaultAnswered(c) \/ Announce(c, "announce", "bridge")

-----------------------------------------------------------------------------
(* handle_conn after the bridge. *)

\* child.wait() is ready: the kernel gives up the status, and with it the
\* process id.
Reap(c) == child[c] = "zombie" /\ child' = [child EXCEPT ![c] = "reaped"]

\* Mutant of WaitReaps: the broadcast is looked at after the wait.
WaitReapsFirst(c) ==
  /\ conn[c] \in {"wait", "lateWait"}
  /\ Reap(c)
  /\ IF Stopping /\ conn[c] = "wait"
       THEN GoTo(c, "lateAnnounce") /\ UNCHANGED reply
       ELSE Finish(c, Frame("Exit"))
  /\ UNCHANGED <<bridgeVars, wireVars, theirs, written, taken>>

\* In "wait" the arms of a second select are polled in random order, so a
\* status that is ready can win over a broadcast that is, too.
WaitReaps(c) ==
  /\ conn[c] \in {"wait", "lateWait"}
  /\ Reap(c)
  /\ Finish(c, Frame("Exit"))
  /\ UNCHANGED <<bridgeVars, wireVars, theirs, written, taken>>

\* The child is no longer the server's to wait for.
WaitFails(c) ==
  /\ conn[c] \in {"wait", "lateWait"}
  /\ child[c] = "zombie" /\ child' = [child EXCEPT ![c] = "lost"]
  /\ Finish(c, Frame("Error"))
  /\ UNCHANGED <<bridgeVars, wireVars, theirs, written, taken>>

WaitStopping(c) ==
  /\ conn[c] = "wait"
  /\ Stopping
  /\ GoTo(c, "lateAnnounce")
  /\ UNCHANGED <<reply, bridgeVars, wireVars, groupVars>>

\* Mutant of ReapAbandoned: the handler returns without the wait.
LeaveAbandoned(c) ==
  /\ conn[c] = "reap"
  /\ GoTo(c, "done")
  /\ UNCHANGED <<reply, bridgeVars, wireVars, groupVars>>

\* The status of an abandoned child is thrown away.
ReapAbandoned(c) ==
  /\ conn[c] = "reap"
  /\ Reap(c)
  /\ GoTo(c, "done")
  /\ UNCHANGED <<reply, bridgeVars, wireVars, theirs, written, taken>>

After(c) ==
  \/ WaitReaps(c) \/ WaitFails(c) \/ WaitStopping(c) \/ ReapAbandoned(c)
  \/ Announce(c, "lateAnnounce", "lateWait")

Handler(c) ==
  /\ First(c) \/ Bridge(c) \/ After(c) \/ SendFinal(c)
  /\ UNCHANGED <<mainVars, clientVars>>

-----------------------------------------------------------------------------
(* The pumps: one task per stream, both feeding the bridge's channel. *)

\* The receiver lives as long as the bridge does.
Receiving(c) == conn[c] \in AtBridge

InPipe(c, p) == written[c][p] - taken[c][p]

\* Mutant of PumpForwards: a full channel loses the chunk (try_send).
PumpTries(c, s) ==
  /\ s \in ours[c]
  /\ Receiving(c)
  /\ InPipe(c, s) > 0
  /\ chan' = IF Len(chan[c]) < ChanCap
               THEN [chan EXCEPT ![c] = Append(@, Chunk(s, taken[c][s] + 1))]
               ELSE chan
  /\ taken' = [taken EXCEPT ![c][s] = @ + 1]
  /\ UNCHANGED ours

PumpForwards(c, s) ==
  /\ s \in ours[c]
  /\ Receiving(c)
  /\ InPipe(c, s) > 0
  /\ Len(chan[c]) < ChanCap
  /\ chan' = [chan EXCEPT ![c] = Append(@, Chunk(s, taken[c][s] + 1))]
  /\ taken' = [taken EXCEPT ![c][s] = @ + 1]
  /\ UNCHANGED ours

\* Mutant of PumpEnds: over once nobody writes, whatever the pipe holds.
PumpEndsWithGroup(c, s) ==
  /\ s \in ours[c]
  /\ s \notin theirs[c]
  /\ ours' = [ours EXCEPT ![c] = @ \ {s}]
  /\ UNCHANGED <<chan, taken>>

\* The pipe is at its end, or what was read has nowhere to go.
PumpEnds(c, s) ==
  /\ s \in ours[c]
  /\ \/ InPipe(c, s) = 0 /\ s \notin theirs[c]
     \/ InPipe(c, s) > 0 /\ ~Receiving(c)
  /\ ours' = [ours EXCEPT ![c] = @ \ {s}]
  /\ UNCHANGED <<chan, taken>>

Pump(c, s) ==
  /\ PumpForwards(c, s) \/ PumpEnds(c, s)
  /\ UNCHANGED <<mainVars, conn, reply, arms, killed, wireVars, clientVars,
                 child, theirs, written>>

-----------------------------------------------------------------------------
(***************************************************************************)
(* The client: any client that speaks frames, at its own pace.  What it    *)
(* does once the server's end of the socket is closed is left out, and     *)
(* likewise below what the group does once nobody listens to it.           *)
(***************************************************************************)

Connect(c) ==
  /\ client[c] = "none"
  /\ acceptor = "accepting"
  /\ client' = [client EXCEPT ![c] = "open"]
  /\ GoTo(c, "backlog")
  /\ UNCHANGED <<asked, read, inbox>>

ClientSends(c) ==
  /\ client[c] = "open"
  /\ asked[c] < MaxAsk /\ Len(inbox[c]) < SockCap
  /\ \E f \in Speech : inbox' = [inbox EXCEPT ![c] = Append(@, f)]
  /\ asked' = [asked EXCEPT ![c] = @ + 1]
  /\ UNCHANGED <<client, read, conn>>

ClientReads(c) ==
  /\ client[c] \in {"open", "half"}
  /\ read[c] < Len(sent[c])
  /\ read' = [read EXCEPT ![c] = @ + 1]
  /\ UNCHANGED <<client, asked, inbox, conn>>

ClientCloses(c, how) ==
  /\ client[c] = "open" \/ (client[c] = "half" /\ how = "gone")
  /\ client' = [client EXCEPT ![c] = how]
  /\ UNCHANGED <<asked, read, inbox, conn>>

Client(c) ==
  /\ conn[c] \notin Over
  /\ \/ Connect(c) \/ ClientSends(c) \/ ClientReads(c)
     \/ ClientCloses(c, "half") \/ ClientCloses(c, "gone")
  /\ UNCHANGED <<mainVars, reply, bridgeVars, sent, groupVars>>

-----------------------------------------------------------------------------
(***************************************************************************)
(* The child's process group.  A process the child started can outlive it  *)
(* and keep the pipes open.  No signal is sure to end any of them.         *)
(***************************************************************************)
GroupWrites(c, s) ==
  /\ s \in theirs[c] /\ s \in ours[c]
  /\ written[c][s] < MaxOut /\ InPipe(c, s) < PipeCap
  /\ written' = [written EXCEPT ![c][s] = @ + 1]
  /\ UNCHANGED <<child, theirs, taken>>

GroupReads(c) ==
  /\ "Stdin" \in theirs[c]
  /\ InPipe(c, "Stdin") > 0
  /\ taken' = [taken EXCEPT ![c]["Stdin"] = @ + 1]
  /\ UNCHANGED <<child, theirs, written>>

GroupCloses(c, p) ==
  /\ p \in theirs[c]
  /\ theirs' = [theirs EXCEPT ![c] = @ \ {p}]
  /\ UNCHANGED <<child, written, taken>>

ChildDies(c) ==
  /\ child[c] = "running"
  /\ child' = [child EXCEPT ![c] = "zombie"]
  /\ \E kept \in SUBSET theirs[c] : theirs' = [theirs EXCEPT ![c] = kept]
  /\ UNCHANGED <<written, taken>>

Group(c) ==
  /\ conn[c] \notin Over
  /\ \/ \E s \in Streams : GroupWrites(c, s)
     \/ \E p \in Pipes : GroupCloses(c, p)
     \/ GroupReads(c) \/ ChildDies(c)
  /\ UNCHANGED <<mainVars, handlerVars, wireVars, clientVars>>

-----------------------------------------------------------------------------
Next ==
  \/ Main \/ Acceptor
  \/ \E c \in Conns :
       Handler(c) \/ (\E s \in Streams : Pump(c, s)) \/ Client(c) \/ Group(c)

Spec == Init /\ [][Next]_vars
=============================================================================
