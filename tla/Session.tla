------------------------------- MODULE Session -------------------------------
(***************************************************************************)
(* ncap (src/client/mod.rs) against the server of module Server: one       *)
(* process per connection, made of a session loop (`session`) and a thread *)
(* that reads the host's stdin (`pump_stdin`).  A step of a session is a   *)
(* step Server allows its client, or one the server cannot see.            *)
(*                                                                         *)
(* Like the server's bridge, the loop is one select whose arms run to      *)
(* their end: a session that sends does not read, and one that writes to   *)
(* the host's stdout does neither.                                         *)
(***************************************************************************)
EXTENDS Server

CONSTANTS
  FeedCap,   \* capacity of the channel from the stdin thread (8 in the code)
  Signals,   \* the signals that are relayed, SIGINT and SIGTERM in the code
  MaxIn,     \* bound: chunks of the host's stdin
  MaxSig     \* bound: signals one session gets

ASSUME SessionAssumption ==
  /\ FeedCap \in Nat \ {0}
  /\ MaxIn \in Nat
  /\ MaxSig \in Nat
  /\ Speech = {"Request", "Stdin", "StdinEof", "Signal", "Junk"}
  /\ MaxAsk >= MaxIn + MaxSig + 3

\* What a session sends, and is while it sends it.
Sendings == {"Request", "Stdin", "StdinEof", "Signal"}

\* How a terminal frame ends a session: with the child's status, with the
\* exit code of a shutdown (143), or with a server error (1).
Verdict == [Exit |-> "status", ServerStopping |-> "stopped", Error |-> "told"]

\* How it ends otherwise, with exit code 1 or by an unhandled signal.
Failures == {"local", "connect", "send", "receive", "write", "killed"}

VARIABLES
  at,        \* where the session is
  result,    \* how it ended, or "none"
  got,       \* how many of the server's frames it processed
  thread,    \* the stdin thread: "off", "reading", "done"
  typed,     \* chunks it read from the host
  feed,      \* its channel to the session
  stdinOpen, \* whether the session's stdin arm is armed
  pending,   \* signals that arrived and were not taken
  raised,    \* how many arrived
  torn       \* connections whose last frame the server's exit cut short

loopVars == <<at, result>>
stdinVars == <<thread, typed, feed, stdinOpen>>
signalVars == <<pending, raised>>
sessionVars == <<loopVars, got, stdinVars, signalVars, torn>>
execVars == <<vars, sessionVars>>

SessionTypeOK ==
  /\ at \in [Conns -> Sendings \cup {"off", "select", "write", "cut", "leaving", "over"}]
  /\ result \in [Conns -> {"none", "status", "stopped", "told"} \cup Failures]
  /\ got \in [Conns -> Nat]
  /\ thread \in [Conns -> {"off", "reading", "done"}]
  /\ typed \in [Conns -> Nat]
  /\ feed \in [Conns -> Seq({"Stdin", "StdinEof"})]
  /\ stdinOpen \in [Conns -> BOOLEAN]
  /\ pending \in [Conns -> SUBSET Signals]
  /\ raised \in [Conns -> Nat]
  /\ torn \subseteq Conns

ExecInit ==
  /\ Init
  /\ at = [c \in Conns |-> "off"]
  /\ result = [c \in Conns |-> "none"]
  /\ got = [c \in Conns |-> 0]
  /\ thread = [c \in Conns |-> "off"]
  /\ typed = [c \in Conns |-> 0]
  /\ feed = [c \in Conns |-> <<>>]
  /\ stdinOpen = [c \in Conns |-> TRUE]
  /\ pending = [c \in Conns |-> {}]
  /\ raised = [c \in Conns |-> 0]
  /\ torn = {}

Closed(c) == conn[c] \in Over

MoveTo(c, place) == at' = [at EXCEPT ![c] = place] /\ UNCHANGED result

\* `session` returns: the socket closes, and the process exits with a code.
Ends(c, how) ==
  /\ at' = [at EXCEPT ![c] = "leaving"]
  /\ result' = [result EXCEPT ![c] = how]

\* A step of the client as the server knows it, and one it does not see.
AsClient(c, step) ==
  /\ ~Closed(c)
  /\ step
  /\ UNCHANGED <<mainVars, reply, bridgeVars, sent, groupVars>>

Unseen == UNCHANGED vars

\* What it does to a socket the server has closed changes nothing there.
WhileOpen(c, step) == IF Closed(c) THEN Unseen ELSE AsClient(c, step)

-----------------------------------------------------------------------------
(* Before the loop. *)

\* The request cannot be built, which no server has a part in; or nobody
\* listens on the socket.
NoSession(c) ==
  /\ at[c] = "off"
  /\ at' = [at EXCEPT ![c] = "over"]
  /\ \/ result' = [result EXCEPT ![c] = "local"]
     \/ acceptor # "accepting" /\ result' = [result EXCEPT ![c] = "connect"]
  /\ Unseen
  /\ UNCHANGED <<got, stdinVars, signalVars, torn>>

Connects(c) ==
  /\ at[c] = "off"
  /\ AsClient(c, Connect(c))
  /\ MoveTo(c, "Request")
  /\ UNCHANGED <<got, stdinVars, signalVars, torn>>

-----------------------------------------------------------------------------
(* Sends, which block while the socket is full. *)

\* Mutants of Sends: a send that does not wait for room; an end of stdin
\* that is no frame.
SendsAtOnce(c, f) ==
  /\ client[c] = "open" /\ asked[c] < MaxAsk
  /\ inbox' = [inbox EXCEPT ![c] = Append(@, f)]
  /\ asked' = [asked EXCEPT ![c] = @ + 1]
  /\ UNCHANGED <<client, read, conn>>
SendsBareEof(c, f) ==
  /\ ClientSends(c)
  /\ inbox' = [inbox EXCEPT ![c] = Append(@, IF f = "StdinEof" THEN "Junk" ELSE f)]

Sends(c, f) ==
  /\ ClientSends(c)
  /\ inbox' = [inbox EXCEPT ![c] = Append(@, f)]

\* Past the request the stdin thread starts, and the signals are handled.
\* A session at its end of stdin closes that arm and not the socket.
Sent(c) ==
  /\ at[c] \in Sendings
  /\ AsClient(c, Sends(c, at[c]))
  /\ MoveTo(c, "select")
  /\ IF at[c] = "Request"
       THEN thread' = [thread EXCEPT ![c] = "reading"]
       ELSE UNCHANGED thread
  /\ stdinOpen' = [stdinOpen EXCEPT ![c] = @ /\ at[c] # "StdinEof"]
  /\ UNCHANGED <<got, typed, feed, signalVars, torn>>

\* Mutant of SendFails: a failed end of stdin is fatal, too.
SendAlwaysFatal(c) ==
  /\ at[c] \in Sendings
  /\ Closed(c)
  /\ Ends(c, "send")
  /\ UNCHANGED stdinOpen
  /\ Unseen
  /\ UNCHANGED <<got, thread, typed, feed, signalVars, torn>>

\* The server's end is closed.  Only the end of stdin is best effort.
SendFails(c) ==
  /\ at[c] \in Sendings
  /\ Closed(c)
  /\ IF at[c] = "StdinEof" THEN MoveTo(c, "select") ELSE Ends(c, "send")
  /\ stdinOpen' = [stdinOpen EXCEPT ![c] = @ /\ at[c] # "StdinEof"]
  /\ Unseen
  /\ UNCHANGED <<got, thread, typed, feed, signalVars, torn>>

-----------------------------------------------------------------------------
(* The select's arms. *)

\* Mutant of Handles: the session goes on after a ServerStopping.
HandlesNoStopping(c, f) ==
  \/ f.type \in Streams /\ MoveTo(c, "write")
  \/ f = Frame("ServerStopping") /\ MoveTo(c, "select")
  \/ \E t \in {"Exit", "Error"} : f = Frame(t) /\ Ends(c, Verdict[t])

\* A ServerVersion is ignored, and no server answers a request with one.
Handles(c, f) ==
  \/ f.type \in Streams /\ MoveTo(c, "write")
  \/ \E t \in DOMAIN Verdict : f = Frame(t) /\ Ends(c, Verdict[t])

\* The socket buffers what the server sent before it closed its end.
TakeFrame(c) ==
  /\ at[c] = "select"
  /\ got[c] < Len(sent[c])
  /\ got' = [got EXCEPT ![c] = @ + 1]
  /\ Handles(c, sent[c][got[c] + 1])
  /\ WhileOpen(c, ClientReads(c))
  /\ UNCHANGED <<stdinVars, signalVars, torn>>

\* Mutant of EndOfStream: a refused connection passes for a clean close.
EndIsClean(c) == {"stopped"}

\* What the end of the stream is to the client.  A frame cut short, a
\* connection nobody accepted, and a socket closed on unread frames make the
\* read fail.  A server may have frames unread outside the kernel's buffer,
\* too, and then its close is clean.
EndOfStream(c) ==
  IF c \in torn \/ conn[c] = "refused"
    THEN {"receive"}
    ELSE {"stopped"} \cup (IF inbox[c] = <<>> THEN {} ELSE {"receive"})

TakeEnd(c) ==
  /\ at[c] = "select"
  /\ Closed(c) /\ got[c] = Len(sent[c])
  /\ \E how \in EndOfStream(c) : Ends(c, how)
  /\ Unseen
  /\ UNCHANGED <<got, stdinVars, signalVars, torn>>

\* The arm that is not disarmed finds the channel closed for ever.
TakeFeed(c) ==
  /\ at[c] = "select"
  /\ stdinOpen[c]
  /\ IF feed[c] # <<>>
       THEN MoveTo(c, Head(feed[c])) /\ feed' = [feed EXCEPT ![c] = Tail(@)]
       ELSE thread[c] = "done" /\ MoveTo(c, "StdinEof") /\ UNCHANGED feed
  /\ Unseen
  /\ UNCHANGED <<got, thread, typed, stdinOpen, signalVars, torn>>

RelaySignal(c) ==
  /\ at[c] = "select"
  /\ \E s \in pending[c] : pending' = [pending EXCEPT ![c] = @ \ {s}]
  /\ MoveTo(c, "Signal")
  /\ Unseen
  /\ UNCHANGED <<got, stdinVars, raised, torn>>

\* write_stream blocks while nobody reads the host's end.
Written(c) ==
  /\ at[c] = "write"
  /\ MoveTo(c, "select")
  /\ Unseen
  /\ UNCHANGED <<got, stdinVars, signalVars, torn>>

WriteFails(c) ==
  /\ at[c] = "write"
  /\ Ends(c, "write")
  /\ Unseen
  /\ UNCHANGED <<got, stdinVars, signalVars, torn>>

Leave(c) ==
  /\ at[c] = "leaving"
  /\ MoveTo(c, "over")
  /\ WhileOpen(c, ClientCloses(c, "gone"))
  /\ UNCHANGED <<got, stdinVars, signalVars, torn>>

Loop(c) ==
  Sent(c) \/ SendFails(c) \/ TakeFrame(c) \/ TakeEnd(c) \/ TakeFeed(c)
    \/ RelaySignal(c) \/ Leave(c)

-----------------------------------------------------------------------------
(* The stdin thread. *)

\* A chunk is read and put in the channel.  The thread holds the chunk while
\* the channel is full, which nobody can tell from not having read it.
ThreadReads(c) ==
  /\ thread[c] = "reading" /\ at[c] \notin {"leaving", "over"}
  /\ typed[c] < MaxIn
  /\ Len(feed[c]) < FeedCap
  /\ feed' = [feed EXCEPT ![c] = Append(@, "Stdin")]
  /\ typed' = [typed EXCEPT ![c] = @ + 1]
  /\ UNCHANGED thread

\* Mutant of ThreadEnds: the end of stdin does not wait behind the chunks.
ThreadEndsAhead(c) ==
  /\ thread[c] = "reading" /\ at[c] \notin {"leaving", "over"}
  /\ feed' = [feed EXCEPT ![c] = <<"StdinEof">> \o @]
  /\ thread' = [thread EXCEPT ![c] = "done"]
  /\ UNCHANGED typed

\* End of file or a read error.
ThreadEnds(c) ==
  /\ thread[c] = "reading" /\ at[c] \notin {"leaving", "over"}
  /\ Len(feed[c]) < FeedCap
  /\ feed' = [feed EXCEPT ![c] = Append(@, "StdinEof")]
  /\ thread' = [thread EXCEPT ![c] = "done"]
  /\ UNCHANGED typed

Thread(c) ==
  /\ ThreadReads(c) \/ ThreadEnds(c)
  /\ Unseen
  /\ UNCHANGED <<loopVars, got, stdinOpen, signalVars, torn>>

-----------------------------------------------------------------------------
(* The host. *)

\* Signals of one kind that arrive before one is taken are one.
Interrupt(c) ==
  /\ at[c] \in {"select", "write", "Stdin", "StdinEof", "Signal"}
  /\ raised[c] < MaxSig
  /\ \E s \in Signals : pending' = [pending EXCEPT ![c] = @ \cup {s}]
  /\ raised' = [raised EXCEPT ![c] = @ + 1]
  /\ Unseen
  /\ UNCHANGED <<loopVars, got, stdinVars, torn>>

\* SIGKILL, SIGHUP or SIGQUIT; SIGINT or SIGTERM before they are handled.
Kill(c) ==
  /\ at[c] \notin {"off", "cut", "over"}
  /\ at' = [at EXCEPT ![c] = "over"]
  /\ result' = [result EXCEPT ![c] = "killed"]
  /\ WhileOpen(c, ClientCloses(c, "gone"))
  /\ UNCHANGED <<got, stdinVars, signalVars, torn>>

\* In the middle of a send: half a frame goes out, and the process is gone.
KillMidFrame(c) ==
  /\ at[c] \in Sendings
  /\ AsClient(c, Sends(c, "Junk"))
  /\ at' = [at EXCEPT ![c] = "cut"]
  /\ result' = [result EXCEPT ![c] = "killed"]
  /\ UNCHANGED <<got, stdinVars, signalVars, torn>>

CutOff(c) ==
  /\ at[c] = "cut"
  /\ MoveTo(c, "over")
  /\ WhileOpen(c, ClientCloses(c, "gone"))
  /\ UNCHANGED <<got, stdinVars, signalVars, torn>>

Host(c) ==
  Interrupt(c) \/ Kill(c) \/ KillMidFrame(c) \/ CutOff(c)
    \/ Written(c) \/ WriteFails(c)

-----------------------------------------------------------------------------
(* The server's steps, and what its exit does to frames it was sending. *)

MainStep ==
  /\ Main
  /\ \E cut \in SUBSET {c \in Conns :
           conn'[c] = "dropped"
             /\ conn[c] \in {"relay", "announce", "lateAnnounce", "fault", "final"}} :
       torn' = torn \cup cut
  /\ UNCHANGED <<loopVars, got, stdinVars, signalVars>>

ServerStep ==
  /\ \/ Acceptor
     \/ \E c \in Conns :
          Handler(c) \/ Group(c) \/ (\E s \in Streams : Pump(c, s))
  /\ UNCHANGED sessionVars

ExecNext ==
  \/ MainStep \/ ServerStep
  \/ \E c \in Conns :
       NoSession(c) \/ Connects(c) \/ Loop(c) \/ Thread(c) \/ Host(c)

ExecSpec == ExecInit /\ [][ExecNext]_execVars
=============================================================================
