---------------------------- MODULE ServerProps ----------------------------
(* What ncap-server promises, over the specification of module Server. *)
EXTENDS Server

IsSent(c, f) == \E i \in DOMAIN sent[c] : sent[c][i] = f

\* A terminal frame ends the dialogue: nothing is sent after an Exit, an
\* Error or a ServerVersion, whichever task, arm or shutdown path sends next
\* (handle_conn, bridge; spec/protocol.md, Connection lifecycle).
TerminalIsLast ==
  \A c \in Conns : \A i \in DOMAIN sent[c] :
    sent[c][i].type \in Terminals => i = Len(sent[c])

\* Each stream reaches the client in the order the child wrote it and without
\* a gap: a chunk is sent once, and the one before it was sent earlier
\* (pump_output, the channel, bridge's first arm).
StreamsInOrder ==
  \A c \in Conns : \A i \in DOMAIN sent[c] :
    sent[c][i].type \in Streams =>
      /\ \A j \in DOMAIN sent[c] : sent[c][j] = sent[c][i] => j = i
      /\ sent[c][i].n > 1 =>
           \E j \in 1 .. i - 1 :
             sent[c][j] = Chunk(sent[c][i].type, sent[c][i].n - 1)

\* An Exit that reports a child's status comes after everything the child's
\* group wrote, descendants that outlive the child included (handle_conn
\* waits only once bridge saw both pipes at their end).
ExitAfterOutput ==
  \A c \in Conns :
    child[c] = "reaped" /\ IsSent(c, Frame("Exit")) =>
      \A s \in Streams : \A n \in 1 .. written[c][s] : IsSent(c, Chunk(s, n))

\* Output is withheld from a client only if the group was TERMed first: a
\* handler that gave up on its bridge did not just leave the child running
\* (handle_conn's else branch).
WithheldOnlyIfTermed ==
  \A c \in Conns :
    conn[c] = "done"
      /\ (\E s \in Streams : \E n \in 1 .. written[c][s] : ~IsSent(c, Chunk(s, n)))
    => \E i \in DOMAIN killed[c] : killed[c][i] = "TERM"

\* A handler never returns with its child running or unreaped.
NoZombieLeft ==
  \A c \in Conns : conn[c] = "done" => child[c] \in {"none", "reaped", "lost"}

\* The two announcements of a shutdown, at the bridge and after it, are all
\* there are: no client is told and no group TERMed three times.
AnnouncedAtMostTwice ==
  \A c \in Conns :
    /\ Cardinality({i \in DOMAIN sent[c] : sent[c][i] = Frame("ServerStopping")}) <= 2
    /\ Cardinality({i \in DOMAIN killed[c] : killed[c][i] = "TERM"}) <= 2

\* A drain that ends before its deadline has let every accepted connection
\* end, the one accepted while the acceptor was being aborted included (run
\* awaits the acceptor before it takes the handles).
DrainForgetsNobody ==
  main = "drained" => \A c \in Conns : conn[c] # "dropped"

\* kill(2) goes to a group whose leader has not been reaped, so the number
\* cannot have been given to another process.
KillsOwnGroup ==
  [][\A c \in Conns : killed'[c] # killed[c] => child[c] \in {"running", "zombie"}]_vars

-----------------------------------------------------------------------------
(***************************************************************************)
(* The inductive invariant behind the proofs of module ServerProofs.       *)
(***************************************************************************)

\* What is relayed is output, and a terminal frame leaves the handler where
\* it sends nothing more.
TerminalEnds ==
  \A c \in Conns :
    /\ \A i \in DOMAIN chan[c] : chan[c][i].type \in Streams
    /\ conn[c] = "relay" => reply[c].type \in Streams
    /\ \A i \in DOMAIN sent[c] :
         sent[c][i].type \in Terminals =>
           i = Len(sent[c]) /\ conn[c] \in {"reap", "done", "dropped"}

\* Where the handler is tells whether its child still has to be waited for.
ChildMatchesHandler ==
  \A c \in Conns :
    /\ client[c] = "none" => conn[c] = "none"
    /\ conn[c] \in {"none", "backlog", "first", "refused"} => child[c] = "none"
    /\ conn[c] \in AtBridge \cup AfterBridge => child[c] \in {"running", "zombie"}
    /\ conn[c] \in {"final", "done"} => child[c] \in {"none", "reaped", "lost"}

\* Every handler that was spawned is pushed or about to be, and the drain
\* begins when nobody pushes any more.
HandlesAreKept ==
  /\ \A c \in Conns :
       conn[c] \in Live \cup {"done", "dropped"} => c \in registered \cup {accepted}
  /\ acceptor # "accepting" => accepted = NoConn
  /\ main \in {"draining", "drained", "expired"} =>
       acceptor # "accepting" /\ awaited = registered
  /\ main # "expired" => \A c \in Conns : conn[c] # "dropped"

\* Holds in every reachable state, and is kept by every step.
ServerInv ==
  TypeOK /\ TerminalEnds /\ ChildMatchesHandler /\ HandlesAreKept

-----------------------------------------------------------------------------
(***************************************************************************)
(* Fairness.  tokio polls every task that can make progress, and a select  *)
(* polls its arms in random order; the input a handler can see is bounded  *)
(* here, so weak fairness of the handler as a whole exhausts every arm.    *)
(* The drain deadline is a timer.  Nothing is assumed of clients or        *)
(* children, which may stop reading for ever.                              *)
(***************************************************************************)
ServerFairness ==
  /\ WF_vars(Main /\ main # "serving")
  /\ WF_vars(Register /\ Acceptor)
  /\ WF_vars(AcceptorCancelled /\ Acceptor)
  /\ \A c \in Conns : WF_vars(Accept(c) /\ Acceptor)
  /\ \A c \in Conns : WF_vars(Handler(c))
  /\ \A c \in Conns, s \in Streams : WF_vars(Pump(c, s))

FairSpec == Spec /\ ServerFairness

\* Clients that read what they are sent until they leave, and groups that
\* read their stdin as long as they hold it.
Cooperation ==
  \A c \in Conns :
    WF_vars(ClientReads(c) /\ Client(c)) /\ WF_vars(GroupReads(c) /\ Group(c))

CooperativeSpec == FairSpec /\ Cooperation

\* Once asked to stop, the process exits, whatever clients and children do.
ShutdownEnds == main = "aborting" ~> main \in {"drained", "expired"}

\* A shutdown reaches every group that is being bridged: it is TERMed, unless
\* the dialogue ends by itself (spec/server.md, Shutdown).
ShutdownReachesGroups ==
  \A c \in Conns :
    Stopping /\ conn[c] \in AtBridge
      ~> \/ \E i \in DOMAIN killed[c] : killed[c][i] = "TERM"
         \/ conn[c] = "done"

\* A client that vanished while output for it was waiting is noticed: the
\* bridge is left (spec/server.md, Disconnect before the terminal frame).
VanishedClientNoticed ==
  \A c \in Conns :
    Gone(c) /\ conn[c] \in AtBridge /\ chan[c] # <<>>
      ~> conn[c] \in {"reap", "done"}

\* A child that died, and whose pipes no process of its group holds, is
\* reaped and its handler returns.
DeadChildReaped ==
  \A c \in Conns :
    child[c] = "zombie" /\ theirs[c] = {} ~> conn[c] = "done"
=============================================================================
