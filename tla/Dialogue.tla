------------------------------ MODULE Dialogue ------------------------------
(***************************************************************************)
(* What a client may rely on, whatever the server is made of: the life of  *)
(* a connection as spec/protocol.md and handle_conn have it.  A command    *)
(* makes output; the server says it, stream by stream and in order, may    *)
(* warn that it is stopping, and says at most one last thing.  An exit     *)
(* status is the last thing only when all output has been said.            *)
(***************************************************************************)
EXTENDS Integers, Sequences

CONSTANTS
  Conns,     \* connections
  Streams    \* output streams of a command

VARIABLES
  phase,     \* "asking", then "talking" if a command runs, then "over"
  said,      \* the frames the server said
  made       \* how many chunks the command wrote to each stream

vars == <<phase, said, made>>

Chunk(s, n) == [type |-> s, n |-> n]
Frame(t) == [type |-> t, n |-> 0]

IsSaid(c, f) == \E i \in DOMAIN said[c] : said[c][i] = f

Say(c, f) == said' = [said EXCEPT ![c] = Append(@, f)]
MoveTo(c, p) == phase' = [phase EXCEPT ![c] = p]

AllSaid(c) == \A s \in Streams : \A n \in 1 .. made[c][s] : IsSaid(c, Chunk(s, n))

Init ==
  /\ phase = [c \in Conns |-> "asking"]
  /\ said = [c \in Conns |-> <<>>]
  /\ made = [c \in Conns |-> [s \in Streams |-> 0]]

\* The command starts.
Begin(c) ==
  /\ phase[c] = "asking"
  /\ MoveTo(c, "talking")
  /\ UNCHANGED <<said, made>>

\* It writes, for a while even when nobody is told any more.
Make(c, s) ==
  /\ phase[c] # "asking"
  /\ made' = [made EXCEPT ![c][s] = @ + 1]
  /\ UNCHANGED <<phase, said>>

\* The next chunk of a stream is said.
Relay(c, s) ==
  /\ phase[c] = "talking"
  /\ \E n \in 1 .. made[c][s] :
       /\ ~IsSaid(c, Chunk(s, n))
       /\ \A m \in 1 .. n - 1 : IsSaid(c, Chunk(s, m))
       /\ Say(c, Chunk(s, n))
  /\ UNCHANGED <<phase, made>>

Warn(c) ==
  /\ phase[c] = "talking"
  /\ Say(c, Frame("ServerStopping"))
  /\ UNCHANGED <<phase, made>>

\* A last thing that is said without a command.
Refuse(c) ==
  /\ phase[c] = "asking"
  /\ \E t \in {"Exit", "Error", "ServerVersion", "ServerStopping"} : Say(c, Frame(t))
  /\ MoveTo(c, "over")
  /\ UNCHANGED made

\* The last thing that is said of a command.
Conclude(c) ==
  /\ phase[c] = "talking"
  /\ Say(c, Frame("Error")) \/ (AllSaid(c) /\ Say(c, Frame("Exit")))
  /\ MoveTo(c, "over")
  /\ UNCHANGED made

\* Nothing more is said: the client left, or the server goes.
FallSilent(gone) ==
  /\ phase' = [c \in Conns |-> IF c \in gone THEN "over" ELSE phase[c]]
  /\ UNCHANGED <<said, made>>

Next ==
  \/ \E c \in Conns :
       \/ Begin(c) \/ Warn(c) \/ Refuse(c) \/ Conclude(c)
       \/ \E s \in Streams : Make(c, s) \/ Relay(c, s)
  \/ \E gone \in SUBSET Conns : FallSilent(gone)

Spec == Init /\ [][Next]_vars
=============================================================================
