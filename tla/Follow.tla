------------------------------- MODULE Follow -------------------------------
(***************************************************************************)
(* `ncap-ctl log` (src/ctl/mod.rs, log, follow_log, drain_log) beside the  *)
(* servers whose log files it reads, one file per run of the server        *)
(* (src/server.rs, Log), and beside a `clean` that removes them            *)
(* (clean_log_dir).                                                        *)
(*                                                                         *)
(* The k-th run of the server logs to file k: a file name carries the      *)
(* millisecond of the start, of which only the order matters, so that two  *)
(* starts in one millisecond and a clock that is set back are left out.    *)
(* A piece of a file is what one read returns.                             *)
(***************************************************************************)
EXTENDS Naturals, Sequences, FiniteSets

CONSTANTS
  MaxRuns,   \* bound on runs of the server
  MaxLines,  \* bound on what one run logs
  MaxSigs    \* bound on interrupts

ASSUME FollowAssumption == {MaxRuns, MaxLines, MaxSigs} \subseteq Nat

Logs == 1 .. MaxRuns

VARIABLES
  runs,      \* how many servers have started
  up,        \* the last of them is running
  there,     \* the log files in the directory
  written,   \* how many pieces each run has logged

  flag,      \* --follow or --no-pager
  at,        \* where the command is
  attached,  \* the file that is being read, 0 if none
  pos,       \* how far
  pending,   \* files a scan found that are still to be attached
  then,      \* where the drain returns to
  guarded,   \* the handler of SIGINT is installed
  caught,    \* the listener of this select was told of a SIGINT
  sigs,      \* how many were sent
  out,       \* stdout: pieces, piece 0 being the announcement of a file
  seen       \* history: the files there were when the last drain ended

serverVars == <<runs, up, written>>
readVars == <<attached, pos, pending, then>>
sigVars == <<guarded, caught, sigs>>
vars == <<runs, up, there, written, flag, at, attached, pos, pending, then,
          guarded, caught, sigs, out, seen>>

IsOldest(e, S) == e \in S /\ \A f \in S : e <= f
IsNewest(e, S) == e \in S /\ \A f \in S : f <= e

Piece(e, k) == [log |-> e, piece |-> k]

Following == {"announce", "open", "read", "select", "scan", "next"}
Gone == {"ended", "failed", "killed", "nolog"}

\* Whatever earlier runs have left, and a server that may be running.
FollowInit ==
  /\ runs \in 0 .. MaxRuns
  /\ up \in BOOLEAN /\ (up => runs > 0)
  /\ there \in SUBSET (1 .. runs)
  /\ written \in [Logs -> 0 .. MaxLines]
  /\ \A e \in Logs : e > runs => written[e] = 0
  /\ flag \in {"follow", "whole"}
  /\ at = "start" /\ attached = 0 /\ pos = 0 /\ pending = {} /\ then = "select"
  /\ guarded = FALSE /\ caught = FALSE /\ sigs = 0
  /\ out = <<>> /\ seen = {}

-----------------------------------------------------------------------------
(* The servers, one after the other, and a clean.                          *)

\* Log::start creates the file before anything else is done.
Starts ==
  /\ ~up /\ runs < MaxRuns
  /\ runs' = runs + 1 /\ up' = TRUE
  /\ there' = there \cup {runs + 1}
  /\ UNCHANGED <<written, flag, at, readVars, sigVars, out, seen>>

\* Lines go to the open file, whether or not its name is still there.
Emits ==
  /\ up /\ written[runs] < MaxLines
  /\ written' = [written EXCEPT ![runs] = @ + 1]
  /\ UNCHANGED <<runs, up, there, flag, at, readVars, sigVars, out, seen>>

Stops ==
  /\ up /\ up' = FALSE
  /\ UNCHANGED <<runs, written, there, flag, at, readVars, sigVars, out, seen>>

Cleans(e) ==
  /\ e \in there /\ there' = there \ {e}
  /\ UNCHANGED <<serverVars, flag, at, readVars, sigVars, out, seen>>

-----------------------------------------------------------------------------
(* The command.                                                            *)

\* A select polls ctrl_c() at once: the first one installs the handler.
Arrive(place) ==
  /\ at' = place
  /\ guarded' = (guarded \/ place = "select")

Scans ==
  /\ at = "start"
  /\ \/ /\ there = {} /\ at' = "nolog"
        /\ UNCHANGED attached
     \/ /\ \E e \in Logs : IsNewest(e, there) /\ attached' = e
        /\ at' = IF flag = "follow" THEN "announce" ELSE "whole"
  /\ UNCHANGED <<serverVars, there, flag, pos, pending, then, sigVars, out, seen>>

\* All of the file as it is when it is read, or what a reader that leaves, or
\* a write that fails, has taken of it.
PrintsWhole ==
  /\ at = "whole"
  /\ \/ attached \notin there /\ at' = "failed"
        /\ UNCHANGED out
     \/ /\ attached \in there
        /\ \E n \in 0 .. written[attached] :
             /\ out' = [i \in 1 .. n |-> Piece(attached, i)]
             /\ at' \in {"ended"} \cup (IF n < written[attached] THEN {"failed"} ELSE {})
  /\ UNCHANGED <<serverVars, there, flag, readVars, sigVars, seen>>

\* Bug: the position in the last file is kept for the next.
AnnouncesFromPos ==
  /\ at = "announce" /\ at' = "open"
  /\ out' = Append(out, Piece(attached, 0))
  /\ UNCHANGED <<serverVars, there, flag, readVars, sigVars, seen>>

Announces ==
  /\ at = "announce" /\ at' = "open"
  /\ out' = Append(out, Piece(attached, 0)) /\ pos' = 0
  /\ UNCHANGED <<serverVars, there, flag, attached, pending, then, sigVars, seen>>

Opens ==
  /\ at = "open" /\ attached \in there /\ at' = "read"
  /\ UNCHANGED <<serverVars, there, flag, readVars, sigVars, out, seen>>

DrainEnds ==
  /\ Arrive(then) /\ seen' = there
  /\ UNCHANGED <<serverVars, there, flag, readVars, caught, sigs, out>>

\* Bug: every error of the open is taken for a file that has vanished.
HasVanishedOrFails == at = "open" /\ DrainEnds

HasVanished == at = "open" /\ attached \notin there /\ DrainEnds

\* Bug: the end of a file is not noticed.
ReadsOn ==
  /\ at = "read" /\ pos' = pos + 1 /\ out' = Append(out, Piece(attached, pos + 1))
  /\ UNCHANGED <<serverVars, there, flag, at, attached, pending, then, sigVars, seen>>

Reads ==
  /\ at = "read" /\ pos < written[attached]
  /\ pos' = pos + 1 /\ out' = Append(out, Piece(attached, pos + 1))
  /\ UNCHANGED <<serverVars, there, flag, at, attached, pending, then, sigVars, seen>>

ReachesEof == at = "read" /\ pos = written[attached] /\ DrainEnds

\* The listener goes with the select, and with it what it was told.
Wakes ==
  /\ at = "select" /\ at' = "open" /\ then' = "scan" /\ caught' = FALSE
  /\ UNCHANGED <<serverVars, there, flag, attached, pos, pending, guarded, sigs, out, seen>>

EndsByCtrlC ==
  /\ at = "select" /\ caught /\ at' = "ended"
  /\ UNCHANGED <<serverVars, there, flag, readVars, sigVars, out, seen>>

\* Bug: the attached file is found again.
AttachmentsFrom(last, scan) == {e \in scan : e >= last}

AttachmentsAfter(last, scan) == {e \in scan : e > last}

Rescans ==
  /\ at = "scan" /\ at' = "next"
  /\ pending' = AttachmentsAfter(attached, there)
  /\ UNCHANGED <<serverVars, there, flag, attached, pos, then, sigVars, out, seen>>

\* Bug: only the newest file is attached.
AttachesNewest ==
  /\ at = "next"
  /\ \E e \in Logs : IsNewest(e, pending) /\ attached' = e /\ pending' = {}
  /\ then' = "next" /\ at' = "announce"
  /\ UNCHANGED <<serverVars, there, flag, pos, sigVars, out, seen>>

Attaches ==
  /\ at = "next"
  /\ \E e \in Logs :
       IsOldest(e, pending) /\ attached' = e /\ pending' = pending \ {e}
  /\ then' = "next" /\ at' = "announce"
  /\ UNCHANGED <<serverVars, there, flag, pos, sigVars, out, seen>>

AllAttached ==
  /\ at = "next" /\ pending = {} /\ Arrive("select")
  /\ UNCHANGED <<serverVars, there, flag, readVars, caught, sigs, out, seen>>

\* A file that cannot be read, or a stdout that nobody reads any more.
IoFails ==
  /\ at \in {"announce", "open", "read"} /\ at' = "failed"
  /\ UNCHANGED <<serverVars, there, flag, readVars, sigVars, out, seen>>

\* Before the first select a SIGINT kills; after it only a select listens.
Interrupt ==
  /\ at \notin Gone /\ sigs < MaxSigs /\ sigs' = sigs + 1
  /\ at' = IF guarded THEN at ELSE "killed"
  /\ caught' = (caught \/ at = "select")
  /\ UNCHANGED <<serverVars, there, flag, readVars, guarded, out, seen>>

Command ==
  \/ Scans \/ PrintsWhole \/ Announces \/ Opens \/ HasVanished \/ Reads
  \/ ReachesEof \/ Wakes \/ EndsByCtrlC \/ Rescans \/ Attaches \/ AllAttached

Host ==
  \/ Starts \/ Emits \/ Stops \/ Interrupt \/ IoFails
  \/ \E e \in Logs : Cleans(e)

FollowNext == Command \/ Host

FollowSpec == FollowInit /\ [][FollowNext]_vars

\* The command goes on while its stdout is read.
FairFollowSpec == FollowSpec /\ WF_vars(Command)
=============================================================================
