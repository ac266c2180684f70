---------------------------- MODULE FollowProps ----------------------------
(* What someone who reads `ncap-ctl log` may rely on.                      *)
EXTENDS Follow

\* The types of the variables of Follow.
FollowTypeOK ==
  /\ runs \in 0 .. MaxRuns /\ up \in BOOLEAN
  /\ there \in SUBSET (1 .. runs)
  /\ written \in [Logs -> 0 .. MaxLines]
  /\ flag \in {"follow", "whole"}
  /\ at \in Following \cup Gone \cup {"start", "whole"}
  /\ attached \in 0 .. runs /\ pos \in 0 .. MaxLines
  /\ pending \in SUBSET (1 .. runs) /\ then \in {"select", "scan", "next"}
  /\ guarded \in BOOLEAN /\ caught \in BOOLEAN /\ sigs \in 0 .. MaxSigs
  /\ out \in Seq([log : Logs, piece : 0 .. MaxLines])
  /\ seen \in SUBSET (1 .. runs)

\* What b may follow on stdout: the next piece of the same file, or the
\* announcement of a newer one.
Continues(a, b) ==
  \/ b.log = a.log /\ b.piece = a.piece + 1
  \/ b.log > a.log /\ b.piece = 0

\* Each file is announced, then printed from its first byte without gap or
\* repetition, and files follow each other by age (follow_log, drain_log;
\* spec/ctl.md, log --follow).
FollowsInOrder ==
  /\ \A i \in 1 .. Len(out) - 1 : Continues(out[i], out[i + 1])
  /\ out # <<>> => out[1].piece = IF flag = "follow" THEN 0 ELSE 1

\* A file that is left for a newer one was printed whole, if the newer one was
\* there when its drain ended: what is lost is only what the old server logs
\* between a drain and its scan, with the new server started there, too
\* (follow_log, Drain-then-switch).
SwitchLosesNothing ==
  at = "next" /\ pending \cap seen # {} /\ attached \in there =>
    pos = written[attached]

Announced(e) == \E i \in 1 .. Len(out) : out[i] = Piece(e, 0)
Printed(e, k) == \E i \in 1 .. Len(out) : out[i] = Piece(e, k)

\* Every later run of the server is attached, even if it is over by then and
\* others have started (attachments_after).
EveryRunAnnounced ==
  \A e \in Logs :
    at \in Following /\ e \in there /\ e > attached
      ~> Announced(e) \/ e \notin there \/ at \in Gone

\* What is logged to the attached file is printed, unless the file is removed
\* or a newer one found first (drain_log).
LinesArrive ==
  \A e \in Logs, k \in 1 .. MaxLines :
    at \in Following /\ attached = e /\ written[e] >= k
      ~> Printed(e, k) \/ e \notin there \/ attached > e \/ at \in Gone
=============================================================================
