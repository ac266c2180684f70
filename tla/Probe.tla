------------------------------- MODULE Probe -------------------------------
(***************************************************************************)
(* Who reads the frames of module Codec: a session, which reads them all,  *)
(* or the version probe of `status` and `start` (src/ctl/version.rs),      *)
(* which asks one question and waits for one frame, for a limited time.    *)
(* What it prints never fails the command, so its verdict is all there is. *)
(***************************************************************************)
EXTENDS Codec

CONSTANT Ours  \* the payloads of a ServerVersion that name this version

VersionTag == 11

ASSUME ProbeAssumption == Ours \subseteq Texts[VersionTag]

VARIABLE probe  \* where the probe is; "none" when a session reads

probeVars == <<codecVars, probe>>

\* It warns of the last two of the first three, and is silent otherwise.
Verdicts == {"matched", "skewed", "unreported"}
Judged == Verdicts \cup {"unreached", "late", "lost"}

ProbeInit == CodecInit /\ probe \in {"none", "connecting"}

-----------------------------------------------------------------------------

\* UnixStream::connect.
Connects ==
  /\ probe = "connecting" /\ probe' \in {"asking", "unreached"}
  /\ UNCHANGED codecVars

\* The send of the RequestVersion is over when it is done, has failed or has
\* taken too long, and the probe goes on in the same way.
Asks ==
  /\ probe = "asking" /\ probe' = "waiting"
  /\ UNCHANGED codecVars

\* Bug: the limit is on the pause between two reads.
TimesOutIfIdle ==
  /\ probe = "waiting" /\ buf = <<>> /\ probe' = "late"
  /\ UNCHANGED codecVars

TimesOut ==
  /\ probe = "waiting" /\ probe' = "late"
  /\ UNCHANGED codecVars

\* A frame that is no message is a refusal to tell, like any other message.
Verdict(f) ==
  IF f.tag # VersionTag \/ ~FromFrame(f) THEN "unreported"
  ELSE IF f.payload \in Ours THEN "matched" ELSE "skewed"

TakesReply == TakesFrame /\ probe' = Verdict(FrameOf(buf))

\* Bug: whatever is not a reply is a refusal.
BlamesLoss ==
  /\ Rejects \/ (NeedsMore /\ at' \in {"ended", "cut"})
  /\ probe' = "unreported"

\* The codec fails, or the stream ends first.
LosesReply ==
  /\ Rejects \/ (NeedsMore /\ at' \in {"ended", "cut"})
  /\ probe' = "lost"

AwaitsReply ==
  /\ (NeedsMore /\ at' = "read") \/ ReadsSome \/ ReadsEnd
  /\ UNCHANGED probe

Awaits == probe = "waiting" /\ (TakesReply \/ LosesReply \/ AwaitsReply)

\* The peer, which may write before it is asked, until the probe hangs up.
Answers == probe \in {"none", "asking", "waiting"} /\ Sender /\ UNCHANGED probe

SessionReads == probe = "none" /\ Receiver /\ UNCHANGED probe

ProbeNext == Answers \/ SessionReads \/ Connects \/ Asks \/ Awaits \/ TimesOut

\* The probe is polled and its timers fire; nothing is assumed of the peer.
ProbeSpec ==
  /\ ProbeInit /\ [][ProbeNext]_probeVars
  /\ WF_probeVars(Connects) /\ WF_probeVars(Asks) /\ WF_probeVars(TimesOut)

-----------------------------------------------------------------------------

\* The probe blames a server only for a whole reply of its own: skew is a
\* version that it sent and that is another one, a refusal is another message
\* that it sent, and a server that is cut off in its reply, or closes without
\* one, is not blamed (warn_on_skew; spec/protocol.md, Version probe).
VerdictIsDue ==
  honest =>
    /\ probe \in Verdicts => sent # <<>> /\ probe = Verdict(sent[1])
    /\ probe = "lost" => closed /\ (sent = <<>> \/ (Len(sent) = 1 /\ lost))

\* No server keeps a `status` or a `start` for ever, whatever it sends, reads
\* or leaves unfinished (warn_on_skew, PROBE_TIMEOUT).
ProbeEnds == probe = "connecting" ~> probe \in Judged
=============================================================================
