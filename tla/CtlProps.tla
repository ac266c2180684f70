------------------------------ MODULE CtlProps ------------------------------
(* What ncap-ctl promises a host, one shell at a time and several at once. *)
EXTENDS Ctl

Succeeded(p) == Active(p) /\ at'[p] = "ok"

\* A dump that is found fresh, by whichever process, is the environment of the
\* files as they are, or is just being written, even if a refresh broke off
\* anywhere between its two files: unless an edit fell between an evaluation and
\* its digest, or after the break (digest::check, ensure_cache).
FreshIsTrue ==
  mishaps \cap {"slip", "roots"} = {} =>
    \A r \in Roots :
      Freshness(r) = "fresh" /\ dump \in Dumps /\ dump[1] = r => dump[2] = files[r]

\* A stop that succeeds leaves no container running that ran when it began,
\* whatever others start and stop meanwhile (stop; spec/ctl.md, Commands).
StopIsTrue ==
  [][\A p \in Ctls :
       Succeeded(p) /\ cmd[p] = "stop" /\ "blind" \notin mishaps' =>
         ~Running \/ launches > since[p]]_ctlVars

\* One command at a time finds its way back from whatever earlier ones left: if
\* they were killed or failed anywhere, if the server crashed and left its file,
\* an undisturbed init, restart or start that succeeds leaves a server that can
\* be reached, and in its own root: unless it found it running and a clean had
\* dropped the stamp over it.  Its environment is that of the files if the
\* container was launched by this command, or if nothing ever failed; or it is
\* the piece of a dump that a cut refresh left under a digest that holds (init,
\* start, start_inner, clean, probe_socket).
InitDelivers ==
  [][\A p \in Ctls :
       /\ Succeeded(p) /\ cmd[p] \in {"init", "start"}
       /\ mishaps \cap {"overlap", "roots"} = {} /\ p \notin disturbed
       =>
         /\ Connectable /\ stamp = home[p]
         /\ mounted = home[p] \/ ("orphan" \in mishaps /\ launches = since[p])
         /\ cmd[p] = "init"
              /\ (mishaps = {} \/ (launches > since[p] /\ "slip" \notin mishaps))
            => \/ sourced = <<home[p], files[home[p]]>>
               \/ "cut" \in mishaps /\ sourced = Torn]_ctlVars

\* Nor does a clean that succeeds leave anything behind, a stamp that was cut
\* short, a dead container or the socket file of a crashed server included
\* (clean; spec/ctl.md, Commands).
CleanIsComplete ==
  [][\A p \in Ctls :
       /\ Succeeded(p) /\ cmd[p] = "clean"
       /\ mishaps \cap {"overlap", "roots"} = {} /\ p \notin disturbed
       =>
         /\ box = "absent" /\ dump = None /\ hash = None /\ stamp = None
         /\ sock' = "none"]_ctlVars

-----------------------------------------------------------------------------
(* The inductive invariant that these rest on.                             *)

StartPlaces ==
  Refreshing \cup
  {"guard", "claim", "probe", "connect", "check", "ensure", "eval", "launch",
   "inspect", "exists", "remove", "run", "boot", "reinspect", "removeDead",
   "rerun", "poll", "pollConnect"}

CleanPlaces == {"cleanRemove", "dropEnv", "dropHash", "dropStamp", "dropSocket"}

\* Each place belongs to some of the flows.
Fits(place, c) ==
  /\ place \in StartPlaces => c \in {"init", "start"}
  /\ place \in CleanPlaces => c = "clean"
  /\ place = "stopProbe" => c \in {"stop", "clean"}
  /\ place = "reprobe" => c = "stop"

PlacesFit == \A p \in Ctls : Fits(at[p], cmd[p])

\* A stop waits for a container that ran when it began, or a later one.
AimsHold ==
  \A p \in Ctls :
    /\ since[p] <= launches
    /\ at[p] = "stopping" => since[p] <= aim[p] /\ aim[p] <= launches

\* Who works at the same time works in one root.
OneHome == \A p, q \in Ctls : Active(p) /\ Active(q) => home[p] = home[q]

\* What a process is about to write is of the files as they are.
DraftsHold == \A p \in Ctls : at[p] \in Refreshing => draft[p] = files[home[p]]

\* Until it has stored the digest, the dump is its own, or as good.
WrittenHolds ==
  \A p \in Ctls :
    at[p] \in {"digest", "store"} /\ dump \in Dumps => dump = <<home[p], files[home[p]]>>

\* And with nobody in between, dump and digest match; after a refresh that was
\* cut, at least if the digest is that of the files.
StoredHolds ==
  dump \in Dumps /\ hash # None =>
    \/ dump[2] = hash
    \/ \E p \in Ctls : at[p] \in {"digest", "store"}
    \/ "cut" \in mishaps /\ (hash = files[dump[1]] => dump[2] = hash)

CacheHolds ==
  mishaps \cap {"slip", "roots"} = {} =>
    OneHome /\ DraftsHold /\ WrittenHolds /\ StoredHolds

\* What ncap-ctl (src/ctl/mod.rs) keeps however many processes there are: which
\* flow is where, what a stop waits for, and how dump, digest and files relate
\* during a refresh.
CtlInv == CtlTypeOK /\ PlacesFit /\ AimsHold /\ CacheHolds

-----------------------------------------------------------------------------
(***************************************************************************)
(* And what one command at a time knows besides, whatever earlier ones     *)
(* left behind.                                                            *)
(***************************************************************************)

OneByOne == mishaps \cap {"overlap", "roots"} = {}

NobodyElse == \A p, q \in Ctls : Active(p) /\ Active(q) => p = q

\* Undisturbed; or nothing was ever there to disturb it.
Untroubled(p) == p \notin disturbed \/ mishaps = {}

Reachable == Connectable /\ ~termed

\* The stamp names the root of the cache and of what runs.
StampHolds ==
  /\ dump # None => stamp \in Roots
  /\ dump \in Dumps => dump[1] = stamp
  /\ Running /\ "orphan" \notin mishaps => mounted \in Roots /\ mounted = stamp

StampKnown(p) ==
  /\ \/ at[p] \in StartPlaces \ {"guard", "claim"}
     \/ cmd[p] = "init" /\ at[p] \in {"stop", "stopping"}
     => stamp = home[p]
  /\ at[p] = "claim" => stamp = None

\* How far a refresh, or a clean, has got with the files.
FilesKnown(p) ==
  /\ at[p] = "write" => dump = Torn
  /\ at[p] \in {"digest", "store"} => dump \in Dumps
  /\ at[p] \in {"dropHash", "dropStamp", "dropSocket"} => dump = None
  /\ at[p] \in {"dropStamp", "dropSocket"} => hash = None
  /\ at[p] = "dropSocket" => stamp = None

TornHolds == dump = Torn => "cut" \in mishaps \/ \E p \in Ctls : at[p] = "write"

\* What an untroubled command knows of the container.
BoxKnown(p) ==
  Untroubled(p) =>
    /\ at[p] \in {"guard", "claim", "probe"} => ~Unsettled
    /\ at[p] \in {"connect", "check"} => Reachable
    /\ at[p] \in {"check", "ensure", "eval"} \cup Refreshing =>
         IF live[p] THEN Reachable ELSE ~Running
    /\ at[p] \in {"launch", "inspect", "exists", "remove", "reprobe", "cleanRemove"} => ~Running
    /\ at[p] = "run" => box = "absent"
    /\ at[p] = "boot" => box = "created" /\ maker = p
    /\ at[p] \in {"dropEnv", "dropHash", "dropStamp", "dropSocket"} => box = "absent"
    /\ at[p] \notin {"reinspect", "removeDead", "rerun"}

\* And of the launches.
LaunchesKnown(p) ==
  Active(p) =>
    /\ at[p] = "stopping" => aim[p] = launches
    /\ IF at[p] \in {"poll", "pollConnect"}
         THEN /\ launches > since[p] /\ ~termed
              /\ Running => mounted = home[p] /\ (server # "sourcing" => sourced = dump)
         ELSE launches = since[p]

\* What a server sources from now on is what init has ensured.
EnsuredKnown(p) ==
  /\ "slip" \notin mishaps /\ p \notin disturbed
  /\ cmd[p] = "init"
  /\ at[p] \in {"stop", "stopping", "launch", "inspect", "exists", "remove", "run", "boot",
                "poll", "pollConnect"}
  =>
    /\ hash = files[home[p]]
    /\ dump = <<home[p], files[home[p]]>> \/ ("cut" \in mishaps /\ dump = Torn)

\* From a refresh to the next launch a server serves what was before.
Outdates(p) ==
  \/ at[p] \in {"write", "digest", "store"}
  \/ cmd[p] = "init" /\ at[p] \in {"stop", "stopping"}

\* Otherwise it serves the dump there is, while nothing goes wrong; and there is
\* rest between two commands.
SourcedHolds ==
  mishaps = {} =>
    /\ Running /\ server # "sourcing" => sourced = dump \/ \E p \in Ctls : Outdates(p)
    /\ Unsettled => \E p \in Ctls : Active(p)

\* Only an init that found a server live goes on with that.
LivesFit ==
  \A p \in Ctls :
    live[p] => cmd[p] = "init" /\ at[p] \notin Ended \cup {"guard", "claim", "probe", "connect"}

\* The inductive invariant of ncap-ctl.
OrderInv ==
  /\ CtlInv
  /\ LivesFit
  /\ termed => Running
  /\ OneByOne =>
       /\ NobodyElse /\ StampHolds /\ TornHolds /\ SourcedHolds
       /\ \A p \in Ctls :
            StampKnown(p) /\ FilesKnown(p) /\ BoxKnown(p) /\ LaunchesKnown(p) /\ EnsuredKnown(p)

-----------------------------------------------------------------------------
(* Statements of the documentation that the code does not keep. *)

\* "two checkouts of one repo must never share a socket/container/cache"
\* (spec/paths.md, Stamp guard).
CheckoutsNeverShare ==
  [][\A p \in Ctls :
       Succeeded(p) /\ cmd[p] \in {"init", "start"}
         /\ mishaps \subseteq {"overlap", "roots"} /\ Running
       => mounted = home[p]]_ctlVars

\* "edits take effect on the next shell entry" (spec/flake-api.md, Freshness
\* triggers): however edits fall, an init that begins after them and runs
\* alone delivers the files.
EditsTakeEffect ==
  [][\A p \in Ctls :
       Succeeded(p) /\ cmd[p] = "init" /\ mishaps \subseteq {"slip"} /\ p \notin disturbed
       => sourced = <<home[p], files[home[p]]>>]_ctlVars

\* `env` is "the `nix print-dev-env` dump of the Container shell"
\* (spec/paths.md, Cache contents), which the server inherits: with shells
\* that enter at the same time, a server that serves has sourced a dump.
ServedEnvIsWhole ==
  mishaps \subseteq {"overlap"} /\ server = "serving" => sourced \in Dumps
=============================================================================
