--------------------------------- MODULE Ctl ---------------------------------
(***************************************************************************)
(* The flows of ncap-ctl (src/ctl/mod.rs) as several processes that work   *)
(* on one project at a time, with no lock between them.                    *)
(*                                                                         *)
(* A step is one call of the runtime, one probe or one file operation: the *)
(* others may take any step in between.                                    *)
(***************************************************************************)
EXTENDS Container

CONSTANTS
  Cmds,      \* the commands that are given
  MaxCmds,   \* bound: how many of them, one at a time,
  MaxMixed,  \* and how many once two were given at a time
  MaxEdits,  \* bound: edits of watched files
  MaxFaults  \* bound: kills, crashes and calls that fail

ASSUME CtlAssumption ==
  /\ Cmds \subseteq {"init", "start", "stop", "restart", "clean"}
  /\ MaxCmds \in Nat
  /\ MaxMixed \in Nat
  /\ MaxEdits \in Nat
  /\ MaxFaults \in Nat

VARIABLES
  at,        \* where the process is
  cmd,       \* its command; a restart becomes an init
  home,      \* the root it was started in
  live,      \* init: what it found
  draft,     \* the files as nix, or then the digest, read them
  since,     \* how many containers had been started when it began
  aim,       \* the container it waits for to stop
  disturbed, \* processes that something befell since, or when, they began
  mishaps,   \* what has gone wrong or come together so far
  given,     \* how many commands were given
  edits,     \* how many edits were made
  faults     \* how many faults there were

localVars == <<cmd, home, live, draft, since, aim>>
pastVars == <<disturbed, mishaps, given, edits, faults>>
worldVars == <<files, cacheVars, boxVars, serverVars, sock>>
ctlVars == <<worldVars, at, localVars, pastVars>>

\* Not running, after a failure or a kill, too; or after a success.
Ended == {"idle", "ok"}

\* A dump is being replaced, and the digest of another one may be stored.
Refreshing == {"truncate", "write", "digest", "store"}

Places ==
  Ended \cup Refreshing \cup
  {"guard", "claim", "probe", "connect", "check", "ensure", "eval", "stop",
   "stopping", "stopProbe", "reprobe", "launch", "inspect", "exists", "remove",
   "run", "boot", "reinspect", "removeDead", "rerun", "poll", "pollConnect",
   "cleanRemove", "dropEnv", "dropHash", "dropStamp", "dropSocket"}

Active(p) == at[p] \notin Ended

CtlTypeOK ==
  /\ ContainerTypeOK
  /\ at \in [Ctls -> Places]
  /\ cmd \in [Ctls -> Cmds \cup {"init", "none"}]
  /\ home \in [Ctls -> Roots]
  /\ live \in [Ctls -> BOOLEAN]
  /\ draft \in [Ctls -> Contents \cup {None}]
  /\ \A p \in Ctls : at[p] \in Refreshing => draft[p] \in Contents
  /\ since \in [Ctls -> Nat]
  /\ aim \in [Ctls -> Nat]
  /\ disturbed \subseteq Ctls
  /\ mishaps \subseteq {"overlap", "roots", "cut", "slip", "blind", "orphan", "other"}
  /\ given \in Nat
  /\ edits \in Nat
  /\ faults \in Nat

CtlInit ==
  /\ ContainerInit
  /\ at = [p \in Ctls |-> "idle"]
  /\ cmd = [p \in Ctls |-> "none"]
  /\ home \in [Ctls -> Roots]
  /\ live = [p \in Ctls |-> FALSE]
  /\ draft = [p \in Ctls |-> None]
  /\ since = [p \in Ctls |-> 0]
  /\ aim = [p \in Ctls |-> 0]
  /\ disturbed = {} /\ mishaps = {} /\ given = 0
  /\ edits = 0 /\ faults = 0

-----------------------------------------------------------------------------
(* Steps of a process. *)

Goes(p, place) ==
  /\ at' = [at EXCEPT ![p] = place]
  /\ UNCHANGED localVars

Ends(p, how) ==
  /\ at' = [at EXCEPT ![p] = how]
  /\ cmd' = [cmd EXCEPT ![p] = "none"]
  /\ draft' = [draft EXCEPT ![p] = None]
  /\ live' = [live EXCEPT ![p] = FALSE]
  /\ since' = [since EXCEPT ![p] = 0]
  /\ aim' = [aim EXCEPT ![p] = 0]
  /\ UNCHANGED home

Succeeds(p) == Ends(p, "ok")
GivesUp(p) == Ends(p, "idle")

Fault(kinds) ==
  /\ faults < MaxFaults /\ faults' = faults + 1
  /\ mishaps' = mishaps \cup kinds
  /\ disturbed' = disturbed \cup {p \in Ctls : Active(p)}
  /\ UNCHANGED <<given, edits>>

Quiet == UNCHANGED pastVars

Marks(kinds) ==
  mishaps' = mishaps \cup kinds /\ UNCHANGED <<disturbed, given, edits, faults>>

\* A deadline has passed.
Late == Marks({"other"})

\* is_running: a runtime that cannot be asked counts as a container that does
\* not run.
Sees(answer) ==
  \/ answer = Running /\ Quiet
  \/ answer = FALSE /\ Running /\ Fault({"blind", "other"})

FirstPlace ==
  [init |-> "guard", start |-> "guard", stop |-> "stopProbe",
   restart |-> "stop", clean |-> "stopProbe"]

\* A server on its way up or down, or that runs out of reach.
Unsettled == termed \/ (Running /\ ~Connectable)

Begin(p) ==
  /\ ~Active(p)
  /\ given' = given + 1
  /\ \E c \in Cmds, r \in Roots :
       /\ cmd' = [cmd EXCEPT ![p] = c]
       /\ home' = [home EXCEPT ![p] = r]
       /\ at' = [at EXCEPT ![p] = FirstPlace[c]]
       /\ mishaps' = mishaps
            \cup (IF \E q \in Ctls : Active(q) THEN {"overlap"} ELSE {})
            \cup (IF \E q \in Ctls : Active(q) /\ home[q] # r THEN {"roots"} ELSE {})
  /\ given < IF "overlap" \in mishaps' THEN MaxMixed ELSE MaxCmds
  /\ since' = [since EXCEPT ![p] = launches]
  /\ disturbed' = IF Unsettled THEN disturbed \cup {p} ELSE disturbed \ {p}
  /\ UNCHANGED <<worldVars, live, draft, aim, edits, faults>>

-----------------------------------------------------------------------------
(* The stamp guard (stamp::guard). *)

\* A stamp that is empty, because another process is writing it or never
\* finished, names another root.
ReadsStamp(p) ==
  /\ at[p] = "guard"
  /\ \/ stamp = None /\ Goes(p, "claim")
     \/ stamp = home[p] /\ Goes(p, "probe")
     \/ stamp \notin {None, home[p]} /\ GivesUp(p)
     \/ (\E q \in Ctls : at[q] = "claim") /\ GivesUp(p)
  /\ Quiet /\ UNCHANGED worldVars

ClaimsStamp(p) ==
  /\ at[p] = "claim"
  /\ stamp' = home[p]
  /\ Goes(p, "probe")
  /\ Quiet /\ UNCHANGED <<files, dump, hash, boxVars, serverVars, sock>>

-----------------------------------------------------------------------------
(* init and start: is the server live (Runtime::is_live), and what then. *)

\* Mutant of NotLive: an init whose server is not live takes the cache as it is.
NotLiveIsLaunched(p) == Goes(p, "launch")

NotLive(p) == Goes(p, IF cmd[p] = "init" THEN "ensure" ELSE "launch")

ProbesBox(p) ==
  /\ at[p] = "probe"
  /\ \E yes \in BOOLEAN :
       Sees(yes) /\ IF yes THEN Goes(p, "connect") ELSE NotLive(p)
  /\ UNCHANGED worldVars

\* A start is done with a live server, but for the version probe.
ProbesSocket(p) ==
  /\ at[p] = "connect"
  /\ \/ ~Connectable /\ NotLive(p)
     \/ Connectable /\ cmd[p] = "start" /\ Succeeds(p)
     \/ /\ Connectable /\ cmd[p] = "init"
        /\ at' = [at EXCEPT ![p] = "check"]
        /\ live' = [live EXCEPT ![p] = TRUE]
        /\ UNCHANGED <<cmd, home, draft, since, aim>>
  /\ Quiet /\ UNCHANGED worldVars

Checks(p) ==
  /\ at[p] = "check"
  /\ \E v \in Verdicts(home[p]) :
       IF v = "fresh" THEN Succeeds(p) ELSE Goes(p, "ensure")
  /\ Quiet /\ UNCHANGED worldVars

-----------------------------------------------------------------------------
(* ensure_cache. *)

\* Mutant of Ensured: a container that runs is left as it is.
EnsuredIsEnough(p) == IF live[p] THEN Succeeds(p) ELSE Goes(p, "launch")

Ensured(p) == Goes(p, IF live[p] THEN "stop" ELSE "launch")

Ensures(p) ==
  /\ at[p] = "ensure"
  /\ \E v \in Verdicts(home[p]) :
       IF v = "fresh" THEN Ensured(p) ELSE Goes(p, "eval")
  /\ Quiet /\ UNCHANGED worldVars

ReadsFiles(p, place) ==
  /\ draft' = [draft EXCEPT ![p] = files[home[p]]]
  /\ at' = [at EXCEPT ![p] = place]
  /\ UNCHANGED <<cmd, home, live, since, aim>>

\* Mutant of Evaluates: the dump is not written, and the digest is.
EvaluatesForNothing(p) ==
  /\ at[p] = "eval"
  /\ ReadsFiles(p, "digest")
  /\ Quiet /\ UNCHANGED worldVars

\* nix reads the watched files some time during print-dev-env.
Evaluates(p) ==
  /\ at[p] = "eval"
  /\ ReadsFiles(p, "truncate")
  /\ Quiet /\ UNCHANGED worldVars

\* fs::write empties the file before it writes.
Truncates(p) ==
  /\ at[p] = "truncate"
  /\ dump' = Torn
  /\ Goes(p, "write")
  /\ Quiet /\ UNCHANGED <<files, hash, stamp, boxVars, serverVars, sock>>

\* What is written to a file that was removed meanwhile is lost.
Writes(p) ==
  /\ at[p] = "write"
  /\ dump' = IF dump = None THEN None ELSE <<home[p], draft[p]>>
  /\ Goes(p, "digest")
  /\ Quiet /\ UNCHANGED <<files, hash, stamp, boxVars, serverVars, sock>>

Digests(p) ==
  /\ at[p] = "digest"
  /\ ReadsFiles(p, "store")
  /\ Quiet /\ UNCHANGED worldVars

Stores(p) ==
  /\ at[p] = "store"
  /\ hash' = draft[p]
  /\ Ensured(p)
  /\ Quiet /\ UNCHANGED <<files, dump, stamp, boxVars, serverVars, sock>>

-----------------------------------------------------------------------------
(* Runtime::stop, and what follows it in each flow. *)

AfterStop(p, worked) ==
  \/ cmd[p] = "stop" /\ worked /\ Succeeds(p)
  \/ cmd[p] = "stop" /\ ~worked /\ Goes(p, "reprobe")
  \/ cmd[p] = "init" /\ Goes(p, "launch")
  \/ cmd[p] = "clean" /\ Goes(p, "cleanRemove")
  \/ /\ cmd[p] = "restart"
     /\ at' = [at EXCEPT ![p] = "guard"]
     /\ cmd' = [cmd EXCEPT ![p] = "init"]
     /\ UNCHANGED <<home, live, draft, since, aim>>

\* stop and clean ask first.
StopProbes(p) ==
  /\ at[p] = "stopProbe"
  /\ \E yes \in BOOLEAN :
       /\ Sees(yes)
       /\ \/ yes /\ Goes(p, "stop")
          \/ ~yes /\ cmd[p] = "stop" /\ Succeeds(p)
          \/ ~yes /\ cmd[p] = "clean" /\ Goes(p, "cleanRemove")
  /\ UNCHANGED worldVars

\* A TERM for the init process; to stop what has stopped is a success.
Stops(p) ==
  /\ at[p] = "stop"
  /\ IF Running
       THEN /\ termed' = TRUE
            /\ at' = [at EXCEPT ![p] = "stopping"]
            /\ aim' = [aim EXCEPT ![p] = launches]
            /\ UNCHANGED <<cmd, home, live, draft, since>>
       ELSE AfterStop(p, box = "exited") /\ UNCHANGED termed
  /\ Quiet /\ UNCHANGED <<files, cacheVars, boxVars, server, sourced, mounted, sock>>

StopReturns(p) ==
  /\ at[p] = "stopping"
  /\ ~Running \/ launches # aim[p]
  /\ AfterStop(p, TRUE)
  /\ Quiet /\ UNCHANGED worldVars

StopErrs(p) ==
  /\ at[p] \in {"stop", "stopping"}
  /\ AfterStop(p, FALSE)
  /\ Fault({"other"}) /\ UNCHANGED worldVars

\* Mutant of StopProbesAgain: a failed stop is a success.
StopIsForgiven(p) ==
  /\ at[p] = "reprobe"
  /\ Succeeds(p)
  /\ Quiet /\ UNCHANGED worldVars

StopProbesAgain(p) ==
  /\ at[p] = "reprobe"
  /\ \E yes \in BOOLEAN : Sees(yes) /\ IF yes THEN GivesUp(p) ELSE Succeeds(p)
  /\ UNCHANGED worldVars

-----------------------------------------------------------------------------
(* start_inner. *)

Launches(p) ==
  /\ at[p] = "launch"
  /\ IF dump = None THEN GivesUp(p) ELSE Goes(p, "inspect")
  /\ Quiet /\ UNCHANGED worldVars

Inspects(p) ==
  /\ at[p] = "inspect"
  /\ \E yes \in BOOLEAN : Sees(yes) /\ Goes(p, IF yes THEN "run" ELSE "exists")
  /\ UNCHANGED worldVars

\* Runtime::exists; a runtime that cannot be asked knows no container.
TestsExistence(p) ==
  /\ at[p] = "exists"
  /\ \/ Goes(p, IF box = "absent" THEN "run" ELSE "remove") /\ Quiet
     \/ Goes(p, "run") /\ Fault({"other"})
  /\ UNCHANGED worldVars

AfterRemove == [remove |-> "run", removeDead |-> "rerun", cleanRemove |-> "dropEnv"]

\* A failed `rm` is ignored.
Removes(p) ==
  /\ at[p] \in DOMAIN AfterRemove
  /\ Goes(p, AfterRemove[at[p]])
  /\ \/ Removed /\ Quiet
     \/ UNCHANGED <<box, maker>> /\ Fault({"other"})
  /\ UNCHANGED <<files, cacheVars, launches, serverVars, sock>>

\* `run` fails if the name is in use, which is forgiven once.
Runs(p) ==
  /\ at[p] \in {"run", "rerun"}
  /\ IF box = "absent"
       THEN box' = "created" /\ maker' = p /\ Goes(p, "boot")
       ELSE /\ IF at[p] = "run" THEN Goes(p, "reinspect") ELSE GivesUp(p)
            /\ UNCHANGED <<box, maker>>
  /\ Quiet /\ UNCHANGED <<files, cacheVars, launches, serverVars, sock>>

Boots(p) ==
  /\ at[p] = "boot"
  /\ IF box = "created" /\ maker = p
       THEN Started(p, home[p]) /\ Goes(p, "poll")
       ELSE GivesUp(p) /\ UNCHANGED <<boxVars, serverVars, sock>>
  /\ Quiet /\ UNCHANGED <<files, cacheVars>>

Reinspects(p) ==
  /\ at[p] = "reinspect"
  /\ \E yes \in BOOLEAN :
       Sees(yes) /\ IF yes THEN Succeeds(p) ELSE Goes(p, "removeDead")
  /\ UNCHANGED worldVars

\* The deadline is looked at after every probe that fails.
Misses(p) ==
  \/ Goes(p, "poll") /\ Quiet
  \/ GivesUp(p) /\ Late

Polls(p) ==
  /\ at[p] = "poll"
  /\ \/ Running /\ Goes(p, "pollConnect") /\ Quiet
     \/ Running /\ (Goes(p, "poll") \/ GivesUp(p)) /\ Fault({"blind", "other"})
     \/ ~Running /\ Misses(p)
  /\ UNCHANGED worldVars

PollsSocket(p) ==
  /\ at[p] = "pollConnect"
  /\ IF Connectable THEN Succeeds(p) /\ Quiet ELSE Misses(p)
  /\ UNCHANGED worldVars

-----------------------------------------------------------------------------
(* clean, after the container. *)

\* Mutant of AfterDrop: the stamp stays.
AfterDropOfTwo == [dropEnv |-> "dropHash", dropHash |-> "dropSocket"]

AfterDrop == [dropEnv |-> "dropHash", dropHash |-> "dropStamp", dropStamp |-> "dropSocket"]

\* A stamp that goes while the container runs leaves it to any root.
Drops(p) ==
  /\ at[p] \in {"dropEnv", "dropHash", "dropStamp", "dropSocket"}
  /\ dump' = IF at[p] = "dropEnv" THEN None ELSE dump
  /\ hash' = IF at[p] = "dropHash" THEN None ELSE hash
  /\ stamp' = IF at[p] = "dropStamp" THEN None ELSE stamp
  /\ sock' = IF at[p] = "dropSocket" THEN "none" ELSE sock
  /\ IF at[p] = "dropSocket" THEN Succeeds(p) ELSE Goes(p, AfterDrop[at[p]])
  /\ Marks(IF at[p] = "dropStamp" /\ Running THEN {"orphan"} ELSE {})
  /\ UNCHANGED <<files, boxVars, serverVars>>

-----------------------------------------------------------------------------
(* Failures, and the world. *)

\* The write of a small file may break off when it has truncated the file.
BreaksOff(p) ==
  /\ \/ UNCHANGED <<hash, stamp>>
     \/ at[p] = "store" /\ hash' = None /\ UNCHANGED stamp
     \/ at[p] = "claim" /\ stamp' = Torn /\ UNCHANGED hash
  /\ UNCHANGED <<files, dump, boxVars, serverVars, sock>>

\* The runtime, nix or a file operation fails.
Fails(p) ==
  /\ at[p] \in {"guard", "claim", "eval", "launch", "run", "rerun", "boot", "dropEnv",
                "dropHash", "dropStamp", "dropSocket"} \cup Refreshing
  /\ BreaksOff(p) /\ GivesUp(p)
  /\ Fault(IF at[p] \in Refreshing THEN {"cut", "other"} ELSE {})

Killed(p) ==
  /\ Active(p)
  /\ BreaksOff(p) /\ GivesUp(p)
  /\ Fault(IF at[p] \in Refreshing THEN {"cut", "other"} ELSE {"other"})

\* An edit that falls between an evaluation and its digest is a slip; so is one
\* that may take the files back to the digest that a cut refresh left.
Edit ==
  /\ edits < MaxEdits /\ edits' = edits + 1
  /\ \E r \in Roots, c \in Contents :
       /\ c # files[r]
       /\ files' = [files EXCEPT ![r] = c]
       /\ disturbed' = disturbed \cup {p \in Ctls : Active(p) /\ home[p] = r}
       /\ mishaps' = mishaps \cup
            (IF "cut" \in mishaps \/ \E p \in Ctls : home[p] = r /\ at[p] \in Refreshing
               THEN {"slip"} ELSE {})
  /\ UNCHANGED <<cacheVars, boxVars, serverVars, sock, at, localVars, given, faults>>

Step(p) ==
  \/ ReadsStamp(p) \/ ClaimsStamp(p) \/ ProbesBox(p) \/ ProbesSocket(p) \/ Checks(p)
  \/ Ensures(p) \/ Evaluates(p) \/ Truncates(p) \/ Writes(p) \/ Digests(p) \/ Stores(p)
  \/ StopProbes(p) \/ Stops(p) \/ StopReturns(p) \/ StopProbesAgain(p)
  \/ Launches(p) \/ Inspects(p) \/ TestsExistence(p) \/ Removes(p) \/ Runs(p) \/ Boots(p)
  \/ Reinspects(p) \/ Polls(p) \/ PollsSocket(p) \/ Drops(p)

InitProcessStep ==
  /\ InitProcess /\ Quiet
  /\ UNCHANGED <<files, cacheVars, at, localVars>>

Crash ==
  /\ Dies
  /\ IF termed THEN Quiet ELSE Fault({"other"})
  /\ UNCHANGED <<files, cacheVars, at, localVars>>

CtlNext ==
  \/ \E p \in Ctls :
       Begin(p) \/ Step(p) \/ StopErrs(p) \/ Fails(p) \/ Killed(p)
  \/ InitProcessStep \/ Crash \/ Edit

CtlSpec == CtlInit /\ [][CtlNext]_ctlVars
=============================================================================
