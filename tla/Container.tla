------------------------------ MODULE Container ------------------------------
(***************************************************************************)
(* What a project keeps outside its tree, shared by every ncap-ctl that    *)
(* works on it: the cache files (src/ctl/digest.rs, src/ctl/paths.rs), the *)
(* container of the one name the runtime knows, and the socket file of the *)
(* server in it, from its launch to its exit (src/server.rs, run).         *)
(*                                                                         *)
(* The runtime is external: a name belongs to at most one container, `run` *)
(* creates and then starts one, and a container is running as long as its  *)
(* init process, the server, is.                                           *)
(***************************************************************************)
EXTENDS Naturals, FiniteSets

CONSTANTS
  Roots,     \* project roots that resolve to this project name
  Contents,  \* what the watched files of a root may contain
  None,      \* there is no such file, or nobody
  Torn,      \* what a file holds that was truncated and not written yet
  Ctls       \* ncap-ctl processes

ASSUME FilesAssumption ==
  /\ None \notin Roots \cup Contents
  /\ {None, Torn} \cap (Roots \X Contents) = {}
  /\ None # Torn

\* An environment is that of a root with its watched files as they were.
Dumps == Roots \X Contents

VARIABLES
  files,     \* the watched files of each root
  dump,      \* <cache>/env
  hash,      \* <cache>/hash; a digest stands for what was digested
  stamp,     \* <cache>/project
  box,       \* the container of the name
  maker,     \* whose `run` has created and not started it
  launches,  \* how many containers were started
  mounted,   \* the root mounted in the running one
  server,    \* its init process
  sourced,   \* the dump it sourced
  termed,    \* it was sent a SIGTERM
  sock       \* the socket file: none, of a server that is gone, or of this one

cacheVars == <<dump, hash, stamp>>
serverVars == <<server, sourced, mounted, termed>>
boxVars == <<box, maker, launches>>

ContainerTypeOK ==
  /\ files \in [Roots -> Contents]
  /\ dump \in Dumps \cup {None, Torn}
  /\ hash \in Contents \cup {None}
  /\ stamp \in Roots \cup {None, Torn}
  /\ box \in {"absent", "created", "running", "exited"}
  /\ maker \in Ctls \cup {None}
  /\ launches \in Nat
  /\ mounted \in Roots \cup {None}
  /\ server \in {"none", "sourcing", "starting", "clearing", "binding", "serving", "draining"}
  /\ sourced \in Dumps \cup {None, Torn}
  /\ termed \in BOOLEAN
  /\ sock \in {"none", "stale", "live"}
  /\ server = "none" <=> box # "running"

\* A project that was never used.
Unused ==
  /\ dump = None /\ hash = None /\ stamp = None
  /\ box = "absent" /\ launches = 0
  /\ server = "none" /\ sourced = None /\ mounted = None
  /\ sock = "none"

\* A project with a server that an `init` in root r has left.
InUse(r) ==
  /\ dump = <<r, files[r]>> /\ hash = files[r] /\ stamp = r
  /\ box = "running" /\ launches = 1
  /\ server = "serving" /\ sourced = dump /\ mounted = r
  /\ sock = "live"

ContainerInit ==
  /\ files \in [Roots -> Contents]
  /\ Unused \/ \E r \in Roots : InUse(r)
  /\ maker = None /\ termed = FALSE

-----------------------------------------------------------------------------
(* The digest. *)

\* digest::check, for the root that asks.
Freshness(r) ==
  IF dump = None THEN "missing" ELSE IF hash = files[r] THEN "fresh" ELSE "stale"

\* A watched file that cannot be read makes a dump stale.
Verdicts(r) == {Freshness(r)} \cup (IF dump = None THEN {} ELSE {"stale"})

-----------------------------------------------------------------------------
(* The runtime. *)

Running == box = "running"

\* Connecting to the socket file reaches a listener.
Connectable == server = "serving" /\ sock = "live"

\* Mutant of Removed: `rm` with force, whatever runs.
RemovedByForce == box' = "absent" /\ maker' = None

\* `rm` removes what does not run.
Removed ==
  IF Running THEN UNCHANGED <<box, maker>> ELSE box' = "absent" /\ maker' = None

\* The second half of `run`, once the container is created.
Started(p, r) ==
  /\ box' = "running" /\ maker' = None
  /\ launches' = launches + 1
  /\ server' = "sourcing" /\ mounted' = r
  /\ sourced' = None /\ termed' = FALSE
  /\ UNCHANGED sock

-----------------------------------------------------------------------------
(* The server from its launch to its exit. *)

Exits ==
  /\ box' = "exited"
  /\ server' = "none" /\ sourced' = None /\ mounted' = None /\ termed' = FALSE
  /\ UNCHANGED <<maker, launches>>

ServerGoes(place) == server' = place /\ UNCHANGED <<boxVars, sourced, mounted, termed>>

\* The launch command sources the dump, and ends if that fails.
Sources ==
  /\ server = "sourcing"
  /\ \/ /\ dump # None
        /\ sourced' = dump /\ server' = "starting"
        /\ UNCHANGED <<boxVars, mounted, termed>>
     \/ dump \in {None, Torn} /\ Exits
  /\ UNCHANGED sock

\* probe_socket: nobody listens on the file of a server that is gone.
ProbesFile ==
  /\ server = "starting"
  /\ ServerGoes(IF sock = "none" THEN "binding" ELSE "clearing")
  /\ UNCHANGED sock

\* Removing a file that has just gone is an error.
ClearsFile ==
  /\ server = "clearing"
  /\ IF sock = "none" THEN Exits ELSE ServerGoes("binding")
  /\ sock' = "none"

Binds ==
  /\ server = "binding"
  /\ sock' = "live"
  /\ ServerGoes("serving")

\* The listener is gone as soon as the shutdown begins.
Drains ==
  /\ server = "serving" /\ termed
  /\ ServerGoes("draining")
  /\ UNCHANGED sock

Quits ==
  /\ server = "draining"
  /\ Exits
  /\ sock' = "none"

\* The end of a server that cannot remove its file: a crash, a SIGTERM before
\* its handlers are there, or the SIGKILL that ends the patience of `stop`.
Dies ==
  /\ server # "none"
  /\ Exits
  /\ sock' = IF sock = "live" THEN "stale" ELSE sock

InitProcess == Sources \/ ProbesFile \/ ClearsFile \/ Binds \/ Drains \/ Quits
=============================================================================
