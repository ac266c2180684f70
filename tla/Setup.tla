-------------------------------- MODULE Setup --------------------------------
(***************************************************************************)
(* What ncap-ctl takes from its environment (src/ctl/config.rs, paths.rs): *)
(* the five variables that setup-env derives, and the full set that every  *)
(* other command demands; and the shell that is entered with both          *)
(* (nix/lib.nix).                                                          *)
(*                                                                         *)
(* A text is a sequence of characters.  An environment gives each variable *)
(* a text, or Unset; an empty text counts as none.                         *)
(***************************************************************************)
EXTENDS Naturals, Sequences

CONSTANTS
  Chars,    \* the characters of texts; some stand for whole words
  Unset,    \* the value of a variable that is not set
  Roots,    \* the project roots
  Name(_),  \* the project name of a root; the empty text if it has none
  Junk      \* texts that are neither a number nor a JSON array of strings

Texts == Seq(Chars)

IsAbsolute(text) == text # <<>> /\ Head(text) = "/"

\* Words that the code compares with or writes.
Words ==
  {"/", "tmp", ".cache", ".local/state", "nix-capsule", "ncap.sock", "logs", "ncap-",
   "podman", "docker", "auto", "true", "false", "debug", "info", "warning", "error"}

ASSUME SetupAssumption ==
  /\ Words \subseteq Chars
  /\ Unset \notin Texts
  /\ Roots \subseteq Texts \ {<<>>}
  /\ \A root \in Roots : Name(root) \in Texts /\ ~IsAbsolute(Name(root))

Derived ==
  {"NCAP_PROJECT", "NCAP_CONTAINER", "NCAP_SOCKET", "NCAP_CACHE_DIR", "NCAP_LOG_DIR"}

Given ==
  {"NCAP_RUNTIME", "NCAP_TIMEOUT", "NCAP_WATCH_FILES", "NCAP_RUN_OPTS", "NCAP_HARDEN",
   "NCAP_LOG_LEVEL", "NCAP_DEVSHELL", "NCAP_NIX", "NCAP_IMAGE", "NCAP_SERVER", "NCAP_BASH"}

\* What the host has of its own; "passwd" is the home of the user database.
Ambient == {"XDG_RUNTIME_DIR", "TMPDIR", "XDG_CACHE_HOME", "XDG_STATE_HOME", "HOME", "passwd"}

Vars == Derived \cup Given \cup Ambient \cup {"NCAP_PROJECT_ROOT"}

Environments ==
  {env \in [Vars -> Texts \cup {Unset}] :
     env["NCAP_PROJECT_ROOT"] \in Roots \cup {Unset, <<>>}}

Has(env, var) == env[var] \notin {Unset, <<>>}

-----------------------------------------------------------------------------
(* Paths (paths.rs, and the dirs crate under it).                          *)

\* Path::join: an absolute part replaces what is before it.
Join(base, part) == IF IsAbsolute(part) THEN part ELSE base \o <<"/">> \o part

Within(base, project) == Join(Join(base, <<"nix-capsule">>), project)

\* An XDG variable must hold an absolute path; without HOME the user database
\* is asked.
Xdg(env, var, inHome) ==
  IF env[var] # Unset /\ IsAbsolute(env[var]) THEN env[var]
  ELSE IF Has(env, "HOME") THEN Join(env["HOME"], inHome)
  ELSE IF Has(env, "passwd") THEN Join(env["passwd"], inHome)
  ELSE Unset

SocketPath(env, project) ==
  LET base ==
        IF env["XDG_RUNTIME_DIR"] # Unset /\ IsAbsolute(env["XDG_RUNTIME_DIR"])
          THEN env["XDG_RUNTIME_DIR"]
          ELSE IF Has(env, "TMPDIR") THEN env["TMPDIR"] ELSE <<"/", "tmp">>
  IN  Join(Within(base, project), <<"ncap.sock">>)

CacheHome(env) == Xdg(env, "XDG_CACHE_HOME", <<".cache">>)
StateHome(env) == Xdg(env, "XDG_STATE_HOME", <<".local/state">>)

CacheDir(env, project) == Within(CacheHome(env), project)
LogDir(env, project) == Join(Within(StateHome(env), project), <<"logs">>)

-----------------------------------------------------------------------------
(* setup-env.                                                              *)

ResolveProject(env) ==
  IF Has(env, "NCAP_PROJECT") THEN env["NCAP_PROJECT"] ELSE Name(env["NCAP_PROJECT_ROOT"])

\* It fails without a root, a name or a home that it needs.
SetsUp(env) ==
  /\ Has(env, "NCAP_PROJECT_ROOT")
  /\ ResolveProject(env) # <<>>
  /\ Has(env, "NCAP_CACHE_DIR") \/ CacheHome(env) # Unset
  /\ Has(env, "NCAP_LOG_DIR") \/ StateHome(env) # Unset

Default(env, var) ==
  LET project == ResolveProject(env)
  IN  CASE var = "NCAP_PROJECT" -> project
        [] var = "NCAP_CONTAINER" -> <<"ncap-">> \o project
        [] var = "NCAP_SOCKET" -> SocketPath(env, project)
        [] var = "NCAP_CACHE_DIR" -> CacheDir(env, project)
        [] var = "NCAP_LOG_DIR" -> LogDir(env, project)

\* An explicit value wins.
Exports(env) ==
  [var \in Derived |-> IF Has(env, var) THEN env[var] ELSE Default(env, var)]

\* The shell that sources the output, or stays as it is (setupEnvHook).
Source(env) ==
  [var \in Vars |->
     IF var \in Derived /\ SetsUp(env) THEN Exports(env)[var] ELSE env[var]]

\* A shell has the variables of its flake, the empty ones included, whatever the
\* shell had from which it was entered (mkShell).
Enter(env, flake, root) ==
  Source([var \in Vars |->
            IF var = "NCAP_PROJECT_ROOT" THEN root
            ELSE IF var \in Derived \cup Given THEN flake[var] ELSE env[var]])

-----------------------------------------------------------------------------
(* resolve: what every other command demands, in this order.               *)

Demands ==
  <<"NCAP_RUNTIME", "NCAP_TIMEOUT", "NCAP_WATCH_FILES", "NCAP_RUN_OPTS", "NCAP_HARDEN",
    "NCAP_LOG_LEVEL", "NCAP_PROJECT_ROOT", "watched", "NCAP_PROJECT", "NCAP_CONTAINER",
    "NCAP_SOCKET", "NCAP_CACHE_DIR", "NCAP_LOG_DIR", "NCAP_DEVSHELL", "NCAP_NIX",
    "NCAP_IMAGE", "NCAP_SERVER", "NCAP_BASH">>

\* A watched file is relative, stays below the root and is a file if it exists.
IsWatchable(entry) == entry.relative /\ ~entry.climbs /\ entry.is \in {"absent", "file"}

Understood(var, text) ==
  CASE var = "NCAP_RUNTIME" -> text \in {<<"podman">>, <<"docker">>, <<"auto">>}
    [] var = "NCAP_HARDEN" -> text \in {<<"true">>, <<"false">>}
    [] var = "NCAP_LOG_LEVEL" -> text \in {<<"debug">>, <<"info">>, <<"warning">>, <<"error">>}
    [] var \in {"NCAP_TIMEOUT", "NCAP_WATCH_FILES", "NCAP_RUN_OPTS"} -> text \notin Junk
    [] OTHER -> TRUE

\* The host: the watched entries, and the runtimes that are found in PATH.
Trouble(env, host, var) ==
  CASE var = "watched" ->
         IF \A i \in DOMAIN host.watched : IsWatchable(host.watched[i])
           THEN "none" ELSE "unwatchable"
    [] var # "watched" /\ ~Has(env, var) -> "missing"
    [] var # "watched" /\ Has(env, var) ->
         IF ~Understood(var, env[var]) THEN "malformed"
         ELSE IF env[var] = <<"auto">> /\ var = "NCAP_RUNTIME" /\ host.runtimes = {}
           THEN "no runtime" ELSE "none"

Troubles(env, host) == {i \in DOMAIN Demands : Trouble(env, host, Demands[i]) # "none"}

\* podman comes before docker.
ParseRuntime(env, host) ==
  IF env["NCAP_RUNTIME"] # <<"auto">> THEN env["NCAP_RUNTIME"]
  ELSE IF "podman" \in host.runtimes THEN <<"podman">> ELSE <<"docker">>

Config(env, host) == [env EXCEPT !["NCAP_RUNTIME"] = ParseRuntime(env, host)]

\* The first trouble is named.
Blames(env, host, var, kind) ==
  \E i \in Troubles(env, host) :
    /\ \A j \in Troubles(env, host) : i <= j
    /\ var = Demands[i] /\ kind = Trouble(env, host, var)
=============================================================================
