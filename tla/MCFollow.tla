------------------------------ MODULE MCFollow ------------------------------
(* Instances of Follow for TLC; and what it is given beforehand, the        *)
(* environment, names and dates, against references on small inputs.        *)
EXTENDS FollowProps, Setup, TLC

W == INSTANCE Wording WITH Letters <- {"a", "b"}
C == INSTANCE Calendar

\* The project names that roots have, or have not.
MCRoots == {<<"/", "a">>, <<"/", "a", "/", "a", ".", "b">>, <<"/", ".">>}
MCName(root) == W!Sanitize(W!Basename(root))
MCChars == Words \cup {"a", "b", ".", "-"}
MCJunk == {<<".">>}

\* Names: as spec/paths.md says, and a name is its own name (sanitize).
ASSUME NamesAreSanitized ==
  \A basename \in W!BoundedSeq({"a", "b", "-", "."}, 6) :
    /\ W!IsProjectNameOf(W!Sanitize(basename), basename)
    /\ W!Sanitize(W!Sanitize(basename)) = W!Sanitize(basename)

\* Any value in quotes is one word of bash, itself (shell_escape; spec/ctl.md).
ASSUME QuotedIsOneWord ==
  \A value \in W!BoundedSeq({"'", "\\", " ", "a"}, 6) : W!ReadsAs(W!Quoted(value), value)

\* The epoch in the name of a log file is read back, one that does not fit or is
\* no number is not a log file (server_log_path, parse_server_log_epoch).
ASSUME EpochsAreReadBack ==
  /\ \A epoch \in 0..1100 :
       W!ParseServerLogEpoch(W!ServerLogPath(epoch), 1000)
         = IF epoch <= 1000 THEN {epoch} ELSE {}
  /\ \A name \in W!BoundedSeq({"ncap-server-", ".log", "0", "7", "+"}, 5) :
       W!ParseServerLogEpoch(name, 1000) # {} =>
         \E zeros \in 0..3 :
           name = <<"ncap-server-">> \o [i \in 1..zeros |-> "0"]
                    \o Tail(W!ServerLogPath(CHOOSE n \in W!ParseServerLogEpoch(name, 1000) : TRUE))

\* A clean takes the generations of the profile and nothing else that is named
\* like one (remove_profile_generation_links).
ASSUME GenerationsAreTold ==
  \A name \in W!BoundedSeq({"profile-", "-link", "0", "7"}, 4) :
    W!IsGenerationLink(name) <=>
      \E numbers \in W!BoundedSeq({"0", "7"}, 2) \ {<<>>} :
        name = <<"profile-">> \o numbers \o <<"-link">>

\* Dates: the epoch is 1970-01-01, and each day of an era is followed by the
\* next; and the second before a day is 23:59:59 (format_utc).
ASSUME DatesFollow ==
  /\ C!Civil(0) = [year |-> 1970, month |-> 1, day |-> 1]
  /\ \A day \in 0..C!DaysPerEra : C!Civil(day + 1) = C!Tomorrow(C!Civil(day))
  /\ \A day \in 1..1000 :
       C!Time(86400 * day - 1)
         = [date |-> C!Civil(day - 1), hour |-> 23, minute |-> 59, second |-> 59]

-----------------------------------------------------------------------------
(* Environments: what a user may set, everything else being in order.      *)

InOrder ==
  [var \in Vars |->
     CASE var = "NCAP_RUNTIME" -> <<"auto">>
       [] var = "NCAP_HARDEN" -> <<"true">>
       [] var = "NCAP_LOG_LEVEL" -> <<"warning">>
       [] var = "NCAP_PROJECT_ROOT" -> <<"/", "a">>
       [] var \in Derived \cup Ambient -> Unset
       [] OTHER -> <<"a">>]

Varied(those, texts) ==
  {[var \in Vars |-> IF var \in those THEN values[var] ELSE InOrder[var]] :
     values \in [those -> texts]}

MCEnvironments ==
  {[env EXCEPT !["NCAP_PROJECT_ROOT"] = root] :
     root \in MCRoots \cup {Unset, <<>>},
     env \in Varied(Derived, {Unset, <<"b">>})
               \cup Varied(Ambient, {Unset, <<>>, <<"b">>, <<"/", "b">>})}

\* A sourced environment lacks nothing that is derived, sourcing it again
\* changes nothing, and what is explicit stays (setup_env, resolve).
ASSUME SetupIsSound ==
  \A env \in MCEnvironments :
    /\ Source(Source(env)) = Source(env)
    /\ \A var \in Derived : Has(env, var) => Source(env)[var] = env[var]
    /\ SetsUp(env) =>
         Troubles(Source(env), [watched |-> <<>>, runtimes |-> {"docker"}]) = {}

\* The runtime of a command that goes ahead is the one that is named, or one of
\* those in PATH, podman first; what is watched is inside the root (resolve).
Entry(relative, climbs, is) == [relative |-> relative, climbs |-> climbs, is |-> is]
Hosts ==
  [watched : {<<>>, <<Entry(TRUE, FALSE, "absent"), Entry(TRUE, FALSE, "file")>>,
              <<Entry(TRUE, FALSE, "file"), Entry(TRUE, FALSE, "dir")>>,
              <<Entry(TRUE, TRUE, "file")>>, <<Entry(FALSE, FALSE, "file")>>},
   runtimes : SUBSET {"podman", "docker"}]

ASSUME RuntimeIsResolved ==
  \A host \in Hosts :
    \A env \in Varied({"NCAP_RUNTIME"}, {Unset, <<>>, <<"a">>, <<"auto">>, <<"podman">>, <<"docker">>}) :
      LET sourced == Source(env)
          runtime == Config(sourced, host)["NCAP_RUNTIME"]
      IN  Troubles(sourced, host) = {} =>
            /\ runtime = sourced["NCAP_RUNTIME"] \/ Head(runtime) \in host.runtimes
            /\ runtime = <<"docker">> /\ sourced["NCAP_RUNTIME"] = <<"auto">>
                 => "podman" \notin host.runtimes
            /\ \A i \in DOMAIN host.watched : IsWatchable(host.watched[i])

\* Without setup-env a command ends at the project, the first derived variable.
ASSUME UnsetIsNamed ==
  \A host \in Hosts, lost \in SUBSET Derived :
    LET env == [Source(InOrder) EXCEPT !["NCAP_RUNTIME"] = <<"podman">>]
        cut == [var \in Vars |-> IF var \in lost THEN <<>> ELSE env[var]]
    IN  host.watched = <<>> /\ "NCAP_PROJECT" \in lost =>
          Blames(cut, host, "NCAP_PROJECT", "missing")

\* Two checkouts whose flake names their container, and nothing else, share it
\* without sharing the cache whose stamp would tell (setup_env, stamp::guard).
ASSUME NamedContainersAreUnguarded ==
  LET flake == [InOrder EXCEPT !["NCAP_CONTAINER"] = <<"b">>]
      one == Enter([InOrder EXCEPT !["HOME"] = <<"/", "b">>], flake, <<"/", "a">>)
      other == Enter(one, flake, <<"/", "a", "/", "a", ".", "b">>)
  IN  /\ SetsUp(one) /\ SetsUp(other)
      /\ one["NCAP_CONTAINER"] = other["NCAP_CONTAINER"]
      /\ one["NCAP_CACHE_DIR"] # other["NCAP_CACHE_DIR"]
      /\ one["NCAP_SOCKET"] # other["NCAP_SOCKET"]
=============================================================================
