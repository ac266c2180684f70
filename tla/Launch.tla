-------------------------------- MODULE Launch --------------------------------
(***************************************************************************)
(* What a container is launched with: its mounts (build_runtime_args), the *)
(* arguments of the runtime and the command (run_detached), and what the   *)
(* mounts let the container write.  A path is a sequence of names.         *)
(***************************************************************************)
EXTENDS Naturals, Sequences, FiniteSets, SequencesExt

Mount(path, mode) == [path |-> path, mode |-> mode]

Parent(path) == Front(path)

\* A .git that is a file or a link is not mounted; nor is a watched file that
\* does not exist.
Mounts(cfg, disk) ==
  LET git == Append(cfg.root, ".git")
      entries == SelectSeq(cfg.watched, LAMBDA entry : entry \in disk.existing)
  IN  <<Mount(<<"nix">>, "ro"), Mount(Parent(cfg.socket), "rw"), Mount(cfg.root, "rw"),
        Mount(cfg.cacheDir, "ro"), Mount(cfg.logDir, "rw")>>
      \o (IF disk.git = "dir" THEN <<Mount(git, "ro")>> ELSE <<>>)
      \o (IF cfg.harden
            THEN [i \in DOMAIN entries |-> Mount(cfg.root \o entries[i], "ro")] ELSE <<>>)

Restrictions(cfg) ==
  IF cfg.harden THEN <<"--cap-drop=all", "--security-opt=no-new-privileges">> ELSE <<>>

\* Restrictions come first and the options of the user last; the command is one
\* word of bash, of quoted words.
RunDetached(cfg, disk) ==
  [name |-> cfg.container,
   options |-> Restrictions(cfg) \o Mounts(cfg, disk) \o cfg.runOpts,
   workdir |-> cfg.root,
   image |-> cfg.image,
   sources |-> Append(cfg.cacheDir, "env"),
   runs |-> [server |-> cfg.server, socket |-> cfg.socket, logDir |-> cfg.logDir,
             timeout |-> cfg.timeout, logLevel |-> cfg.logLevel]]

-----------------------------------------------------------------------------
(* The runtime: of nested mounts the innermost counts; what it makes of two *)
(* at one place is its own affair.                                          *)

Clash(mounts) ==
  \E i, j \in DOMAIN mounts : i # j /\ mounts[i].path = mounts[j].path

Access(mounts, path) ==
  LET over == {i \in DOMAIN mounts : IsPrefix(mounts[i].path, path)}
  IN  IF over = {} THEN "none"
      ELSE mounts[CHOOSE i \in over :
                    \A j \in over : Len(mounts[j].path) <= Len(mounts[i].path)].mode

-----------------------------------------------------------------------------
CacheFiles == {"env", "hash", "profile", "project"}

\* What a project may count on if no two of its directories are the same: its
\* history is safe, and with harden its watched files are; the container cannot
\* change what the host will source; and the server can bind and log
\* (spec/runtime.md, Mounts and Harden).
IsConfined(cfg, disk) ==
  LET mounts == Mounts(cfg, disk)
  IN  \/ Clash(mounts)
      \/ /\ cfg.harden =>
              \A i \in DOMAIN cfg.watched :
                cfg.watched[i] \in disk.existing => Access(mounts, cfg.root \o cfg.watched[i]) = "ro"
         /\ disk.git = "dir" => Access(mounts, Append(cfg.root, ".git")) = "ro"
         /\ \A file \in CacheFiles : Access(mounts, Append(cfg.cacheDir, file)) = "ro"
         /\ Access(mounts, cfg.socket) = "rw" /\ Access(mounts, cfg.logDir) = "rw"
=============================================================================
