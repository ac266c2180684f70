-------------------------------- MODULE MCCtl --------------------------------
(* Instances of Ctl for TLC; and what its steps are given, the expansion of *)
(* options, the digest and the mounts, against references on small inputs.  *)
EXTENDS CtlProps, TLC, SequencesExt

X == INSTANCE Expand WITH Letters <- {"A"}, Digits <- {"1"}

\* A value that would mean something if it were expanded again, and one that
\* is empty; the other names are not set.
Environment == (<<"A">> :> <<"-", "$">>) @@ (<<"A", "1">> :> <<>>)

\* All strings of up to five characters expand, or fail, as spec/runtime.md
\* says (expand_with).
ASSUME ExpansionIsSpecified ==
  \A s \in BoundedSeq({"$", "{", "}", "A", "1", "-"}, 5) :
    X!ExpandsAsSpecified(Environment, s)

D == INSTANCE Digest WITH Nul <- 0, One <- 1, Zero <- 2, Absent <- <<0>>
Paths == {<<3>>, <<3, 1>>, <<4>>}

\* The digest tells all files apart that hold no NUL, as this model has it
\* (digest::compute; spec/paths.md, Freshness and the digest).
ASSUME DigestTellsApart == D!IsInjectiveOn(BoundedSeq({1, 3}, 2), Paths)

\* But with NULs a record in one file can stand for that of the next.
ASSUME NulsHideRecords ==
  ~D!IsInjectiveOn({<<3>>, <<3, 4, 0, 1, 0, 3>>}, {<<3>>, <<4>>})

L == INSTANCE Launch

Projects ==
  [root : {<<"p">>, <<"c", "p">>},
   socket : {<<"s", "k">>, <<"p", "k">>, <<"c", "k">>, <<"c", "s", "k">>, <<"p", "d", "k">>},
   cacheDir : {<<"c">>, <<"p", "d">>, <<"c", "p">>},
   logDir : {<<"l">>, <<"c", "l">>, <<"p", "l">>, <<"c">>},
   watched : BoundedSeq({<<"f">>, <<"d", "f">>, <<".git", "f">>}, 2),
   harden : BOOLEAN]

\* Wherever the directories of a project are, one in another or not, the
\* container is confined to them unless two are the same (build_runtime_args).
ASSUME ContainerIsConfined ==
  \A cfg \in Projects, git \in {"dir", "file", "symlink", "absent"},
     existing \in SUBSET {<<"f">>, <<"d", "f">>, <<".git", "f">>} :
    L!IsConfined(cfg, [git |-> git, existing |-> existing])

\* A hardened project that names a watched file twice mounts it twice.
ASSUME WatchedTwiceIsMountedTwice ==
  \A cfg \in Projects :
    cfg.harden /\ cfg.watched = <<<<"f">>, <<"f">>>> =>
      L!Clash(L!Mounts(cfg, [git |-> "dir", existing |-> {<<"f">>}]))

\* Processes, roots and contents are interchangeable.
CtlSymmetry ==
  Permutations(Ctls) \cup Permutations(Roots) \cup Permutations(Contents)
=============================================================================
