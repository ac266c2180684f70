----------------------------- MODULE MCSession -----------------------------
(* Instances of Session for TLC, and the merge of the request's environment *)
(* against its reference on small inputs.                                   *)
EXTENDS SessionProps, SequencesExt

M == INSTANCE Merge

\* One name is set on the host, one is not.
Host2 == [name \in {"A"} |-> "0"]
Names2 == {"A", "B"}
Flags2 ==
  {M!Bare(n) : n \in Names2 \cup {M!NoKey}}
    \cup {M!Explicit("A", "1"), M!Explicit("A", "2"), M!Explicit("B", "1")}

\* Whatever is forwarded and given by flags: the last of each key counts
\* (build_env, apply_entry; spec/env.md, Merge rules).
ASSUME MergeIsLaterWins ==
  \A forward \in BoundedSeq(Names2, 2), cli \in BoundedSeq(Flags2, 3) :
    \/ M!IsRejected(cli)
    \/ M!IsLaterWins(M!BuildEnv(Host2, forward, cli), M!Given(Host2, forward, cli))
=============================================================================
