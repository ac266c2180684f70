------------------------------- MODULE Merge -------------------------------
(***************************************************************************)
(* The environment ncap puts into its request (src/client/mod.rs,          *)
(* build_env): the forwarded names, then the --env flags, a later entry    *)
(* taking the place of an earlier one with its key.                        *)
(*                                                                         *)
(* A flag is KEY=VALUE or a bare KEY; `host` is the environment of ncap, a *)
(* function whose domain are the names that are set.                       *)
(***************************************************************************)
EXTENDS Naturals, Sequences, SequencesExt

NoKey == ""

Entry(k, v) == [key |-> k, value |-> v]
Explicit(k, v) == [key |-> k, bare |-> FALSE, value |-> v]
Bare(k) == [key |-> k, bare |-> TRUE, value |-> k]

\* apply_entry: in the place of the first entry with the key, or at the end.
ApplyEntry(entries, e) ==
  IF \E i \in DOMAIN entries : entries[i].key = e.key
  THEN [i \in DOMAIN entries |->
          IF entries[i].key = e.key /\ \A j \in 1 .. i - 1 : entries[j].key # e.key
          THEN e ELSE entries[i]]
  ELSE Append(entries, e)

\* What the forwarded names and the flags come to, names that are not set
\* being skipped (lookup, resolve_flag).
ResolveName(host, name) ==
  IF name \in DOMAIN host THEN <<Entry(name, host[name])>> ELSE <<>>
ResolveFlag(host, flag) ==
  IF flag.bare THEN ResolveName(host, flag.key) ELSE <<Entry(flag.key, flag.value)>>

Given(host, forward, cli) ==
  FlattenSeq([i \in DOMAIN forward |-> ResolveName(host, forward[i])])
    \o FlattenSeq([i \in DOMAIN cli |-> ResolveFlag(host, cli[i])])

IsRejected(cli) == \E i \in DOMAIN cli : cli[i].key = NoKey

BuildEnv(host, forward, cli) ==
  FoldLeft(ApplyEntry, <<>>, Given(host, forward, cli))

-----------------------------------------------------------------------------

\* What is asked of the merge: of every key that was given the value given
\* last, keys once each and in the order in which they were given first.
IsLaterWins(env, given) ==
  /\ {env[i].key : i \in DOMAIN env} = {given[i].key : i \in DOMAIN given}
  /\ \A i, j \in DOMAIN env : i # j => env[i].key # env[j].key
  /\ \A i \in DOMAIN env :
       \E n \in DOMAIN given :
         given[n] = env[i] /\ \A m \in n + 1 .. Len(given) : given[m].key # env[i].key
  /\ \A i, j \in DOMAIN env :
       i < j => \E n \in DOMAIN given :
                  /\ given[n].key = env[i].key
                  /\ \A m \in 1 .. n : given[m].key # env[j].key
=============================================================================
