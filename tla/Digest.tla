-------------------------------- MODULE Digest --------------------------------
(***************************************************************************)
(* The bytes that the freshness digest is computed of (digest::compute):   *)
(* one record per watched file, in the order of their paths.  The hash     *)
(* over them is taken to tell any two streams of bytes apart.              *)
(***************************************************************************)
EXTENDS Naturals, Sequences, SequencesExt

CONSTANTS
  Nul,     \* the bytes that separate fields, and those of the flag
  Zero,
  One,
  Absent   \* of a file that is not there

\* The order of paths, as texts of bytes.
Before(a, b) ==
  \E n \in 0..Len(a) :
    /\ n <= Len(b) /\ SubSeq(a, 1, n) = SubSeq(b, 1, n)
    /\ n = Len(a) \/ (n < Len(b) /\ a[n + 1] < b[n + 1])

Record(path, contents) ==
  path \o <<Nul, IF contents = Absent THEN Zero ELSE One, Nul>>
    \o (IF contents = Absent THEN <<>> ELSE contents)

\* Of the watched files as they are: a function on their paths.
Compute(files) ==
  LET sorted == SetToSortSeq(DOMAIN files, Before)
  IN  FlattenSeq([i \in DOMAIN sorted |-> Record(sorted[i], files[sorted[i]])])

IsInjectiveOn(contents, paths) ==
  \A f, g \in [paths -> contents \cup {Absent}] : Compute(f) = Compute(g) => f = g
=============================================================================
