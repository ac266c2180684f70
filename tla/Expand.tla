------------------------------- MODULE Expand -------------------------------
(***************************************************************************)
(* The expansion of variables in a run option (src/ctl/mod.rs, expand_with *)
(* and its helpers), before a container is launched.                       *)
(*                                                                         *)
(* A string is a sequence of characters, of which there are the three that *)
(* mean something, letters, digits and others; `host` is the environment   *)
(* of ncap-ctl, names that are set to values, both sequences.              *)
(***************************************************************************)
EXTENDS Naturals, Sequences, SequencesExt

Dollar == "$"
Open == "{"
Close == "}"

CONSTANTS
  Letters,  \* what a name may begin with, the underscore included
  Digits    \* what else may be in it

\* is_env_name.
IsName(s) ==
  /\ s # <<>> /\ s[1] \in Letters
  /\ \A i \in 1 .. Len(s) : s[i] \in Letters \cup Digits

\* Where the run of characters of S ends, from position i on.
EndOf(s, i, S) ==
  CHOOSE n \in i - 1 .. Len(s) :
    /\ \A k \in i .. n : s[k] \in S
    /\ n < Len(s) => s[n + 1] \notin S

\* One step of the loop at position i: what it puts out, where it goes on, and
\* whether it fails over a name that is not set.
Emit(text, next) == [text |-> text, next |-> next, fails |-> FALSE]
LookUp(host, name, next) ==
  IF name \in DOMAIN host THEN Emit(host[name], next)
  ELSE [text |-> <<>>, next |-> next, fails |-> TRUE]

\* expand_braced: the body runs to the first closing brace, whatever is in it.
ExpandBraced(host, s, i) ==
  LET last == EndOf(s, i + 2, ToSet(s) \ {Close})
      body == SubSeq(s, i + 2, last)
  IN  IF last = Len(s) THEN Emit(SubSeq(s, i, last), last + 1)
      ELSE IF IsName(body) THEN LookUp(host, body, last + 2)
      ELSE Emit(SubSeq(s, i, last + 1), last + 2)

\* expand_unbraced.
ExpandUnbraced(host, s, i) ==
  LET last == EndOf(s, i + 1, Letters \cup Digits)
  IN  LookUp(host, SubSeq(s, i + 1, last), last + 1)

StepAt(host, s, i) ==
  LET follower == IF i < Len(s) THEN s[i + 1] ELSE Dollar
  IN  IF s[i] # Dollar THEN Emit(<<s[i]>>, i + 1)
      ELSE IF follower = Open THEN ExpandBraced(host, s, i)
      ELSE IF follower \in Letters THEN ExpandUnbraced(host, s, i)
      ELSE Emit(<<Dollar>>, i + 1)

\* expand_with: from position i to the end.
Expansion(host, s) ==
  LET from[i \in 1 .. Len(s) + 2] ==
        IF i > Len(s) THEN Emit(<<>>, i)
        ELSE LET step == StepAt(host, s, i)
                 rest == from[step.next]
             IN  IF step.fails THEN step
                 ELSE [rest EXCEPT !.text = step.text \o @]
  IN  from[1]

-----------------------------------------------------------------------------

\* What spec/runtime.md (Mounts) asks for: $NAME and ${NAME} are references,
\* but not in the body of a ${...} that is none or that is never closed; every
\* other character is itself.
IsReference(s, i, j) ==
  /\ i < j /\ j <= Len(s) /\ s[i] = Dollar
  /\ \/ /\ IsName(SubSeq(s, i + 1, j))
        /\ j < Len(s) => s[j + 1] \notin Letters \cup Digits
     \/ s[i + 1] = Open /\ s[j] = Close /\ IsName(SubSeq(s, i + 2, j - 1))

NameIn(s, i, j) ==
  IF s[i + 1] = Open THEN SubSeq(s, i + 2, j - 1) ELSE SubSeq(s, i + 1, j)

IsInBody(s, i) ==
  \E k \in 1 .. i - 1 :
    s[k] = Dollar /\ s[k + 1] = Open /\ k + 1 < i /\ \A n \in k .. i : s[n] # Close

References(s) ==
  {r \in (1 .. Len(s)) \X (1 .. Len(s)) :
     IsReference(s, r[1], r[2]) /\ ~IsInBody(s, r[1])}

\* Each position is replaced: the first of a reference by its value, the
\* others of it by nothing.
Specified(host, s) ==
  FlattenSeq([i \in 1 .. Len(s) |->
    IF \E r \in References(s) : r[1] = i
    THEN LET r == CHOOSE r \in References(s) : r[1] = i
         IN  host[NameIn(s, r[1], r[2])]
    ELSE IF \E r \in References(s) : r[1] < i /\ i <= r[2] THEN <<>>
    ELSE <<s[i]>>])

SpecifiedFails(host, s) ==
  \E r \in References(s) : NameIn(s, r[1], r[2]) \notin DOMAIN host

\* The expansion is the one that is specified.
ExpandsAsSpecified(host, s) ==
  LET result == Expansion(host, s)
  IN  IF SpecifiedFails(host, s) THEN result.fails
      ELSE ~result.fails /\ result.text = Specified(host, s)
=============================================================================
