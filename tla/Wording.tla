------------------------------- MODULE Wording -------------------------------
(***************************************************************************)
(* The texts that ncap-ctl makes of others and reads back: project names,  *)
(* quoted words, and the names of log files and of profile generations.    *)
(* A text is a sequence of characters, of which some stand for words.      *)
(***************************************************************************)
EXTENDS Naturals, Sequences, FiniteSets, SequencesExt

CONSTANT Letters  \* the alphanumeric characters

-----------------------------------------------------------------------------
(* Project names.                                                          *)

\* The root is as git or pwd prints it.
Basename(root) ==
  LET slashes == {i \in DOMAIN root : root[i] = "/"}
  IN  SubSeq(root, Max(slashes \cup {0}) + 1, Len(root))

\* A run of separators becomes a dash if a letter is before and after it.
Sanitize(basename) ==
  LET Scan(state, c) ==
        IF c \in Letters
          THEN [name |-> state.name
                           \o (IF state.run /\ state.name # <<>> THEN <<"-">> ELSE <<>>)
                           \o <<c>>,
                run |-> FALSE]
          ELSE [state EXCEPT !.run = TRUE]
  IN  FoldLeft(Scan, [name |-> <<>>, run |-> FALSE], basename).name

\* The reference: the letters stay in order, those that touched still touch, and
\* one dash is between the others (spec/paths.md, Project name).
LettersOf(text) == SelectSeq(text, LAMBDA c : c \in Letters)
At(text) == {i \in DOMAIN text : text[i] \in Letters}
Touching(text) ==
  {Cardinality({j \in At(text) : j <= i}) : i \in {k \in At(text) : k + 1 \in At(text)}}

IsProjectNameOf(name, basename) ==
  LET letters == Cardinality(At(basename))
      touches == Cardinality(Touching(basename))
  IN  /\ LettersOf(name) = LettersOf(basename)
      /\ Touching(name) = Touching(basename)
      /\ \A i \in DOMAIN name : name[i] \in Letters \cup {"-"}
      /\ Len(name) = letters + (IF letters = 0 THEN 0 ELSE letters - 1 - touches)

-----------------------------------------------------------------------------
(* Words for bash.                                                         *)

\* A quote closes the word, stands for itself behind a backslash, and opens the
\* word again.
ShellEscape(value) ==
  FlattenSeq([i \in DOMAIN value |->
                IF value[i] = "'" THEN <<"'", "\\", "'", "'">> ELSE <<value[i]>>])

Quoted(value) == <<"'">> \o ShellEscape(value) \o <<"'">>

\* What bash reads: in quotes every character but a quote stands for itself, out
\* of quotes one behind a backslash does, and any other would end the word.
BashReads(text) ==
  LET Scan(state, c) ==
        CASE state.in /\ c = "'" -> [state EXCEPT !.in = FALSE]
          [] state.in /\ c # "'" -> [state EXCEPT !.word = Append(@, c)]
          [] ~state.in /\ state.behind ->
               [state EXCEPT !.word = Append(@, c), !.behind = FALSE]
          [] ~state.in /\ ~state.behind ->
               [state EXCEPT !.in = (c = "'"), !.behind = (c = "\\"),
                             !.ok = @ /\ c \in {"'", "\\"}]
  IN  FoldLeft(Scan, [word |-> <<>>, in |-> FALSE, behind |-> FALSE, ok |-> TRUE], text)

ReadsAs(text, word) ==
  LET read == BashReads(text)
  IN  read.ok /\ ~read.in /\ ~read.behind /\ read.word = word

-----------------------------------------------------------------------------
(* Names of files.                                                         *)

Digits == <<"0", "1", "2", "3", "4", "5", "6", "7", "8", "9">>
AreDigits(text) == text # <<>> /\ \A i \in DOMAIN text : text[i] \in Range(Digits)
ValueOf(text) ==
  FoldLeft(LAMBDA n, c : 10 * n + (CHOOSE i \in 1..10 : Digits[i] = c) - 1, 0, text)

\* The middle of a name between a prefix and a suffix, if it has both.
Middle(name, prefix, suffix) ==
  IF Len(name) >= 2 /\ Head(name) = prefix /\ Last(name) = suffix
    THEN SubSeq(name, 2, Len(name) - 1) ELSE <<>>

\* Digits only, and no more than fit in a u64.
ParseServerLogEpoch(name, max) ==
  LET epoch == Middle(name, "ncap-server-", ".log")
  IN  IF AreDigits(epoch) /\ ValueOf(epoch) <= max THEN {ValueOf(epoch)} ELSE {}

Decimal[n \in Nat] ==
  IF n < 10 THEN <<Digits[n + 1]>> ELSE Append(Decimal[n \div 10], Digits[(n % 10) + 1])

ServerLogPath(epoch) == <<"ncap-server-">> \o Decimal[epoch] \o <<".log">>

IsGenerationLink(name) == AreDigits(Middle(name, "profile-", "-link"))
=============================================================================
