----------------------------- MODULE CtlProofs -----------------------------
(* What is proved of ncap-ctl for every value of the constants. *)
EXTENDS CtlProps, TLAPS

(***************************************************************************)
(* Type correctness.  The three parts of a state change in few ways, one   *)
(* lemma each, so an action needs only to be split into its parts.         *)
(***************************************************************************)
ProcessTypeOK ==
  /\ at \in [Ctls -> Places]
  /\ cmd \in [Ctls -> Cmds \cup {"init", "none"}]
  /\ home \in [Ctls -> Roots]
  /\ live \in [Ctls -> BOOLEAN]
  /\ draft \in [Ctls -> Contents \cup {None}]
  /\ \A p \in Ctls : at[p] \in Refreshing => draft[p] \in Contents
  /\ since \in [Ctls -> Nat]
  /\ aim \in [Ctls -> Nat]

PastTypeOK ==
  /\ disturbed \subseteq Ctls
  /\ mishaps \subseteq {"overlap", "roots", "cut", "slip", "blind", "orphan", "other"}
  /\ given \in Nat
  /\ edits \in Nat
  /\ faults \in Nat

LEMMA TypeParts ==
  /\ CtlTypeOK <=> ContainerTypeOK /\ ProcessTypeOK /\ PastTypeOK
  /\ CtlTypeOK' <=> ContainerTypeOK' /\ ProcessTypeOK' /\ PastTypeOK'
BY DEF CtlTypeOK, ProcessTypeOK, PastTypeOK

LEMMA ContainerKept ==
  ASSUME ContainerTypeOK, UNCHANGED worldVars
  PROVE  ContainerTypeOK'
BY DEF ContainerTypeOK, worldVars, cacheVars, boxVars, serverVars

LEMMA GoesTypes ==
  ASSUME ProcessTypeOK, NEW p \in Ctls, NEW place \in Places, Goes(p, place),
         place \in Refreshing => at[p] \in Refreshing
  PROVE  ProcessTypeOK'
BY DEF ProcessTypeOK, Goes, localVars

LEMMA EndsTypes ==
  ASSUME ProcessTypeOK, NEW p \in Ctls, NEW how \in Ended, Ends(p, how)
  PROVE  ProcessTypeOK'
BY DEF ProcessTypeOK, Ends, Ended, Places, Refreshing

LEMMA SucceedsTypes ==
  ASSUME ProcessTypeOK, NEW p \in Ctls, Succeeds(p) \/ GivesUp(p)
  PROVE  ProcessTypeOK'
BY EndsTypes DEF Succeeds, GivesUp, Ended

LEMMA QuietTypes == PastTypeOK /\ Quiet => PastTypeOK'
BY DEF PastTypeOK, Quiet, pastVars

LEMMA FaultTypes ==
  ASSUME PastTypeOK,
         NEW kinds \in SUBSET {"overlap", "roots", "cut", "slip", "blind", "orphan", "other"},
         Fault(kinds)
  PROVE  PastTypeOK'
BY CtlAssumption DEF PastTypeOK, Fault

LEMMA SeesTypes ==
  ASSUME PastTypeOK, NEW answer, Sees(answer)
  PROVE  PastTypeOK'
BY QuietTypes, FaultTypes DEF Sees

LEMMA MarksTypes ==
  ASSUME PastTypeOK,
         NEW kinds \in SUBSET {"overlap", "roots", "cut", "slip", "blind", "orphan", "other"},
         Marks(kinds)
  PROVE  PastTypeOK'
BY DEF PastTypeOK, Marks

LEMMA LateTypes == PastTypeOK /\ Late => PastTypeOK'
BY MarksTypes DEF Late

LEMMA MissesTypes ==
  ASSUME ProcessTypeOK, PastTypeOK, NEW p \in Ctls, Misses(p)
  PROVE  ProcessTypeOK' /\ PastTypeOK'
BY GoesTypes, SucceedsTypes, QuietTypes, LateTypes DEF Misses, Places, Refreshing

LEMMA AfterStopTypes ==
  ASSUME ProcessTypeOK, NEW p \in Ctls, NEW worked, AfterStop(p, worked)
  PROVE  ProcessTypeOK'
<1>1. CASE Succeeds(p)
  BY <1>1, SucceedsTypes
<1>2. CASE \E place \in {"reprobe", "launch", "cleanRemove"} : Goes(p, place)
  BY <1>2, GoesTypes DEF Places, Refreshing
<1>3. CASE /\ at' = [at EXCEPT ![p] = "guard"]
           /\ cmd' = [cmd EXCEPT ![p] = "init"]
           /\ UNCHANGED <<home, live, draft, since, aim>>
  BY <1>3 DEF ProcessTypeOK, Places, Refreshing
<1> QED BY <1>1, <1>2, <1>3 DEF AfterStop

\* Every place an action names is a place.
LEMMA PlaceNames ==
  {"guard", "claim", "probe", "connect", "check", "ensure", "eval", "truncate",
   "write", "digest", "store", "stop", "stopping", "stopProbe", "reprobe",
   "launch", "inspect", "exists", "remove", "run", "boot", "reinspect",
   "removeDead", "rerun", "poll", "pollConnect", "cleanRemove", "dropEnv",
   "dropHash", "dropStamp", "dropSocket"} \subseteq Places
BY DEF Places, Refreshing

LEMMA BeginTypes ==
  ASSUME CtlTypeOK, NEW p \in Ctls, Begin(p)
  PROVE  CtlTypeOK'
<1>1. ContainerTypeOK'
  BY ContainerKept, TypeParts DEF Begin
<1>2. PICK c \in Cmds, r \in Roots :
        /\ cmd' = [cmd EXCEPT ![p] = c]
        /\ home' = [home EXCEPT ![p] = r]
        /\ at' = [at EXCEPT ![p] = FirstPlace[c]]
        /\ mishaps' = mishaps
             \cup (IF \E q \in Ctls : Active(q) THEN {"overlap"} ELSE {})
             \cup (IF \E q \in Ctls : Active(q) /\ home[q] # r THEN {"roots"} ELSE {})
  BY DEF Begin
<1>3. FirstPlace[c] \in Places \ Refreshing
  BY CtlAssumption, PlaceNames DEF FirstPlace, Refreshing
<1>4. ProcessTypeOK'
  <2>1. at' \in [Ctls -> Places] /\ cmd' \in [Ctls -> Cmds \cup {"init", "none"}]
          /\ home' \in [Ctls -> Roots]
    BY <1>2, <1>3 DEF CtlTypeOK
  <2>2. since' \in [Ctls -> Nat]
    BY DEF Begin, CtlTypeOK, ContainerTypeOK
  <2>3. \A q \in Ctls : at'[q] \in Refreshing => draft'[q] \in Contents
    BY <1>2, <1>3 DEF Begin, CtlTypeOK
  <2> QED BY <2>1, <2>2, <2>3 DEF Begin, ProcessTypeOK, CtlTypeOK
<1>5. PastTypeOK'
  <2>1. mishaps' \subseteq {"overlap", "roots", "cut", "slip", "blind", "orphan", "other"}
    BY <1>2 DEF CtlTypeOK
  <2> QED BY <2>1 DEF Begin, PastTypeOK, CtlTypeOK
<1> QED BY <1>1, <1>4, <1>5, TypeParts

\* The steps that leave the container and the files alone.
LEMMA LookingTypes ==
  ASSUME CtlTypeOK, NEW p \in Ctls,
         \/ ReadsStamp(p) \/ ProbesBox(p) \/ ProbesSocket(p) \/ Checks(p)
         \/ Ensures(p) \/ Evaluates(p) \/ Digests(p) \/ StopProbes(p)
         \/ StopReturns(p) \/ StopProbesAgain(p) \/ Launches(p) \/ Inspects(p)
         \/ TestsExistence(p) \/ Reinspects(p) \/ Polls(p) \/ PollsSocket(p)
         \/ StopErrs(p)
  PROVE  CtlTypeOK'
<1> USE TypeParts, PlaceNames DEF Refreshing
<1>1. CASE ReadsStamp(p)
  BY <1>1, ContainerKept, QuietTypes, GoesTypes, SucceedsTypes DEF ReadsStamp
<1>2. CASE ProbesBox(p)
  BY <1>2, ContainerKept, SeesTypes, GoesTypes DEF ProbesBox, NotLive
<1>3. CASE ProbesSocket(p)
  <2>1. CASE /\ at' = [at EXCEPT ![p] = "check"]
             /\ live' = [live EXCEPT ![p] = TRUE]
             /\ UNCHANGED <<cmd, home, draft, since, aim>>
    <3>1. ProcessTypeOK'
      BY <2>1 DEF ProcessTypeOK
    <3> QED BY <1>3, <3>1, ContainerKept, QuietTypes DEF ProbesSocket
  <2>2. CASE NotLive(p) \/ Succeeds(p)
    BY <1>3, <2>2, ContainerKept, QuietTypes, GoesTypes, SucceedsTypes
    DEF ProbesSocket, NotLive
  <2> QED BY <1>3, <2>1, <2>2 DEF ProbesSocket
<1>4. CASE Checks(p)
  BY <1>4, ContainerKept, QuietTypes, GoesTypes, SucceedsTypes DEF Checks
<1>5. CASE Ensures(p)
  BY <1>5, ContainerKept, QuietTypes, GoesTypes DEF Ensures, Ensured
<1>6. CASE Evaluates(p) \/ Digests(p)
  <2>1. PICK place \in {"truncate", "store"} : ReadsFiles(p, place)
    BY <1>6 DEF Evaluates, Digests
  <2>2. files[home[p]] \in Contents
    BY DEF ProcessTypeOK, ContainerTypeOK
  <2>3. ProcessTypeOK'
    BY <2>1, <2>2 DEF ReadsFiles, ProcessTypeOK
  <2> QED BY <1>6, <2>3, ContainerKept, QuietTypes DEF Evaluates, Digests
<1>7. CASE StopProbes(p)
  BY <1>7, ContainerKept, SeesTypes, GoesTypes, SucceedsTypes DEF StopProbes
<1>8. CASE StopReturns(p)
  BY <1>8, ContainerKept, QuietTypes, AfterStopTypes DEF StopReturns
<1>9. CASE StopProbesAgain(p)
  BY <1>9, ContainerKept, SeesTypes, SucceedsTypes DEF StopProbesAgain
<1>10. CASE Launches(p)
  BY <1>10, ContainerKept, QuietTypes, GoesTypes, SucceedsTypes DEF Launches
<1>11. CASE Inspects(p)
  BY <1>11, ContainerKept, SeesTypes, GoesTypes DEF Inspects
<1>12. CASE TestsExistence(p)
  BY <1>12, ContainerKept, QuietTypes, FaultTypes, GoesTypes DEF TestsExistence
<1>13. CASE Reinspects(p)
  BY <1>13, ContainerKept, SeesTypes, GoesTypes, SucceedsTypes DEF Reinspects
<1>14. CASE Polls(p)
  <2>1. ContainerTypeOK'
    BY <1>14, ContainerKept DEF Polls
  <2>2. CASE Goes(p, "pollConnect") /\ Quiet
    BY <2>1, <2>2, QuietTypes, GoesTypes
  <2>3. CASE (Goes(p, "poll") \/ GivesUp(p)) /\ Fault({"blind", "other"})
    BY <2>1, <2>3, FaultTypes, GoesTypes, SucceedsTypes
  <2>4. CASE Misses(p)
    BY <2>1, <2>4, MissesTypes
  <2> QED BY <1>14, <2>2, <2>3, <2>4 DEF Polls
<1>15. CASE PollsSocket(p)
  BY <1>15, ContainerKept, QuietTypes, SucceedsTypes, MissesTypes DEF PollsSocket
<1>16. CASE StopErrs(p)
  BY <1>16, ContainerKept, FaultTypes, AfterStopTypes DEF StopErrs
<1> QED BY <1>1, <1>2, <1>3, <1>4, <1>5, <1>6, <1>7, <1>8, <1>9, <1>10, <1>11,
           <1>12, <1>13, <1>14, <1>15, <1>16

\* The steps that change a file or the container.
LEMMA WritingTypes ==
  ASSUME CtlTypeOK, NEW p \in Ctls,
         \/ ClaimsStamp(p) \/ Truncates(p) \/ Writes(p) \/ Stores(p) \/ Stops(p)
         \/ Removes(p) \/ Runs(p) \/ Boots(p) \/ Drops(p) \/ Fails(p) \/ Killed(p)
  PROVE  CtlTypeOK'
<1> USE TypeParts, PlaceNames DEF Refreshing
<1> USE DEF cacheVars, serverVars, boxVars
<1>1. CASE ClaimsStamp(p)
  <2>1. ContainerTypeOK'
    BY <1>1 DEF ClaimsStamp, ContainerTypeOK, ProcessTypeOK
  <2> QED BY <1>1, <2>1, QuietTypes, GoesTypes DEF ClaimsStamp
<1>2. CASE Truncates(p)
  <2>1. ContainerTypeOK'
    BY <1>2 DEF Truncates, ContainerTypeOK
  <2> QED BY <1>2, <2>1, QuietTypes, GoesTypes DEF Truncates
<1>3. CASE Writes(p)
  <2>1. PICK place \in {"digest"} : Goes(p, place)
    BY <1>3 DEF Writes
  <2>2. dump' \in Dumps \cup {None, Torn}
    <3>1. at[p] = "write" /\ dump' = IF dump = None THEN None ELSE <<home[p], draft[p]>>
      BY <1>3 DEF Writes
    <3>2. home[p] \in Roots /\ draft[p] \in Contents
      BY <3>1 DEF ProcessTypeOK, Refreshing
    <3> QED BY <3>1, <3>2 DEF Dumps, ContainerTypeOK
  <2>3. ContainerTypeOK'
    BY <1>3, <2>2 DEF Writes, ContainerTypeOK
  <2> QED BY <1>3, <2>1, <2>3, QuietTypes, GoesTypes DEF Writes
<1>4. CASE Stores(p)
  <2>1. ContainerTypeOK'
    BY <1>4 DEF Stores, ContainerTypeOK, ProcessTypeOK
  <2> QED BY <1>4, <2>1, QuietTypes, GoesTypes DEF Stores, Ensured
<1>5. CASE Stops(p)
  <2>1. ContainerTypeOK'
    <3>1. termed' \in BOOLEAN
      BY <1>5 DEF Stops, ContainerTypeOK
    <3> QED BY <1>5, <3>1 DEF Stops, ContainerTypeOK
  <2>2. ProcessTypeOK'
    <3>1. CASE /\ at' = [at EXCEPT ![p] = "stopping"]
               /\ aim' = [aim EXCEPT ![p] = launches]
               /\ UNCHANGED <<cmd, home, live, draft, since>>
      BY <3>1 DEF ProcessTypeOK, ContainerTypeOK
    <3> QED BY <1>5, <3>1, AfterStopTypes DEF Stops
  <2> QED BY <1>5, <2>1, <2>2, QuietTypes DEF Stops
<1>6. CASE Removes(p)
  <2>1. at[p] \in {"remove", "removeDead", "cleanRemove"} /\ AfterRemove[at[p]] \in Places \ Refreshing
    BY <1>6 DEF Removes, AfterRemove
  <2>2. ContainerTypeOK'
    BY <1>6 DEF Removes, Removed, Running, ContainerTypeOK
  <2> QED BY <1>6, <2>1, <2>2, QuietTypes, FaultTypes, GoesTypes DEF Removes
<1>7. CASE Runs(p)
  <2>1. ContainerTypeOK'
    BY <1>7 DEF Runs, ContainerTypeOK
  <2> QED BY <1>7, <2>1, QuietTypes, GoesTypes, SucceedsTypes DEF Runs
<1>8. CASE Boots(p)
  <2>1. ContainerTypeOK'
    <3>1. CASE Started(p, home[p])
      <4>1. launches' \in Nat /\ mounted' \in Roots
        BY <3>1 DEF Started, ContainerTypeOK, ProcessTypeOK
      <4> QED BY <1>8, <3>1, <4>1 DEF Boots, Started, ContainerTypeOK
    <3>2. CASE UNCHANGED <<boxVars, serverVars, sock>>
      BY <1>8, <3>2 DEF Boots, ContainerTypeOK
    <3> QED BY <1>8, <3>1, <3>2 DEF Boots
  <2> QED BY <1>8, <2>1, QuietTypes, GoesTypes, SucceedsTypes DEF Boots
<1>9. CASE Drops(p)
  <2>1. ContainerTypeOK'
    BY <1>9 DEF Drops, ContainerTypeOK
  <2>2. PICK kinds \in {{"orphan"}, {}} : Marks(kinds)
    BY <1>9 DEF Drops
  <2>3. PastTypeOK'
    BY <2>2, MarksTypes
  <2>4. CASE at[p] = "dropSocket"
    BY <1>9, <2>1, <2>3, <2>4, SucceedsTypes DEF Drops
  <2>5. CASE at[p] # "dropSocket"
    <3>1. AfterDrop[at[p]] \in Places \ Refreshing
      BY <1>9, <2>5 DEF Drops, AfterDrop
    <3> QED BY <1>9, <2>1, <2>3, <2>5, <3>1, GoesTypes DEF Drops
  <2> QED BY <2>4, <2>5
<1>10. CASE Fails(p) \/ Killed(p)
  <2>1. ContainerTypeOK'
    BY <1>10 DEF Fails, Killed, BreaksOff, ContainerTypeOK
  <2>2. PICK kinds \in {{"cut", "other"}, {"other"}, {}} : Fault(kinds)
    BY <1>10 DEF Fails, Killed
  <2> QED BY <1>10, <2>1, <2>2, FaultTypes, SucceedsTypes DEF Fails, Killed
<1> QED BY <1>1, <1>2, <1>3, <1>4, <1>5, <1>6, <1>7, <1>8, <1>9, <1>10

LEMMA WorldTypes ==
  ASSUME CtlTypeOK, InitProcessStep \/ Crash \/ Edit
  PROVE  CtlTypeOK'
<1> USE TypeParts
<1> USE DEF cacheVars, serverVars, boxVars
<1>1. CASE InitProcessStep
  <2>1. ContainerTypeOK'
    BY <1>1 DEF InitProcessStep, InitProcess, Sources, ProbesFile, ClearsFile, Binds,
                Drains, Quits, Exits, ServerGoes, ContainerTypeOK
  <2>2. ProcessTypeOK'
    BY <1>1 DEF InitProcessStep, ProcessTypeOK, localVars
  <2> QED BY <1>1, <2>1, <2>2, QuietTypes DEF InitProcessStep
<1>2. CASE Crash
  <2>1. ContainerTypeOK'
    BY <1>2 DEF Crash, Dies, Exits, ContainerTypeOK
  <2>2. ProcessTypeOK'
    BY <1>2 DEF Crash, ProcessTypeOK, localVars
  <2> QED BY <1>2, <2>1, <2>2, QuietTypes, FaultTypes DEF Crash
<1>3. CASE Edit
  <2>1. ContainerTypeOK'
    BY <1>3 DEF Edit, ContainerTypeOK
  <2>2. ProcessTypeOK'
    BY <1>3 DEF Edit, ProcessTypeOK, localVars
  <2>3. PastTypeOK'
    <3>1. disturbed' \subseteq Ctls /\ mishaps' \subseteq mishaps \cup {"slip"}
      BY <1>3 DEF Edit, PastTypeOK
    <3> QED BY <1>3, <3>1, CtlAssumption DEF Edit, PastTypeOK
  <2> QED BY <2>1, <2>2, <2>3
<1> QED BY <1>1, <1>2, <1>3

LEMMA InitTypes == CtlInit => CtlTypeOK
<1> SUFFICES ASSUME CtlInit PROVE CtlTypeOK
  OBVIOUS
<1>1. ContainerTypeOK
  <2>1. CASE Unused
    BY <2>1 DEF CtlInit, ContainerInit, Unused, ContainerTypeOK
  <2>2. ASSUME NEW r \in Roots, InUse(r) PROVE ContainerTypeOK
    <3>1. files[r] \in Contents /\ <<r, files[r]>> \in Dumps
      BY DEF CtlInit, ContainerInit, Dumps
    <3> QED BY <2>2, <3>1 DEF CtlInit, ContainerInit, InUse, ContainerTypeOK
  <2> QED BY <2>1, <2>2 DEF CtlInit, ContainerInit
<1>2. ProcessTypeOK
  BY DEF CtlInit, ProcessTypeOK, Places, Ended, Refreshing
<1>3. PastTypeOK
  BY DEF CtlInit, PastTypeOK
<1> QED BY <1>1, <1>2, <1>3, TypeParts

LEMMA StepTypes == CtlTypeOK /\ [CtlNext]_ctlVars => CtlTypeOK'
<1> SUFFICES ASSUME CtlTypeOK, [CtlNext]_ctlVars PROVE CtlTypeOK'
  OBVIOUS
<1>1. CASE UNCHANGED ctlVars
  BY <1>1 DEF ctlVars, worldVars, cacheVars, boxVars, serverVars, localVars, pastVars,
              CtlTypeOK, ContainerTypeOK
<1>2. ASSUME NEW p \in Ctls, Begin(p) \/ Step(p) \/ StopErrs(p) \/ Fails(p) \/ Killed(p)
      PROVE  CtlTypeOK'
  BY <1>2, BeginTypes, LookingTypes, WritingTypes DEF Step
<1> QED BY <1>1, <1>2, WorldTypes DEF CtlNext

\* Every variable of ncap-ctl and of what it works on keeps its type, for any
\* processes, roots, contents and bounds (src/ctl/mod.rs).
THEOREM CtlTypeCorrect == CtlSpec => []CtlTypeOK
BY InitTypes, StepTypes, PTL DEF CtlSpec

(***************************************************************************)
(* What every step of a process has in common: it leaves the other         *)
(* processes alone, forgets no mishap, and goes to a place of its flow.    *)
(***************************************************************************)
Alone(p) ==
  /\ UNCHANGED home
  /\ \A q \in Ctls \ {p} :
       /\ at'[q] = at[q] /\ cmd'[q] = cmd[q] /\ live'[q] = live[q]
       /\ draft'[q] = draft[q] /\ since'[q] = since[q] /\ aim'[q] = aim[q]
  /\ since'[p] \in {0, since[p]}

Moves(p) ==
  /\ Active(p)
  /\ Alone(p)
  /\ Fits(at'[p], cmd'[p])
  /\ at'[p] = "stopping" => aim'[p] = launches
  /\ mishaps \subseteq mishaps'

LEMMA GoesMoves ==
  ASSUME ProcessTypeOK, NEW p \in Ctls, NEW place, Goes(p, place),
         Fits(place, cmd[p]), place # "stopping"
  PROVE  /\ Alone(p) /\ Fits(at'[p], cmd'[p])
         /\ at'[p] = place /\ draft'[p] = draft[p]
BY DEF ProcessTypeOK, Goes, localVars, Alone

LEMMA EndsMoves ==
  ASSUME ProcessTypeOK, NEW p \in Ctls, Succeeds(p) \/ GivesUp(p)
  PROVE  /\ Alone(p) /\ Fits(at'[p], cmd'[p]) /\ at'[p] \in Ended
<1>1. PICK how \in Ended : Ends(p, how)
  BY DEF Succeeds, GivesUp, Ended
<1>2. Alone(p) /\ at'[p] = how
  BY <1>1 DEF ProcessTypeOK, Ends, Alone
<1> QED BY <1>2 DEF Fits, Ended, StartPlaces, CleanPlaces, Refreshing

LEMMA MishapsGrow ==
  /\ Quiet => mishaps \subseteq mishaps'
  /\ Late => mishaps \subseteq mishaps'
  /\ \A kinds : Marks(kinds) => mishaps \subseteq mishaps'
  /\ \A kinds : Fault(kinds) => mishaps \subseteq mishaps'
  /\ \A answer : Sees(answer) => mishaps \subseteq mishaps'
BY DEF Quiet, pastVars, Late, Marks, Fault, Sees

LEMMA AfterStopMoves ==
  ASSUME ProcessTypeOK, NEW p \in Ctls, NEW worked, AfterStop(p, worked)
  PROVE  /\ Alone(p) /\ Fits(at'[p], cmd'[p])
         /\ at'[p] \in Ended \cup {"reprobe", "launch", "cleanRemove", "guard"}
<1> USE DEF Fits, StartPlaces, CleanPlaces, Refreshing
<1>1. CASE Succeeds(p)
  BY <1>1, EndsMoves
<1>2. CASE cmd[p] = "stop" /\ Goes(p, "reprobe")
  BY <1>2, GoesMoves
<1>3. CASE cmd[p] = "init" /\ Goes(p, "launch")
  BY <1>3, GoesMoves
<1>4. CASE cmd[p] = "clean" /\ Goes(p, "cleanRemove")
  BY <1>4, GoesMoves
<1>5. CASE /\ at' = [at EXCEPT ![p] = "guard"]
           /\ cmd' = [cmd EXCEPT ![p] = "init"]
           /\ UNCHANGED <<home, live, draft, since, aim>>
  BY <1>5 DEF ProcessTypeOK, Alone
<1> QED BY <1>1, <1>2, <1>3, <1>4, <1>5 DEF AfterStop

\* Steps that touch neither the files, nor the dump, nor the digest.
Aside(p) ==
  /\ UNCHANGED <<files, dump, hash>>
  /\ at[p] \notin Refreshing /\ at'[p] \notin Refreshing

LEMMA StartMoves ==
  ASSUME CtlTypeOK, PlacesFit, NEW p \in Ctls,
         \/ ReadsStamp(p) \/ ClaimsStamp(p) \/ ProbesBox(p) \/ ProbesSocket(p)
         \/ Checks(p) \/ Ensures(p) \/ Launches(p) \/ Inspects(p)
         \/ TestsExistence(p) \/ Runs(p) \/ Boots(p) \/ Reinspects(p)
         \/ Polls(p) \/ PollsSocket(p)
  PROVE  Moves(p) /\ Aside(p)
<1> USE TypeParts, MishapsGrow, GoesMoves, EndsMoves
    DEF PlacesFit, Fits, StartPlaces, CleanPlaces, Refreshing, Ended, Active, Moves, Aside,
        worldVars, cacheVars
<1>1. CASE ReadsStamp(p)
  BY <1>1 DEF ReadsStamp
<1>2. CASE ClaimsStamp(p)
  BY <1>2 DEF ClaimsStamp
<1>3. CASE ProbesBox(p)
  BY <1>3 DEF ProbesBox, NotLive
<1>4. CASE ProbesSocket(p)
  <2>1. CASE /\ at' = [at EXCEPT ![p] = "check"]
             /\ live' = [live EXCEPT ![p] = TRUE]
             /\ UNCHANGED <<cmd, home, draft, since, aim>>
    BY <1>4, <2>1 DEF ProbesSocket, Alone, ProcessTypeOK
  <2>2. CASE NotLive(p) \/ Succeeds(p)
    BY <1>4, <2>2 DEF ProbesSocket, NotLive
  <2> QED BY <1>4, <2>1, <2>2 DEF ProbesSocket
<1>5. CASE Checks(p)
  BY <1>5 DEF Checks
<1>6. CASE Ensures(p)
  BY <1>6 DEF Ensures, Ensured
<1>7. CASE Launches(p)
  BY <1>7 DEF Launches
<1>8. CASE Inspects(p)
  BY <1>8 DEF Inspects
<1>9. CASE TestsExistence(p)
  BY <1>9 DEF TestsExistence
<1>10. CASE Runs(p)
  BY <1>10 DEF Runs
<1>11. CASE Boots(p)
  BY <1>11 DEF Boots
<1>12. CASE Reinspects(p)
  BY <1>12 DEF Reinspects
<1>13. CASE Polls(p)
  BY <1>13 DEF Polls, Misses
<1>14. CASE PollsSocket(p)
  BY <1>14 DEF PollsSocket, Misses
<1> QED BY <1>1, <1>2, <1>3, <1>4, <1>5, <1>6, <1>7, <1>8, <1>9, <1>10, <1>11,
           <1>12, <1>13, <1>14

LEMMA StopMoves ==
  ASSUME CtlTypeOK, PlacesFit, NEW p \in Ctls,
         \/ StopProbes(p) \/ Stops(p) \/ StopReturns(p) \/ StopErrs(p)
         \/ StopProbesAgain(p) \/ Removes(p)
  PROVE  Moves(p) /\ Aside(p)
<1> USE TypeParts, MishapsGrow, GoesMoves, EndsMoves, AfterStopMoves
    DEF PlacesFit, Fits, StartPlaces, CleanPlaces, Refreshing, Ended, Active, Moves, Aside,
        worldVars, cacheVars
<1>1. CASE StopProbes(p)
  BY <1>1 DEF StopProbes
<1>2. CASE Stops(p)
  <2>1. CASE /\ at' = [at EXCEPT ![p] = "stopping"]
             /\ aim' = [aim EXCEPT ![p] = launches]
             /\ UNCHANGED <<cmd, home, live, draft, since>>
    BY <1>2, <2>1 DEF Stops, Alone, ProcessTypeOK
  <2> QED BY <1>2, <2>1 DEF Stops
<1>3. CASE StopReturns(p)
  BY <1>3 DEF StopReturns
<1>4. CASE StopErrs(p)
  BY <1>4 DEF StopErrs
<1>5. CASE StopProbesAgain(p)
  BY <1>5 DEF StopProbesAgain
<1>6. CASE Removes(p)
  <2>1. at[p] \in {"remove", "removeDead", "cleanRemove"}
    BY <1>6 DEF Removes, AfterRemove
  <2>2. PICK place \in {"run", "rerun", "dropEnv"} : Goes(p, place) /\ Fits(place, cmd[p])
    BY <1>6, <2>1 DEF Removes, AfterRemove
  <2>3. Alone(p) /\ Fits(at'[p], cmd'[p]) /\ at'[p] = place
    BY <2>2
  <2> QED BY <1>6, <2>1, <2>3 DEF Removes
<1> QED BY <1>1, <1>2, <1>3, <1>4, <1>5, <1>6

LEMMA ReadMoves ==
  ASSUME CtlTypeOK, NEW p \in Ctls, NEW place \in Refreshing, ReadsFiles(p, place),
         Fits(place, cmd[p])
  PROVE  /\ Alone(p) /\ Fits(at'[p], cmd'[p])
         /\ at'[p] = place /\ draft'[p] = files[home[p]]
BY DEF ReadsFiles, Alone, CtlTypeOK

LEMMA RefreshMoves ==
  ASSUME CtlTypeOK, PlacesFit, NEW p \in Ctls,
         \/ Evaluates(p) \/ Truncates(p) \/ Writes(p) \/ Digests(p) \/ Stores(p)
         \/ Drops(p)
  PROVE  Moves(p)
<1> USE TypeParts, MishapsGrow, GoesMoves, EndsMoves, ReadMoves
    DEF PlacesFit, Fits, StartPlaces, CleanPlaces, Refreshing, Ended, Active, Moves
<1>1. CASE Evaluates(p)
  BY <1>1 DEF Evaluates
<1>2. CASE Truncates(p)
  BY <1>2 DEF Truncates
<1>3. CASE Writes(p)
  BY <1>3 DEF Writes
<1>4. CASE Digests(p)
  BY <1>4 DEF Digests
<1>5. CASE Stores(p)
  BY <1>5 DEF Stores, Ensured
<1>6. CASE Drops(p)
  <2>1. CASE at[p] = "dropSocket"
    BY <1>6, <2>1 DEF Drops
  <2>2. CASE at[p] # "dropSocket"
    <3>1. AfterDrop[at[p]] \in {"dropHash", "dropStamp", "dropSocket"}
      BY <1>6, <2>2 DEF Drops, AfterDrop
    <3> QED BY <1>6, <2>2, <3>1 DEF Drops
  <2> QED BY <2>1, <2>2
<1> QED BY <1>1, <1>2, <1>3, <1>4, <1>5, <1>6

\* A process that fails or is killed is gone, and a refresh is cut.
LEMMA BreakMoves ==
  ASSUME CtlTypeOK, NEW p \in Ctls, Fails(p) \/ Killed(p)
  PROVE  /\ Moves(p) /\ at'[p] \in Ended
         /\ UNCHANGED <<files, dump>>
         /\ at[p] \in Refreshing => "cut" \in mishaps'
         /\ at[p] \notin Refreshing => UNCHANGED hash
<1>1. Alone(p) /\ Fits(at'[p], cmd'[p]) /\ at'[p] \in Ended
  BY TypeParts, EndsMoves DEF Fails, Killed
<1>2. PICK kinds \in {{"cut", "other"}, {"other"}, {}} :
        Fault(kinds) /\ (at[p] \in Refreshing => "cut" \in kinds)
  BY DEF Fails, Killed
<1>3. mishaps \subseteq mishaps' /\ (at[p] \in Refreshing => "cut" \in mishaps')
  BY <1>2 DEF Fault
<1>4. Active(p)
  BY DEF Fails, Killed, Active, Ended, Refreshing
<1> QED BY <1>1, <1>3, <1>4 DEF Moves, Fails, Killed, BreaksOff, Ended, Refreshing

LEMMA ProcessMoves ==
  ASSUME CtlTypeOK, PlacesFit, NEW p \in Ctls,
         Step(p) \/ StopErrs(p) \/ Fails(p) \/ Killed(p)
  PROVE  Moves(p)
BY StartMoves, StopMoves, RefreshMoves, BreakMoves DEF Step

(***************************************************************************)
(* Places and aims.                                                        *)
(***************************************************************************)
LEMMA InitInv == CtlInit => CtlInv
<1> SUFFICES ASSUME CtlInit PROVE CtlInv
  OBVIOUS
<1>1. CtlTypeOK
  BY InitTypes
<1>2. PlacesFit
  BY DEF CtlInit, PlacesFit, Fits, StartPlaces, CleanPlaces, Refreshing
<1>3. AimsHold
  BY <1>1 DEF CtlInit, AimsHold, CtlTypeOK, ContainerTypeOK
<1>4. OneHome /\ DraftsHold /\ WrittenHolds
  BY DEF CtlInit, OneHome, DraftsHold, WrittenHolds, Active, Ended, Refreshing
<1>5. StoredHolds
  <2>1. CASE Unused
    BY <2>1 DEF Unused, StoredHolds
  <2>2. ASSUME NEW r \in Roots, InUse(r) PROVE StoredHolds
    BY <2>2 DEF InUse, StoredHolds
  <2> QED BY <2>1, <2>2 DEF CtlInit, ContainerInit
<1> QED BY <1>1, <1>2, <1>3, <1>4, <1>5 DEF CtlInv, CacheHolds

\* Launches are only added.
LEMMA LaunchesGrow ==
  ASSUME CtlTypeOK, CtlNext
  PROVE  launches <= launches'
<1>1. launches \in Nat
  BY DEF CtlTypeOK, ContainerTypeOK
<1>2. ASSUME NEW p \in Ctls, Boots(p) PROVE launches <= launches'
  BY <1>1, <1>2 DEF Boots, Started, boxVars
<1>3. ASSUME NEW p \in Ctls, Begin(p) \/ StopErrs(p) \/ Fails(p) \/ Killed(p)
      PROVE  UNCHANGED launches
  BY <1>3 DEF Begin, StopErrs, Fails, Killed, BreaksOff, worldVars, boxVars
<1>4. ASSUME NEW p \in Ctls, Step(p), ~Boots(p) PROVE UNCHANGED launches
  BY <1>4 DEF Step, ReadsStamp, ClaimsStamp, ProbesBox, ProbesSocket, Checks, Ensures,
     Evaluates, Truncates, Writes, Digests, Stores, StopProbes, Stops, StopReturns,
     StopProbesAgain, Launches, Inspects, TestsExistence, Removes, Runs, Reinspects,
     Polls, PollsSocket, Drops, worldVars, boxVars
<1>5. CASE InitProcessStep \/ Crash \/ Edit
  BY <1>1, <1>5 DEF InitProcessStep, InitProcess, Sources, ProbesFile, ClearsFile, Binds,
     Drains, Quits, Exits, ServerGoes, Crash, Dies, Edit, boxVars
<1> QED BY <1>1, <1>2, <1>3, <1>4, <1>5 DEF CtlNext

LEMMA PlacesAndAims ==
  ASSUME CtlTypeOK, CtlTypeOK', PlacesFit, AimsHold, CtlNext
  PROVE  PlacesFit' /\ AimsHold'
<1>1. launches \in Nat /\ launches' \in Nat /\ launches <= launches'
  BY LaunchesGrow DEF CtlTypeOK, ContainerTypeOK
<1>2. since \in [Ctls -> Nat] /\ aim \in [Ctls -> Nat]
  BY DEF CtlTypeOK
<1>3. ASSUME NEW p \in Ctls, Step(p) \/ StopErrs(p) \/ Fails(p) \/ Killed(p)
      PROVE  PlacesFit' /\ AimsHold'
  <2>1. Moves(p)
    BY <1>3, ProcessMoves
  <2>2. PlacesFit'
    BY <2>1 DEF Moves, Alone, PlacesFit, Fits
  <2>3. ASSUME NEW q \in Ctls
        PROVE  since'[q] <= launches'
                 /\ (at'[q] = "stopping" => since'[q] <= aim'[q] /\ aim'[q] <= launches')
    <3>1. since[q] <= launches
      BY DEF AimsHold
    <3>2. CASE q # p
      <4>1. /\ since'[q] = since[q] /\ aim'[q] = aim[q] /\ at'[q] = at[q]
            /\ since[q] \in Nat /\ aim[q] \in Nat
        BY <1>2, <2>1, <3>2 DEF Moves, Alone
      <4> QED BY <1>1, <3>1, <4>1 DEF AimsHold
    <3>3. CASE q = p
      <4>1. /\ since'[q] \in {0, since[q]} /\ since[q] \in Nat
            /\ at'[q] = "stopping" => aim'[q] = launches
        BY <1>2, <2>1, <3>3 DEF Moves, Alone
      <4> QED BY <1>1, <3>1, <4>1
    <3> QED BY <3>2, <3>3
  <2> QED BY <2>2, <2>3 DEF AimsHold
<1>4. ASSUME NEW p \in Ctls, Begin(p) PROVE PlacesFit' /\ AimsHold'
  <2>1. PICK c \in Cmds, r \in Roots :
          /\ cmd' = [cmd EXCEPT ![p] = c]
          /\ at' = [at EXCEPT ![p] = FirstPlace[c]]
    BY <1>4 DEF Begin
  <2>2. Fits(FirstPlace[c], c) /\ FirstPlace[c] # "stopping"
    BY CtlAssumption DEF FirstPlace, Fits, StartPlaces, CleanPlaces, Refreshing
  <2>3. PlacesFit'
    BY <2>1, <2>2 DEF PlacesFit, Fits, CtlTypeOK
  <2>4. since' = [since EXCEPT ![p] = launches] /\ UNCHANGED <<aim, launches>>
    BY <1>4 DEF Begin, worldVars, boxVars
  <2>5. AimsHold'
    BY <1>1, <2>1, <2>2, <2>4 DEF AimsHold, CtlTypeOK
  <2> QED BY <2>3, <2>5
<1>5. CASE InitProcessStep \/ Crash \/ Edit
  <2>1. UNCHANGED <<at, cmd, since, aim>>
    BY <1>5 DEF InitProcessStep, Crash, Edit, localVars
  <2>2. PlacesFit'
    BY <2>1 DEF PlacesFit, Fits
  <2>3. AimsHold'
    BY <1>1, <1>2, <2>1 DEF AimsHold
  <2> QED BY <2>2, <2>3
<1> QED BY <1>3, <1>4, <1>5 DEF CtlNext

(***************************************************************************)
(* The cache.                                                              *)
(***************************************************************************)
CacheParts == OneHome /\ DraftsHold /\ WrittenHolds /\ StoredHolds

\* A mishap that has not happened had not happened before, so the parts may be
\* assumed of the state before a step.
LEMMA AsideCache ==
  ASSUME CtlTypeOK, CacheParts, NEW p \in Ctls, Moves(p), Aside(p)
  PROVE  CacheParts'
<1>1. OneHome'
  BY DEF CacheParts, OneHome, Moves, Alone, Active, CtlTypeOK
<1>2. DraftsHold'
  BY DEF CacheParts, DraftsHold, Moves, Alone, Aside, CtlTypeOK
<1>3. WrittenHolds'
  BY DEF CacheParts, WrittenHolds, Moves, Alone, Aside, Refreshing, CtlTypeOK
<1>4. StoredHolds'
  <2>1. ASSUME NEW q \in Ctls, at[q] \in {"digest", "store"}
        PROVE  at'[q] \in {"digest", "store"}
    BY <2>1 DEF Moves, Alone, Aside, Refreshing
  <2> QED BY <2>1 DEF CacheParts, StoredHolds, Aside, Moves
<1> QED BY <1>1, <1>2, <1>3, <1>4 DEF CacheParts

LEMMA MovesOneHome ==
  ASSUME CtlTypeOK, OneHome, NEW p \in Ctls, Moves(p)
  PROVE  OneHome'
BY DEF OneHome, Moves, Alone, Active, CtlTypeOK

LEMMA EvaluatesCache ==
  ASSUME CtlTypeOK, PlacesFit, CacheParts, NEW p \in Ctls, Evaluates(p)
  PROVE  CacheParts'
<1>1. Moves(p) /\ UNCHANGED <<files, dump, hash>> /\ at[p] = "eval"
  BY RefreshMoves DEF Evaluates, worldVars, cacheVars
<1>2. at'[p] = "truncate" /\ draft'[p] = files[home[p]]
  BY DEF Evaluates, ReadsFiles, CtlTypeOK
<1>3. OneHome'
  BY <1>1, MovesOneHome DEF CacheParts
<1>4. DraftsHold'
  BY <1>1, <1>2 DEF CacheParts, DraftsHold, Moves, Alone
<1>5. WrittenHolds'
  BY <1>1, <1>2 DEF CacheParts, WrittenHolds, Moves, Alone
<1>6. StoredHolds'
  BY <1>1, <1>2 DEF CacheParts, StoredHolds, Moves, Alone
<1> QED BY <1>3, <1>4, <1>5, <1>6 DEF CacheParts

LEMMA TruncatesCache ==
  ASSUME CtlTypeOK, PlacesFit, CacheParts, NEW p \in Ctls, Truncates(p)
  PROVE  CacheParts'
<1>1. Moves(p) /\ UNCHANGED <<files, hash>> /\ at[p] = "truncate" /\ dump' = Torn
  BY RefreshMoves DEF Truncates
<1>2. at'[p] = "write" /\ draft'[p] = draft[p] /\ dump' \notin Dumps
  BY <1>1, FilesAssumption DEF Truncates, Goes, localVars, CtlTypeOK, Dumps
<1>3. OneHome'
  BY <1>1, MovesOneHome DEF CacheParts
<1>4. DraftsHold'
  BY <1>1, <1>2 DEF CacheParts, DraftsHold, Moves, Alone, Refreshing
<1>5. WrittenHolds' /\ StoredHolds'
  BY <1>2 DEF WrittenHolds, StoredHolds, Dumps
<1> QED BY <1>3, <1>4, <1>5 DEF CacheParts

LEMMA WritesCache ==
  ASSUME CtlTypeOK, PlacesFit, CacheParts, NEW p \in Ctls, Writes(p)
  PROVE  CacheParts'
<1>1. /\ Moves(p) /\ UNCHANGED <<files, hash>> /\ at[p] = "write"
      /\ dump' = IF dump = None THEN None ELSE <<home[p], draft[p]>>
  BY RefreshMoves DEF Writes
<1>2. at'[p] = "digest" /\ draft'[p] = draft[p]
  BY DEF Writes, Goes, localVars, CtlTypeOK
<1>3. OneHome'
  BY <1>1, MovesOneHome DEF CacheParts
<1>4. DraftsHold'
  BY <1>1, <1>2 DEF CacheParts, DraftsHold, Moves, Alone, Refreshing
<1>5. dump' \in Dumps => dump' = <<home[p], files[home[p]]>>
  <2>1. draft[p] = files[home[p]]
    BY <1>1 DEF CacheParts, DraftsHold, Refreshing
  <2>2. None \notin Dumps
    BY FilesAssumption DEF Dumps
  <2> QED BY <1>1, <2>1, <2>2
<1>6. WrittenHolds'
  <2>1. ASSUME NEW q \in Ctls, at'[q] \in {"digest", "store"}, dump' \in Dumps
        PROVE  dump' = <<home'[q], files'[home'[q]]>>
    <3>1. Active(q)
      BY <1>1, <2>1 DEF Moves, Alone, Active, Ended
    <3>2. home[q] = home[p] /\ UNCHANGED home
      BY <1>1, <3>1 DEF CacheParts, OneHome, Moves, Alone
    <3> QED BY <1>1, <1>5, <2>1, <3>2
  <2> QED BY <2>1 DEF WrittenHolds, Dumps
<1>7. StoredHolds'
  BY <1>2 DEF StoredHolds
<1> QED BY <1>3, <1>4, <1>6, <1>7 DEF CacheParts

LEMMA DigestsCache ==
  ASSUME CtlTypeOK, PlacesFit, CacheParts, NEW p \in Ctls, Digests(p)
  PROVE  CacheParts'
<1>1. Moves(p) /\ UNCHANGED <<files, dump, hash>> /\ at[p] = "digest"
  BY RefreshMoves DEF Digests, worldVars, cacheVars
<1>2. at'[p] = "store" /\ draft'[p] = files[home[p]]
  BY DEF Digests, ReadsFiles, CtlTypeOK
<1>3. OneHome'
  BY <1>1, MovesOneHome DEF CacheParts
<1>4. DraftsHold'
  BY <1>1, <1>2 DEF CacheParts, DraftsHold, Moves, Alone
<1>5. WrittenHolds'
  BY <1>1, <1>2 DEF CacheParts, WrittenHolds, Moves, Alone
<1>6. StoredHolds'
  BY <1>2 DEF StoredHolds
<1> QED BY <1>3, <1>4, <1>5, <1>6 DEF CacheParts

LEMMA StoresCache ==
  ASSUME CtlTypeOK, PlacesFit, CacheParts, NEW p \in Ctls, Stores(p)
  PROVE  CacheParts'
<1>1. Moves(p) /\ UNCHANGED <<files, dump>> /\ at[p] = "store" /\ hash' = draft[p]
  BY RefreshMoves DEF Stores
<1>2. at'[p] \in {"stop", "launch"}
  BY DEF Stores, Ensured, Goes, CtlTypeOK
<1>3. OneHome'
  BY <1>1, MovesOneHome DEF CacheParts
<1>4. DraftsHold'
  BY <1>1, <1>2 DEF CacheParts, DraftsHold, Moves, Alone, Refreshing
<1>5. WrittenHolds'
  BY <1>1, <1>2 DEF CacheParts, WrittenHolds, Moves, Alone
<1>6. StoredHolds'
  <2>1. hash' = files[home[p]]
    BY <1>1 DEF CacheParts, DraftsHold, Refreshing
  <2>2. dump \in Dumps => dump = <<home[p], files[home[p]]>>
    BY <1>1 DEF CacheParts, WrittenHolds
  <2> QED BY <1>1, <2>1, <2>2 DEF StoredHolds, Dumps
<1> QED BY <1>3, <1>4, <1>5, <1>6 DEF CacheParts

LEMMA DropsCache ==
  ASSUME CtlTypeOK, PlacesFit, CacheParts, NEW p \in Ctls, Drops(p)
  PROVE  CacheParts'
<1>1. /\ Moves(p) /\ UNCHANGED files
      /\ at[p] \in {"dropEnv", "dropHash", "dropStamp", "dropSocket"}
      /\ dump' \in {dump, None} /\ hash' \in {hash, None}
  BY RefreshMoves DEF Drops
<1>2. at'[p] \notin Refreshing
  <2>1. CASE at[p] = "dropSocket"
    BY <2>1, EndsMoves, TypeParts DEF Drops, Ended, Refreshing
  <2>2. CASE at[p] # "dropSocket"
    <3>1. AfterDrop[at[p]] \in {"dropHash", "dropStamp", "dropSocket"}
      BY <1>1, <2>2 DEF AfterDrop
    <3> QED BY <2>2, <3>1 DEF Drops, Goes, CtlTypeOK, Refreshing
  <2> QED BY <2>1, <2>2
<1>3. OneHome'
  BY <1>1, MovesOneHome DEF CacheParts
<1>4. DraftsHold'
  BY <1>1, <1>2 DEF CacheParts, DraftsHold, Moves, Alone
<1>5. dump' \in Dumps => dump' = dump
  BY <1>1, FilesAssumption DEF Dumps
<1>6. WrittenHolds'
  BY <1>1, <1>2, <1>5 DEF CacheParts, WrittenHolds, Moves, Alone, Refreshing, Dumps
<1>7. StoredHolds'
  <2>1. ASSUME NEW q \in Ctls, at[q] \in {"digest", "store"}
        PROVE  at'[q] \in {"digest", "store"}
    BY <1>1, <2>1 DEF Moves, Alone
  <2> QED BY <1>1, <1>5, <2>1 DEF CacheParts, StoredHolds, Dumps, Moves
<1> QED BY <1>3, <1>4, <1>6, <1>7 DEF CacheParts

\* The digest that a cut refresh leaves is that of another dump only if it is
\* not that of the files.
LEMMA BreakCache ==
  ASSUME CtlTypeOK, CacheParts, NEW p \in Ctls, Fails(p) \/ Killed(p)
  PROVE  CacheParts'
<1>1. CASE at[p] \notin Refreshing
  <2>1. Moves(p) /\ Aside(p)
    BY <1>1, BreakMoves DEF Aside, Ended, Refreshing
  <2> QED BY <2>1, AsideCache
<1>2. CASE at[p] \in Refreshing
  <2>1. /\ Moves(p) /\ at'[p] \in Ended /\ "cut" \in mishaps'
        /\ UNCHANGED <<files, dump>> /\ hash' \in {hash, None}
    BY <1>2, BreakMoves DEF Fails, Killed, BreaksOff
  <2>2. OneHome'
    BY <2>1, MovesOneHome DEF CacheParts
  <2>3. DraftsHold' /\ WrittenHolds'
    BY <2>1 DEF CacheParts, DraftsHold, WrittenHolds, Moves, Alone, Ended, Refreshing, Dumps
  <2>4. StoredHolds'
    <3> SUFFICES ASSUME dump \in Dumps, hash # None, hash' = hash, hash = files[dump[1]]
                 PROVE  dump[2] = hash
      BY <2>1 DEF StoredHolds, Dumps
    <3>1. ASSUME NEW q \in Ctls, at[q] \in {"digest", "store"} PROVE dump[2] = hash
      <4>1. dump = <<home[q], files[home[q]]>>
        BY <3>1 DEF CacheParts, WrittenHolds
      <4> QED BY <4>1
    <3> QED BY <3>1 DEF CacheParts, StoredHolds
  <2> QED BY <2>2, <2>3, <2>4 DEF CacheParts
<1> QED BY <1>1, <1>2

LEMMA BeginCache ==
  ASSUME CtlTypeOK, CacheParts, NEW p \in Ctls, Begin(p), "roots" \notin mishaps'
  PROVE  CacheParts'
<1>1. PICK c \in Cmds, r \in Roots :
        /\ home' = [home EXCEPT ![p] = r]
        /\ at' = [at EXCEPT ![p] = FirstPlace[c]]
        /\ \A q \in Ctls : Active(q) => home[q] = r
  BY DEF Begin
<1>2. ~Active(p) /\ UNCHANGED <<files, dump, hash, draft>>
  BY DEF Begin, worldVars, cacheVars
<1>3. at[p] \notin Refreshing /\ at'[p] \notin Refreshing
  BY <1>1, <1>2, CtlAssumption DEF FirstPlace, Active, Ended, Refreshing, CtlTypeOK
<1>4. \A q \in Ctls \ {p} : at'[q] = at[q] /\ home'[q] = home[q]
  BY <1>1 DEF CtlTypeOK
<1>5. OneHome'
  <2>1. \A q \in Ctls : at'[q] \notin Ended => home'[q] = r
    BY <1>1, <1>4 DEF CtlTypeOK, Active
  <2> QED BY <2>1 DEF OneHome, Active
<1>6. DraftsHold' /\ WrittenHolds'
  BY <1>2, <1>3, <1>4 DEF CacheParts, DraftsHold, WrittenHolds, Refreshing, Dumps
<1>7. StoredHolds'
  <2>1. ASSUME NEW q \in Ctls, at[q] \in {"digest", "store"}
        PROVE  at'[q] \in {"digest", "store"}
    BY <1>3, <1>4, <2>1 DEF Refreshing
  <2>2. mishaps \subseteq mishaps'
    BY DEF Begin
  <2> QED BY <1>2, <2>1, <2>2 DEF CacheParts, StoredHolds, Dumps
<1> QED BY <1>5, <1>6, <1>7 DEF CacheParts

LEMMA EditCache ==
  ASSUME CtlTypeOK, CacheParts, Edit, "slip" \notin mishaps'
  PROVE  CacheParts'
<1>1. PICK r \in Roots, c \in Contents :
        /\ files' = [files EXCEPT ![r] = c]
        /\ \A p \in Ctls : home[p] = r => at[p] \notin Refreshing
  BY DEF Edit
<1>2. UNCHANGED <<at, home, draft, dump, hash>> /\ "cut" \notin mishaps
  BY DEF Edit, localVars, cacheVars
<1>3. ASSUME NEW p \in Ctls, at[p] \in Refreshing
      PROVE  files'[home[p]] = files[home[p]]
  BY <1>1, <1>3 DEF CtlTypeOK, ContainerTypeOK
<1>4. OneHome'
  BY <1>2 DEF CacheParts, OneHome, Active
<1>5. DraftsHold' /\ WrittenHolds'
  BY <1>2, <1>3 DEF CacheParts, DraftsHold, WrittenHolds, Refreshing, Dumps
<1>6. StoredHolds'
  BY <1>2 DEF CacheParts, StoredHolds, Dumps
<1> QED BY <1>4, <1>5, <1>6 DEF CacheParts

LEMMA UntouchedCache ==
  ASSUME CacheParts, UNCHANGED <<files, dump, hash, at, home, draft>>, mishaps \subseteq mishaps'
  PROVE  CacheParts'
BY DEF CacheParts, OneHome, DraftsHold, WrittenHolds, StoredHolds, Active, Dumps

LEMMA NextMishaps ==
  ASSUME CtlTypeOK, PlacesFit, CtlNext
  PROVE  mishaps \subseteq mishaps'
<1>1. ASSUME NEW p \in Ctls, Step(p) \/ StopErrs(p) \/ Fails(p) \/ Killed(p)
      PROVE  mishaps \subseteq mishaps'
  BY <1>1, ProcessMoves DEF Moves
<1>2. ASSUME NEW p \in Ctls, Begin(p) PROVE mishaps \subseteq mishaps'
  BY <1>2 DEF Begin
<1>3. CASE InitProcessStep \/ Crash \/ Edit
  BY <1>3, MishapsGrow DEF InitProcessStep, Crash, Edit
<1> QED BY <1>1, <1>2, <1>3 DEF CtlNext

LEMMA CacheStep ==
  ASSUME CtlTypeOK, PlacesFit, CacheHolds, CtlNext
  PROVE  CacheHolds'
<1>1. mishaps \subseteq mishaps'
  BY NextMishaps
<1> SUFFICES ASSUME mishaps' \cap {"slip", "roots"} = {} PROVE CacheParts'
  BY DEF CacheHolds, CacheParts
<1>2. CacheParts
  BY <1>1 DEF CacheHolds, CacheParts
<1>3. "slip" \notin mishaps' /\ "roots" \notin mishaps'
  OBVIOUS
<1>4. ASSUME NEW p \in Ctls, Step(p) \/ StopErrs(p) PROVE CacheParts'
  BY <1>2, <1>4, StartMoves, StopMoves, AsideCache, EvaluatesCache, TruncatesCache,
     WritesCache, DigestsCache, StoresCache, DropsCache DEF Step
<1>5. ASSUME NEW p \in Ctls, Begin(p) \/ Fails(p) \/ Killed(p) PROVE CacheParts'
  BY <1>2, <1>3, <1>5, BeginCache, BreakCache
<1>6. CASE InitProcessStep \/ Crash
  BY <1>1, <1>2, <1>6, UntouchedCache DEF InitProcessStep, Crash, cacheVars, localVars
<1>7. CASE Edit
  BY <1>2, <1>3, <1>7, EditCache
<1> QED BY <1>4, <1>5, <1>6, <1>7 DEF CtlNext

(***************************************************************************)
(* The theorems.                                                           *)
(***************************************************************************)
LEMMA InvStep == CtlInv /\ [CtlNext]_ctlVars => CtlInv'
<1> SUFFICES ASSUME CtlInv, [CtlNext]_ctlVars PROVE CtlInv'
  OBVIOUS
<1>1. CtlTypeOK'
  BY StepTypes DEF CtlInv
<1>2. CASE CtlNext
  BY <1>1, <1>2, PlacesAndAims, CacheStep DEF CtlInv
<1>3. CASE UNCHANGED ctlVars
  <2>1. UNCHANGED <<files, dump, hash, at, home, draft, cmd, since, aim, launches, mishaps>>
    BY <1>3 DEF ctlVars, worldVars, cacheVars, boxVars, localVars, pastVars
  <2>2. PlacesFit' /\ AimsHold'
    BY <2>1 DEF CtlInv, PlacesFit, AimsHold, Fits
  <2>3. CacheHolds'
    BY <2>1, UntouchedCache DEF CtlInv, CacheHolds, CacheParts
  <2> QED BY <1>1, <2>2, <2>3 DEF CtlInv
<1> QED BY <1>2, <1>3

\* The inductive invariant of ncap-ctl: each place belongs to its flows, a
\* stop waits for a container at least as new as itself, and without a slip or
\* a second root the dump and the digest match the files (src/ctl/mod.rs).
THEOREM CtlInvariant == CtlSpec => []CtlInv
BY InitInv, InvStep, PTL DEF CtlSpec

\* A fresh verdict is true, however many processes refresh the cache and
\* wherever a refresh is cut, unless an edit falls between an evaluation and its
\* digest or after a cut (digest::check, ensure_cache).
THEOREM FreshVerdicts == CtlSpec => []FreshIsTrue
<1>1. CtlInv => FreshIsTrue
  <2> SUFFICES ASSUME CtlInv, mishaps \cap {"slip", "roots"} = {},
                      NEW r \in Roots, Freshness(r) = "fresh", dump \in Dumps, dump[1] = r
               PROVE  dump[2] = files[r]
    BY DEF FreshIsTrue
  <2>1. hash = files[r]
    BY DEF Freshness
  <2>2. hash # None
    BY <2>1, FilesAssumption DEF CtlInv, CtlTypeOK, ContainerTypeOK
  <2>3. CASE dump[2] = hash
    BY <2>1, <2>3
  <2>4. ASSUME NEW p \in Ctls, at[p] \in {"digest", "store"} PROVE dump[2] = files[r]
    BY <2>4 DEF CtlInv, CacheHolds, WrittenHolds
  <2> QED BY <2>1, <2>2, <2>3, <2>4 DEF CtlInv, CacheHolds, StoredHolds
<1> QED BY <1>1, CtlInvariant, PTL

\* Who succeeds does so by a step of its own.
LEMMA OwnSuccess ==
  ASSUME CtlInv, CtlNext, NEW p \in Ctls, Succeeded(p)
  PROVE  /\ Step(p) \/ StopErrs(p)
         /\ at[p] # "ok" /\ at'[p] = "ok" /\ at \in [Ctls -> Places]
         /\ ~GivesUp(p)
         /\ \A place : Goes(p, place) => place = "ok"
<1>1. at[p] # "ok" /\ at'[p] = "ok" /\ at \in [Ctls -> Places]
  BY DEF CtlInv, CtlTypeOK, Succeeded, Active, Ended
<1>2. ASSUME NEW q \in Ctls, Step(q) \/ StopErrs(q) \/ Fails(q) \/ Killed(q)
      PROVE  q = p
  BY <1>1, <1>2, ProcessMoves DEF CtlInv, Moves, Alone
<1>3. ASSUME NEW q \in Ctls, Begin(q) PROVE FALSE
  <2>1. PICK c \in Cmds : at' = [at EXCEPT ![q] = FirstPlace[c]]
    BY <1>3 DEF Begin
  <2> QED BY <1>1, <2>1, CtlAssumption DEF FirstPlace, CtlInv, CtlTypeOK
<1>4. ~(InitProcessStep \/ Crash \/ Edit)
  BY <1>1 DEF InitProcessStep, Crash, Edit
<1>5. ~GivesUp(p) /\ \A place : Goes(p, place) => place = "ok"
  BY <1>1 DEF GivesUp, Ends, Goes
<1>6. ~(Fails(p) \/ Killed(p))
  BY <1>5 DEF Fails, Killed
<1> QED BY <1>1, <1>2, <1>3, <1>4, <1>5, <1>6 DEF CtlNext

\* Only the steps of a stop end a stop.
LEMMA StopEnds ==
  ASSUME CtlInv, CtlNext, NEW p \in Ctls, Succeeded(p), cmd[p] = "stop"
  PROVE  StopProbes(p) \/ Stops(p) \/ StopReturns(p) \/ StopProbesAgain(p) \/ StopErrs(p)
<1>1. at[p] \notin StartPlaces \cup CleanPlaces
  BY DEF CtlInv, PlacesFit, Fits
<1>2. ASSUME Step(p) PROVE StopProbes(p) \/ Stops(p) \/ StopReturns(p) \/ StopProbesAgain(p)
  BY <1>1, <1>2 DEF Step, ReadsStamp, ClaimsStamp, ProbesBox, ProbesSocket, Checks, Ensures,
     Evaluates, Truncates, Writes, Digests, Stores, Launches, Inspects, TestsExistence,
     Removes, AfterRemove, Runs, Boots, Reinspects, Polls, PollsSocket, Drops,
     StartPlaces, CleanPlaces, Refreshing
<1> QED BY <1>2, OwnSuccess

\* A stop that ends with success has stopped whatever ran when it began: all
\* that may run is a container started since, whoever started it (stop).
THEOREM StopsAreTrue == CtlSpec => StopIsTrue
<1>1. ASSUME CtlInv, CtlNext, NEW p \in Ctls, Succeeded(p), cmd[p] = "stop",
             "blind" \notin mishaps'
      PROVE  ~Running \/ launches > since[p]
  <2>1. at'[p] = "ok" /\ at \in [Ctls -> Places]
    BY <1>1 DEF Succeeded, CtlInv, CtlTypeOK
  <2>2. \A answer : Sees(answer) => answer = Running
    BY <1>1 DEF Sees, Fault
  <2>3. CASE StopProbes(p)
    BY <2>1, <2>2, <2>3 DEF StopProbes, Goes
  <2>4. CASE StopProbesAgain(p)
    BY <2>1, <2>2, <2>4 DEF StopProbesAgain, GivesUp, Ends
  <2>5. CASE Stops(p)
    BY <2>1, <2>5 DEF Stops, Running, AfterStop, Goes
  <2>6. CASE StopReturns(p)
    <3>1. ~Running \/ launches # aim[p]
      BY <2>6 DEF StopReturns
    <3>2. since[p] <= aim[p] /\ aim[p] <= launches
      BY <1>1, <2>6 DEF StopReturns, CtlInv, AimsHold
    <3>3. since[p] \in Nat /\ aim[p] \in Nat /\ launches \in Nat
      BY <1>1 DEF CtlInv, CtlTypeOK, ContainerTypeOK
    <3> QED BY <3>1, <3>2, <3>3
  <2>7. CASE StopErrs(p)
    BY <1>1, <2>1, <2>7 DEF StopErrs, AfterStop, Goes
  <2> QED BY <1>1, <2>3, <2>4, <2>5, <2>6, <2>7, StopEnds
<1>2. CtlInv /\ [CtlNext]_ctlVars =>
        [\A p \in Ctls :
           Succeeded(p) /\ cmd[p] = "stop" /\ "blind" \notin mishaps' =>
             ~Running \/ launches > since[p]]_ctlVars
  BY <1>1
<1> QED BY <1>2, CtlInvariant, PTL DEF CtlSpec, StopIsTrue

(***************************************************************************)
(* One command at a time: what the process that is active knows.           *)
(***************************************************************************)
SourcedKnown(p) ==
  mishaps = {} =>
    /\ Running /\ server # "sourcing" => sourced = dump \/ Outdates(p)
    /\ Unsettled => Active(p)

TornKnown(p) == dump = Torn => "cut" \in mishaps \/ at[p] = "write"

Knows(p) ==
  StampKnown(p) /\ FilesKnown(p) /\ BoxKnown(p) /\ LaunchesKnown(p) /\ EnsuredKnown(p)

OrderParts ==
  NobodyElse /\ StampHolds /\ TornHolds /\ SourcedHolds /\ \A p \in Ctls : Knows(p)

Mine(p) == StampHolds /\ TornKnown(p) /\ SourcedKnown(p) /\ Knows(p)

\* An idle one knows nothing.
LEMMA IdleKnows ==
  ASSUME NEW p \in Ctls
  PROVE  /\ at[p] \in Ended => Knows(p)
         /\ at'[p] \in Ended => Knows(p)'
<1> USE DEF Ended
<1>1. ASSUME at[p] \in Ended PROVE Knows(p)
  BY <1>1 DEF Knows, StampKnown, FilesKnown, BoxKnown, LaunchesKnown, EnsuredKnown,
              StartPlaces, Refreshing, Active
<1>2. ASSUME at'[p] \in Ended PROVE Knows(p)'
  BY <1>2 DEF Knows, StampKnown, FilesKnown, BoxKnown, LaunchesKnown, EnsuredKnown,
              StartPlaces, Refreshing, Active
<1> QED BY <1>1, <1>2

LEMMA OwnView ==
  ASSUME OrderParts, NEW p \in Ctls, Active(p)
  PROVE  Mine(p)
<1>1. \A q \in Ctls : Active(q) => q = p
  BY DEF OrderParts, NobodyElse
<1>2. TornKnown(p)
  <2>1. \A q \in Ctls : at[q] = "write" => Active(q)
    BY DEF Active, Ended
  <2> QED BY <1>1, <2>1 DEF OrderParts, TornHolds, TornKnown
<1>3. SourcedKnown(p)
  <2>1. ASSUME NEW q \in Ctls, Outdates(q) PROVE q = p
    BY <1>1, <2>1 DEF Outdates, Active, Ended
  <2> QED BY <2>1 DEF OrderParts, SourcedHolds, SourcedKnown
<1> QED BY <1>2, <1>3 DEF OrderParts, Mine

LEMMA OwnStep ==
  ASSUME OrderParts, NEW p \in Ctls, Moves(p), Mine(p)'
  PROVE  OrderParts'
<1>1. ASSUME NEW q \in Ctls, q # p PROVE ~Active(q)'
  <2>1. ~Active(q)
    BY <1>1 DEF OrderParts, NobodyElse, Moves
  <2> QED BY <1>1, <2>1 DEF Moves, Alone, Active
<1>2. NobodyElse'
  BY <1>1 DEF NobodyElse
<1>3. ASSUME NEW q \in Ctls PROVE Knows(q)'
  <2>1. CASE q # p
    BY <1>1, <2>1, IdleKnows DEF Active
  <2> QED BY <2>1 DEF Mine
<1>4. TornHolds' /\ SourcedHolds'
  BY DEF Mine, TornHolds, TornKnown, SourcedHolds, SourcedKnown
<1> QED BY <1>2, <1>3, <1>4 DEF OrderParts, Mine

\* What it brings into a step besides.
OwnSide(p) ==
  /\ Mine(p)
  /\ Fits(at[p], cmd[p])
  /\ live[p] => cmd[p] = "init" /\ at[p] \notin Ended \cup {"guard", "claim", "probe", "connect"}
  /\ termed => Running

Calm == UNCHANGED <<disturbed, mishaps>>

LEMMA GoesFacts ==
  ASSUME CtlTypeOK, NEW p \in Ctls, NEW place, Goes(p, place)
  PROVE  /\ at'[p] = place
         /\ cmd'[p] = cmd[p] /\ home'[p] = home[p] /\ live'[p] = live[p]
         /\ since'[p] = since[p] /\ aim'[p] = aim[p]
BY DEF CtlTypeOK, Goes, localVars

LEMMA EndsFacts ==
  ASSUME CtlTypeOK, NEW p \in Ctls, Succeeds(p) \/ GivesUp(p)
  PROVE  at'[p] \in Ended
BY DEF CtlTypeOK, Succeeds, GivesUp, Ends, Ended

\* A process that ends leaves the world as it was, and at rest.
LEMMA EndsOwn ==
  ASSUME CtlTypeOK, NEW p \in Ctls, Mine(p), Succeeds(p) \/ GivesUp(p),
         UNCHANGED worldVars, mishaps \subseteq mishaps',
         at[p] = "write" => "cut" \in mishaps',
         mishaps' = {} => ~Unsettled /\ (Running => ~Outdates(p))
  PROVE  Mine(p)'
<1>1. at'[p] \in {"idle", "ok"}
  BY EndsFacts DEF Ended
<1>2. Knows(p)'
  BY <1>1, IdleKnows DEF Ended
<1> USE DEF worldVars, cacheVars, boxVars, serverVars
<1>3. StampHolds'
  BY DEF Mine, StampHolds, Running, Dumps
<1>4. TornKnown(p)'
  BY DEF Mine, TornKnown
<1>5. SourcedKnown(p)'
  BY DEF Mine, SourcedKnown, Unsettled, Connectable, Running
<1> QED BY <1>2, <1>3, <1>4, <1>5 DEF Mine

\* What befalls a process that is at work disturbs it.
Troubles(p) == p \in disturbed' /\ mishaps' # {} /\ mishaps \subseteq mishaps'

LEMMA FaultTroubles ==
  ASSUME NEW p \in Ctls, Active(p), NEW kinds, "other" \in kinds, Fault(kinds)
  PROVE  Troubles(p)
<1>1. p \in disturbed' /\ "other" \in mishaps' /\ mishaps \subseteq mishaps'
  BY DEF Fault
<1> QED BY <1>1 DEF Troubles

LEMMA SeesTruly ==
  ASSUME NEW p \in Ctls, Active(p), NEW yes \in BOOLEAN, Sees(yes)
  PROVE  (yes = Running /\ Calm) \/ (yes = FALSE /\ Running /\ Troubles(p))
BY DEF Sees, Fault, Troubles, Quiet, Calm, pastVars

\* The steps of an init or a start up to its launch.
LEMMA StartingOwn ==
  ASSUME CtlTypeOK, NEW p \in Ctls, OwnSide(p),
         \/ ReadsStamp(p) \/ ProbesBox(p) \/ ProbesSocket(p) \/ Checks(p)
  PROVE  Mine(p)'
<1> USE DEF worldVars, cacheVars, boxVars, serverVars, Calm, Quiet, pastVars, Troubles,
            StartPlaces, Refreshing, Ended, Active, Running, Connectable, Reachable,
            Unsettled, Untroubled, OwnSide, Mine, Knows, StampHolds, StampKnown, TornKnown,
            FilesKnown, BoxKnown, LaunchesKnown, EnsuredKnown, SourcedKnown, Outdates, Dumps
<1>1. CASE ReadsStamp(p)
  <2>1. CASE GivesUp(p)
    BY <1>1, <2>1, EndsOwn DEF ReadsStamp
  <2>2. ASSUME NEW place, Goes(p, place),
               (place = "claim" /\ stamp = None) \/ (place = "probe" /\ stamp = home[p])
        PROVE  Mine(p)'
    BY <1>1, <2>2, GoesFacts DEF ReadsStamp
  <2> QED BY <1>1, <2>1, <2>2 DEF ReadsStamp
<1>2. CASE ProbesBox(p)
  <2>1. PICK yes \in BOOLEAN :
          Sees(yes) /\ IF yes THEN Goes(p, "connect") ELSE NotLive(p)
    BY <1>2 DEF ProbesBox
  <2>2. PICK place : 
          /\ Goes(p, place)
          /\ IF yes THEN place = "connect" ELSE place = IF cmd[p] = "init" THEN "ensure" ELSE "launch"
    BY <2>1 DEF NotLive
  <2>3. (yes = Running /\ Calm) \/ (yes = FALSE /\ Running /\ Troubles(p))
    BY <1>2, <2>1, SeesTruly DEF ProbesBox
  <2> QED BY <1>2, <2>2, <2>3, GoesFacts DEF ProbesBox
<1>3. CASE ProbesSocket(p)
  <2>1. CASE ~Connectable /\ NotLive(p)
    <3>1. PICK place :
            Goes(p, place) /\ place = IF cmd[p] = "init" THEN "ensure" ELSE "launch"
      BY <2>1 DEF NotLive
    <3> QED BY <1>3, <2>1, <3>1, GoesFacts DEF ProbesSocket
  <2>2. CASE Connectable /\ Succeeds(p)
    BY <1>3, <2>2, EndsOwn DEF ProbesSocket
  <2>3. CASE /\ Connectable /\ cmd[p] = "init"
             /\ at' = [at EXCEPT ![p] = "check"]
             /\ live' = [live EXCEPT ![p] = TRUE]
             /\ UNCHANGED <<cmd, home, draft, since, aim>>
    <3>1. at'[p] = "check" /\ live'[p] = TRUE /\ cmd'[p] = cmd[p]
      BY <2>3 DEF CtlTypeOK
    <3> QED BY <1>3, <2>3, <3>1 DEF ProbesSocket
  <2> QED BY <1>3, <2>1, <2>2, <2>3 DEF ProbesSocket
<1>4. CASE Checks(p)
  <2>1. CASE Succeeds(p)
    BY <1>4, <2>1, EndsOwn DEF Checks
  <2>2. CASE Goes(p, "ensure")
    BY <1>4, <2>2, GoesFacts DEF Checks
  <2> QED BY <1>4, <2>1, <2>2 DEF Checks
<1> QED BY <1>1, <1>2, <1>3, <1>4

\* A verdict that the cache is fresh is true for one command at a time, but for
\* the piece of a dump that a cut refresh left.
LEMMA FreshForOne ==
  ASSUME CtlTypeOK, CacheHolds, NEW p \in Ctls, Mine(p), at[p] \in {"check", "ensure"},
         mishaps \cap {"slip", "roots"} = {}, NobodyElse, Freshness(home[p]) = "fresh"
  PROVE  /\ hash = files[home[p]]
         /\ dump = <<home[p], files[home[p]]>> \/ ("cut" \in mishaps /\ dump = Torn)
<1>1. dump # None /\ hash = files[home[p]]
  BY DEF Freshness
<1>2. stamp = home[p] /\ (dump = Torn => "cut" \in mishaps)
  BY DEF Mine, Knows, StampKnown, TornKnown, StartPlaces
<1>3. CASE dump = Torn
  BY <1>1, <1>2, <1>3
<1>4. CASE dump \in Dumps
  <2>1. \A q \in Ctls : Active(q) => q = p
    BY DEF NobodyElse, Active, Ended
  <2>2. \A q \in Ctls : at[q] \notin {"digest", "store"}
    BY <2>1 DEF Active, Ended
  <2>3. dump[1] = home[p]
    BY <1>2, <1>4 DEF Mine, StampHolds
  <2>4. hash # None
    BY <1>1, FilesAssumption DEF CtlTypeOK, ContainerTypeOK
  <2>5. dump[2] = files[home[p]]
    BY <1>1, <1>4, <2>2, <2>3, <2>4 DEF CacheHolds, StoredHolds
  <2>6. dump = <<dump[1], dump[2]>>
    BY <1>4 DEF Dumps
  <2> QED BY <1>1, <2>3, <2>5, <2>6
<1> QED BY <1>1, <1>3, <1>4 DEF CtlTypeOK, ContainerTypeOK

\* The steps of an init that ensures the cache.
LEMMA EnsuringOwn ==
  ASSUME CtlTypeOK, CacheHolds, NobodyElse, "roots" \notin mishaps,
         NEW p \in Ctls, OwnSide(p),
         \/ Ensures(p) \/ Evaluates(p) \/ Truncates(p) \/ Writes(p) \/ Digests(p) \/ Stores(p)
  PROVE  Mine(p)'
<1>1. "slip" \notin mishaps => DraftsHold /\ WrittenHolds
  BY DEF CacheHolds
<1>2. None \notin Dumps /\ Torn \notin Dumps /\ None # Torn
  BY FilesAssumption DEF Dumps
<1> USE DEF worldVars, cacheVars, boxVars, serverVars, Calm, Quiet, pastVars, Troubles,
            StartPlaces, Refreshing, Ended, Active, Running, Connectable, Reachable,
            Unsettled, Untroubled, OwnSide, Mine, Knows, StampHolds, StampKnown, TornKnown,
            FilesKnown, BoxKnown, LaunchesKnown, EnsuredKnown, SourcedKnown, Outdates
<1>3. CASE Ensures(p)
  <2>1. PICK place :
          /\ Goes(p, place)
          /\ \/ place = "eval"
             \/ /\ place = IF live[p] THEN "stop" ELSE "launch"
                /\ Freshness(home[p]) = "fresh"
    BY <1>3 DEF Ensures, Ensured, Verdicts
  <2>2. at[p] = "ensure" /\ Quiet /\ UNCHANGED worldVars
    BY <1>3 DEF Ensures
  <2>3. /\ at'[p] = place /\ cmd'[p] = cmd[p] /\ home'[p] = home[p] /\ live'[p] = live[p]
        /\ since'[p] = since[p]
    BY <2>1, GoesFacts
  <2>4. Freshness(home[p]) = "fresh" /\ "slip" \notin mishaps =>
          /\ hash = files[home[p]]
          /\ dump = <<home[p], files[home[p]]>> \/ ("cut" \in mishaps /\ dump = Torn)
    BY <2>2, FreshForOne
  <2> QED BY <2>1, <2>2, <2>3, <2>4
<1>4. CASE Evaluates(p) \/ Digests(p)
  <2>1. PICK place \in {"truncate", "store"} :
          ReadsFiles(p, place) /\ (place = "store" <=> at[p] = "digest")
    BY <1>4 DEF Evaluates, Digests
  <2>2. at'[p] = place
    BY <2>1 DEF ReadsFiles, CtlTypeOK
  <2> QED BY <1>4, <2>1, <2>2 DEF Evaluates, Digests, ReadsFiles
<1>5. CASE Truncates(p)
  <2>1. /\ at[p] = "truncate" /\ dump' = Torn /\ Quiet
        /\ UNCHANGED <<files, hash, stamp, boxVars, serverVars, sock>>
    BY <1>5 DEF Truncates
  <2>2. /\ at'[p] = "write" /\ cmd'[p] = cmd[p] /\ home'[p] = home[p] /\ live'[p] = live[p]
        /\ since'[p] = since[p]
    BY <1>5, GoesFacts DEF Truncates
  <2>3. home[p] \in Roots
    BY DEF CtlTypeOK
  <2> QED BY <1>2, <2>1, <2>2, <2>3
<1>6. CASE Writes(p)
  <2>1. /\ at[p] = "write" /\ Goes(p, "digest") /\ dump = Torn
        /\ dump' = <<home[p], draft[p]>>
    BY <1>2, <1>6 DEF Writes
  <2>2. dump' \in Dumps /\ dump'[1] = home[p] /\ stamp = home[p] /\ home[p] \in Roots
    BY <2>1 DEF Dumps, CtlTypeOK
  <2> QED BY <1>2, <1>6, <2>1, <2>2, GoesFacts DEF Writes
<1>7. CASE Stores(p)
  <2>1. PICK place : Goes(p, place) /\ place = IF live[p] THEN "stop" ELSE "launch"
    BY <1>7 DEF Stores, Ensured
  <2>2. /\ at[p] = "store" /\ hash' = draft[p] /\ Quiet
        /\ UNCHANGED <<files, dump, stamp, boxVars, serverVars, sock>>
    BY <1>7 DEF Stores
  <2>3. "slip" \notin mishaps =>
          draft[p] = files[home[p]] /\ dump = <<home[p], files[home[p]]>>
    BY <1>1, <2>2 DEF DraftsHold, WrittenHolds
  <2>4. /\ at'[p] = place /\ cmd'[p] = cmd[p] /\ home'[p] = home[p] /\ live'[p] = live[p]
        /\ since'[p] = since[p]
    BY <2>1, GoesFacts
  <2> QED BY <1>2, <2>1, <2>2, <2>3, <2>4
<1> QED BY <1>3, <1>4, <1>5, <1>6, <1>7

\* After a stop, that worked or troubles the process.
LEMMA AfterStopOwn ==
  ASSUME CtlTypeOK, NEW p \in Ctls, OwnSide(p), NEW worked \in BOOLEAN, AfterStop(p, worked),
         at[p] \in {"stop", "stopping"}, UNCHANGED worldVars,
         (Calm /\ ~Running) \/ Troubles(p)
  PROVE  Mine(p)'
<1> USE DEF worldVars, cacheVars, boxVars, serverVars, Calm, Troubles,
            StartPlaces, CleanPlaces, Refreshing, Ended, Active, Running, Connectable,
            Reachable, Unsettled, Untroubled, OwnSide, Mine, Knows, StampHolds, StampKnown,
            TornKnown, FilesKnown, BoxKnown, LaunchesKnown, EnsuredKnown, SourcedKnown,
            Outdates, Dumps, Fits
<1>1. CASE Succeeds(p)
  BY <1>1, EndsOwn
<1>2. ASSUME NEW place, Goes(p, place),
             \/ cmd[p] = "stop" /\ place = "reprobe"
             \/ cmd[p] = "init" /\ place = "launch"
             \/ cmd[p] = "clean" /\ place = "cleanRemove"
      PROVE  Mine(p)'
  <2>1. /\ at'[p] = place /\ cmd'[p] = cmd[p] /\ home'[p] = home[p] /\ live'[p] = live[p]
        /\ since'[p] = since[p]
    BY <1>2, GoesFacts
  <2> QED BY <1>2, <2>1
<1>3. CASE /\ cmd[p] = "restart"
           /\ at' = [at EXCEPT ![p] = "guard"]
           /\ cmd' = [cmd EXCEPT ![p] = "init"]
           /\ UNCHANGED <<home, live, draft, since, aim>>
  <2>1. at'[p] = "guard" /\ live'[p] = FALSE
    BY <1>3 DEF CtlTypeOK
  <2> QED BY <1>3, <2>1
<1> QED BY <1>1, <1>2, <1>3 DEF AfterStop

\* The steps of a stop.
LEMMA StoppingOwn ==
  ASSUME CtlTypeOK, NEW p \in Ctls, OwnSide(p),
         \/ StopProbes(p) \/ Stops(p) \/ StopReturns(p) \/ StopErrs(p) \/ StopProbesAgain(p)
  PROVE  Mine(p)'
<1> USE DEF worldVars, cacheVars, boxVars, serverVars, Calm, Quiet, pastVars, Troubles,
            StartPlaces, Refreshing, Ended, Active, Running, Connectable, Reachable,
            Unsettled, Untroubled, OwnSide, Mine, Knows, StampHolds, StampKnown, TornKnown,
            FilesKnown, BoxKnown, LaunchesKnown, EnsuredKnown, SourcedKnown, Outdates, Dumps
<1>1. CASE StopProbes(p)
  <2>1. PICK yes \in BOOLEAN :
          /\ Sees(yes)
          /\ \/ yes /\ Goes(p, "stop")
             \/ ~yes /\ cmd[p] = "stop" /\ Succeeds(p)
             \/ ~yes /\ cmd[p] = "clean" /\ Goes(p, "cleanRemove")
    BY <1>1 DEF StopProbes
  <2>2. at[p] = "stopProbe" /\ UNCHANGED worldVars
    BY <1>1 DEF StopProbes
  <2>3. (yes = Running /\ Calm) \/ (yes = FALSE /\ Running /\ Troubles(p))
    BY <2>1, <2>2, SeesTruly
  <2>4. CASE ~yes /\ Succeeds(p)
    BY <2>2, <2>3, <2>4, EndsOwn
  <2>5. ASSUME NEW place, Goes(p, place),
               (yes /\ place = "stop") \/ (~yes /\ place = "cleanRemove" /\ cmd[p] = "clean")
        PROVE  Mine(p)'
    BY <2>2, <2>3, <2>5, GoesFacts DEF Fits
  <2> QED BY <2>1, <2>4, <2>5
<1>2. CASE Stops(p)
  <2>1. CASE Running
    <3>1. /\ at' = [at EXCEPT ![p] = "stopping"]
          /\ aim' = [aim EXCEPT ![p] = launches]
          /\ UNCHANGED <<cmd, home, live, draft, since>>
      BY <1>2, <2>1 DEF Stops
    <3>2. at'[p] = "stopping" /\ aim'[p] = launches
      BY <3>1 DEF CtlTypeOK
    <3> QED BY <1>2, <2>1, <3>1, <3>2 DEF Stops
  <2>2. CASE ~Running
    <3>1. AfterStop(p, box = "exited") /\ UNCHANGED worldVars /\ Calm /\ at[p] = "stop"
      BY <1>2, <2>2 DEF Stops
    <3> QED BY <2>2, <3>1, AfterStopOwn
  <2> QED BY <2>1, <2>2
<1>3. CASE StopReturns(p)
  <2>1. ~Running
    BY <1>3 DEF StopReturns
  <2> QED BY <1>3, <2>1, AfterStopOwn DEF StopReturns
<1>4. CASE StopErrs(p)
  <2>1. Troubles(p) /\ AfterStop(p, FALSE) /\ UNCHANGED worldVars
    BY <1>4 DEF StopErrs, Fault
  <2> QED BY <1>4, <2>1, AfterStopOwn DEF StopErrs
<1>5. CASE StopProbesAgain(p)
  <2>1. PICK yes \in BOOLEAN : Sees(yes) /\ IF yes THEN GivesUp(p) ELSE Succeeds(p)
    BY <1>5 DEF StopProbesAgain
  <2>2. at[p] = "reprobe" /\ UNCHANGED worldVars
    BY <1>5 DEF StopProbesAgain
  <2>3. (yes = Running /\ Calm) \/ (yes = FALSE /\ Running /\ Troubles(p))
    BY <2>1, <2>2, SeesTruly
  <2> QED BY <2>1, <2>2, <2>3, EndsOwn
<1> QED BY <1>1, <1>2, <1>3, <1>4, <1>5

\* The steps of a launch up to its container.
LEMMA LaunchingOwn ==
  ASSUME CtlTypeOK, NEW p \in Ctls, OwnSide(p),
         \/ Launches(p) \/ Inspects(p) \/ TestsExistence(p) \/ Removes(p) \/ Runs(p)
         \/ Boots(p) \/ Reinspects(p)
  PROVE  Mine(p)'
<1>1. home[p] \in Roots /\ launches \in Nat
  BY DEF CtlTypeOK, ContainerTypeOK
<1> USE DEF worldVars, cacheVars, boxVars, serverVars, Calm, Quiet, pastVars, Troubles,
            StartPlaces, CleanPlaces, Fits, Refreshing, Ended, Active, Running, Connectable,
            Reachable, Unsettled, Untroubled, OwnSide, Mine, Knows, StampHolds, StampKnown,
            TornKnown, FilesKnown, BoxKnown, LaunchesKnown, EnsuredKnown, SourcedKnown,
            Outdates, Dumps
<1>2. CASE Launches(p)
  <2>1. CASE dump = None /\ GivesUp(p)
    BY <1>2, <2>1, EndsOwn DEF Launches
  <2>2. CASE Goes(p, "inspect")
    BY <1>2, <2>2, GoesFacts DEF Launches
  <2> QED BY <1>2, <2>1, <2>2 DEF Launches
<1>3. CASE Inspects(p)
  <2>1. PICK yes \in BOOLEAN : Sees(yes) /\ Goes(p, IF yes THEN "run" ELSE "exists")
    BY <1>3 DEF Inspects
  <2>2. PICK place : Goes(p, place) /\ place = IF yes THEN "run" ELSE "exists"
    BY <2>1
  <2>3. at[p] = "inspect" /\ UNCHANGED worldVars
    BY <1>3 DEF Inspects
  <2>4. (yes = Running /\ Calm) \/ (yes = FALSE /\ Running /\ Troubles(p))
    BY <2>1, <2>3, SeesTruly
  <2> QED BY <2>2, <2>3, <2>4, GoesFacts
<1>4. CASE TestsExistence(p)
  <2>1. CASE Quiet
    <3>1. PICK place :
            Goes(p, place) /\ (place = "run" \/ (place = "remove" /\ box # "absent"))
              /\ (place = "run" => box = "absent" \/ Troubles(p))
      BY <1>4, <2>1 DEF TestsExistence, Fault
    <3> QED BY <1>4, <2>1, <3>1, GoesFacts DEF TestsExistence
  <2>2. CASE Goes(p, "run") /\ Troubles(p)
    BY <1>4, <2>2, GoesFacts DEF TestsExistence
  <2> QED BY <1>4, <2>1, <2>2 DEF TestsExistence, Fault
<1>5. CASE Removes(p)
  <2>1. PICK place :
          /\ Goes(p, place)
          /\ \/ at[p] = "remove" /\ place = "run"
             \/ at[p] = "removeDead" /\ place = "rerun"
             \/ at[p] = "cleanRemove" /\ place = "dropEnv"
    BY <1>5 DEF Removes, AfterRemove
  <2>2. CASE Removed /\ Quiet
    BY <1>5, <2>1, <2>2, GoesFacts DEF Removes, Removed
  <2>3. CASE UNCHANGED <<box, maker>> /\ Troubles(p)
    <3>1. /\ at'[p] = place /\ cmd'[p] = cmd[p] /\ home'[p] = home[p]
          /\ since'[p] = since[p]
      BY <2>1, GoesFacts
    <3>2. at[p] \in {"remove", "removeDead", "cleanRemove"} /\ UNCHANGED <<dump, hash, stamp>>
      BY <1>5, <2>1 DEF Removes
    <3>3. StampHolds' /\ TornKnown(p)' /\ SourcedKnown(p)'
      BY <1>5, <2>1, <2>3, <3>1 DEF Removes
    <3>4. StampKnown(p)' /\ FilesKnown(p)'
      BY <2>1, <3>1, <3>2
    <3>5. BoxKnown(p)'
      BY <2>1, <2>3, <3>1, <3>2
    <3>6. LaunchesKnown(p)' /\ EnsuredKnown(p)'
      BY <1>5, <2>1, <2>3, <3>1 DEF Removes
    <3> QED BY <3>3, <3>4, <3>5, <3>6
  <2>4. Fault({"other"}) => Troubles(p)
    BY <2>1, FaultTroubles
  <2> QED BY <1>5, <2>2, <2>3, <2>4 DEF Removes
<1>6. CASE Runs(p)
  <2>1. CASE box = "absent"
    BY <1>6, <2>1, GoesFacts DEF Runs
  <2>2. CASE box # "absent" /\ at[p] = "run"
    BY <1>6, <2>2, GoesFacts DEF Runs
  <2>3. CASE box # "absent" /\ at[p] = "rerun"
    BY <1>6, <2>3, EndsOwn DEF Runs
  <2> QED BY <1>6, <2>1, <2>2, <2>3 DEF Runs
<1>7. CASE Boots(p)
  <2>1. CASE box = "created" /\ maker = p
    <3>1. Started(p, home[p]) /\ Goes(p, "poll") /\ Quiet /\ UNCHANGED <<files, cacheVars>>
      BY <1>7, <2>1 DEF Boots
    <3>2. /\ launches' = launches + 1 /\ box' = "running" /\ server' = "sourcing"
          /\ mounted' = home[p] /\ termed' = FALSE
      BY <3>1 DEF Started
    <3>3. at'[p] = "poll" /\ home'[p] = home[p] /\ since'[p] = since[p] /\ cmd'[p] = cmd[p]
      BY <3>1, GoesFacts
    <3>4. at[p] = "boot"
      BY <1>7 DEF Boots
    <3>5. since[p] = launches
      BY <3>4
    <3>6. launches' > since'[p]
      BY <1>1, <3>2, <3>3, <3>5
    <3> QED BY <1>1, <3>1, <3>2, <3>3, <3>4, <3>6
  <2>2. CASE ~(box = "created" /\ maker = p)
    BY <1>7, <2>2, EndsOwn DEF Boots
  <2> QED BY <2>1, <2>2
<1>8. CASE Reinspects(p)
  <2>1. PICK yes \in BOOLEAN :
          Sees(yes) /\ IF yes THEN Succeeds(p) ELSE Goes(p, "removeDead")
    BY <1>8 DEF Reinspects
  <2>2. at[p] = "reinspect" /\ UNCHANGED worldVars
    BY <1>8 DEF Reinspects
  <2>3. (yes = Running /\ Calm) \/ (yes = FALSE /\ Running /\ Troubles(p))
    BY <2>1, <2>2, SeesTruly
  <2>4. CASE Succeeds(p)
    BY <2>2, <2>3, <2>4, EndsOwn
  <2>5. CASE Goes(p, "removeDead")
    BY <2>2, <2>3, <2>5, GoesFacts
  <2> QED BY <2>1, <2>4, <2>5
<1> QED BY <1>2, <1>3, <1>4, <1>5, <1>6, <1>7, <1>8

\* The steps of a launch that waits for its server.
LEMMA PollingOwn ==
  ASSUME CtlTypeOK, NEW p \in Ctls, OwnSide(p), Polls(p) \/ PollsSocket(p)
  PROVE  Mine(p)'
<1> USE DEF worldVars, cacheVars, boxVars, serverVars, Calm, Quiet, pastVars, Troubles,
            StartPlaces, Refreshing, Ended, Active, Running, Connectable, Reachable,
            Unsettled, Untroubled, OwnSide, Mine, Knows, StampHolds, StampKnown, TornKnown,
            FilesKnown, BoxKnown, LaunchesKnown, EnsuredKnown, SourcedKnown, Outdates, Dumps
<1>1. at[p] \in {"poll", "pollConnect"} /\ UNCHANGED worldVars
  BY DEF Polls, PollsSocket
<1>2. CASE GivesUp(p) /\ mishaps' # {} /\ mishaps \subseteq mishaps'
  BY <1>1, <1>2, EndsOwn
<1>3. CASE Succeeds(p) /\ Quiet /\ Connectable
  BY <1>1, <1>3, EndsOwn
<1>4. ASSUME NEW place \in {"poll", "pollConnect"}, Goes(p, place), Quiet \/ Troubles(p)
      PROVE  Mine(p)'
  BY <1>1, <1>4, GoesFacts
<1>5. Misses(p) => \/ Goes(p, "poll") /\ Quiet
                   \/ GivesUp(p) /\ mishaps' # {} /\ mishaps \subseteq mishaps'
  BY DEF Misses, Late, Marks
<1>6. Fault({"blind", "other"}) => Troubles(p)
  BY <1>1, FaultTroubles
<1> QED BY <1>2, <1>3, <1>4, <1>5, <1>6 DEF Polls, PollsSocket

\* The steps of a clean after its container.
LEMMA DropsOwn ==
  ASSUME CtlTypeOK, NEW p \in Ctls, OwnSide(p), Drops(p)
  PROVE  Mine(p)'
<1>1. UNCHANGED <<files, boxVars, serverVars, disturbed>> /\ mishaps \subseteq mishaps'
  BY DEF Drops, Marks
<1>2. None \notin Dumps /\ None # Torn
  BY FilesAssumption DEF Dumps
<1> USE DEF boxVars, serverVars, StartPlaces, Refreshing, Ended, Active, Running,
            Connectable, Reachable, Unsettled, Untroubled, OwnSide, Mine, Knows, StampHolds,
            StampKnown, TornKnown, FilesKnown, BoxKnown, LaunchesKnown, EnsuredKnown,
            SourcedKnown, Outdates
<1>3. CASE at[p] = "dropEnv"
  <2>1. dump' = None /\ UNCHANGED <<hash, stamp, mishaps>> /\ Goes(p, "dropHash")
    BY <1>3 DEF Drops, AfterDrop, Marks
  <2> QED BY <1>1, <1>2, <1>3, <2>1, GoesFacts
<1>4. CASE at[p] = "dropHash"
  <2>1. hash' = None /\ UNCHANGED <<dump, stamp, mishaps>> /\ Goes(p, "dropStamp")
    BY <1>4 DEF Drops, AfterDrop, Marks
  <2> QED BY <1>1, <1>2, <1>4, <2>1, GoesFacts
<1>5. CASE at[p] = "dropStamp"
  <2>1. /\ stamp' = None /\ UNCHANGED <<dump, hash>> /\ Goes(p, "dropSocket")
        /\ Running => "orphan" \in mishaps'
    BY <1>5 DEF Drops, AfterDrop, Marks
  <2>2. /\ at'[p] = "dropSocket" /\ cmd'[p] = cmd[p] /\ home'[p] = home[p]
        /\ since'[p] = since[p]
    BY <2>1, GoesFacts
  <2>3. StampHolds'
    BY <1>1, <1>2, <1>5, <2>1
  <2> QED BY <1>1, <1>2, <1>5, <2>1, <2>2, <2>3
<1>6. CASE at[p] = "dropSocket"
  <2>1. UNCHANGED <<dump, hash, stamp, mishaps>> /\ Succeeds(p)
    BY <1>6 DEF Drops, Marks
  <2>2. at'[p] \in {"idle", "ok"}
    BY <2>1, EndsFacts
  <2> QED BY <1>1, <1>2, <1>6, <2>1, <2>2
<1> QED BY <1>3, <1>4, <1>5, <1>6 DEF Drops

\* A process that breaks off leaves a piece of a file at most, and rest if
\* nothing but a call of its own has failed.
LEMMA BreaksOwn ==
  ASSUME CtlTypeOK, NEW p \in Ctls, OwnSide(p), Fails(p) \/ Killed(p)
  PROVE  Mine(p)'
<1>1. /\ UNCHANGED <<files, dump, boxVars, serverVars, sock>>
      /\ stamp' = stamp \/ at[p] = "claim"
      /\ GivesUp(p) /\ mishaps \subseteq mishaps'
      /\ at[p] \in Refreshing => "cut" \in mishaps'
      /\ mishaps' = {} =>
           at[p] \in {"guard", "claim", "eval", "launch", "run", "rerun", "boot", "dropEnv",
                      "dropHash", "dropStamp", "dropSocket"}
  BY DEF Fails, Killed, BreaksOff, Fault
<1>2. at'[p] \in {"idle", "ok"}
  BY <1>1, EndsFacts DEF Ended
<1>3. None \notin Roots /\ None \notin Dumps
  BY FilesAssumption DEF Dumps
<1>4. dump \in Dumps \cup {None, Torn}
  BY DEF CtlTypeOK, ContainerTypeOK
<1> USE DEF boxVars, serverVars, StartPlaces, Refreshing, Ended, Active, Running,
            Connectable, Reachable, Unsettled, Untroubled, OwnSide, Mine, Knows, StampHolds,
            StampKnown, TornKnown, FilesKnown, BoxKnown, LaunchesKnown, EnsuredKnown,
            SourcedKnown, Outdates
<1>5. StampHolds'
  BY <1>1, <1>3, <1>4 DEF Dumps
<1> QED BY <1>1, <1>2, <1>5

LEMMA ClaimsStampOwn ==
  ASSUME CtlTypeOK, NEW p \in Ctls, OwnSide(p), ClaimsStamp(p)
  PROVE  Mine(p)'
<1>1. home[p] \in Roots /\ None \notin Roots /\ None \notin Dumps
  BY FilesAssumption DEF CtlTypeOK, Dumps
<1>2. dump = None
  BY <1>1 DEF ClaimsStamp, OwnSide, Mine, Knows, StampHolds, StampKnown
<1> QED
  BY <1>1, <1>2, GoesFacts
  DEF ClaimsStamp, boxVars, serverVars, Quiet, pastVars, StartPlaces, Refreshing, Ended,
      Active, Running, Connectable, Reachable, Unsettled, Untroubled, OwnSide, Mine, Knows,
      StampHolds, StampKnown, TornKnown, FilesKnown, BoxKnown, LaunchesKnown, EnsuredKnown,
      SourcedKnown, Outdates

\* What a process brings in it takes along, whatever its step.
LEMMA ProcessOwn ==
  ASSUME CtlTypeOK, CacheHolds, NobodyElse, "roots" \notin mishaps,
         NEW p \in Ctls, OwnSide(p), Step(p) \/ StopErrs(p) \/ Fails(p) \/ Killed(p)
  PROVE  Mine(p)'
BY StartingOwn, ClaimsStampOwn, EnsuringOwn, StoppingOwn, LaunchingOwn, PollingOwn,
   DropsOwn, BreaksOwn
DEF Step

LEMMA ProcessOrder ==
  ASSUME OrderInv, OneByOne, NEW p \in Ctls, Step(p) \/ StopErrs(p) \/ Fails(p) \/ Killed(p)
  PROVE  OrderParts'
<1>1. Moves(p) /\ Active(p)
  BY ProcessMoves DEF OrderInv, CtlInv, Moves
<1>2. OrderParts
  BY DEF OrderInv, OrderParts, Knows
<1>3. OwnSide(p)
  BY <1>1, <1>2, OwnView DEF OwnSide, OrderInv, CtlInv, PlacesFit, LivesFit
<1>4. "roots" \notin mishaps /\ NobodyElse
  BY <1>2 DEF OneByOne, OrderParts
<1> QED BY <1>1, <1>2, <1>3, <1>4, ProcessOwn, OwnStep DEF OrderInv, CtlInv

\* A command that begins finds what a project is like at rest.
LEMMA BeginOrder ==
  ASSUME OrderInv, OneByOne', NEW p \in Ctls, Begin(p)
  PROVE  OrderParts'
<1>1. PICK c \in Cmds, r \in Roots :
        /\ cmd' = [cmd EXCEPT ![p] = c]
        /\ home' = [home EXCEPT ![p] = r]
        /\ at' = [at EXCEPT ![p] = FirstPlace[c]]
  BY DEF Begin
<1>2. /\ UNCHANGED <<worldVars, live, draft, aim>>
      /\ since' = [since EXCEPT ![p] = launches]
      /\ disturbed' = IF Unsettled THEN disturbed \cup {p} ELSE disturbed \ {p}
      /\ mishaps \subseteq mishaps'
      /\ (\E q \in Ctls : Active(q)) => "overlap" \in mishaps'
      /\ ~Active(p)
  BY DEF Begin
<1>3. (\A q \in Ctls : ~Active(q)) /\ OneByOne
  BY <1>2 DEF OneByOne
<1>4. OrderParts
  BY <1>3 DEF OrderInv, OrderParts, Knows
<1>5. /\ at'[p] = FirstPlace[c] /\ cmd'[p] = c /\ home'[p] = r /\ since'[p] = launches
      /\ live'[p] = live[p]
      /\ \A q \in Ctls \ {p} : at'[q] = at[q]
  BY <1>1, <1>2 DEF OrderInv, CtlInv, CtlTypeOK
<1>6. FirstPlace[c] \in {"guard", "stopProbe", "stop"} /\ (FirstPlace[c] = "stop" => c = "restart")
  BY CtlAssumption DEF FirstPlace
<1>7. ASSUME NEW q \in Ctls PROVE at[q] \in {"idle", "ok"} /\ ~Outdates(q) /\ at[q] # "write"
  BY <1>3, <1>7 DEF Active, Ended, Outdates
<1> USE DEF worldVars, cacheVars, boxVars, serverVars
<1>8. StampHolds'
  BY <1>2, <1>4 DEF OrderParts, StampHolds, Running, Dumps
<1>9. NobodyElse'
  BY <1>3, <1>5 DEF NobodyElse, Active
<1>10. TornHolds'
  BY <1>2, <1>4, <1>7 DEF OrderParts, TornHolds
<1>11. SourcedHolds'
  <2>1. mishaps' = {} =>
          ~Unsettled /\ (Running /\ server # "sourcing" => sourced = dump)
    BY <1>2, <1>3, <1>4, <1>7 DEF OrderParts, SourcedHolds
  <2> QED BY <1>2, <2>1 DEF SourcedHolds, Unsettled, Running, Connectable
<1>12. ASSUME NEW q \in Ctls PROVE Knows(q)'
  <2>1. CASE q = p
    <3>1. StampKnown(p)' /\ FilesKnown(p)'
      BY <1>2, <1>5, <1>6 DEF StampKnown, FilesKnown, StartPlaces, Refreshing
    <3>2. BoxKnown(p)'
      <4>1. Untroubled(p)' => ~Unsettled
        BY <1>2, <1>3, <1>4 DEF Untroubled, OrderParts, SourcedHolds
      <4> QED BY <1>2, <1>5, <1>6, <4>1 DEF BoxKnown, Refreshing, Unsettled, Running, Connectable
    <3>3. LaunchesKnown(p)' /\ EnsuredKnown(p)'
      BY <1>2, <1>5, <1>6 DEF LaunchesKnown, EnsuredKnown
    <3> QED BY <2>1, <3>1, <3>2, <3>3 DEF Knows
  <2>2. CASE q # p
    BY <1>5, <1>7, <2>2, IdleKnows DEF Ended
  <2> QED BY <2>1, <2>2
<1> QED BY <1>8, <1>9, <1>10, <1>11, <1>12 DEF OrderParts

\* The server comes up, goes down or dies: only who stops it, who waits for it
\* or whom its death disturbs has its part in that.
LEMMA ServerOrder ==
  ASSUME OrderInv, OneByOne, InitProcessStep \/ Crash
  PROVE  OrderParts'
<1>1. UNCHANGED <<files, cacheVars, at, localVars>>
  BY DEF InitProcessStep, Crash
<1>2. OrderParts /\ ContainerTypeOK /\ (termed => Running)
  BY DEF OrderInv, OrderParts, Knows, CtlInv, CtlTypeOK
<1>3. /\ server # "none" /\ Running
      /\ mishaps \subseteq mishaps'
      /\ \A p \in Ctls : Active(p) =>
           (Unsettled /\ Calm) \/ (p \in disturbed' /\ mishaps' # {})
      /\ mishaps' = {} => Unsettled
      /\ disturbed \subseteq disturbed'
      /\ launches' = launches /\ (termed' => termed /\ box' = "running")
      /\ \/ box' = "exited" /\ server' = "none"
         \/ /\ box' = "running" /\ mounted' = mounted
            /\ sourced' = dump \/ (server # "sourcing" /\ sourced' = sourced)
  <2>1. CASE InitProcessStep
    BY <1>2, <2>1 DEF InitProcessStep, InitProcess, Sources, ProbesFile, ClearsFile, Binds,
       Drains, Quits, Exits, ServerGoes, Quiet, pastVars, boxVars, Calm, Unsettled,
       Connectable, Running, ContainerTypeOK
  <2>2. CASE Crash
    BY <1>2, <2>2 DEF Crash, Dies, Exits, Fault, Quiet, pastVars, Calm, Unsettled, Running,
       ContainerTypeOK
  <2> QED BY <2>1, <2>2
<1> USE DEF cacheVars, localVars
<1>4. NobodyElse' /\ TornHolds' /\ StampHolds'
  BY <1>1, <1>2, <1>3 DEF OrderParts, NobodyElse, TornHolds, StampHolds, Active, Running, Dumps
<1>5. SourcedHolds'
  <2>1. mishaps' = {} => \E p \in Ctls : Active(p)'
    BY <1>1, <1>2, <1>3 DEF OrderParts, SourcedHolds, Active, Calm
  <2>2. (\E p \in Ctls : Outdates(p)) => \E p \in Ctls : Outdates(p)'
    BY <1>1 DEF Outdates
  <2>3. mishaps' = {} /\ Running' /\ server' # "sourcing" =>
          sourced' = dump \/ \E p \in Ctls : Outdates(p)
    BY <1>2, <1>3 DEF OrderParts, SourcedHolds, Running
  <2> QED BY <1>1, <2>1, <2>2, <2>3 DEF SourcedHolds
<1>6. ASSUME NEW p \in Ctls PROVE Knows(p)'
  <2>1. Knows(p)
    BY <1>2 DEF OrderParts
  <2>2. StampKnown(p)' /\ FilesKnown(p)'
    BY <1>1, <2>1 DEF Knows, StampKnown, FilesKnown
  <2>3. BoxKnown(p)'
    <3> SUFFICES ASSUME Untroubled(p)', Active(p) PROVE BoxKnown(p)'
      BY <1>1 DEF BoxKnown, Active, Ended, Refreshing
    <3>1. Calm /\ Untroubled(p) /\ Unsettled
      BY <1>3 DEF Untroubled, Calm
    <3> QED
      BY <1>1, <1>3, <2>1, <3>1 DEF Knows, BoxKnown, Unsettled, Reachable, Connectable, Running
  <2>4. LaunchesKnown(p)'
    BY <1>1, <1>3, <2>1 DEF Knows, LaunchesKnown, Active, Running
  <2>5. EnsuredKnown(p)'
    BY <1>1, <1>3, <2>1 DEF Knows, EnsuredKnown
  <2> QED BY <2>2, <2>3, <2>4, <2>5 DEF Knows
<1> QED BY <1>4, <1>5, <1>6 DEF OrderParts

\* An edit disturbs who works on the edited files.
LEMMA EditOrder ==
  ASSUME OrderInv, OneByOne, Edit
  PROVE  OrderParts'
<1>1. /\ UNCHANGED <<cacheVars, boxVars, serverVars, sock, at, localVars>>
      /\ disturbed \subseteq disturbed' /\ mishaps \subseteq mishaps'
  BY DEF Edit
<1>2. OrderParts
  BY DEF OrderInv, OrderParts, Knows
<1>3. ASSUME NEW p \in Ctls, p \notin disturbed', Active(p)
      PROVE  files'[home[p]] = files[home[p]]
  BY <1>3 DEF Edit, OrderInv, CtlInv, CtlTypeOK, ContainerTypeOK
<1> USE DEF cacheVars, boxVars, serverVars, localVars
<1>4. NobodyElse' /\ TornHolds' /\ StampHolds' /\ SourcedHolds'
  BY <1>1, <1>2 DEF OrderParts, NobodyElse, TornHolds, StampHolds, SourcedHolds, Outdates,
     Active, Running, Unsettled, Connectable, Dumps
<1>5. ASSUME NEW p \in Ctls PROVE Knows(p)'
  <2>1. Knows(p)
    BY <1>2 DEF OrderParts
  <2>2. StampKnown(p)' /\ FilesKnown(p)' /\ BoxKnown(p)' /\ LaunchesKnown(p)'
    BY <1>1, <2>1 DEF Knows, StampKnown, FilesKnown, BoxKnown, LaunchesKnown, Untroubled,
       Unsettled, Reachable, Connectable, Running, Active, Dumps
  <2>3. EnsuredKnown(p)'
    BY <1>1, <1>3, <2>1 DEF Knows, EnsuredKnown, Active, Ended
  <2> QED BY <2>2, <2>3 DEF Knows
<1> QED BY <1>4, <1>5 DEF OrderParts

\* Only a running container is told to stop, and its end is the end of that.
LEMMA TermedStep ==
  ASSUME CtlTypeOK, termed => Running, CtlNext
  PROVE  (termed => Running)'
<1> USE DEF Running, worldVars, boxVars, serverVars
<1>1. ASSUME NEW p \in Ctls, Stops(p) \/ Removes(p) \/ Runs(p) \/ Boots(p)
      PROVE  (termed => Running)'
  BY <1>1 DEF Stops, Removes, Removed, Runs, Boots, Started
<1>2. ASSUME NEW p \in Ctls, Begin(p) \/ StopErrs(p) \/ Fails(p) \/ Killed(p)
      PROVE  UNCHANGED <<box, termed>>
  BY <1>2 DEF Begin, StopErrs, Fails, Killed, BreaksOff
<1>3. ASSUME NEW p \in Ctls, Step(p), ~(Stops(p) \/ Removes(p) \/ Runs(p) \/ Boots(p))
      PROVE  UNCHANGED <<box, termed>>
  BY <1>3 DEF Step, ReadsStamp, ClaimsStamp, ProbesBox, ProbesSocket, Checks, Ensures,
     Evaluates, Truncates, Writes, Digests, Stores, StopProbes, StopReturns,
     StopProbesAgain, Launches, Inspects, TestsExistence, Reinspects, Polls, PollsSocket,
     Drops
<1>4. CASE InitProcessStep \/ Crash \/ Edit
  BY <1>4 DEF InitProcessStep, InitProcess, Sources, ProbesFile, ClearsFile, Binds,
     Drains, Quits, Exits, ServerGoes, Crash, Dies, Edit
<1> QED BY <1>1, <1>2, <1>3, <1>4 DEF CtlNext

LiveFits(p) ==
  live[p] => cmd[p] = "init" /\ at[p] \notin Ended \cup {"guard", "claim", "probe", "connect"}

LEMMA GoesLive ==
  ASSUME CtlTypeOK, NEW p \in Ctls, LiveFits(p), NEW place, Goes(p, place),
         \/ place \notin Ended \cup {"guard", "claim", "probe", "connect"}
         \/ at[p] \in {"guard", "claim", "probe", "connect"}
  PROVE  LiveFits(p)'
BY GoesFacts DEF LiveFits

LEMMA EndsLive ==
  ASSUME CtlTypeOK, NEW p \in Ctls, Succeeds(p) \/ GivesUp(p)
  PROVE  LiveFits(p)'
BY DEF LiveFits, Succeeds, GivesUp, Ends, CtlTypeOK

LEMMA ReadsLive ==
  ASSUME CtlTypeOK, NEW p \in Ctls, LiveFits(p), NEW place \in Refreshing, ReadsFiles(p, place)
  PROVE  LiveFits(p)'
BY DEF LiveFits, ReadsFiles, Refreshing, Ended, CtlTypeOK

LEMMA AfterStopLive ==
  ASSUME CtlTypeOK, NEW p \in Ctls, LiveFits(p), NEW worked \in BOOLEAN, AfterStop(p, worked)
  PROVE  LiveFits(p)'
<1>1. CASE /\ cmd[p] = "restart"
           /\ at' = [at EXCEPT ![p] = "guard"]
           /\ cmd' = [cmd EXCEPT ![p] = "init"]
           /\ UNCHANGED <<home, live, draft, since, aim>>
  BY <1>1 DEF LiveFits, CtlTypeOK
<1>2. CASE \E place \in {"reprobe", "launch", "cleanRemove"} : Goes(p, place)
  BY <1>2, GoesLive DEF Ended
<1> QED BY <1>1, <1>2, EndsLive DEF AfterStop

LEMMA ProcessLive ==
  ASSUME CtlTypeOK, NEW p \in Ctls, LiveFits(p),
         Step(p) \/ StopErrs(p) \/ Fails(p) \/ Killed(p)
  PROVE  LiveFits(p)'
<1> USE GoesLive, EndsLive DEF Ended
<1>1. CASE ReadsStamp(p) \/ ClaimsStamp(p) \/ ProbesBox(p)
  BY <1>1 DEF ReadsStamp, ClaimsStamp, ProbesBox, NotLive
<1>2. CASE ProbesSocket(p)
  <2>1. CASE /\ cmd[p] = "init"
             /\ at' = [at EXCEPT ![p] = "check"]
             /\ UNCHANGED <<cmd, home, draft, since, aim>>
    BY <2>1 DEF LiveFits, CtlTypeOK
  <2> QED BY <1>2, <2>1 DEF ProbesSocket, NotLive
<1>3. CASE Checks(p) \/ Ensures(p) \/ Truncates(p) \/ Writes(p) \/ Stores(p)
  BY <1>3 DEF Checks, Ensures, Ensured, Truncates, Writes, Stores
<1>4. CASE Evaluates(p) \/ Digests(p)
  BY <1>4, ReadsLive DEF Evaluates, Digests, Refreshing
<1>5. CASE StopProbes(p) \/ StopProbesAgain(p)
  BY <1>5 DEF StopProbes, StopProbesAgain
<1>6. CASE StopReturns(p) \/ StopErrs(p)
  BY <1>6, AfterStopLive DEF StopReturns, StopErrs
<1>7. CASE Stops(p)
  <2>1. CASE /\ at' = [at EXCEPT ![p] = "stopping"]
             /\ UNCHANGED <<cmd, home, live, draft, since>>
    BY <2>1 DEF LiveFits, CtlTypeOK
  <2>2. CASE AfterStop(p, box = "exited")
    BY <2>2, AfterStopLive
  <2> QED BY <1>7, <2>1, <2>2 DEF Stops
<1>8. CASE Launches(p) \/ Inspects(p) \/ TestsExistence(p) \/ Runs(p) \/ Boots(p) \/ Reinspects(p)
  BY <1>8 DEF Launches, Inspects, TestsExistence, Runs, Boots, Reinspects
<1>9. CASE Removes(p)
  <2>1. PICK place \in {"run", "rerun", "dropEnv"} : Goes(p, place)
    BY <1>9 DEF Removes, AfterRemove
  <2> QED BY <2>1
<1>10. CASE Polls(p) \/ PollsSocket(p)
  BY <1>10 DEF Polls, PollsSocket, Misses
<1>11. CASE Drops(p)
  <2>1. Succeeds(p) \/ \E place \in {"dropHash", "dropStamp", "dropSocket"} : Goes(p, place)
    BY <1>11 DEF Drops, AfterDrop
  <2> QED BY <2>1
<1>12. CASE Fails(p) \/ Killed(p)
  BY <1>12 DEF Fails, Killed
<1> QED BY <1>1, <1>2, <1>3, <1>4, <1>5, <1>6, <1>7, <1>8, <1>9, <1>10, <1>11, <1>12 DEF Step

LEMMA LivesStep ==
  ASSUME CtlTypeOK, PlacesFit, LivesFit, CtlNext
  PROVE  LivesFit'
<1>1. \A p \in Ctls : LiveFits(p)
  BY DEF LivesFit, LiveFits
<1>2. ASSUME NEW p \in Ctls, Step(p) \/ StopErrs(p) \/ Fails(p) \/ Killed(p), NEW q \in Ctls
      PROVE  LiveFits(q)'
  <2>1. LiveFits(p)'
    BY <1>1, <1>2, ProcessLive
  <2>2. q # p => LiveFits(q)'
    BY <1>1, <1>2, ProcessMoves DEF Moves, Alone, LiveFits
  <2> QED BY <2>1, <2>2
<1>3. ASSUME NEW p \in Ctls, Begin(p), NEW q \in Ctls PROVE LiveFits(q)'
  BY <1>1, <1>3 DEF Begin, LiveFits, Active, CtlTypeOK
<1>4. ASSUME InitProcessStep \/ Crash \/ Edit, NEW q \in Ctls PROVE LiveFits(q)'
  BY <1>1, <1>4 DEF InitProcessStep, Crash, Edit, localVars, LiveFits
<1> QED BY <1>2, <1>3, <1>4 DEF CtlNext, LivesFit, LiveFits

LEMMA OrderInit == CtlInit => OrderInv
<1> SUFFICES ASSUME CtlInit PROVE OrderInv
  OBVIOUS
<1>1. CtlInv
  BY InitInv
<1>2. /\ \A p \in Ctls : at[p] = "idle" /\ live[p] = FALSE
      /\ termed = FALSE /\ mishaps = {}
  BY DEF CtlInit, ContainerInit
<1>3. None \notin Dumps /\ Torn \notin Dumps /\ None # Torn
  BY FilesAssumption DEF Dumps
<1>4. StampHolds /\ dump # Torn /\ ~Unsettled
       /\ (Running /\ server # "sourcing" => sourced = dump)
  <2>1. CASE Unused
    BY <1>2, <1>3, <2>1 DEF Unused, StampHolds, Unsettled, Running
  <2>2. ASSUME NEW r \in Roots, InUse(r)
        PROVE  StampHolds /\ dump # Torn /\ ~Unsettled
                 /\ (Running /\ server # "sourcing" => sourced = dump)
    <3>1. files[r] \in Contents
      BY DEF CtlInit, ContainerInit
    <3>2. dump = <<r, files[r]>> /\ dump \in Dumps
      BY <2>2, <3>1 DEF InUse, Dumps
    <3> QED BY <1>2, <1>3, <2>2, <3>2 DEF InUse, StampHolds, Unsettled, Running, Connectable
  <2> QED BY <2>1, <2>2 DEF CtlInit, ContainerInit
<1>5. NobodyElse /\ TornHolds /\ SourcedHolds /\ LivesFit
  BY <1>2, <1>4 DEF NobodyElse, TornHolds, SourcedHolds, LivesFit, Active, Ended
<1>6. \A p \in Ctls : Knows(p)
  BY <1>2, IdleKnows DEF Ended
<1> QED BY <1>1, <1>2, <1>4, <1>5, <1>6 DEF OrderInv, Knows

LEMMA OrderStep == OrderInv /\ [CtlNext]_ctlVars => OrderInv'
<1> SUFFICES ASSUME OrderInv, [CtlNext]_ctlVars PROVE OrderInv'
  OBVIOUS
<1>1. CtlInv'
  BY InvStep DEF OrderInv
<1>2. CASE CtlNext
  <2>1. LivesFit' /\ (termed => Running)'
    BY <1>2, LivesStep, TermedStep DEF OrderInv, CtlInv
  <2>2. mishaps \subseteq mishaps'
    BY <1>2, NextMishaps DEF OrderInv, CtlInv
  <2>3. ASSUME OneByOne' PROVE OrderParts'
    <3>1. OneByOne
      BY <2>2, <2>3 DEF OneByOne
    <3> QED BY <1>2, <2>3, <3>1, ProcessOrder, BeginOrder, ServerOrder, EditOrder DEF CtlNext
  <2> QED BY <1>1, <2>1, <2>3 DEF OrderInv, OrderParts, Knows
<1>3. CASE UNCHANGED ctlVars
  <2> USE <1>3 DEF ctlVars, worldVars, cacheVars, boxVars, serverVars, localVars, pastVars
  <2>1. LivesFit' /\ (termed => Running)'
    BY DEF OrderInv, LivesFit, Running
  <2>2. OneByOne' => OneByOne
    BY DEF OneByOne
  <2>3. (NobodyElse /\ StampHolds /\ TornHolds /\ SourcedHolds)
          => (NobodyElse /\ StampHolds /\ TornHolds /\ SourcedHolds)'
    BY DEF NobodyElse, StampHolds, TornHolds, SourcedHolds, Outdates, Active, Running,
       Unsettled, Connectable, Dumps
  <2>4. ASSUME NEW p \in Ctls, Knows(p) PROVE Knows(p)'
    BY <2>4 DEF Knows, StampKnown, FilesKnown, BoxKnown, LaunchesKnown, EnsuredKnown,
       Untroubled, Unsettled, Reachable, Connectable, Running, Active, Dumps
  <2> QED BY <1>1, <2>1, <2>2, <2>3, <2>4 DEF OrderInv, Knows
<1> QED BY <1>2, <1>3

\* The inductive invariant of ncap-ctl: besides CtlInv, what one command at a
\* time knows of the stamp, the files, the container and its server wherever it
\* is, whatever earlier ones left behind (src/ctl/mod.rs).
THEOREM OrderInvariant == CtlSpec => []OrderInv
BY OrderInit, OrderStep, PTL DEF CtlSpec

\* Two steps end an init or a start with success that nothing troubles, while
\* one command is given at a time: the one that finds the server live, and the
\* one that waits for it (init, start, start_inner).
LEMMA InitEnds ==
  ASSUME OrderInv, OneByOne, CtlNext, NEW p \in Ctls, Succeeded(p),
         cmd[p] \in {"init", "start"}, p \notin disturbed
  PROVE  ProbesSocket(p) \/ Checks(p) \/ PollsSocket(p)
<1>1. at[p] \notin {"reinspect", "removeDead", "rerun"}
  BY DEF Succeeded, OrderInv, BoxKnown, Untroubled
<1>2. at[p] \notin {"stopProbe", "reprobe", "dropEnv", "dropHash", "dropStamp", "dropSocket"}
  BY DEF OrderInv, CtlInv, PlacesFit, Fits, CleanPlaces
<1>3. /\ Step(p) \/ StopErrs(p)
      /\ at[p] # "ok" /\ at'[p] = "ok" /\ at \in [Ctls -> Places] /\ ~GivesUp(p)
      /\ \A place : Goes(p, place) => place = "ok"
  BY OwnSuccess DEF OrderInv
<1>4. \A worked \in BOOLEAN : ~AfterStop(p, worked)
  BY <1>3 DEF AfterStop
<1>5. ~(StopErrs(p) \/ StopReturns(p) \/ Stops(p) \/ StopProbes(p) \/ StopProbesAgain(p) \/ Drops(p))
  BY <1>2, <1>3, <1>4 DEF StopErrs, StopReturns, Stops, StopProbes, StopProbesAgain, Drops
<1>6. ~(ReadsStamp(p) \/ ClaimsStamp(p) \/ ProbesBox(p) \/ Ensures(p) \/ Truncates(p) \/ Writes(p)
        \/ Stores(p) \/ Launches(p) \/ Inspects(p) \/ TestsExistence(p) \/ Runs(p) \/ Boots(p)
        \/ Reinspects(p) \/ Polls(p))
  BY <1>1, <1>3 DEF ReadsStamp, ClaimsStamp, ProbesBox, NotLive, Ensures, Ensured,
     Truncates, Writes, Stores, Launches, Inspects, TestsExistence, Runs, Boots, Reinspects,
     Polls, Misses
<1>7. ~(Evaluates(p) \/ Digests(p) \/ Removes(p))
  <2>1. ASSUME NEW place \in {"truncate", "store"}, ReadsFiles(p, place) PROVE FALSE
    BY <1>3, <2>1 DEF ReadsFiles
  <2>2. ASSUME Removes(p) PROVE \E place \in {"run", "rerun", "dropEnv"} : Goes(p, place)
    BY <2>2 DEF Removes, AfterRemove
  <2> QED BY <1>3, <2>1, <2>2 DEF Evaluates, Digests
<1> QED BY <1>3, <1>5, <1>6, <1>7 DEF Step

\* What an init, a restart or a start that succeeds delivers, and in which root,
\* if commands come one at a time and nothing disturbs it, for any number of
\* failures and edits before (init, start, start_inner, probe_socket).
THEOREM InitsDeliver == CtlSpec => InitDelivers
<1>1. ASSUME OrderInv, CtlNext, NEW p \in Ctls, Succeeded(p), cmd[p] \in {"init", "start"},
             mishaps \cap {"overlap", "roots"} = {}, p \notin disturbed
      PROVE
        /\ Connectable /\ stamp = home[p]
        /\ mounted = home[p] \/ ("orphan" \in mishaps /\ launches = since[p])
        /\ cmd[p] = "init"
             /\ (mishaps = {} \/ (launches > since[p] /\ "slip" \notin mishaps))
           => \/ sourced = <<home[p], files[home[p]]>>
              \/ "cut" \in mishaps /\ sourced = Torn
  <2> USE DEF Untroubled, Reachable
  <2>1. /\ OneByOne /\ CtlTypeOK /\ CacheHolds /\ NobodyElse /\ StampHolds /\ SourcedHolds
        /\ StampKnown(p) /\ BoxKnown(p) /\ LaunchesKnown(p) /\ EnsuredKnown(p)
        /\ Active(p)
    BY <1>1 DEF OrderInv, CtlInv, OneByOne, Succeeded
  <2>2. Connectable => Running /\ server = "serving"
    BY <2>1 DEF Connectable, Running, CtlTypeOK, ContainerTypeOK
  <2>3. ASSUME NEW place, Goes(p, place) PROVE at'[p] = place
    BY <2>1, <2>3, GoesFacts
  <2>4. at'[p] = "ok" /\ launches \in Nat /\ since[p] \in Nat
    BY <1>1, <2>1 DEF Succeeded, CtlTypeOK, ContainerTypeOK
  <2>5. CASE ProbesSocket(p)
    <3>1. at[p] = "connect" /\ Connectable /\ cmd[p] = "start"
      BY <2>1, <2>3, <2>4, <2>5 DEF ProbesSocket, NotLive, CtlTypeOK
    <3>2. stamp = home[p] /\ launches = since[p]
      BY <2>1, <3>1 DEF StampKnown, LaunchesKnown, StartPlaces
    <3> QED BY <2>1, <2>2, <3>1, <3>2 DEF StampHolds
  <2>6. CASE Checks(p)
    <3>1. at[p] = "check" /\ Freshness(home[p]) = "fresh"
      BY <2>3, <2>4, <2>6 DEF Checks, Verdicts
    <3>2. Connectable /\ stamp = home[p] /\ launches = since[p]
      BY <1>1, <2>1, <3>1 DEF BoxKnown, StampKnown, LaunchesKnown, StartPlaces
    <3>3. mounted = home[p] \/ "orphan" \in mishaps
      BY <2>1, <2>2, <3>2 DEF StampHolds
    <3>4. ASSUME mishaps = {} PROVE sourced = <<home[p], files[home[p]]>>
      <4>1. \A q \in Ctls : ~Outdates(q)
        BY <2>1, <3>1 DEF NobodyElse, Outdates, Active, Ended
      <4>2. sourced = dump
        BY <2>1, <2>2, <3>2, <3>4, <4>1 DEF SourcedHolds
      <4>3. Mine(p)
        BY <1>1, <2>1, OwnView DEF OrderInv, OrderParts, Knows
      <4>4. dump = <<home[p], files[home[p]]>>
        BY <2>1, <3>1, <3>4, <4>3, FreshForOne
      <4> QED BY <4>2, <4>4
    <3> QED BY <2>4, <3>2, <3>3, <3>4
  <2>7. CASE PollsSocket(p)
    <3>1. at[p] = "pollConnect" /\ Connectable
      <4>1. Misses(p) => at'[p] # "ok"
        BY <2>1, <2>3 DEF Misses, GivesUp, Ends, CtlTypeOK
      <4> QED BY <2>4, <2>7, <4>1 DEF PollsSocket
    <3>2. stamp = home[p] /\ mounted = home[p] /\ sourced = dump
      BY <2>1, <2>2, <3>1 DEF StampKnown, LaunchesKnown, StartPlaces
    <3>3. "slip" \notin mishaps /\ cmd[p] = "init" =>
            dump = <<home[p], files[home[p]]>> \/ ("cut" \in mishaps /\ dump = Torn)
      BY <1>1, <2>1, <3>1 DEF EnsuredKnown
    <3> QED BY <3>1, <3>2, <3>3
  <2> QED BY <1>1, <2>1, <2>5, <2>6, <2>7, InitEnds
<1>2. OrderInv /\ [CtlNext]_ctlVars =>
        [\A p \in Ctls :
           /\ Succeeded(p) /\ cmd[p] \in {"init", "start"}
           /\ mishaps \cap {"overlap", "roots"} = {} /\ p \notin disturbed
           =>
             /\ Connectable /\ stamp = home[p]
             /\ mounted = home[p] \/ ("orphan" \in mishaps /\ launches = since[p])
             /\ cmd[p] = "init"
                  /\ (mishaps = {} \/ (launches > since[p] /\ "slip" \notin mishaps))
                => \/ sourced = <<home[p], files[home[p]]>>
                   \/ "cut" \in mishaps /\ sourced = Torn]_ctlVars
  BY <1>1
<1> QED BY <1>2, OrderInvariant, PTL DEF CtlSpec, InitDelivers

\* A clean ends with success by its last step alone.
LEMMA CleanEnds ==
  ASSUME OrderInv, CtlNext, NEW p \in Ctls, Succeeded(p), cmd[p] = "clean"
  PROVE  Drops(p) /\ at[p] = "dropSocket"
<1>1. at[p] \notin StartPlaces /\ at[p] # "reprobe"
  BY DEF OrderInv, CtlInv, PlacesFit, Fits
<1>2. /\ Step(p) \/ StopErrs(p)
      /\ at[p] # "ok" /\ at'[p] = "ok" /\ at \in [Ctls -> Places] /\ ~GivesUp(p)
      /\ \A place : Goes(p, place) => place = "ok"
  BY OwnSuccess DEF OrderInv
<1>3. \A worked \in BOOLEAN : ~AfterStop(p, worked)
  BY <1>2 DEF AfterStop
<1>4. ~(StopErrs(p) \/ StopReturns(p) \/ Stops(p) \/ StopProbes(p) \/ StopProbesAgain(p))
  BY <1>1, <1>2, <1>3 DEF StopErrs, StopReturns, Stops, StopProbes, StopProbesAgain
<1>5. ~Removes(p)
  <2>1. Removes(p) => \E place \in {"run", "rerun", "dropEnv"} : Goes(p, place)
    BY DEF Removes, AfterRemove
  <2> QED BY <1>2, <2>1
<1>6. Drops(p)
  BY <1>1, <1>2, <1>4, <1>5 DEF Step, ReadsStamp, ClaimsStamp, ProbesBox, ProbesSocket, Checks,
     Ensures, Evaluates, Truncates, Writes, Digests, Stores, Launches, Inspects,
     TestsExistence, Runs, Boots, Reinspects, Polls, PollsSocket, StartPlaces, Refreshing
<1>7. at[p] = "dropSocket"
  <2>1. ASSUME at[p] # "dropSocket"
        PROVE  \E place \in {"dropHash", "dropStamp", "dropSocket"} : Goes(p, place)
    BY <1>6, <2>1 DEF Drops, AfterDrop
  <2> QED BY <1>2, <2>1
<1> QED BY <1>6, <1>7

\* A clean that succeeds leaves no container, no cache, no stamp and no socket
\* file, whatever was there, if commands come one at a time and nothing disturbs
\* it (clean).
THEOREM CleansAreComplete == CtlSpec => CleanIsComplete
<1>1. ASSUME OrderInv, CtlNext, NEW p \in Ctls, Succeeded(p), cmd[p] = "clean",
             mishaps \cap {"overlap", "roots"} = {}, p \notin disturbed
      PROVE  /\ box = "absent" /\ dump = None /\ hash = None /\ stamp = None
             /\ sock' = "none"
  <2>1. Drops(p) /\ at[p] = "dropSocket"
    BY <1>1, CleanEnds
  <2>2. sock' = "none"
    BY <2>1 DEF Drops
  <2>3. BoxKnown(p) /\ FilesKnown(p)
    BY <1>1 DEF OrderInv, OneByOne
  <2> QED BY <1>1, <2>1, <2>2, <2>3 DEF BoxKnown, FilesKnown, Untroubled
<1>2. OrderInv /\ [CtlNext]_ctlVars =>
        [\A p \in Ctls :
           /\ Succeeded(p) /\ cmd[p] = "clean"
           /\ mishaps \cap {"overlap", "roots"} = {} /\ p \notin disturbed
           =>
             /\ box = "absent" /\ dump = None /\ hash = None /\ stamp = None
             /\ sock' = "none"]_ctlVars
  BY <1>1
<1> QED BY <1>2, OrderInvariant, PTL DEF CtlSpec, CleanIsComplete
=============================================================================
