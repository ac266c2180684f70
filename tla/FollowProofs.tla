---------------------------- MODULE FollowProofs ----------------------------
(* What is proved of `ncap-ctl log`, for any number of server runs. *)
EXTENDS FollowProps, TLAPS

Items == [log : Logs, piece : 0 .. MaxLines]
Placed == Following \ {"announce"}

LEMMA Bounds == MaxRuns \in Nat /\ MaxLines \in Nat /\ MaxSigs \in Nat
BY FollowAssumption

(***************************************************************************)
(* Where the follow is says what the last piece on stdout is; and a drain  *)
(* that ended while a newer file was there has left nothing behind.        *)
(***************************************************************************)
PlaceFits ==
  /\ up => runs > 0
  /\ at = "start" => out = <<>> /\ pending = {}
  /\ at \in Following \cup {"whole"} => attached \in 1 .. runs
  /\ at \in Following => flag = "follow"
  /\ at = "whole" => flag = "whole" /\ out = <<>>
  /\ \A e \in pending : e > attached

OutFits ==
  /\ at \in Placed => /\ out # <<>> /\ out[Len(out)] = Piece(attached, pos)
                      /\ pos <= written[attached]
  /\ at = "announce" /\ out # <<>> => out[Len(out)].log < attached

DrainFits ==
  at \in {"scan", "next"} /\ attached \in there
    /\ (\E e \in seen : e > attached) => pos = written[attached]

FollowInv == FollowTypeOK /\ PlaceFits /\ OutFits /\ FollowsInOrder /\ DrainFits

LEMMA FollowInitInv == FollowInit => FollowInv
<1> SUFFICES ASSUME FollowInit PROVE FollowInv
  OBVIOUS
<1> USE Bounds DEF FollowInit, Following, Gone, Logs
<1>1. FollowTypeOK
  <2>1. out \in Seq([log : Logs, piece : 0 .. MaxLines])
    OBVIOUS
  <2>2. there \in SUBSET (1 .. runs) /\ seen \in SUBSET (1 .. runs)
    OBVIOUS
  <2>3. attached \in 0 .. runs /\ pos \in 0 .. MaxLines /\ sigs \in 0 .. MaxSigs
    BY Bounds
  <2>4. pending \in SUBSET (1 .. runs)
    OBVIOUS
  <2>5. up \in BOOLEAN /\ guarded \in BOOLEAN /\ caught \in BOOLEAN
    OBVIOUS
  <2> QED BY <2>1, <2>2, <2>3, <2>4, <2>5 DEF FollowTypeOK
<1>2. PlaceFits /\ OutFits /\ DrainFits
  BY DEF PlaceFits, OutFits, DrainFits, Placed
<1>3. FollowsInOrder
  BY DEF FollowsInOrder
<1> QED BY <1>1, <1>2, <1>3 DEF FollowInv

\* A piece that continues the last one keeps stdout in order.
LEMMA AppendKeepsOrder ==
  ASSUME FollowTypeOK, FollowsInOrder, NEW b \in Items,
         out # <<>> => Continues(out[Len(out)], b),
         out = <<>> => b.piece = 0 /\ flag = "follow",
         out' = Append(out, b), flag' = flag
  PROVE  /\ out' \in Seq(Items) /\ out' # <<>> /\ out'[Len(out')] = b
         /\ FollowsInOrder'
<1>1. /\ out \in Seq(Items) /\ Len(out) \in Nat /\ Len(out') = Len(out) + 1
      /\ out' \in Seq(Items)
      /\ \A i \in 1 .. Len(out) : out'[i] = out[i]
      /\ out'[Len(out) + 1] = b
  BY DEF FollowTypeOK, Items
<1>2. ASSUME NEW i \in 1 .. Len(out') - 1 PROVE Continues(out'[i], out'[i + 1])
  <2>1. CASE i = Len(out)
    BY <1>1, <1>2, <2>1
  <2>2. CASE i \in 1 .. Len(out) - 1
    BY <1>1, <2>2 DEF FollowsInOrder
  <2> QED BY <1>1, <1>2, <2>1, <2>2
<1>3. out'[1].piece = IF flag = "follow" THEN 0 ELSE 1
  BY <1>1 DEF FollowsInOrder
<1>4. FollowsInOrder'
  BY <1>2, <1>3 DEF FollowsInOrder
<1>5. out' # <<>> /\ out'[Len(out')] = b
  BY <1>1
<1> QED BY <1>1, <1>4, <1>5

-----------------------------------------------------------------------------
(* The steps.                                                              *)

LEMMA HostKeepsInv == ASSUME FollowInv, Host PROVE FollowInv'
<1> USE Bounds DEF FollowInv, FollowTypeOK, PlaceFits, OutFits,
      FollowsInOrder, DrainFits, Logs, Following, Gone, Placed,
      serverVars, readVars, sigVars
<1>1. CASE Starts
  BY <1>1 DEF Starts
<1>2. CASE Emits
  <2>1. runs \in Logs /\ written[runs] \in 0 .. MaxLines
    BY <1>2 DEF Emits
  <2>2. written' \in [Logs -> 0 .. MaxLines]
    BY <1>2, <2>1 DEF Emits
  <2>3. /\ \A e \in Logs : e # runs => written'[e] = written[e]
        /\ written'[runs] = written[runs] + 1
    BY <1>2, <2>1 DEF Emits
  <2>4. FollowTypeOK' /\ PlaceFits' /\ FollowsInOrder'
    BY <1>2, <2>2 DEF Emits
  <2>5. OutFits'
    BY <1>2, <2>1, <2>3 DEF Emits
  <2>6. DrainFits'
    BY <1>2, <2>1, <2>3 DEF Emits
  <2> QED BY <2>4, <2>5, <2>6
<1>3. CASE Stops
  BY <1>3 DEF Stops
<1>4. CASE Interrupt
  BY <1>4 DEF Interrupt
<1>5. CASE IoFails
  BY <1>5 DEF IoFails
<1>6. ASSUME NEW e \in Logs, Cleans(e) PROVE FollowInv'
  BY <1>6 DEF Cleans
<1> QED BY <1>1, <1>2, <1>3, <1>4, <1>5, <1>6 DEF Host

LEMMA PrintsWholeKeepsInv == ASSUME FollowInv, PrintsWhole PROVE FollowInv'
<1> USE Bounds DEF FollowInv, FollowTypeOK, PlaceFits, OutFits,
      DrainFits, Logs, Following, Gone, Placed, serverVars, readVars, sigVars
<1>1. out' \in Seq(Items) /\ FollowsInOrder'
  <2>1. CASE UNCHANGED out
    BY <2>1 DEF PrintsWhole, FollowsInOrder, Items
  <2>2. CASE \E n \in 0 .. written[attached] :
               out' = [i \in 1 .. n |-> Piece(attached, i)]
    <3>1. PICK n \in 0 .. written[attached] :
            out' = [i \in 1 .. n |-> Piece(attached, i)]
      BY <2>2
    <3>2. attached \in Logs /\ n \in 0 .. MaxLines /\ flag' = "whole"
      BY DEF PrintsWhole
    <3>3. \A i \in 1 .. n : Piece(attached, i) \in Items
      BY <3>2 DEF Piece, Items
    <3>4. out' \in Seq(Items) /\ Len(out') = n
      <4>1. out' \in [1 .. n -> Items] /\ n \in Nat
        BY <3>1, <3>2, <3>3
      <4> QED BY <4>1
    <3>5. \A i \in 1 .. n : out'[i] = Piece(attached, i)
      BY <3>1
    <3>6. out' # <<>> => out'[1].piece = 1
      <4> HAVE out' # <<>>
      <4>1. 1 \in 1 .. n /\ 1 \in Nat
        BY <3>2, <3>4
      <4>2. out'[1] = Piece(attached, 1)
        BY <3>5, <4>1
      <4> QED BY <4>2 DEF Piece
    <3>7. \A i \in 1 .. n - 1 : Continues(out'[i], out'[i + 1])
      <4> TAKE i \in 1 .. n - 1
      <4>1. i \in 1 .. n /\ i + 1 \in 1 .. n /\ i \in Nat
        BY <3>2
      <4>2. out'[i] = Piece(attached, i) /\ out'[i + 1] = Piece(attached, i + 1)
        BY <3>5, <4>1
      <4> QED BY <4>1, <4>2 DEF Continues, Piece
    <3> QED BY <3>2, <3>4, <3>6, <3>7 DEF FollowsInOrder
  <2> QED BY <2>1, <2>2 DEF PrintsWhole
<1> QED BY <1>1 DEF PrintsWhole, Items

LEMMA PrintKeepsInv == ASSUME FollowInv, Announces \/ Reads PROVE FollowInv'
<1> USE Bounds DEF FollowInv, FollowTypeOK, PlaceFits, OutFits,
      DrainFits, Logs, Following, Gone, Placed, serverVars, readVars, sigVars
<1>1. CASE Announces
  <2>1. Piece(attached, 0) \in Items
    BY <1>1 DEF Announces, Piece, Items
  <2>2. out # <<>> => Continues(out[Len(out)], Piece(attached, 0))
    BY <1>1 DEF Announces, Continues, Piece
  <2>3. /\ out' \in Seq(Items) /\ out' # <<>>
        /\ out'[Len(out')] = Piece(attached, 0) /\ FollowsInOrder'
    BY <1>1, <2>1, <2>2, AppendKeepsOrder DEF Announces, Piece
  <2>4. out' \in Seq([log : Logs, piece : 0 .. MaxLines])
    BY <2>3 DEF Items
  <2>5. FollowTypeOK'
    BY <1>1, <2>4 DEF Announces
  <2>6. PlaceFits' /\ OutFits' /\ DrainFits'
    BY <1>1, <2>3 DEF Announces
  <2> QED BY <2>3, <2>5, <2>6
<1>2. CASE Reads
  <2>1. Piece(attached, pos + 1) \in Items
    BY <1>2 DEF Reads, Piece, Items
  <2>2. out # <<>> /\ Continues(out[Len(out)], Piece(attached, pos + 1))
    BY <1>2 DEF Reads, Continues, Piece
  <2>3. /\ out' \in Seq(Items) /\ out' # <<>>
        /\ out'[Len(out')] = Piece(attached, pos + 1) /\ FollowsInOrder'
    BY <1>2, <2>1, <2>2, AppendKeepsOrder DEF Reads
  <2>4. /\ attached \in Logs /\ written[attached] \in 0 .. MaxLines
        /\ pos + 1 <= written[attached] /\ pos' \in 0 .. MaxLines
    <3>1. /\ attached \in 1 .. runs /\ runs \in 0 .. MaxRuns /\ pos \in 0 .. MaxLines
          /\ pos < written[attached] /\ pos' = pos + 1
      BY <1>2 DEF Reads
    <3>2. attached \in Logs
      BY <3>1
    <3>3. written[attached] \in 0 .. MaxLines
      BY <3>2
    <3> QED BY <3>1, <3>2, <3>3
  <2>5. out' \in Seq([log : Logs, piece : 0 .. MaxLines])
    BY <2>3 DEF Items
  <2>6. FollowTypeOK'
    BY <1>2, <2>4, <2>5 DEF Reads
  <2>7. /\ at' = "read" /\ pos' = pos + 1
        /\ UNCHANGED <<runs, up, there, written, flag, attached, pending>>
    BY <1>2 DEF Reads
  <2>8. PlaceFits' /\ DrainFits'
    BY <1>2, <2>3, <2>7 DEF Reads
  <2>9. OutFits'
    BY <2>3, <2>4, <2>7
  <2> QED BY <2>3, <2>6, <2>8, <2>9
<1> QED BY <1>1, <1>2

LEMMA CommandKeepsInv == ASSUME FollowInv, Command PROVE FollowInv'
<1> USE Bounds DEF FollowInv, FollowTypeOK, PlaceFits, OutFits,
      FollowsInOrder, DrainFits, Logs, Following, Gone, Placed,
      serverVars, readVars, sigVars
<1>1. CASE Scans
  BY <1>1 DEF Scans, IsNewest
<1>2. CASE Opens
  BY <1>2 DEF Opens
<1>3. CASE HasVanished
  BY <1>3 DEF HasVanished, DrainEnds, Arrive
<1>4. CASE ReachesEof
  BY <1>4 DEF ReachesEof, DrainEnds, Arrive
<1>5. CASE Wakes
  BY <1>5 DEF Wakes
<1>6. CASE EndsByCtrlC
  BY <1>6 DEF EndsByCtrlC
<1>7. CASE Rescans
  BY <1>7 DEF Rescans, AttachmentsAfter
<1>8. CASE Attaches
  <2>1. PICK e \in Logs : /\ e \in pending /\ (\A f \in pending : e <= f)
                         /\ attached' = e /\ pending' = pending \ {e}
    BY <1>8 DEF Attaches, IsOldest
  <2>2. FollowTypeOK'
    BY <1>8, <2>1 DEF Attaches
  <2>3. PlaceFits'
    BY <1>8, <2>1 DEF Attaches
  <2>4. OutFits' /\ DrainFits'
    BY <1>8, <2>1 DEF Attaches, Piece
  <2>5. FollowsInOrder'
    BY <1>8 DEF Attaches
  <2> QED BY <2>2, <2>3, <2>4, <2>5
<1>9. CASE AllAttached
  BY <1>9 DEF AllAttached, Arrive
<1> QED
  BY <1>1, <1>2, <1>3, <1>4, <1>5, <1>6, <1>7, <1>8, <1>9,
     PrintsWholeKeepsInv, PrintKeepsInv DEF Command

LEMMA FollowStep == ASSUME FollowInv, [FollowNext]_vars PROVE FollowInv'
<1>1. CASE UNCHANGED vars
  BY <1>1 DEF vars, FollowInv, FollowTypeOK, PlaceFits, OutFits,
     FollowsInOrder, DrainFits
<1> QED BY <1>1, HostKeepsInv, CommandKeepsInv DEF FollowNext

-----------------------------------------------------------------------------

\* The invariant of the follow that the theorems below rest on.
THEOREM FollowInvariant == FollowSpec => []FollowInv
<1> QED BY FollowInitInv, FollowStep, PTL DEF FollowSpec

\* Every variable keeps its type, for any number of runs and lines.
THEOREM FollowTypeCorrect == FollowSpec => []FollowTypeOK
<1>1. FollowInv => FollowTypeOK
  BY DEF FollowInv
<1> QED BY <1>1, FollowInvariant, PTL

\* Files appear on stdout by age, each from its first byte, without gap or
\* repetition (follow_log, drain_log).
THEOREM FollowOrder == FollowSpec => []FollowsInOrder
<1>1. FollowInv => FollowsInOrder
  BY DEF FollowInv
<1> QED BY <1>1, FollowInvariant, PTL

\* A file that is left for one that was there when its drain ended was printed
\* whole (follow_log).
THEOREM SwitchIsComplete == FollowSpec => []SwitchLosesNothing
<1>1. FollowInv => SwitchLosesNothing
  BY DEF FollowInv, PlaceFits, DrainFits, SwitchLosesNothing
<1> QED BY <1>1, FollowInvariant, PTL
=============================================================================
