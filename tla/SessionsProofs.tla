--------------------------- MODULE SessionsProofs ---------------------------
(***************************************************************************)
(* Proofs about Sessions, for every number of files and lines, every set   *)
(* of processes and all delays: its type invariant, that a session that    *)
(* was written to is shown, that a project whose process runs has a row,   *)
(* that its sub-agents appear, and that none outlives the row above it.    *)
(***************************************************************************)
EXTENDS Sessions, Induction

USE SessionsAssumption DEF Retention

-----------------------------------------------------------------------------
(***************************************************************************)
(* The inductive invariant of the readings: no line is later than the last *)
(* of its file; what a monitor has read, in whole or in part, and the      *)
(* activity it remembers are no later than the last scan; and a monitor    *)
(* that was used for its own file only has shown every call of a sub-agent *)
(* that begins before the place where it stands, or has cut it off.        *)
(***************************************************************************)

LinesInv ==
  \A f \in Files : lines[f] # <<>> =>
    /\ 2 * Len(lines[f]) <= LastTs(f)
    /\ \A i \in 1..Len(lines[f]) : lines[f][i].ts <= LastTs(f)

ScannedInv ==
  /\ old <= scanned /\ scanned <= Now
  /\ \A f \in Files :
       /\ monitor[f].lastOut <= scanned
       /\ \A i \in 1..Len(lines[f]) :
            2 * i - 1 <= monitor[f].offset => lines[f][i].ts <= scanned

FoundInv ==
  \A f \in Files : looked[f] \subseteq {f} =>
    /\ monitor[f].subs <= Size(f)
    /\ \A i \in 1..Len(lines[f]) :
         2 * i - 1 <= monitor[f].subs /\ lines[f][i].task => <<f, i>> \in appeared \cup cutOff

SessionsInv == TypeOK /\ LinesInv /\ ScannedInv /\ FoundInv

\* The last line of a file has an even time.
LEMMA LastOf ==
  ASSUME NEW ls \in [Files -> Seq(Line)], NEW f \in Files, ls[f] # <<>>
  PROVE  /\ Len(ls[f]) \in Nat \ {0} /\ ls[f][Len(ls[f])] \in Line
         /\ \E k \in 1..MaxLines : ls[f][Len(ls[f])].ts = 2 * k
<1>1. Len(ls[f]) \in Nat \ {0} /\ ls[f][Len(ls[f])] \in Line
  OBVIOUS
<1>2. QED
  BY <1>1 DEF Line

LEMMA LastType ==
  ASSUME TypeOK, NEW f \in Files, lines[f] # <<>>
  PROVE  Len(lines[f]) \in Nat \ {0} /\ \E k \in 1..MaxLines : LastTs(f) = 2 * k
BY LastOf DEF TypeOK, LastTs

\* A file has no more lines than have been written.
LEMMA LengthType ==
  ASSUME TypeOK, LinesInv, NEW f \in Files
  PROVE  Len(lines[f]) \in 0..MaxLines
<1>1. CASE lines[f] = <<>>
  BY <1>1
<1>2. CASE lines[f] # <<>>
  <2>1. Len(lines[f]) \in Nat /\ \E k \in 1..MaxLines : LastTs(f) = 2 * k
    BY <1>2, LastType
  <2>2. 2 * Len(lines[f]) <= LastTs(f)
    BY <1>2 DEF LinesInv
  <2>3. QED
    BY <2>1, <2>2
<1>3. QED
  BY <1>1, <1>2

\* The halves of a file and its whole lines, all of them or all but the last.
LEMMA SizeType ==
  ASSUME TypeOK, NEW f \in Files
  PROVE  /\ Len(lines[f]) \in Nat /\ Size(f) \in Nat /\ Whole(f) \in Nat
         /\ 2 * Len(lines[f]) - 1 <= Size(f) /\ Size(f) <= 2 * Len(lines[f])
         /\ 2 * Whole(f) <= Size(f) /\ Whole(f) <= Len(lines[f])
         /\ Whole(f) = Len(lines[f]) \/ (f \in half /\ Whole(f) = Len(lines[f]) - 1)
<1>1. Len(lines[f]) \in Nat /\ (f \in half => Len(lines[f]) > 0)
  <2>1. lines[f] \in Seq(Line) /\ (f \in half => lines[f] # <<>>)
    BY DEF TypeOK
  <2>2. QED
    BY <2>1
<1>2. CASE f \in half
  BY <1>1, <1>2 DEF Size, Whole
<1>3. CASE f \notin half
  BY <1>1, <1>3 DEF Size, Whole
<1>4. QED
  BY <1>2, <1>3

\* Now, as a function of the lines: later than every line, and odd.
NowOf(ls) == 1 + Max({0} \cup {ls[f][Len(ls[f])].ts : f \in {g \in Files : ls[g] # <<>>}})

LEMMA NowLater ==
  ASSUME NEW ls \in [Files -> Seq(Line)]
  PROVE  /\ \E k \in 0..MaxLines : NowOf(ls) = 2 * k + 1
         /\ \A f \in Files : ls[f] # <<>> => ls[f][Len(ls[f])].ts < NowOf(ls)
<1> DEFINE last(f) == ls[f][Len(ls[f])].ts
           T == {0} \cup {last(f) : f \in {g \in Files : ls[g] # <<>>}}
<1>1. ASSUME NEW x \in T
      PROVE  \E k \in 0..MaxLines : x = 2 * k
  <2>1. CASE x = 0
    <3>1. 0 \in 0..MaxLines /\ 0 = 2 * 0
      OBVIOUS
    <3>2. QED
      BY <2>1, <3>1
  <2>2. ASSUME NEW f \in Files, ls[f] # <<>>, x = last(f)
        PROVE  \E k \in 0..MaxLines : x = 2 * k
    <3>1. PICK k \in 1..MaxLines : last(f) = 2 * k
      BY <2>2, LastOf
    <3>2. k \in 0..MaxLines /\ x = 2 * k
      <4> HIDE DEF last
      <4> QED
        BY <2>2, <3>1
    <3>3. QED
      BY <3>2
  <2>3. QED
    BY <2>1, <2>2
<1>2. T # {} /\ NowOf(ls) = 1 + Max(T)
      /\ \A f \in Files : ls[f] # <<>> => last(f) \in T
  BY DEF NowOf
<1> HIDE DEF T, last
<1>3. T \in SUBSET Int /\ IsFiniteSet(T)
  <2>1. ASSUME NEW x \in T
        PROVE  x \in 0..2 * MaxLines
    BY <1>1
  <2>2. IsFiniteSet(0..2 * MaxLines) /\ T \in SUBSET (0..2 * MaxLines)
    BY <2>1, FS_Interval
  <2>3. IsFiniteSet(T)
    BY <2>2, FS_Subset
  <2>4. QED
    BY <2>1, <2>3
<1>4. Max(T) \in T /\ \A x \in T : Max(T) >= x
  <2>1. \E x \in T : \A y \in T : x >= y
    BY <1>2, <1>3, Greatest
  <2>2. QED
    BY <2>1 DEF Max
<1>5. PICK k \in 0..MaxLines : Max(T) = 2 * k
  BY <1>1, <1>4
<1>6. NowOf(ls) = 2 * k + 1
  BY <1>2, <1>5
<1>7. ASSUME NEW f \in Files, ls[f] # <<>>
      PROVE  last(f) < NowOf(ls)
  <2>1. last(f) <= 2 * k /\ last(f) \in Int
    BY <1>2, <1>3, <1>4, <1>5, <1>7
  <2>2. QED
    BY <1>6, <2>1
<1>8. QED
  BY <1>6, <1>7 DEF last

LEMMA NowType ==
  ASSUME TypeOK
  PROVE  /\ \E k \in 0..MaxLines : Now = 2 * k + 1
         /\ \A f \in Files : lines[f] # <<>> => LastTs(f) < Now
BY NowLater DEF TypeOK, Now, NowOf, LastTs

\* No line is later than now, the last whole one neither.
LEMMA WholeType ==
  ASSUME TypeOK, LinesInv, NEW f \in Files
  PROVE  /\ \A i \in 1..Len(lines[f]) : lines[f][i].ts \in Nat /\ lines[f][i].ts < Now
         /\ Whole(f) > 0 => Whole(f) \in 1..Len(lines[f]) /\ WholeTs(f) = lines[f][Whole(f)].ts
         /\ WholeTs(f) \in Times /\ WholeTs(f) < Now /\ Now \in Times
<1>1. PICK k \in 0..MaxLines : Now = 2 * k + 1
  BY NowType
<1>2. ASSUME NEW i \in 1..Len(lines[f])
      PROVE  lines[f][i].ts \in Nat /\ lines[f][i].ts < Now
  <2>1. lines[f] \in Seq(Line) /\ lines[f] # <<>>
    BY <1>2 DEF TypeOK
  <2>2. lines[f][i] \in Line
    BY <2>1
  <2>3. PICK n \in 1..MaxLines : lines[f][i].ts = 2 * n
    BY <2>2 DEF Line
  <2>4. lines[f][i].ts <= LastTs(f) /\ LastTs(f) < Now
    BY <2>1, NowType DEF LinesInv
  <2>5. LastTs(f) \in Int
    BY <2>1, LastType
  <2>6. QED
    BY <1>1, <2>3, <2>4, <2>5
<1>3. Now \in Times /\ 0 < Now
  BY <1>1 DEF Times
<1>4. CASE Whole(f) = 0
  BY <1>2, <1>3, <1>4 DEF WholeTs, Times
<1>5. CASE Whole(f) # 0
  <2>1. Whole(f) \in 1..Len(lines[f]) /\ WholeTs(f) = lines[f][Whole(f)].ts
    BY <1>5, SizeType DEF WholeTs
  <2>2. WholeTs(f) \in Nat /\ WholeTs(f) < Now
    BY <1>2, <2>1
  <2>3. QED
    BY <1>2, <1>3, <2>1, <2>2 DEF Times
<1>6. QED
  BY <1>4, <1>5

\* The youngest process runs.
LEMMA Youngest ==
  ASSUME TypeOK, running # {}
  PROVE  realPID \in running /\ realPID \in Pids
<1>1. running \in SUBSET Int /\ IsFiniteSet(running)
  <2>1. running \in SUBSET Pids /\ IsFiniteSet(Pids) /\ Pids \subseteq Int
    BY DEF TypeOK
  <2>2. QED
    BY <2>1, FS_Subset
<1>2. \E x \in running : \A y \in running : x >= y
  BY <1>1, Greatest
<1>3. QED
  BY <1>2 DEF Max, realPID, TypeOK

\* Any set of files has a first one.
LEMMA First ==
  ASSUME NEW S \in SUBSET Files, S # {}
  PROVE  Min(S) \in S
<1>1. IsFiniteSet(Files) /\ Files \subseteq Int
  BY FS_Interval DEF Files
<1>2. \E x \in S : \A y \in S : x <= y
  BY <1>1, FS_Subset, LeastOf
<1>3. QED
  BY <1>2 DEF Min

\* Files that are read belong to a running process and have a line.
LEMMA ReadType ==
  /\ Read \subseteq Listed /\ Listed \subseteq Files
  /\ \A f \in Listed : lines[f] # <<>> /\ running # {}
  /\ Read # {} => Holder \in Read
<1>1. Read \subseteq Listed /\ Listed \subseteq Files
      /\ \A f \in Listed : lines[f] # <<>> /\ running # {}
  BY DEF Read, Listed
<1>2. QED
  BY <1>1, First DEF Holder

\* What reading a file returns.
LEMMA ReadingType ==
  ASSUME TypeOK, LinesInv, NEW f \in Read
  PROVE  /\ Reading(f).file = f /\ Reading(f).upto \in 1..MaxLines
         /\ Reading(f).ts \in Times
         /\ HasNews(f) => Reading(f).upto = Whole(f) /\ Reading(f).ts = WholeTs(f)
         /\ ~HasNews(f) => Reading(f).ts = monitor[f].lastOut
<1>1. f \in Files /\ Len(lines[f]) \in 0..MaxLines
  BY ReadType, LengthType
<1>2. HasNews(f) => Whole(f) \in 1..MaxLines /\ WholeTs(f) \in Times
  <2>1. Offset(f) \in Nat
    BY <1>1 DEF Offset, TypeOK, Monitor
  <2>2. WholeTs(f) \in Times /\ Whole(f) \in Nat /\ Whole(f) <= Len(lines[f])
    BY <1>1, WholeType, SizeType
  <2>3. QED
    BY <1>1, <2>1, <2>2 DEF HasNews
<1>3. ~HasNews(f) => monitor[f].cached \in 1..MaxLines /\ monitor[f].lastOut \in Times
  BY <1>1 DEF Read, TypeOK, Monitor
<1>4. QED
  BY <1>2, <1>3 DEF Reading

\* The merged reading is the latest.
LEMMA MergedIs ==
  ASSUME TypeOK, LinesInv, Read # {}
  PROVE  \E f \in Read : Merged = Reading(f) /\ \A g \in Read : Reading(g).ts <= Reading(f).ts
<1> DEFINE key    == [f \in Read |-> Reading(f).ts]
           newest == {f \in Read : \A g \in Read : Reading(g).ts <= Reading(f).ts}
<1>1. key \in [Read -> Int]
  BY ReadingType DEF Times
<1>2. IsFiniteSet(Read)
  <2>1. Read \in SUBSET Files
    BY ReadType
  <2>2. IsFiniteSet(Files)
    BY FS_Interval DEF Files
  <2>3. QED
    BY <2>1, <2>2, FS_Subset
<1>3. PICK x \in Read : \A y \in Read : key[x] >= key[y]
  <2> HIDE DEF key
  <2> QED
    BY <1>1, <1>2, GreatestKey
<1>4. x \in newest
  BY <1>1, <1>3
<1>5. newest \in SUBSET Files
  BY ReadType
<1>6. Merged = Reading(Min(newest))
  BY DEF Merged
<1>7. Min(newest) \in newest
  <2> HIDE DEF newest
  <2> QED
    BY <1>4, <1>5, First
<1>8. QED
  BY <1>6, <1>7

-----------------------------------------------------------------------------
(***************************************************************************)
(* The world: lines are written, grow old, and processes come and go.      *)
(***************************************************************************)

LEMMA WriteStep ==
  ASSUME SessionsInv, NEW f \in Files, NEW task \in BOOLEAN, NEW cut \in BOOLEAN, Write(f, task, cut)
  PROVE  SessionsInv'
<1> DEFINE l == [ts |-> Now + 1, task |-> task]
<1> USE DEF SessionsInv
<1>1. PICK k \in 0..MaxLines : Now = 2 * k + 1
  BY NowType
<1>2. /\ lines' = [lines EXCEPT ![f] = Append(@, l)]
      /\ f \notin half /\ half' = (IF cut THEN half \cup {f} ELSE half)
      /\ Now < 2 * MaxLines
      /\ UNCHANGED <<old, running, readers, table, history>>
  BY DEF Write
<1>3. l \in Line /\ l.ts = Now + 1
  <2>1. Now + 1 = 2 * (k + 1) /\ k + 1 \in 1..MaxLines
    BY <1>1, <1>2
  <2>2. QED
    BY <2>1 DEF Line
<1> HIDE DEF l
<1>4. lines \in [Files -> Seq(Line)]
  BY DEF TypeOK
<1>5. /\ lines'[f] = Append(lines[f], l)
      /\ \A g \in Files : g # f => lines'[g] = lines[g]
      /\ lines' \in [Files -> Seq(Line)]
  BY <1>2, <1>3, <1>4
<1>6. ASSUME NEW g \in Files
      PROVE  /\ Len(lines[g]) <= Len(lines'[g]) /\ Len(lines[g]) \in Nat
             /\ Len(lines'[g]) \in Nat
             /\ \A i \in 1..Len(lines[g]) : lines'[g][i] = lines[g][i]
  <2>1. lines[g] \in Seq(Line) /\ Len(lines[g]) \in Nat
    BY <1>4
  <2>2. CASE g = f
    BY <1>3, <1>5, <2>1, <2>2
  <2>3. CASE g # f
    BY <1>5, <2>1, <2>3
  <2>4. QED
    BY <2>2, <2>3
<1>0. ASSUME NEW g \in Files
      PROVE  Size(g) <= Size(g)' /\ Size(g) <= 2 * Len(lines[g]) /\ Size(g) \in Nat /\ Size(g)' \in Nat
  <2>1. Size(g) \in Nat /\ Size(g) <= 2 * Len(lines[g]) /\ Len(lines[g]) \in Nat
    BY SizeType
  <2>2. CASE g = f
    <3>1. Len(lines'[g]) = Len(lines[g]) + 1
      BY <1>3, <1>4, <1>5, <2>2
    <3>2. Size(g)' \in {2 * Len(lines'[g]), 2 * Len(lines'[g]) - 1}
      <4>1. CASE g \in half'
        BY <2>1, <3>1, <4>1 DEF Size
      <4>2. CASE g \notin half'
        BY <2>1, <3>1, <4>2 DEF Size
      <4>3. QED
        BY <4>1, <4>2
    <3>3. QED
      BY <2>1, <3>1, <3>2
  <2>3. CASE g # f
    <3>1. Size(g)' = Size(g)
      BY <1>2, <1>5, <2>3 DEF Size
    <3>2. QED
      BY <2>1, <3>1
  <2>4. QED
    BY <2>2, <2>3
<1>7. TypeOK'
  <2>1. half' \subseteq {g \in Files : lines'[g] # <<>>}
    <3>1. lines'[f] # <<>>
      BY <1>3, <1>4, <1>5
    <3>2. \A g \in half : lines'[g] # <<>>
      BY <1>5, <3>1 DEF TypeOK
    <3>3. half \subseteq Files /\ f \in Files
      BY DEF TypeOK
    <3>4. QED
      BY <1>2, <3>1, <3>2, <3>3
  <2>2. \A g \in Files : monitor'[g].offset <= Size(g)'
    <3> SUFFICES ASSUME NEW g \in Files
                 PROVE  monitor[g].offset <= Size(g)'
      BY <1>2 DEF readers
    <3>1. monitor[g].offset <= Size(g) /\ monitor[g].offset \in Nat
      BY DEF TypeOK, Monitor
    <3>2. QED
      BY <1>0, <3>1
  <2>3. QED
    BY <1>2, <1>5, <2>1, <2>2 DEF TypeOK, readers, table, history
<1>8. LastTs(f)' = Now + 1 /\ lines'[f] # <<>> /\ Len(lines'[f]) = Len(lines[f]) + 1
  BY <1>3, <1>4, <1>5 DEF LastTs
<1>9. Now' \in Int /\ Now + 1 < Now'
  <2>1. Now' = NowOf(lines')
    BY DEF Now, NowOf, LastTs
  <2>2. lines'[f][Len(lines'[f])].ts = Now + 1
    BY <1>8 DEF LastTs
  <2>3. QED
    BY <1>5, <1>8, <2>1, <2>2, NowLater
<1>10. LinesInv'
  <2> SUFFICES ASSUME NEW g \in Files, lines'[g] # <<>>
               PROVE  /\ 2 * Len(lines'[g]) <= LastTs(g)'
                      /\ \A i \in 1..Len(lines'[g]) : lines'[g][i].ts <= LastTs(g)'
    BY DEF LinesInv
  <2>1. CASE g = f
    <3>1. 2 * Len(lines[f]) < Now /\ Len(lines[f]) \in Nat
      <4>1. CASE lines[f] = <<>>
        BY <1>1, <4>1
      <4>2. CASE lines[f] # <<>>
        <5>1. 2 * Len(lines[f]) <= LastTs(f) /\ LastTs(f) < Now
          BY <4>2, NowType DEF LinesInv
        <5>2. LastTs(f) \in Int /\ Len(lines[f]) \in Nat
          BY <1>6, <4>2, LastType
        <5>3. QED
          BY <1>1, <5>1, <5>2
      <4>3. QED
        BY <4>1, <4>2
    <3>2. 2 * Len(lines'[g]) <= LastTs(g)'
      BY <1>1, <1>8, <2>1, <3>1
    <3>3. ASSUME NEW i \in 1..Len(lines'[g])
          PROVE  lines'[g][i].ts <= LastTs(g)'
      <4>1. CASE i = Len(lines'[g])
        <5>1. lines'[g][i].ts = LastTs(g)'
          BY <4>1 DEF LastTs
        <5>2. QED
          BY <1>1, <1>8, <2>1, <5>1
      <4>2. CASE i # Len(lines'[g])
        <5>1. i \in 1..Len(lines[f])
          BY <1>8, <2>1, <3>1, <4>2
        <5>2. lines'[g][i] = lines[f][i]
          BY <1>6, <2>1, <5>1
        <5>3. lines[f][i].ts \in Nat /\ lines[f][i].ts < Now
          BY <5>1, WholeType
        <5>4. QED
          BY <1>1, <1>8, <2>1, <5>2, <5>3
      <4>3. QED
        BY <4>1, <4>2
    <3>4. QED
      BY <3>2, <3>3
  <2>2. CASE g # f
    BY <1>5, <2>2 DEF LinesInv, LastTs
  <2>3. QED
    BY <2>1, <2>2
\* What begins before a place in the old file is in the old file.
<1>14. ASSUME NEW g \in Files, NEW i \in 1..Len(lines'[g]), NEW n \in Nat, n <= Size(g), 2 * i - 1 <= n
       PROVE  i \in 1..Len(lines[g]) /\ lines'[g][i] = lines[g][i]
  <2>1. i \in 1..Len(lines[g])
    BY <1>0, <1>6, <1>14
  <2>2. QED
    BY <1>6, <2>1
<1>11. ScannedInv'
  <2>1. old' <= scanned' /\ scanned' <= Now'
    BY <1>1, <1>2, <1>9 DEF ScannedInv, TypeOK, Times, history
  <2>2. ASSUME NEW g \in Files
        PROVE  /\ monitor'[g].lastOut <= scanned'
               /\ \A i \in 1..Len(lines'[g]) :
                    2 * i - 1 <= monitor'[g].offset => lines'[g][i].ts <= scanned'
    <3>1. monitor[g].offset \in Nat /\ monitor[g].offset <= Size(g)
      BY DEF TypeOK, Monitor
    <3>2. monitor' = monitor /\ scanned' = scanned
      BY <1>2 DEF readers, history
    <3>3. QED
      BY <1>14, <3>1, <3>2 DEF ScannedInv
  <2>3. QED
    BY <2>1, <2>2 DEF ScannedInv
<1>12. FoundInv'
  <2> SUFFICES ASSUME NEW g \in Files, looked[g] \subseteq {g}
               PROVE  /\ monitor[g].subs <= Size(g)'
                      /\ \A i \in 1..Len(lines'[g]) :
                           2 * i - 1 <= monitor[g].subs /\ lines'[g][i].task =>
                             <<g, i>> \in appeared \cup cutOff
    BY <1>2 DEF FoundInv, readers, history
  <2>1. monitor[g].subs <= Size(g) /\ monitor[g].subs \in Nat
    BY DEF FoundInv, TypeOK, Monitor
  <2>2. monitor[g].subs <= Size(g)'
    BY <1>0, <2>1
  <2>3. QED
    BY <1>14, <2>1, <2>2 DEF FoundInv
<1>13. QED
  BY <1>7, <1>10, <1>11, <1>12

LEMMA WorldStep ==
  ASSUME SessionsInv,
         \/ \E f \in Files : Finish(f)
         \/ \E n \in 1..MaxLines : TwoHours(2 * n)
         \/ \E p \in Pids : StartOrExit(p)
         \/ UNCHANGED vars
  PROVE  SessionsInv'
<1> USE DEF Finish, TwoHours, StartOrExit, vars, world
<1>1. UNCHANGED <<lines, readers, table, history>>
  OBVIOUS
<1>2. old' \in Times /\ old' <= scanned
  BY DEF SessionsInv, ScannedInv, TypeOK, Times
<1>3. running' \subseteq Pids
  BY DEF SessionsInv, TypeOK
<1>4. half' \subseteq half
  OBVIOUS
<1>5. ASSUME NEW f \in Files
      PROVE  Size(f) <= Size(f)' /\ Size(f) \in Nat /\ Size(f)' \in Nat
  <2>1. Len(lines[f]) \in Nat /\ Size(f) \in Nat
    BY SizeType DEF SessionsInv
  <2>2. QED
    BY <1>1, <1>4, <2>1 DEF Size
<1>6. TypeOK'
  <2>1. half' \subseteq {f \in Files : lines'[f] # <<>>}
    BY <1>1, <1>4 DEF SessionsInv, TypeOK
  <2>2. ASSUME NEW f \in Files
        PROVE  monitor'[f].offset <= Size(f)'
    <3>1. monitor[f].offset <= Size(f) /\ monitor[f].offset \in Nat
      BY DEF SessionsInv, TypeOK, Monitor
    <3>2. QED
      BY <1>1, <1>5, <3>1 DEF readers
  <2>3. QED
    BY <1>1, <1>2, <1>3, <2>1, <2>2 DEF SessionsInv, TypeOK, readers, table, history
<1>7. Now' = Now
  BY <1>1 DEF Now, LastTs
<1>8. LinesInv' /\ ScannedInv'
  BY <1>1, <1>2, <1>7
     DEF SessionsInv, LinesInv, ScannedInv, LastTs, readers, history
<1>9. FoundInv'
  <2> SUFFICES ASSUME NEW f \in Files, looked[f] \subseteq {f}
               PROVE  /\ monitor[f].subs <= Size(f)'
                      /\ \A i \in 1..Len(lines[f]) :
                           2 * i - 1 <= monitor[f].subs /\ lines[f][i].task =>
                             <<f, i>> \in appeared \cup cutOff
    BY <1>1 DEF FoundInv, readers, history
  <2>1. monitor[f].subs <= Size(f) /\ monitor[f].subs \in Nat
    BY DEF SessionsInv, FoundInv, TypeOK, Monitor
  <2>2. QED
    BY <1>5, <2>1 DEF SessionsInv, FoundInv
<1>10. QED
  BY <1>6, <1>8, <1>9 DEF SessionsInv

-----------------------------------------------------------------------------
(***************************************************************************)
(* The monitors after a scan.                                              *)
(***************************************************************************)

\* The greater of two numbers.
LEMMA MaxOfTwo ==
  ASSUME NEW a \in Int, NEW b \in Int
  PROVE  Max({a, b}) \in {a, b} /\ Max({a, b}) >= a /\ Max({a, b}) >= b
<1>1. \E x \in {a, b} : \A y \in {a, b} : x >= y
  OBVIOUS
<1>2. Max({a, b}) \in {a, b} /\ \A y \in {a, b} : Max({a, b}) >= y
  BY <1>1 DEF Max
<1>3. QED
  BY <1>2

\* No reading is later than now.
LEMMA ReadingNow ==
  ASSUME SessionsInv, NEW f \in Read
  PROVE  Reading(f).ts <= Now /\ Now \in Times
<1>1. f \in Files
  BY ReadType
<1>2. WholeTs(f) < Now /\ WholeTs(f) \in Nat /\ Now \in Times /\ Now \in Nat
  BY <1>1, WholeType DEF SessionsInv, Times
<1>3. monitor[f].lastOut <= scanned /\ scanned <= Now /\ monitor[f].lastOut \in Int /\ scanned \in Int
  BY <1>1 DEF SessionsInv, ScannedInv, TypeOK, Monitor, Times
<1>4. QED
  BY <1>2, <1>3, ReadingType DEF SessionsInv

\* A monitor whose file was read stands at its end, or has stayed.
LEMMA Advanced ==
  ASSUME SessionsInv, NEW f \in Files
  PROVE  /\ AfterReading(f) \in Monitor
         /\ AfterReading(f).offset <= Size(f)
         /\ AfterReading(f).lastOut = monitor[f].lastOut
         /\ AfterReading(f).subs = monitor[f].subs
<1>1. monitor[f] \in Monitor /\ monitor[f].offset <= Size(f)
  BY DEF SessionsInv, TypeOK
<1>2. Size(f) \in 0..2 * MaxLines /\ Whole(f) \in 0..MaxLines
  <2>1. Len(lines[f]) \in 0..MaxLines
    BY LengthType DEF SessionsInv
  <2>2. QED
    BY <2>1, SizeType DEF SessionsInv
<1>3. CASE f \notin monitored
  BY <1>1, <1>3 DEF AfterReading
<1>4. CASE f \in monitored
  <2>1. AfterReading(f) = [monitor[f] EXCEPT !.offset = Size(f),
                             !.cached = IF HasNews(f) THEN Whole(f) ELSE monitor[f].cached]
    BY <1>1, <1>4 DEF AfterReading, Monitor
  <2>2. PICK read \in 0..MaxLines :
          AfterReading(f) = [monitor[f] EXCEPT !.offset = Size(f), !.cached = read]
    <3>1. (IF HasNews(f) THEN Whole(f) ELSE monitor[f].cached) \in 0..MaxLines
      BY <1>1, <1>2 DEF Monitor
    <3>2. QED
      BY <2>1, <3>1
  <2>3. PICK size \in 0..2 * MaxLines : size = Size(f)
    BY <1>2
  <2>4. AfterReading(f) = [monitor[f] EXCEPT !.offset = size, !.cached = read]
    BY <2>2, <2>3
  <2>5. PICK m \in Monitor : m = monitor[f]
    BY <1>1
  <2>6. /\ AfterReading(f) \in Monitor /\ AfterReading(f).offset = size
        /\ AfterReading(f).lastOut = m.lastOut /\ AfterReading(f).subs = m.subs
    BY <2>4, <2>5 DEF Monitor
  <2>7. size <= Size(f)
    BY <2>3
  <2>8. QED
    BY <2>5, <2>6, <2>7
<1>5. QED
  BY <1>3, <1>4

\* The holder's monitor after a scan.
LEMMA HolderAfter ==
  ASSUME SessionsInv, Read # {}, NEW busy \in BOOLEAN, NEW f \in Read
  PROVE  LET a == AfterMerge(Reading(f), busy)
         IN  /\ a \in Monitor
             /\ a.offset = AfterReading(Holder).offset
             /\ a.lastOut <= Now
             /\ a.subs \in {SubsFrom, Size(f)}
             /\ a.subs >= SubsFrom /\ a.subs >= Size(f)
<1>1. Holder \in Files /\ f \in Files
  BY ReadType
<1>2. AfterReading(Holder) \in Monitor
  BY <1>1, Advanced
<1>3. Reading(f).file = f /\ Reading(f).ts \in Times /\ Reading(f).ts <= Now /\ Now \in Times
  BY ReadingType, ReadingNow DEF SessionsInv
<1>4. SubsFrom \in 0..2 * MaxLines /\ Size(f) \in 0..2 * MaxLines
  <2>1. Len(lines[f]) \in 0..MaxLines
    BY <1>1, LengthType DEF SessionsInv
  <2>2. Size(f) \in 0..2 * MaxLines
    BY <1>1, <2>1, SizeType DEF SessionsInv
  <2>3. QED
    BY <1>1, <2>2 DEF SessionsInv, TypeOK, Monitor, SubsFrom
<1> DEFINE top == Max({SubsFrom, Size(f)})
<1>5. /\ top \in {SubsFrom, Size(f)} /\ top \in 0..2 * MaxLines
      /\ top >= SubsFrom /\ top >= Size(f)
  <2>1. SubsFrom \in Int /\ Size(f) \in Int
    BY <1>4
  <2>2. top \in {SubsFrom, Size(f)} /\ top >= SubsFrom /\ top >= Size(f)
    BY <2>1, MaxOfTwo
  <2> HIDE DEF top
  <2>3. QED
    BY <1>4, <2>2
<1>6. AfterMerge(Reading(f), busy) =
        [AfterReading(Holder) EXCEPT !.lastOut = IF busy THEN Now ELSE Reading(f).ts,
                                     !.subs    = top]
  BY <1>3 DEF AfterMerge
<1> HIDE DEF top
<1> DEFINE now == IF busy THEN Now ELSE Reading(f).ts
<1>7. now \in Times /\ now <= Now
  BY <1>3 DEF Times
<1> HIDE DEF now
<1>8. AfterMerge(Reading(f), busy) = [AfterReading(Holder) EXCEPT !.lastOut = now, !.subs = top]
  BY <1>6 DEF now
<1>9. QED
  BY <1>2, <1>5, <1>7, <1>8 DEF Monitor

-----------------------------------------------------------------------------
(***************************************************************************)
(* The rows after a scan.                                                  *)
(***************************************************************************)

\* A pruned table holds rows of the old one, older by the delay.
LEMMA PruneRows ==
  ASSUME NEW had, NEW late, NEW t \in Prune(had, late)
  PROVE  \E r \in had : t = [r EXCEPT !.age = @ + late] /\ t.age <= Retention
BY DEF Prune

\* A row that is not too old survives, aged.
LEMMA PruneKeeps ==
  ASSUME NEW had, NEW late, NEW r \in had, [r EXCEPT !.age = @ + late].age <= Retention
  PROVE  [r EXCEPT !.age = @ + late] \in Prune(had, late)
BY DEF Prune

\* Ageing changes nothing but the age.
LEMMA AgeRow ==
  ASSUME NEW r \in Row, NEW late \in Nat
  PROVE  LET t == [r EXCEPT !.age = @ + late]
         IN  /\ t.age <= Retention => t \in Row
             /\ t.pid = r.pid /\ t.age = r.age + late
BY DEF Row

LEMMA AgeSub ==
  ASSUME NEW s \in SubRow, NEW late \in Nat
  PROVE  LET t == [s EXCEPT !.age = @ + late]
         IN  /\ t.age <= Retention => t \in SubRow
             /\ t.file = s.file /\ t.line = s.line /\ t.parent = s.parent
             /\ t.age = s.age + late
BY DEF SubRow

\* A table of one row per process stays one when rows are written anew.
LEMMA RowsAfter ==
  ASSUME TypeOK, NEW late \in Nat, NEW had \in SUBSET rows,
         NEW fresh, \A r \in fresh : r \in Row,
         \A r, s \in fresh : r.pid = s.pid => r = s,
         \A r \in fresh, s \in had : r.pid # s.pid
  PROVE  LET new == Prune(had, late) \cup fresh
         IN  /\ \A r \in new : r \in Row
             /\ \A r, s \in new : r.pid = s.pid => r = s
<1> DEFINE kept == Prune(had, late)
<1>1. ASSUME NEW t \in kept
      PROVE  t \in Row /\ \E r \in had : t = [r EXCEPT !.age = @ + late] /\ t.pid = r.pid
  <2>1. PICK r \in had : t = [r EXCEPT !.age = @ + late] /\ t.age <= Retention
    BY <1>1, PruneRows
  <2>2. r \in Row
    BY DEF TypeOK
  <2>3. QED
    BY <2>1, <2>2, AgeRow
<1>2. ASSUME NEW t \in kept, NEW v \in kept, t.pid = v.pid
      PROVE  t = v
  <2>1. PICK r \in had : t = [r EXCEPT !.age = @ + late] /\ t.pid = r.pid
    BY <1>1
  <2>2. PICK q \in had : v = [q EXCEPT !.age = @ + late] /\ v.pid = q.pid
    BY <1>1
  <2>3. r = q
    BY <1>2, <2>1, <2>2 DEF TypeOK
  <2>4. QED
    BY <2>1, <2>2, <2>3
<1>3. \A t \in kept, r \in fresh : t.pid # r.pid
  BY <1>1
<1> HIDE DEF kept
<1>4. QED
  BY <1>1, <1>2, <1>3 DEF kept

\* So does the table of sub-agents, one row per call.
LEMMA SubsAfter ==
  ASSUME TypeOK, NEW late \in Nat, NEW had \in SUBSET subs,
         NEW fresh, \A r \in fresh : r \in SubRow,
         \A r, s \in fresh : r.file = s.file /\ r.line = s.line => r = s,
         \A r \in fresh, s \in had : ~(r.file = s.file /\ r.line = s.line)
  PROVE  LET new == fresh \cup Prune(had, late)
         IN  /\ \A r \in new : r \in SubRow
             /\ \A r, s \in new : r.file = s.file /\ r.line = s.line => r = s
<1> DEFINE kept == Prune(had, late)
<1>1. ASSUME NEW t \in kept
      PROVE  t \in SubRow /\ \E r \in had : /\ t = [r EXCEPT !.age = @ + late]
                                            /\ t.file = r.file /\ t.line = r.line
  <2>1. PICK r \in had : t = [r EXCEPT !.age = @ + late] /\ t.age <= Retention
    BY <1>1, PruneRows
  <2>2. r \in SubRow
    BY DEF TypeOK
  <2>3. QED
    BY <2>1, <2>2, AgeSub
<1>2. ASSUME NEW t \in kept, NEW v \in kept, t.file = v.file, t.line = v.line
      PROVE  t = v
  <2>1. PICK r \in had : t = [r EXCEPT !.age = @ + late] /\ t.file = r.file /\ t.line = r.line
    BY <1>1
  <2>2. PICK q \in had : v = [q EXCEPT !.age = @ + late] /\ v.file = q.file /\ v.line = q.line
    BY <1>1
  <2>3. r = q
    BY <1>2, <2>1, <2>2 DEF TypeOK
  <2>4. QED
    BY <2>1, <2>2, <2>3
<1>3. \A t \in kept, r \in fresh : ~(t.file = r.file /\ t.line = r.line)
  BY <1>1
<1> HIDE DEF kept
<1>4. QED
  BY <1>1, <1>2, <1>3 DEF kept

-----------------------------------------------------------------------------
(***************************************************************************)
(* A scan.                                                                 *)
(***************************************************************************)

LEMMA ScanProcsStep ==
  ASSUME SessionsInv, NEW late \in Delays, NEW other \in BOOLEAN, ScanProcs(late, other)
  PROVE  SessionsInv'
<1> DEFINE fresh == {[pid |-> p, file |-> None, upto |-> 0, age |-> 0] : p \in Roots(other)}
           had   == {r \in rows : r.pid \notin Roots(other)}
<1>1. /\ monitored' = {} /\ monitor' = [f \in Files |-> NoMonitor]
      /\ rows' = Prune(had, late) \cup fresh
      /\ subs' = {} \cup Prune(subs, late)
      /\ looked' = [f \in Files |-> {}]
      /\ appeared' = {} /\ cutOff' = {}
      /\ scanned' = Now /\ eclipsed' \in BOOLEAN
      /\ UNCHANGED <<lines, half, old, running>>
  BY DEF ScanProcs, world
<1>2. NoMonitor \in Monitor /\ NoMonitor.offset = 0 /\ NoMonitor.lastOut = 0 /\ NoMonitor.subs = 0
  BY DEF NoMonitor, Monitor, Times
<1>3. late \in Nat /\ TypeOK /\ Roots(other) \subseteq Pids
  BY DEF SessionsInv, TypeOK, Roots
<1>4. Now \in Times /\ Now \in Nat /\ Now' = Now
  <2>1. Now \in Times
    BY NowType DEF SessionsInv, Times
  <2>2. QED
    BY <1>1, <2>1 DEF Now, LastTs, Times
<1>5. (\A r \in rows' : r \in Row) /\ \A r, s \in rows' : r.pid = s.pid => r = s
  <2>1. /\ had \in SUBSET rows
        /\ \A r \in fresh : r \in Row
        /\ \A r, s \in fresh : r.pid = s.pid => r = s
        /\ \A r \in fresh, s \in had : r.pid # s.pid
    BY <1>3 DEF Row
  <2> HIDE DEF had, fresh
  <2>2. QED
    BY <1>1, <1>3, <2>1, RowsAfter
<1>6. /\ \A s \in subs' : s \in SubRow
      /\ \A s, t \in subs' : s.file = t.file /\ s.line = t.line => s = t
  <2> DEFINE none == {}
  <2>1. /\ \A r \in none : r \in SubRow
        /\ \A r, s \in none : r.file = s.file /\ r.line = s.line => r = s
        /\ \A r \in none, s \in subs : ~(r.file = s.file /\ r.line = s.line)
        /\ subs' = none \cup Prune(subs, late)
    BY <1>1
  <2> HIDE DEF none
  <2>2. QED
    BY <1>3, <2>1, SubsAfter
<1>7. TypeOK'
  <2>1. \A f \in Files : Size(f)' = Size(f) /\ Size(f) \in Nat
    BY <1>1, <1>3, SizeType DEF Size
  <2>2. /\ monitor' \in [Files -> Monitor] /\ monitored' \subseteq Files
        /\ \A f \in Files : monitor'[f].offset <= Size(f)'
        /\ looked' \in [Files -> SUBSET Files]
    BY <1>1, <1>2, <2>1
  <2> HIDE DEF had, fresh
  <2>3. /\ UNCHANGED <<lines, half, old, running>> /\ scanned' \in Times
        /\ appeared' = {} /\ cutOff' = {} /\ eclipsed' \in BOOLEAN
    BY <1>1, <1>4
  <2>4. QED
    BY <1>3, <1>5, <1>6, <2>2, <2>3 DEF TypeOK
<1>8. LinesInv'
  BY <1>1 DEF SessionsInv, LinesInv, LastTs
<1>9. ScannedInv'
  <2>1. old <= Now
    <3>1. old <= scanned /\ scanned <= Now /\ old \in Int /\ scanned \in Int
      BY DEF SessionsInv, ScannedInv, TypeOK, Times
    <3>2. QED
      BY <1>4, <3>1
  <2>2. \A f \in Files : monitor'[f] = NoMonitor /\ Len(lines[f]) \in Nat
    BY <1>1, <1>3, SizeType
  <2>3. QED
    BY <1>1, <1>2, <1>4, <2>1, <2>2 DEF ScannedInv
<1>10. FoundInv'
  <2>1. \A f \in Files : Size(f)' = Size(f) /\ Size(f) \in Nat /\ Len(lines[f]) \in Nat
    BY <1>1, <1>3, SizeType DEF Size
  <2>2. \A f \in Files : monitor'[f].subs = 0
    BY <1>1, <1>2
  <2>3. \A f \in Files : \A i \in 1..Len(lines[f]) : ~(2 * i - 1 <= 0)
    BY <2>1
  <2>4. QED
    BY <1>1, <2>1, <2>2, <2>3 DEF FoundInv
<1>11. QED
  BY <1>7, <1>8, <1>9, <1>10 DEF SessionsInv

\* The calls that have a row in a set of them.
Calls(had) == {<<s.file, s.line>> : s \in had}

\* What a scan that reads sessions does to each monitor and to the table, when
\* the reading of f is shown.
ScanShows(f, late, busy) ==
  /\ \A g \in Read : Reading(g).ts <= Reading(f).ts
  /\ monitor'[Holder] = AfterMerge(Reading(f), busy)
  /\ looked'[Holder] = looked[Holder] \cup {f}
  /\ \A g \in Files \ {Holder} :
       \/ monitor'[g] = NoMonitor /\ looked'[g] = {}
       \/ /\ monitor'[g] = AfterReading(g) /\ looked'[g] = looked[g]
          /\ \A c \in appeared : c[1] = g => c \in appeared'
          /\ \A c \in cutOff : c[1] = g => c \in cutOff'
  /\ rows' = Prune({r \in rows : r.pid # realPID}, late)
               \cup {[pid |-> realPID, file |-> f, upto |-> Reading(f).upto, age |-> 0]}
  /\ subs' = NewSubs(Reading(f)) \cup
             Prune({s \in subs : <<s.file, s.line>> \notin Calls(NewSubs(Reading(f)))}, late)
  /\ appeared' \subseteq appeared \cup Calls(NewSubs(Reading(f)))
  /\ \A c \in appeared \cup Calls(NewSubs(Reading(f))) : c[1] = Holder => c \in appeared'
  /\ cutOff' \subseteq cutOff \cup CutOff(Holder)
  /\ \A c \in cutOff : c[1] = Holder => c \in cutOff'
  /\ f = Holder => CutOff(Holder) \subseteq cutOff'

LEMMA ScanSessionsDoes ==
  ASSUME SessionsInv, NEW late \in Delays, NEW busy \in BOOLEAN, ScanSessions(late, busy)
  PROVE  /\ Read # {} /\ Holder \in Files
         /\ \E f \in Read : ScanShows(f, late, busy)
         /\ monitored' \subseteq Files
         /\ DOMAIN monitor' = Files /\ monitor' = [g \in Files |-> monitor'[g]]
         /\ DOMAIN looked' = Files /\ looked' = [g \in Files |-> looked'[g]]
         /\ scanned' = Now /\ eclipsed' = FALSE /\ UNCHANGED <<lines, half, old, running>>
<1>1. Read # {}
  BY DEF ScanSessions
<1>2. PICK f \in Read : Merged = Reading(f) /\ \A g \in Read : Reading(g).ts <= Reading(f).ts
  BY <1>1, MergedIs DEF SessionsInv
<1>3. Holder \in Files /\ Reading(f).file = f
  BY <1>1, ReadType, ReadingType DEF SessionsInv
<1> DEFINE kept == (monitored \cap Read) \cup {Holder}
<1>4. /\ monitor' = [g \in Files |-> IF g = Holder THEN AfterMerge(Reading(f), busy)
                                     ELSE IF g \in kept THEN AfterReading(g) ELSE NoMonitor]
      /\ looked' = [g \in Files |-> IF g = Holder THEN looked[g] \cup {Reading(f).file}
                                    ELSE IF g \in kept THEN looked[g] ELSE {}]
  BY <1>2 DEF ScanSessions
<1>5. /\ rows' = Prune({r \in rows : r.pid # realPID}, late)
                   \cup {[pid |-> realPID, file |-> Reading(f).file,
                          upto |-> Reading(f).upto, age |-> 0]}
      /\ subs' = NewSubs(Reading(f)) \cup
                 Prune({s \in subs : <<s.file, s.line>> \notin
                                       {<<u.file, u.line>> : u \in NewSubs(Reading(f))}}, late)
      /\ appeared' = {c \in appeared \cup {<<s.file, s.line>> : s \in NewSubs(Reading(f))} :
                        c[1] \in kept}
      /\ cutOff' = {c \in cutOff : c[1] \in kept}
                      \cup (IF Reading(f).file = Holder THEN CutOff(Holder) ELSE {})
  BY <1>2 DEF ScanSessions
<1>6. monitored' \subseteq Files /\ scanned' = Now /\ eclipsed' = FALSE /\ UNCHANGED <<lines, half, old, running>>
  BY <1>3, ReadType DEF ScanSessions, world
<1>0. Holder \in kept
  OBVIOUS
<1> HIDE DEF kept
<1>7. /\ monitor'[Holder] = AfterMerge(Reading(f), busy)
      /\ looked'[Holder] = looked[Holder] \cup {f}
      /\ \A g \in Files \ {Holder} :
           \/ monitor'[g] = NoMonitor /\ looked'[g] = {}
           \/ /\ monitor'[g] = AfterReading(g) /\ looked'[g] = looked[g]
              /\ g \in kept
  BY <1>3, <1>4
<1>11. /\ appeared' \subseteq appeared \cup Calls(NewSubs(Reading(f)))
       /\ \A c \in appeared \cup Calls(NewSubs(Reading(f))) : c[1] \in kept => c \in appeared'
       /\ cutOff' \subseteq cutOff \cup CutOff(Holder)
       /\ \A c \in cutOff : c[1] \in kept => c \in cutOff'
       /\ f = Holder => CutOff(Holder) \subseteq cutOff'
  BY <1>3, <1>5 DEF Calls
<1>12. \A g \in Files \ {Holder} :
         \/ monitor'[g] = NoMonitor /\ looked'[g] = {}
         \/ /\ monitor'[g] = AfterReading(g) /\ looked'[g] = looked[g]
            /\ \A c \in appeared : c[1] = g => c \in appeared'
            /\ \A c \in cutOff : c[1] = g => c \in cutOff'
  BY <1>7, <1>11
<1>13. /\ \A c \in appeared \cup Calls(NewSubs(Reading(f))) : c[1] = Holder => c \in appeared'
       /\ \A c \in cutOff : c[1] = Holder => c \in cutOff'
  BY <1>0, <1>11
<1>14. /\ rows' = Prune({r \in rows : r.pid # realPID}, late)
                    \cup {[pid |-> realPID, file |-> f, upto |-> Reading(f).upto, age |-> 0]}
       /\ subs' = NewSubs(Reading(f)) \cup
                  Prune({s \in subs : <<s.file, s.line>> \notin Calls(NewSubs(Reading(f)))}, late)
  BY <1>3, <1>5 DEF Calls
<1>8. ScanShows(f, late, busy)
  BY <1>2, <1>7, <1>11, <1>12, <1>13, <1>14 DEF ScanShows
<1>9. /\ DOMAIN monitor' = Files /\ monitor' = [g \in Files |-> monitor'[g]]
      /\ DOMAIN looked' = Files /\ looked' = [g \in Files |-> looked'[g]]
  BY <1>4
<1>10. QED
  BY <1>1, <1>3, <1>6, <1>8, <1>9

\* The calls that a scan finds in the file it shows.
LEMMA NewSubsAre ==
  ASSUME SessionsInv, NEW f \in Read
  PROVE  /\ \A s \in NewSubs(Reading(f)) :
              s \in SubRow /\ s.file = f /\ s.parent = realPID /\ s.age = 0
         /\ \A s, t \in NewSubs(Reading(f)) : s.line = t.line => s = t
         /\ \A i \in 1..Whole(f) :
              SubsFrom <= 2 * i - 2 /\ lines[f][i].task =>
                <<f, i>> \in Calls(NewSubs(Reading(f)))
<1>1. f \in Files /\ Holder \in Files /\ running # {} /\ Reading(f).file = f
  BY ReadType, ReadingType DEF SessionsInv
<1>2. SubsFrom \in Nat /\ Whole(f) \in 0..MaxLines /\ realPID \in Pids
  <2>1. Len(lines[f]) \in 0..MaxLines /\ realPID \in Pids
    BY <1>1, LengthType, Youngest DEF SessionsInv
  <2>2. Whole(f) \in 0..MaxLines
    BY <1>1, <2>1, SizeType DEF SessionsInv
  <2>3. QED
    BY <1>1, <2>1, <2>2 DEF SessionsInv, TypeOK, Monitor, SubsFrom
<1>3. NewSubs(Reading(f)) =
        {[file |-> f, line |-> i, parent |-> realPID, age |-> 0] :
           i \in CallsIn(f, SubsFrom)}
  BY <1>1 DEF NewSubs
<1>4. ASSUME NEW s \in NewSubs(Reading(f))
      PROVE  s \in SubRow /\ s.file = f /\ s.parent = realPID /\ s.age = 0
  <2>1. PICK i \in CallsIn(f, SubsFrom) :
          s = [file |-> f, line |-> i, parent |-> realPID, age |-> 0]
    BY <1>3
  <2>2. i \in 1..MaxLines
    BY <1>2 DEF CallsIn
  <2>3. QED
    BY <1>1, <1>2, <2>1, <2>2 DEF SubRow
<1>5. ASSUME NEW s \in NewSubs(Reading(f)), NEW t \in NewSubs(Reading(f)), s.line = t.line
      PROVE  s = t
  BY <1>3, <1>5
<1>6. ASSUME NEW i \in 1..Whole(f), SubsFrom <= 2 * i - 2, lines[f][i].task
      PROVE  <<f, i>> \in Calls(NewSubs(Reading(f)))
  <2> DEFINE s == [file |-> f, line |-> i, parent |-> realPID, age |-> 0]
  <2>1. i \in CallsIn(f, SubsFrom)
    BY <1>6 DEF CallsIn
  <2>2. s \in NewSubs(Reading(f)) /\ s.file = f /\ s.line = i
    BY <1>3, <1>6, <2>1
  <2>3. QED
    BY <2>2 DEF Calls
<1>7. QED
  BY <1>4, <1>5, <1>6

LEMMA ScanSessionsStep ==
  ASSUME SessionsInv, NEW late \in Delays, NEW busy \in BOOLEAN, ScanSessions(late, busy)
  PROVE  SessionsInv'
<1>1. /\ Read # {} /\ Holder \in Files
      /\ monitored' \subseteq Files
      /\ DOMAIN monitor' = Files /\ monitor' = [g \in Files |-> monitor'[g]]
      /\ DOMAIN looked' = Files /\ looked' = [g \in Files |-> looked'[g]]
      /\ scanned' = Now /\ eclipsed' = FALSE /\ UNCHANGED <<lines, half, old, running>>
  BY ScanSessionsDoes
<1>2. PICK f \in Read : ScanShows(f, late, busy)
  BY ScanSessionsDoes
<1> DEFINE new  == NewSubs(Reading(f))
           row  == [pid |-> realPID, file |-> f, upto |-> Reading(f).upto, age |-> 0]
           stay == {s \in subs : <<s.file, s.line>> \notin Calls(new)}
           had  == {r \in rows : r.pid # realPID}
<1>3. /\ f \in Files /\ Reading(f).upto \in 1..MaxLines /\ realPID \in Pids
      /\ late \in Nat /\ TypeOK /\ LinesInv
  BY ReadType, ReadingType, Youngest DEF SessionsInv
<1>4. Now \in Times /\ Now \in Nat /\ Now' = Now
  <2>1. Now \in Times
    BY NowType DEF SessionsInv, Times
  <2>2. QED
    BY <1>1, <2>1 DEF Now, LastTs, Times
<1>5. NoMonitor \in Monitor /\ NoMonitor.offset = 0 /\ NoMonitor.lastOut = 0 /\ NoMonitor.subs = 0
  BY DEF NoMonitor, Monitor, Times
<1>6. \A g \in Files : Size(g)' = Size(g) /\ Size(g) \in Nat /\ Len(lines[g]) \in Nat
  BY <1>1, <1>3, SizeType DEF Size
<1>7. ASSUME NEW g \in Files
      PROVE  /\ monitor'[g] \in Monitor /\ monitor'[g].offset <= Size(g)
             /\ monitor'[g].lastOut <= Now
             /\ looked'[g] \in SUBSET Files
  <2>0. looked[g] \in SUBSET Files
    BY <1>3 DEF TypeOK
  <2>1. CASE g = Holder
    <3>1. /\ monitor'[g] \in Monitor /\ monitor'[g].offset = AfterReading(g).offset
          /\ monitor'[g].lastOut <= Now
      BY <1>1, <1>2, <2>1, HolderAfter DEF ScanShows
    <3>2. looked'[g] \in SUBSET Files
      BY <1>2, <1>3, <2>0, <2>1 DEF ScanShows
    <3>3. QED
      BY <3>1, <3>2, Advanced
  <2>2. CASE monitor'[g] = NoMonitor /\ looked'[g] = {}
    BY <1>4, <1>5, <1>6, <2>2
  <2>3. CASE monitor'[g] = AfterReading(g) /\ looked'[g] = looked[g]
    <3>1. monitor[g].lastOut <= scanned /\ scanned <= Now
          /\ monitor[g].lastOut \in Nat /\ scanned \in Nat
      BY DEF SessionsInv, ScannedInv, TypeOK, Monitor, Times
    <3>2. QED
      BY <1>4, <2>0, <2>3, <3>1, Advanced
  <2>4. QED
    BY <1>2, <2>1, <2>2, <2>3 DEF ScanShows
<1>8. (\A r \in rows' : r \in Row) /\ \A r, s \in rows' : r.pid = s.pid => r = s
  <2> DEFINE fresh == {row}
  <2>1. /\ had \in SUBSET rows
        /\ \A r \in fresh : r \in Row
        /\ \A r, s \in fresh : r.pid = s.pid => r = s
        /\ \A r \in fresh, s \in had : r.pid # s.pid
    BY <1>3 DEF Row
  <2>2. rows' = Prune(had, late) \cup fresh
    BY <1>2 DEF ScanShows
  <2>3. late \in Nat /\ TypeOK
    BY <1>3
  <2> HIDE DEF had, fresh, row, new, stay
  <2> DEFINE all == Prune(had, late) \cup fresh
  <2>4. (\A r \in all : r \in Row) /\ \A r, s \in all : r.pid = s.pid => r = s
    BY <2>1, <2>3, RowsAfter
  <2>5. rows' = all
    BY <2>2
  <2> HIDE DEF all
  <2>6. QED
    BY <2>4, <2>5
<1>9. /\ \A s \in subs' : s \in SubRow
      /\ \A s, t \in subs' : s.file = t.file /\ s.line = t.line => s = t
  <2>1. /\ stay \in SUBSET subs
        /\ \A r \in new : r \in SubRow
        /\ \A r, s \in new : r.file = s.file /\ r.line = s.line => r = s
    BY NewSubsAre
  <2>2. \A r \in new, s \in stay : ~(r.file = s.file /\ r.line = s.line)
    BY DEF Calls
  <2>3. subs' = new \cup Prune(stay, late)
    BY <1>2 DEF ScanShows
  <2> HIDE DEF new, stay
  <2>4. QED
    BY <1>3, <2>1, <2>2, <2>3, SubsAfter
<1>10. /\ appeared' \subseteq Files \X (1..MaxLines)
       /\ cutOff' \subseteq Files \X (1..MaxLines)
  <2>1. \A s \in new : s.file \in Files /\ s.line \in 1..MaxLines
    BY NewSubsAre DEF SubRow
  <2>2. /\ appeared' \subseteq appeared \cup Calls(new)
        /\ cutOff' \subseteq cutOff \cup CutOff(Holder)
    BY <1>2 DEF ScanShows
  <2>3. CutOff(Holder) \subseteq Files \X (1..MaxLines)
    <3>1. Len(lines[Holder]) \in 0..MaxLines
      BY <1>1, <1>3, LengthType
    <3>2. Holder \in half => Len(lines[Holder]) # 0
      BY <1>1, <1>3 DEF TypeOK
    <3>3. QED
      BY <1>1, <3>1, <3>2 DEF CutOff
  <2> HIDE DEF new
  <2>4. QED
    BY <1>3, <2>1, <2>2, <2>3 DEF TypeOK, Calls
<1>11. TypeOK'
  <2>1. /\ monitor' \in [Files -> Monitor] /\ looked' \in [Files -> SUBSET Files]
        /\ \A g \in Files : monitor'[g].offset <= Size(g)'
    BY <1>1, <1>6, <1>7
  <2>2. /\ UNCHANGED <<lines, half, old, running>> /\ scanned' \in Times
        /\ eclipsed' = FALSE /\ monitored' \subseteq Files
    BY <1>1, <1>4
  <2> HIDE DEF had, row, new, stay
  <2>3. QED
    BY <1>3, <1>8, <1>9, <1>10, <2>1, <2>2 DEF TypeOK
<1>12. LinesInv'
  BY <1>1, <1>3 DEF LinesInv, LastTs
<1>13. ScannedInv'
  <2>1. old <= Now
    <3>1. old <= scanned /\ scanned <= Now /\ old \in Int /\ scanned \in Int
      BY DEF SessionsInv, ScannedInv, TypeOK, Times
    <3>2. QED
      BY <1>4, <3>1
  <2>2. \A g \in Files : \A i \in 1..Len(lines[g]) : lines[g][i].ts <= Now
    BY <1>3, <1>4, WholeType
  <2>3. QED
    BY <1>1, <1>4, <1>7, <2>1, <2>2 DEF ScannedInv
<1>14. FoundInv'
  <2> SUFFICES ASSUME NEW g \in Files, looked'[g] \subseteq {g}
               PROVE  /\ monitor'[g].subs <= Size(g)
                      /\ \A i \in 1..Len(lines[g]) :
                           2 * i - 1 <= monitor'[g].subs /\ lines[g][i].task =>
                             <<g, i>> \in appeared' \cup cutOff'
    BY <1>1, <1>6 DEF FoundInv
  <2>1. looked[g] \subseteq {g} =>
          /\ monitor[g].subs <= Size(g)
          /\ \A i \in 1..Len(lines[g]) :
               2 * i - 1 <= monitor[g].subs /\ lines[g][i].task => <<g, i>> \in appeared \cup cutOff
    BY DEF SessionsInv, FoundInv
  <2>2. \A i \in 1..Len(lines[g]) : <<g, i>>[1] = g
    OBVIOUS
  <2>3. CASE g = Holder
    <3>1. f = g /\ looked[g] \subseteq {g}
      BY <1>2, <2>3 DEF ScanShows
    <3>2. SubsFrom = monitor[g].subs /\ SubsFrom \in Nat
      BY <1>3, <2>3 DEF SubsFrom, TypeOK, Monitor
    <3>3. monitor'[g].subs \in {SubsFrom, Size(g)} /\ monitor'[g].subs >= Size(g)
      BY <1>1, <1>2, <2>3, <3>1, HolderAfter DEF ScanShows
    <3>4. monitor'[g].subs = Size(g)
      BY <1>6, <2>1, <3>1, <3>2, <3>3
    <3>5. ASSUME NEW i \in 1..Len(lines[g]), lines[g][i].task
          PROVE  <<g, i>> \in appeared' \cup cutOff'
      <4>1. CASE 2 * i - 1 <= SubsFrom
        <5>1. <<g, i>> \in appeared \cup cutOff
          BY <2>1, <3>1, <3>2, <3>5, <4>1
        <5>2. QED
          BY <1>2, <2>2, <2>3, <5>1 DEF ScanShows
      <4>2. CASE SubsFrom <= 2 * i - 2 /\ i <= Whole(g)
        <5>1. <<g, i>> \in Calls(new)
          BY <3>1, <3>5, <4>2, NewSubsAre
        <5>2. QED
          BY <1>2, <2>2, <2>3, <5>1 DEF ScanShows
      <4>3. CASE ~(i <= Whole(g))
        <5>1. g \in half /\ i = Len(lines[g])
          BY <1>3, <4>3, SizeType
        <5>2. <<g, i>> \in CutOff(Holder)
          BY <2>3, <3>5, <5>1 DEF CutOff
        <5>3. QED
          BY <1>2, <2>3, <3>1, <5>2 DEF ScanShows
      <4>4. i \in Nat
        BY <1>3, SizeType
      <4>5. 2 * i - 1 <= SubsFrom \/ SubsFrom <= 2 * i - 2
        BY <3>2, <4>4
      <4>6. QED
        BY <4>1, <4>2, <4>3, <4>5
    <3>6. QED
      BY <1>6, <3>4, <3>5
  <2>4. CASE monitor'[g] = NoMonitor
    BY <1>5, <1>6, <2>4
  <2>5. CASE /\ monitor'[g] = AfterReading(g) /\ looked'[g] = looked[g]
             /\ \A c \in appeared : c[1] = g => c \in appeared'
             /\ \A c \in cutOff : c[1] = g => c \in cutOff'
    <3>1. monitor'[g].subs = monitor[g].subs
      BY <2>5, Advanced
    <3>2. QED
      BY <2>1, <2>2, <2>5, <3>1
  <2>6. QED
    BY <1>2, <2>3, <2>4, <2>5 DEF ScanShows
<1>15. QED
  BY <1>11, <1>12, <1>13, <1>14 DEF SessionsInv

LEMMA SessionsStep ==
  ASSUME SessionsInv, [Next]_vars
  PROVE  SessionsInv'
BY WriteStep, WorldStep, ScanProcsStep, ScanSessionsStep DEF Next, Scan

LEMMA SessionsInit == Init => SessionsInv
<1> SUFFICES ASSUME Init
             PROVE  SessionsInv
  OBVIOUS
<1>1. TypeOK
  <2>1. NoMonitor \in Monitor /\ NoMonitor.offset = 0 /\ 0 \in Times
    BY DEF NoMonitor, Monitor, Times
  <2>2. /\ lines \in [Files -> Seq(Line)] /\ \A f \in Files : Size(f) = 0
        /\ monitor \in [Files -> Monitor] /\ \A f \in Files : monitor[f].offset = 0
    BY <2>1 DEF Init, Size
  <2>3. \A f \in Files : monitor[f].offset <= Size(f)
    BY <2>2
  <2>4. looked \in [Files -> SUBSET Files] /\ half = {} /\ rows = {} /\ subs = {}
    BY DEF Init
  <2>5. /\ old \in Times /\ running = {} /\ monitored = {} /\ appeared = {} /\ cutOff = {}
        /\ scanned \in Times /\ eclipsed \in BOOLEAN
    BY <2>1 DEF Init
  <2>6. QED
    BY <2>2, <2>3, <2>4, <2>5 DEF TypeOK
<1>2. ScannedInv
  <2>1. PICK k \in 0..MaxLines : Now = 2 * k + 1
    BY <1>1, NowType
  <2>2. old = 0 /\ scanned = 0 /\ \A f \in Files : lines[f] = <<>> /\ monitor[f] = NoMonitor
    BY DEF Init
  <2>3. QED
    BY <2>1, <2>2 DEF ScannedInv, NoMonitor
<1>3. LinesInv /\ FoundInv
  <2>1. \A f \in Files : lines[f] = <<>> /\ monitor[f] = NoMonitor /\ Size(f) = 0
    BY DEF Init, Size
  <2>2. QED
    BY <2>1 DEF LinesInv, FoundInv, NoMonitor
<1>4. QED
  BY <1>1, <1>2, <1>3 DEF SessionsInv

\* Every variable keeps its type: no monitor is ever past the end of its file,
\* and a process and a call never have two rows.
THEOREM Types == Spec => []TypeOK
<1>1. SessionsInv /\ [Next]_vars => SessionsInv'
  BY SessionsStep
<1>2. SessionsInv => TypeOK
  BY DEF SessionsInv
<1>3. QED
  BY SessionsInit, <1>1, <1>2, PTL DEF Spec

-----------------------------------------------------------------------------
(***************************************************************************)
(* What a scan shows.                                                      *)
(***************************************************************************)

\* A session with a whole line since the last scan has news, and one without
\* news has none.
LEMMA NewsSince ==
  ASSUME SessionsInv, NEW f \in Listed, ~HasNews(f)
  PROVE  WholeTs(f) <= scanned
<1>1. f \in Files /\ TypeOK /\ LinesInv
  BY ReadType DEF SessionsInv
<1>2. /\ Whole(f) \in Nat /\ scanned \in Nat /\ monitor[f].offset \in Nat
      /\ Offset(f) \in {0, monitor[f].offset}
  <2>1. scanned \in Nat /\ monitor[f] \in Monitor
    BY <1>1 DEF TypeOK, Times
  <2>2. QED
    BY <1>1, <2>1, SizeType DEF Monitor, Offset
<1>3. CASE Whole(f) = 0
  BY <1>2, <1>3 DEF WholeTs
<1>4. CASE Whole(f) # 0
  <2>1. Whole(f) \in 1..Len(lines[f]) /\ WholeTs(f) = lines[f][Whole(f)].ts
    BY <1>1, <1>2, <1>4, WholeType
  <2>2. 2 * Whole(f) - 1 <= monitor[f].offset
    BY <1>2, <1>4 DEF HasNews
  <2>3. QED
    BY <1>1, <2>1, <2>2 DEF SessionsInv, ScannedInv
<1>5. QED
  BY <1>3, <1>4

\* The row that a scan shows of a project with news.
LEMMA NewsShown ==
  ASSUME SessionsInv, NEW late \in Delays, Scan(late), NEW e \in Listed, WholeTs(e) > scanned
  PROVE  ShowsNewest
<1>0. ASSUME NEW g \in Listed
      PROVE  g \in Files /\ WholeTs(g) \in Nat
  BY <1>0, ReadType, WholeType DEF SessionsInv, Times
<1>1. scanned \in Nat /\ old \in Nat /\ old <= scanned
  BY DEF SessionsInv, ScannedInv, TypeOK, Times
<1>2. HasNews(e) /\ e \in Read
  <2>1. HasNews(e)
    BY <1>0, <1>1, NewsSince
  <2>2. WholeTs(e) > old
    BY <1>0, <1>1
  <2>3. QED
    BY <2>1, <2>2 DEF Read
<1>3. PICK busy \in BOOLEAN : ScanSessions(late, busy)
  BY <1>2 DEF Scan, ScanProcs
<1>4. PICK f \in Read : ScanShows(f, late, busy)
  BY <1>3, ScanSessionsDoes
<1>5. f \in Listed /\ f \in Files
  BY ReadType
<1>6. monitor[f].lastOut \in Int /\ monitor[f].lastOut <= scanned
  BY <1>5 DEF SessionsInv, ScannedInv, TypeOK, Monitor, Times
<1>7. Reading(e).ts = WholeTs(e) /\ Reading(e).ts <= Reading(f).ts
  BY <1>2, <1>4, ReadingType DEF SessionsInv, ScanShows
<1>8. HasNews(f)
  <2>1. ~HasNews(f) => Reading(f).ts = monitor[f].lastOut
    BY ReadingType DEF SessionsInv
  <2>2. QED
    BY <1>0, <1>1, <1>6, <1>7, <2>1
<1>9. Reading(f).ts = WholeTs(f) /\ Reading(f).upto = Whole(f)
  BY <1>8, ReadingType DEF SessionsInv
<1>10. ASSUME NEW g \in Listed
       PROVE  WholeTs(g) <= WholeTs(f)
  <2>1. WholeTs(g) \in Nat /\ WholeTs(e) \in Nat /\ WholeTs(f) \in Nat
    BY <1>0, <1>5
  <2>2. CASE g \in Read /\ HasNews(g)
    BY <1>4, <1>9, <2>2, ReadingType DEF SessionsInv, ScanShows
  <2>3. CASE HasNews(g) /\ g \notin Read
    <3>1. ~(WholeTs(g) > old)
      BY <2>3 DEF Read
    <3>2. QED
      BY <1>1, <1>7, <1>9, <2>1, <3>1
  <2>4. CASE ~HasNews(g)
    BY <1>1, <1>7, <1>9, <2>1, <2>4, NewsSince
  <2>5. QED
    BY <2>2, <2>3, <2>4
<1>11. Newest(f)
  BY <1>5, <1>10 DEF Newest
<1> DEFINE row == [pid |-> realPID, file |-> f, upto |-> Reading(f).upto, age |-> 0]
<1>12. row \in rows'
  BY <1>4 DEF ScanShows
<1>13. QED
  BY <1>9, <1>11, <1>12 DEF ShowsNewest

\* The steps of the world change neither the table nor the readings.
LEMMA OnlyScans ==
  ASSUME [Next]_vars, rows' # rows \/ monitor' # monitor \/ scanned' # scanned
  PROVE  \E late \in Delays : Scan(late)
BY DEF Next, Write, Finish, TwoHours, StartOrExit, vars, world, readers, table, history

\* Whoever wrote last is shown: if some session has a whole line since the scan
\* before, the row of the process shows the newest whole line of all its
\* sessions, whichever of them the monitors, the caches and the merging kept.
THEOREM NewestShown == Spec => NewsIsShown
<1>1. ASSUME SessionsInv, [Next]_vars
      PROVE  [scanned' # scanned /\ (\E f \in Listed : WholeTs(f) > scanned) => ShowsNewest]_vars
  BY <1>1, OnlyScans, NewsShown
<1>2. SessionsInv /\ [Next]_vars => SessionsInv'
  BY SessionsStep
<1>3. QED
  BY SessionsInit, <1>1, <1>2, PTL DEF Spec, NewsIsShown

\* A project whose process runs is represented by its youngest process after
\* every scan, with sessions or without, unless its root was skipped for a
\* session of another project.
LEMMA Represented ==
  ASSUME SessionsInv, NEW late \in Delays, Scan(late), running # {}, ~eclipsed'
  PROVE  \E r \in rows' : r.pid = realPID /\ r.age = 0
<1>1. ASSUME NEW other \in BOOLEAN, ScanProcs(late, other)
      PROVE  \E r \in rows' : r.pid = realPID /\ r.age = 0
  <2> DEFINE row == [pid |-> realPID, file |-> None, upto |-> 0, age |-> 0]
  <2>1. ~other
    BY <1>1 DEF ScanProcs
  <2>2. row \in rows'
    <3>1. realPID \in Roots(other)
      BY <2>1, Youngest DEF SessionsInv, Roots
    <3>2. QED
      BY <1>1, <3>1 DEF ScanProcs
  <2>3. QED
    BY <2>2
<1>2. ASSUME NEW busy \in BOOLEAN, ScanSessions(late, busy)
      PROVE  \E r \in rows' : r.pid = realPID /\ r.age = 0
  <2>1. PICK f \in Read : ScanShows(f, late, busy)
    BY <1>2, ScanSessionsDoes
  <2> DEFINE row == [pid |-> realPID, file |-> f, upto |-> Reading(f).upto, age |-> 0]
  <2>2. row \in rows'
    BY <2>1 DEF ScanShows
  <2>3. QED
    BY <2>2
<1>3. QED
  BY <1>1, <1>2 DEF Scan

\* Between the branch of the scan that shows processes and the one that shows
\* sessions, a project with a running claude falls through only when the scan
\* read no session of it and one of another project.
THEOREM Vanishes == Spec => NeverVanishes
<1>1. ASSUME SessionsInv, [Next]_vars
      PROVE  [(rows' # rows \/ scanned' # scanned) /\ running # {} /\ ~eclipsed' =>
                \E r \in rows' : r.pid = realPID /\ r.age = 0]_vars
  BY <1>1, OnlyScans, Represented
<1>2. SessionsInv /\ [Next]_vars => SessionsInv'
  BY SessionsStep
<1>3. QED
  BY SessionsInit, <1>1, <1>2, PTL DEF Spec, NeverVanishes

\* The sub-agents of the file a monitor belongs to, after a scan that used it
\* for this file only.
LEMMA AllAppear ==
  ASSUME SessionsInv, SessionsInv', NEW late \in Delays, Scan(late),
         Read # {}, looked'[Holder] = {Holder},
         NEW i \in DOMAIN lines[Holder], lines[Holder][i].task
  PROVE  <<Holder, i>> \in appeared' \cup cutOff'
<1>1. PICK busy \in BOOLEAN : ScanSessions(late, busy)
  BY DEF Scan, ScanProcs
<1>2. PICK f \in Read : ScanShows(f, late, busy)
  BY <1>1, ScanSessionsDoes
<1>3. PICK h \in Files : h = Holder
  BY ReadType
<1>4. f = h /\ looked'[h] \subseteq {h} /\ lines' = lines
  BY <1>1, <1>2, <1>3, ScanSessionsDoes DEF ScanShows
<1>5. Len(lines[h]) \in Nat /\ i \in 1..Len(lines[h])
  BY <1>3 DEF SessionsInv, TypeOK
<1>6. 2 * i - 1 <= monitor'[h].subs
  <2>1. monitor'[h].subs >= Size(h)
    BY <1>2, <1>3, <1>4, HolderAfter DEF ScanShows
  <2>2. monitor'[h] \in Monitor
    BY <1>3 DEF SessionsInv, TypeOK
  <2>3. Size(h) \in Nat /\ 2 * Len(lines[h]) - 1 <= Size(h) /\ monitor'[h].subs \in Nat
    BY <1>3, <2>2, SizeType DEF SessionsInv, Monitor
  <2>4. QED
    BY <1>5, <2>1, <2>3
<1>7. \A j \in 1..Len(lines'[h]) :
        2 * j - 1 <= monitor'[h].subs /\ lines'[h][j].task => <<h, j>> \in appeared' \cup cutOff'
  BY <1>4 DEF SessionsInv, FoundInv
<1>8. QED
  BY <1>3, <1>4, <1>5, <1>6, <1>7

\* Reading the growing file piece by piece misses no sub-agent, as long as the
\* monitor was never used for another session of the process: the offset it
\* keeps runs ahead of what has had a row only by a call that was half written.
THEOREM Appear == Spec => SubagentsAppear
<1>1. ASSUME SessionsInv, SessionsInv', [Next]_vars
      PROVE  [Read # {} /\ (monitor' # monitor \/ scanned' # scanned) /\ looked'[Holder] = {Holder} =>
                \A i \in DOMAIN lines[Holder] :
                  lines[Holder][i].task => <<Holder, i>> \in appeared' \cup cutOff']_vars
  BY <1>1, OnlyScans, AllAppear
<1>2. SessionsInv /\ [Next]_vars => SessionsInv'
  BY SessionsStep
<1>3. QED
  BY SessionsInit, <1>1, <1>2, PTL DEF Spec, SubagentsAppear

-----------------------------------------------------------------------------
(***************************************************************************)
(* Sub-agents.  Both branches of a scan either write the row of a process  *)
(* anew or let it age by the same delay as the rows below it; a sub-agent  *)
(* that is written is hung below the row that is written with it.          *)
(***************************************************************************)

\* A scan that writes the rows of the processes `fresh` anew, prunes the others
\* and adds sub-agents below a process it has written.
LEMMA ScanHangs ==
  ASSUME TypeOK, SubagentsHang, NEW late \in Delays, NEW fresh, NEW new, NEW stay \in SUBSET subs,
         \A r \in fresh : r.age = 0,
         \A s \in new : s.age = 0 /\ \E r \in fresh : r.pid = s.parent,
         rows' = Prune({r \in rows : \A f \in fresh : f.pid # r.pid}, late) \cup fresh,
         subs' = new \cup Prune(stay, late)
  PROVE  SubagentsHang'
<1> DEFINE former == {r \in rows : \A f \in fresh : f.pid # r.pid}
<1>1. late \in Nat
  OBVIOUS
<1>2. ASSUME NEW s \in subs'
      PROVE  \E r \in rows' : r.pid = s.parent /\ r.age <= s.age
  <2>1. CASE s \in new
    BY <2>1
  <2>2. CASE s \in Prune(stay, late)
    <3>1. PICK u \in stay : s = [u EXCEPT !.age = @ + late] /\ s.age <= Retention
      BY <2>2, PruneRows
    <3>2. u \in SubRow /\ u.age \in Nat
      BY DEF TypeOK, SubRow
    <3>3. s.parent = u.parent /\ s.age = u.age + late
      BY <1>1, <3>1, <3>2, AgeSub
    <3>4. PICK r \in rows : r.pid = u.parent /\ r.age <= u.age
      BY DEF SubagentsHang
    <3>5. r \in Row /\ r.age \in Nat
      BY DEF TypeOK, Row
    <3>6. CASE \E f \in fresh : f.pid = r.pid
      BY <1>1, <3>2, <3>3, <3>4, <3>6
    <3>7. CASE \A f \in fresh : f.pid # r.pid
      <4> DEFINE t == [r EXCEPT !.age = @ + late]
      <4>1. t.pid = r.pid /\ t.age = r.age + late
        BY <1>1, <3>5, AgeRow
      <4>2. t.age <= s.age /\ t.age <= Retention
        BY <1>1, <3>1, <3>2, <3>3, <3>4, <3>5, <4>1
      <4>3. t \in Prune(former, late)
        BY <3>7, <4>2, PruneKeeps
      <4>4. QED
        BY <3>3, <3>4, <4>1, <4>2, <4>3
    <3>8. QED
      BY <3>6, <3>7
  <2>3. QED
    BY <2>1, <2>2
<1>3. QED
  BY <1>2 DEF SubagentsHang

LEMMA HangStep ==
  ASSUME SessionsInv, SubagentsHang, [Next]_vars
  PROVE  SubagentsHang'
<1>0. TypeOK
  BY DEF SessionsInv
<1>1. ASSUME NEW late \in Delays, NEW other \in BOOLEAN, ScanProcs(late, other)
      PROVE  SubagentsHang'
  <2> DEFINE fresh == {[pid |-> p, file |-> None, upto |-> 0, age |-> 0] : p \in Roots(other)}
             new   == {}
  <2>1. \A r \in fresh : r.age = 0 /\ r.pid \in Roots(other)
    OBVIOUS
  <2>2. ASSUME NEW p \in Roots(other)
        PROVE  \E f \in fresh : f.pid = p
    <3> DEFINE f == [pid |-> p, file |-> None, upto |-> 0, age |-> 0]
    <3>1. f \in fresh /\ f.pid = p
      OBVIOUS
    <3>2. QED
      BY <3>1
  <2>3. /\ rows' = Prune({r \in rows : r.pid \notin Roots(other)}, late) \cup fresh
        /\ subs' = new \cup Prune(subs, late)
    BY <1>1 DEF ScanProcs
  <2>4. \A s \in new : s.age = 0 /\ \E r \in fresh : r.pid = s.parent
    OBVIOUS
  <2> HIDE DEF fresh, new
  <2>5. {r \in rows : r.pid \notin Roots(other)} = {r \in rows : \A f \in fresh : f.pid # r.pid}
    BY <2>1, <2>2
  <2>6. rows' = Prune({r \in rows : \A f \in fresh : f.pid # r.pid}, late) \cup fresh
    BY <2>3, <2>5
  <2>7. subs \in SUBSET subs
    OBVIOUS
  <2>8. QED
    BY <1>0, <2>1, <2>3, <2>4, <2>6, <2>7, ScanHangs, ZenonT(60)
<1>2. ASSUME NEW late \in Delays, NEW busy \in BOOLEAN, ScanSessions(late, busy)
      PROVE  SubagentsHang'
  <2>1. PICK f \in Read : ScanShows(f, late, busy)
    BY <1>2, ScanSessionsDoes
  <2> DEFINE new   == NewSubs(Reading(f))
             stay  == {s \in subs : <<s.file, s.line>> \notin Calls(new)}
             row   == [pid |-> realPID, file |-> f, upto |-> Reading(f).upto, age |-> 0]
             fresh == {row}
  <2>2. row.pid = realPID /\ row.age = 0 /\ stay \in SUBSET subs
    OBVIOUS
  <2>3. \A s \in new : s.age = 0 /\ s.parent = realPID
    BY NewSubsAre
  <2>4. /\ rows' = Prune({r \in rows : r.pid # realPID}, late) \cup fresh
        /\ subs' = new \cup Prune(stay, late)
    BY <2>1 DEF ScanShows
  <2> HIDE DEF new, stay, row
  <2>5. {r \in rows : r.pid # realPID} = {r \in rows : \A r1 \in fresh : r1.pid # r.pid}
    BY <2>2
  <2>6. /\ \A r \in fresh : r.age = 0
        /\ \A s \in new : s.age = 0 /\ \E r \in fresh : r.pid = s.parent
    BY <2>2, <2>3
  <2> HIDE DEF fresh
  <2>7. rows' = Prune({r \in rows : \A r1 \in fresh : r1.pid # r.pid}, late) \cup fresh
    BY <2>4, <2>5
  <2>8. QED
    BY <1>0, <2>2, <2>4, <2>6, <2>7, ScanHangs, ZenonT(60)
<1>3. CASE UNCHANGED <<rows, subs>>
  BY <1>3 DEF SubagentsHang
<1>4. QED
  BY <1>1, <1>2, <1>3
     DEF Next, Scan, Write, Finish, TwoHours, StartOrExit, vars, world, readers, table, history

\* A sub-agent's row never outlives the row it hangs below, whatever processes
\* and sessions come and go.
THEOREM Hang == Spec => []SubagentsHang
<1>1. Init => SubagentsHang
  BY DEF Init, SubagentsHang
<1>2. SubagentsHang /\ SessionsInv /\ [Next]_vars => SubagentsHang'
  BY HangStep
<1>3. SessionsInv /\ [Next]_vars => SessionsInv'
  BY SessionsStep
<1>4. QED
  BY SessionsInit, <1>1, <1>2, <1>3, PTL DEF Spec
=============================================================================
