-------------------------- MODULE TranscriptProofs --------------------------
(***************************************************************************)
(* Proofs about Transcript, for files of every length: its type invariant, *)
(* that reading piece by piece comes to the same as reading the whole file *)
(* again, that a session shown as waiting has a call without a result, and *)
(* that a session which is shown does not vanish.                          *)
(***************************************************************************)
EXTENDS Transcript, Induction

USE TranscriptAssumption, NoneAssumption

-----------------------------------------------------------------------------
(***************************************************************************)
(* Lines and what parsing makes of them.                                   *)
(***************************************************************************)

\* A line of a call or a result has an id, every other line has none.
LEMMA LineIs ==
  ASSUME NEW l \in Line
  PROVE  /\ l.age \in Ages /\ l.cut \in Cuts
         /\ \/ l.kind \in Called \cup {"result"} /\ l.id \in ToolUses
            \/ l.kind \in Plain /\ l.id = None
<1>1. CASE l \in [kind : Called \cup {"result"}, id : ToolUses, age : Ages, cut : Cuts]
  BY <1>1
<1>2. CASE l \in [kind : Plain, id : {None}, age : Ages, cut : Cuts]
  BY <1>2
<1>3. QED
  BY <1>1, <1>2 DEF Line

\* nil is a reading.
LEMMA NoInfoType == NoInfo \in Info
BY DEF NoInfo, Info, Ages, Old

\* What a line of content makes of a reading.
LineRead(b, a, l) ==
  /\ b.type = TypeOf(l.kind) /\ b.type # None /\ b.age = l.age
  /\ l.kind # "error" /\ ~a.error => ~b.error
  /\ b.tool = IF l.kind \in Called THEN l.kind
              ELSE IF l.kind \in {"error", "system"} THEN a.tool ELSE None
  /\ b.pending = IF l.kind \in Called THEN a.pending \cup {l.id}
                 ELSE a.pending \ {l.id}

\* What one turn of readTranscript's loop does.
LEMMA LineParsed ==
  ASSUME NEW a \in Info, NEW l \in Line
  PROVE  /\ ParseLine(a, l) \in Info
         /\ ~Content(l) => ParseLine(a, l) = a
         /\ Content(l) => LineRead(ParseLine(a, l), a, l)
<1>1. CASE ~Content(l)
  BY <1>1 DEF ParseLine
<1>2. CASE Content(l)
  <2> DEFINE b   == ParseLine(a, l)
             err == l.kind = "error" \/ (a.error /\ TypeOf(l.kind) # "assistant")
             api == IF l.kind = "error" THEN l.age ELSE a.apiAge
             tl  == IF l.kind \in Called THEN l.kind
                    ELSE IF l.kind \in {"error", "system"} THEN a.tool ELSE None
             pen == IF l.kind \in Called THEN a.pending \cup {l.id}
                    ELSE a.pending \ {l.id}
  <2>1. b = [type |-> TypeOf(l.kind), age |-> l.age, error |-> err, apiAge |-> api,
             tool |-> tl, pending |-> pen]
    BY <1>2 DEF ParseLine
  <2>2. TypeOf(l.kind) \in {"user", "assistant", "system"}
    BY DEF TypeOf
  <2>3. l.age \in Ages /\ api \in Ages
    BY LineIs DEF Info
  <2>4. err \in BOOLEAN /\ (l.kind # "error" /\ ~a.error => ~err)
    BY DEF Info
  <2>5. tl \in {None, "call", "ask"}
    BY DEF Info, Called
  <2>6. pen \in SUBSET ToolUses
    BY LineIs DEF Info, Called, Plain
  <2> HIDE DEF b, err, api, tl, pen
  <2>7. /\ b.type = TypeOf(l.kind) /\ b.age = l.age /\ b.error = err
        /\ b.tool = tl /\ b.pending = pen
    BY <2>1
  <2>8. b \in Info
    BY <2>1, <2>2, <2>3, <2>4, <2>5, <2>6 DEF Info
  <2>9. b.type # None
    BY <2>2, <2>7 DEF None
  <2>10. QED
    BY <1>2, <2>4, <2>7, <2>8, <2>9 DEF b, tl, pen, LineRead
<1>3. QED
  BY <1>1, <1>2

\* The recursion of ParseLines.
Parsing(A, ls, start, passed) ==
  \A n \in 0..Len(ls) :
    /\ A[n] \in Info
    /\ n <= passed => A[n] = start
    /\ n > passed => A[n] = ParseLine(A[n - 1], ls[n])

\* The recursion exists and yields a reading after every line.
LEMMA LinesParsed ==
  ASSUME NEW ls \in Seq(Line), NEW start \in Info, NEW passed \in Nat
  PROVE  Parsing(ParseLines(ls, start, passed), ls, start, passed)
<1> DEFINE step == [n \in Nat |-> [a \in Info |->
                      IF n <= passed \/ n > Len(ls) THEN start ELSE ParseLine(a, ls[n])]]
           Rec(f) == [n \in 0..Len(ls) |->
                        IF n <= passed THEN start ELSE ParseLine(f[n - 1], ls[n])]
           A == ParseLines(ls, start, passed)
<1>1. Len(ls) \in Nat /\ \A n \in 1..Len(ls) : ls[n] \in Line
  OBVIOUS
<1>2. step \in [Nat -> [Info -> Info]]
  <2>1. ASSUME NEW n \in Nat, NEW a \in Info
        PROVE  (IF n <= passed \/ n > Len(ls) THEN start ELSE ParseLine(a, ls[n])) \in Info
    <3>1. CASE n <= passed \/ n > Len(ls)
      BY <3>1
    <3>2. CASE ~(n <= passed \/ n > Len(ls))
      <4>1. ls[n] \in Line
        BY <1>1, <3>2
      <4>2. ParseLine(a, ls[n]) \in Info
        BY <4>1, LineParsed
      <4>3. QED
        BY <3>2, <4>2
    <3>3. QED
      BY <3>1, <3>2
  <2>2. QED
    BY <2>1
<1>3. PICK f : Iterated(Info, start, step, f)
  <2> HIDE DEF step
  <2> QED
    BY <1>2, Iteration
<1>4. f \in [Nat -> Info] /\ f[0] = start
      /\ \A n \in Nat : n # 0 => f[n] = step[n][f[n - 1]]
  BY <1>3 DEF Iterated
<1> DEFINE g == [n \in 0..Len(ls) |-> f[n]]
<1>5. g = Rec(g)
  <2>1. ASSUME NEW n \in 0..Len(ls)
        PROVE  f[n] = IF n <= passed THEN start ELSE ParseLine(g[n - 1], ls[n])
    <3>1. CASE n = 0
      BY <1>4, <3>1
    <3>2. CASE n # 0
      <4>1. n \in Nat /\ n - 1 \in Nat /\ n - 1 \in 0..Len(ls) /\ n <= Len(ls)
        BY <1>1, <3>2
      <4>2. f[n - 1] \in Info /\ g[n - 1] = f[n - 1] /\ f[n] = step[n][f[n - 1]]
        BY <1>4, <3>2, <4>1
      <4>3. step[n][f[n - 1]] = IF n <= passed \/ n > Len(ls) THEN start ELSE ParseLine(f[n - 1], ls[n])
        BY <4>1, <4>2
      <4>4. QED
        BY <1>1, <4>1, <4>2, <4>3
    <3>3. QED
      BY <3>1, <3>2
  <2>2. QED
    BY <2>1
<1>6. A = Rec(A)
  <2>1. A = CHOOSE h : h = Rec(h)
    BY DEF ParseLines
  <2>2. QED
    BY <1>5, <2>1
<1> HIDE DEF A
<1>7. \A n \in 0..Len(ls) : A[n] = IF n <= passed THEN start ELSE ParseLine(A[n - 1], ls[n])
  BY <1>6
<1> DEFINE S == {n \in 0..Len(ls) : A[n] \in Info}
<1>8. 0 \in S
  BY <1>1, <1>7
<1>9. ASSUME NEW n \in 0..Len(ls), n \in S, n < Len(ls)
      PROVE  n + 1 \in S
  <2>1. n + 1 \in 0..Len(ls) /\ n + 1 \in 1..Len(ls) /\ (n + 1) - 1 = n
    BY <1>1, <1>9
  <2>2. A[n + 1] = IF n + 1 <= passed THEN start ELSE ParseLine(A[n], ls[n + 1])
    BY <1>7, <2>1
  <2>3. QED
    BY <1>1, <1>9, <2>1, <2>2, LineParsed
<1>10. 0..Len(ls) \subseteq S
  <2> HIDE DEF S
  <2> QED
    BY <1>1, <1>8, <1>9, Upto
<1>11. QED
  BY <1>7, <1>10 DEF A, Parsing

\* A line that is appended changes nothing of what is parsed before it.
LEMMA PrefixParsed ==
  ASSUME NEW ls \in Seq(Line), NEW l \in Line, NEW n \in 0..Len(ls)
  PROVE  ParseLines(Append(ls, l), NoInfo, 0)[n] = ParseLines(ls, NoInfo, 0)[n]
<1>1. PICK e : e = Append(ls, l)
  OBVIOUS
<1> DEFINE A == ParseLines(ls, NoInfo, 0)
           B == ParseLines(e, NoInfo, 0)
           S == {m \in 0..Len(ls) : B[m] = A[m]}
<1>2. Len(ls) \in Nat /\ e \in Seq(Line) /\ Len(e) = Len(ls) + 1
      /\ \A m \in 1..Len(ls) : e[m] = ls[m]
  BY <1>1
<1>3. Parsing(A, ls, NoInfo, 0)
  BY NoInfoType, LinesParsed
<1>4. Parsing(B, e, NoInfo, 0)
  BY <1>2, NoInfoType, LinesParsed
<1> HIDE DEF A, B
<1>5. 0 \in S
  BY <1>2, <1>3, <1>4 DEF Parsing
<1>6. ASSUME NEW m \in 0..Len(ls), m \in S, m < Len(ls)
      PROVE  m + 1 \in S
  <2>1. m + 1 \in 1..Len(ls) /\ (m + 1) - 1 = m
    BY <1>2, <1>6
  <2>2. A[m + 1] = ParseLine(A[m], ls[m + 1]) /\ B[m + 1] = ParseLine(B[m], ls[m + 1])
    BY <1>2, <1>3, <1>4, <2>1 DEF Parsing
  <2>3. QED
    BY <1>2, <1>6, <2>1, <2>2
<1>7. 0..Len(ls) \subseteq S
  <2> HIDE DEF S
  <2> QED
    BY <1>2, <1>5, <1>6, Upto
<1>8. QED
  BY <1>1, <1>7 DEF A, B

NoErrors(ls) == \A i \in 1..Len(ls) : ls[i].kind # "error"

\* Without lines that report an error none is remembered.
LEMMA NoErrorParsed ==
  ASSUME NEW ls \in Seq(Line), NoErrors(ls), NEW start \in Info, ~start.error, NEW passed \in Nat,
         NEW A, Parsing(A, ls, start, passed), NEW n \in 0..Len(ls)
  PROVE  ~A[n].error
<1> DEFINE S == {m \in 0..Len(ls) : ~A[m].error}
<1>1. Len(ls) \in Nat
  OBVIOUS
<1>2. 0 \in S
  BY <1>1 DEF Parsing
<1>3. ASSUME NEW m \in 0..Len(ls), m \in S, m < Len(ls)
      PROVE  m + 1 \in S
  <2>1. /\ m + 1 \in 1..Len(ls) /\ m + 1 \in 0..Len(ls) /\ (m + 1) - 1 = m
        /\ ls[m + 1] \in Line /\ ls[m + 1].kind # "error"
    BY <1>1, <1>3 DEF NoErrors
  <2>2. CASE m + 1 <= passed
    BY <2>1, <2>2 DEF Parsing
  <2>3. CASE m + 1 > passed
    <3>1. A[m + 1] = ParseLine(A[m], ls[m + 1]) /\ A[m] \in Info /\ ~A[m].error
      BY <1>3, <2>1, <2>3 DEF Parsing
    <3>2. ~ParseLine(A[m], ls[m + 1]).error
      BY <2>1, <3>1, LineParsed DEF LineRead
    <3>3. QED
      BY <2>1, <3>1, <3>2
  <2>4. QED
    BY <1>1, <2>1, <2>2, <2>3
<1>4. 0..Len(ls) \subseteq S
  <2> HIDE DEF S
  <2> QED
    BY <1>1, <1>2, <1>3, Upto
<1>5. QED
  BY <1>4

-----------------------------------------------------------------------------
(***************************************************************************)
(* A chunk and the whole file.                                             *)
(***************************************************************************)

\* Two readings that nothing shown of a session can tell apart: what tool was
\* called last does not matter after a system line.
Same(a, b) ==
  /\ a.type = b.type /\ a.age = b.age /\ ~a.error /\ ~b.error
  /\ a.type # "system" => a.tool = b.tool

\* What B, parsed from the k-th line on, has in common with A at the n-th line.
Chunked(A, B, ls, start, k, n) ==
  /\ start.pending = A[k].pending => B[n].pending = A[n].pending
  /\ B[n].type = None => /\ B[n] = start /\ A[n] = A[k]
                       /\ \A i \in k + 1..n : ~Content(ls[i])
  /\ B[n].type # None => \E j \in k + 1..n :
                         /\ Content(ls[j]) /\ B[n].age = ls[j].age
                         /\ \A i \in j + 1..n : ~Content(ls[i])
  /\ B[n].type # None /\ NoErrors(ls) => Same(B[n], A[n])
  /\ B[n].tool # None => B[n].pending # {}

\* No line follows the last.
LEMMA NoneAfter ==
  ASSUME NEW n \in Nat
  PROVE  n + 1..n = {}
OBVIOUS

\* One more line keeps the two alike.
LEMMA ChunkLine ==
  ASSUME NEW ls \in Seq(Line), NEW start \in Info, start.type = None,
         NEW k \in Nat, NEW n \in Nat, k <= n, n < Len(ls),
         NEW A, Parsing(A, ls, NoInfo, 0), NEW B, Parsing(B, ls, start, k),
         Chunked(A, B, ls, start, k, n), NoErrors(ls) => ~A[n].error /\ ~B[n].error
  PROVE  Chunked(A, B, ls, start, k, n + 1)
<1> DEFINE l == ls[n + 1]
<1>1. /\ Len(ls) \in Nat /\ n + 1 \in 1..Len(ls) /\ n + 1 \in 0..Len(ls) /\ n \in 0..Len(ls)
      /\ (n + 1) - 1 = n /\ l \in Line
      /\ n + 1 > k /\ n + 1 > 0
  OBVIOUS
<1>2. A[n + 1] = ParseLine(A[n], l) /\ B[n + 1] = ParseLine(B[n], l)
      /\ A[n] \in Info /\ B[n] \in Info
  BY <1>1 DEF Parsing
<1>3. CASE ~Content(l)
  <2>1. A[n + 1] = A[n] /\ B[n + 1] = B[n]
    BY <1>1, <1>2, <1>3, LineParsed
  <2>2. \A j \in Nat : \A i \in j + 1..n + 1 : i = n + 1 \/ i \in j + 1..n
    BY <1>1
  <2>3. \A j \in k + 1..n : j \in k + 1..n + 1 /\ j \in Nat
    BY <1>1
  <2>4. QED
    BY <1>1, <1>3, <2>1, <2>2, <2>3 DEF Chunked
<1>4. CASE Content(l)
  <2>1. PICK a, b : a = ParseLine(A[n], l) /\ b = ParseLine(B[n], l)
    OBVIOUS
  <2>2. LineRead(a, A[n], l)
    BY <1>1, <1>2, <1>4, <2>1, LineParsed
  <2>3. LineRead(b, B[n], l)
    BY <1>1, <1>2, <1>4, <2>1, LineParsed
  <2>4. start.pending = A[k].pending => b.pending = a.pending
    BY <2>2, <2>3 DEF Chunked, LineRead
  <2>5. \E j \in k + 1..n + 1 : /\ Content(ls[j]) /\ b.age = ls[j].age
                                /\ \A i \in j + 1..n + 1 : ~Content(ls[i])
    <3>1. n + 1 \in k + 1..n + 1 /\ (n + 1) + 1..n + 1 = {}
      BY <1>1, NoneAfter
    <3>2. b.age = l.age
      BY <2>3 DEF LineRead
    <3>3. QED
      BY <1>4, <3>1, <3>2
  <2>6. NoErrors(ls) => Same(b, a)
    <3> SUFFICES ASSUME NoErrors(ls)
                 PROVE  Same(b, a)
      OBVIOUS
    <3>1. l.kind # "error"
      BY <1>1 DEF NoErrors
    <3>2. l.kind = "system" => b.type = "system"
      BY <2>3 DEF TypeOf, Called, LineRead
    <3>3. b.type # "system" => b.tool = a.tool
      BY <2>2, <2>3, <3>1, <3>2 DEF LineRead
    <3>4. QED
      BY <2>2, <2>3, <3>1, <3>3 DEF Same, LineRead
  <2>7. b.tool # None => b.pending # {}
    <3>1. CASE l.kind \in Called
      BY <2>3, <3>1 DEF LineRead
    <3>2. CASE l.kind \in {"error", "system"}
      <4>1. l.id = None
        BY <1>1, <3>2, LineIs DEF Called
      <4>2. B[n].pending \subseteq ToolUses
        BY <1>2 DEF Info
      <4>3. b.pending = B[n].pending
        BY <2>3, <3>2, <4>1, <4>2 DEF Called, LineRead
      <4>4. QED
        BY <2>3, <3>2, <4>3 DEF Chunked, Called, LineRead
    <3>3. CASE l.kind \notin Called \cup {"error", "system"}
      BY <2>3, <3>3 DEF LineRead
    <3>4. QED
      BY <3>1, <3>2, <3>3
  <2>8. QED
    BY <1>2, <2>1, <2>3, <2>4, <2>5, <2>6, <2>7 DEF Chunked, LineRead
<1>5. QED
  BY <1>3, <1>4

\* A reading that starts at the k-th line is like one of the whole file.
LEMMA ChunkParsed ==
  ASSUME NEW ls \in Seq(Line), NEW start \in Info,
         start.type = None, start.tool = None, ~start.error,
         NEW k \in 0..Len(ls),
         NEW A, Parsing(A, ls, NoInfo, 0), NEW B, Parsing(B, ls, start, k),
         NEW n \in k..Len(ls)
  PROVE  Chunked(A, B, ls, start, k, n)
<1> DEFINE S == {m \in k..Len(ls) : Chunked(A, B, ls, start, k, m)}
<1>0. Len(ls) \in Nat
  OBVIOUS
<1>1. k \in Nat /\ k \in k..Len(ls)
  BY <1>0
<1>2. NoErrors(ls) => \A m \in 0..Len(ls) : ~A[m].error /\ ~B[m].error
  <2>1. ~NoInfo.error
    BY DEF NoInfo
  <2>2. QED
    BY <1>1, <2>1, NoErrorParsed, NoInfoType
<1>3. k \in S
  <2>1. B[k] = start /\ k + 1..k = {}
    BY <1>1, NoneAfter DEF Parsing
  <2>2. Chunked(A, B, ls, start, k, k)
    BY <2>1 DEF Chunked
  <2>3. QED
    BY <1>1, <2>2
<1>4. ASSUME NEW m \in k..Len(ls), m \in S, m < Len(ls)
      PROVE  m + 1 \in S
  <2>1. /\ m \in Nat /\ k <= m /\ m \in 0..Len(ls) /\ m + 1 \in k..Len(ls)
        /\ Chunked(A, B, ls, start, k, m)
    BY <1>0, <1>1, <1>4
  <2>2. Chunked(A, B, ls, start, k, m + 1)
    BY <1>0, <1>1, <1>2, <1>4, <2>1, ChunkLine
  <2>3. QED
    BY <2>1, <2>2
<1>5. k..Len(ls) \subseteq S
  <2> HIDE DEF S
  <2> QED
    BY <1>0, <1>1, <1>3, <1>4, Upto
<1>6. QED
  BY <1>5

-----------------------------------------------------------------------------
(***************************************************************************)
(* Lines that grow older.                                                  *)
(***************************************************************************)

\* e is ls, some time later.
OlderLines(e, ls) ==
  /\ e \in Seq(Line) /\ Len(e) = Len(ls)
  /\ \A i \in 1..Len(ls) :
       /\ e[i].kind = ls[i].kind /\ e[i].id = ls[i].id /\ e[i].cut = ls[i].cut
       /\ e[i].age = Older(ls[i].age)

\* Ages stay within their classes.
LEMMA OlderType ==
  ASSUME NEW a \in Ages
  PROVE  Older(a) \in Ages
BY DEF Older, Ages, Old

\* Parsing a file later yields the same, only older.
LEMMA OlderParsed ==
  ASSUME NEW ls \in Seq(Line), NEW e, OlderLines(e, ls),
         NEW A, Parsing(A, ls, NoInfo, 0), NEW B, Parsing(B, e, NoInfo, 0), NEW n \in 0..Len(ls)
  PROVE  /\ B[n].type = A[n].type /\ B[n].age = Older(A[n].age)
         /\ B[n].tool = A[n].tool /\ B[n].pending = A[n].pending
<1> DEFINE Eq(m) == /\ B[m].type = A[m].type /\ B[m].age = Older(A[m].age)
                    /\ B[m].tool = A[m].tool /\ B[m].pending = A[m].pending
           S == {m \in 0..Len(ls) : Eq(m)}
<1>1. Len(ls) \in Nat /\ Len(e) = Len(ls)
  BY DEF OlderLines
<1>2. 0 \in S
  <2>1. A[0] = NoInfo /\ B[0] = NoInfo
    BY <1>1 DEF Parsing
  <2>2. NoInfo.age = Older(NoInfo.age)
    BY DEF NoInfo, Older, Old
  <2>3. QED
    BY <1>1, <2>1, <2>2
<1>3. ASSUME NEW m \in 0..Len(ls), m \in S, m < Len(ls)
      PROVE  m + 1 \in S
  <2>1. m + 1 \in 1..Len(ls) /\ m + 1 \in 0..Len(ls) /\ (m + 1) - 1 = m /\ m + 1 > 0
    BY <1>1, <1>3
  <2>2. PICK l, r : l = ls[m + 1] /\ r = e[m + 1]
    OBVIOUS
  <2>3. /\ l \in Line /\ r \in Line
        /\ r.kind = l.kind /\ r.id = l.id /\ r.age = Older(l.age)
    BY <1>1, <2>1, <2>2 DEF OlderLines
  <2>4. /\ A[m + 1] = ParseLine(A[m], l) /\ A[m] \in Info
        /\ B[m + 1] = ParseLine(B[m], r) /\ B[m] \in Info
    BY <1>1, <2>1, <2>2 DEF Parsing
  <2>5. Content(r) = Content(l)
    BY <2>3 DEF Content
  <2>6. Eq(m + 1)
    <3>1. CASE ~Content(l)
      <4>1. A[m + 1] = A[m] /\ B[m + 1] = B[m]
        BY <2>3, <2>4, <2>5, <3>1, LineParsed
      <4>2. QED
        BY <1>3, <4>1
    <3>2. CASE Content(l)
      <4>1. LineRead(A[m + 1], A[m], l) /\ LineRead(B[m + 1], B[m], r)
        BY <2>3, <2>4, <2>5, <3>2, LineParsed
      <4>2. Eq(m)
        BY <1>3
      <4>3. QED
        BY <2>3, <4>1, <4>2 DEF LineRead
    <3>3. QED
      BY <3>1, <3>2
  <2>7. QED
    BY <2>1, <2>6
<1>4. 0..Len(ls) \subseteq S
  <2> HIDE DEF S
  <2> QED
    BY <1>1, <1>2, <1>3, Upto
<1>5. QED
  BY <1>4

-----------------------------------------------------------------------------
(***************************************************************************)
(* Calls and their results.                                                *)
(***************************************************************************)

\* Lines are in the order of their time, and a call has an id of its own.
FileInv ==
  \A i, j \in 1..Len(file) : i < j =>
    /\ file[j].age <= file[i].age
    /\ file[j].kind \in Called => file[i].id # file[j].id

\* An open call was made and has no result.
LEMMA OpenIs ==
  ASSUME NEW n \in Nat, NEW i
  PROVE  i \in Open(n) <=>
           /\ i \in ToolUses
           /\ \E j \in 1..n : file[j].id = i /\ file[j].kind \in Called
           /\ \A j \in 1..n : file[j].id = i => file[j].kind # "result"
<1>1. Kinds(i, n) \cap Called # {} <=> \E j \in 1..n : file[j].id = i /\ file[j].kind \in Called
  BY DEF Kinds
<1>2. "result" \notin Kinds(i, n) <=> \A j \in 1..n : file[j].id = i => file[j].kind # "result"
  BY DEF Kinds
<1>3. QED
  BY <1>1, <1>2 DEF Open

\* The calls that the whole file leaves pending have no result in it.
LEMMA PendingIsOpen ==
  ASSUME file \in Seq(Line), FileInv, NEW A, Parsing(A, file, NoInfo, 0), NEW n \in 0..Len(file)
  PROVE  A[n].pending = Open(n)
<1> DEFINE S == {m \in 0..Len(file) : A[m].pending = Open(m)}
<1>1. Len(file) \in Nat
  OBVIOUS
<1>2. 0 \in S
  <2>1. A[0].pending = {}
    BY <1>1 DEF Parsing, NoInfo
  <2>2. \A i : i \notin Open(0)
    BY OpenIs
  <2>3. QED
    BY <1>1, <2>1, <2>2
<1>3. ASSUME NEW m \in 0..Len(file), m \in S, m < Len(file)
      PROVE  m + 1 \in S
  <2>1. /\ m + 1 \in 1..Len(file) /\ m + 1 \in 0..Len(file) /\ (m + 1) - 1 = m /\ m + 1 > 0
        /\ m \in Nat /\ m + 1 \in Nat
        /\ \A j \in 1..m : j \in 1..Len(file) /\ j < m + 1
        /\ \A j \in 1..m + 1 : j = m + 1 \/ j \in 1..m
        /\ \A j \in 1..m : j \in 1..m + 1
    BY <1>1, <1>3
  <2>2. PICK l : l = file[m + 1]
    OBVIOUS
  <2>3. l \in Line
    BY <1>1, <2>1, <2>2
  <2>4. A[m + 1] = ParseLine(A[m], l) /\ A[m] \in Info /\ A[m].pending = Open(m)
    BY <1>1, <1>3, <2>1, <2>2 DEF Parsing
  <2>5. \A i : i \in Open(m + 1) <=>
           /\ i \in ToolUses
           /\ \/ l.id = i /\ l.kind \in Called
              \/ \E j \in 1..m : file[j].id = i /\ file[j].kind \in Called
           /\ l.id = i => l.kind # "result"
           /\ \A j \in 1..m : file[j].id = i => file[j].kind # "result"
    <3>1. \A i : (\E j \in 1..m + 1 : file[j].id = i /\ file[j].kind \in Called) <=>
                 \/ l.id = i /\ l.kind \in Called
                 \/ \E j \in 1..m : file[j].id = i /\ file[j].kind \in Called
      BY <2>1, <2>2
    <3>2. \A i : (\A j \in 1..m + 1 : file[j].id = i => file[j].kind # "result") <=>
                 /\ l.id = i => l.kind # "result"
                 /\ \A j \in 1..m : file[j].id = i => file[j].kind # "result"
      BY <2>1, <2>2
    <3>3. \A i : i \in Open(m + 1) <=>
             /\ i \in ToolUses
             /\ \E j \in 1..m + 1 : file[j].id = i /\ file[j].kind \in Called
             /\ \A j \in 1..m + 1 : file[j].id = i => file[j].kind # "result"
      BY <2>1, OpenIs
    <3>4. QED
      BY <3>1, <3>2, <3>3, Zenon
  <2>6. \A i : i \in Open(m) <=>
           /\ i \in ToolUses
           /\ \E j \in 1..m : file[j].id = i /\ file[j].kind \in Called
           /\ \A j \in 1..m : file[j].id = i => file[j].kind # "result"
    BY <2>1, OpenIs
  <2>7. A[m + 1].pending = Open(m + 1)
    <3>1. CASE l.kind \in Called
      <4>1. A[m + 1].pending = A[m].pending \cup {l.id}
        <5>1. LineRead(A[m + 1], A[m], l)
          BY <2>3, <2>4, <3>1, LineParsed DEF Content, Called
        <5>2. QED
          BY <3>1, <5>1 DEF LineRead
      <4>2. l.id \in ToolUses /\ l.kind # "result"
        BY <2>3, <3>1, LineIs DEF Called, Plain
      <4>3. \A j \in 1..m : file[j].id # l.id
        BY <2>1, <2>2, <3>1 DEF FileInv
      <4>4. \A i : i \in Open(m + 1) <=> i \in Open(m) \/ i = l.id
        BY <2>5, <2>6, <3>1, <4>2, <4>3
      <4>5. QED
        BY <2>4, <4>1, <4>4
    <3>2. CASE l.kind = "result"
      <4>1. A[m + 1].pending = A[m].pending \ {l.id}
        <5>1. LineRead(A[m + 1], A[m], l)
          BY <2>3, <2>4, <3>2, LineParsed DEF Content
        <5>2. QED
          BY <3>2, <5>1 DEF LineRead, Called
      <4>2. \A i : i \in Open(m + 1) <=> i \in Open(m) /\ i # l.id
        BY <2>5, <2>6, <3>2 DEF Called
      <4>3. QED
        BY <2>4, <4>1, <4>2
    <3>3. CASE l.kind \in Plain
      <4>1. l.id = None /\ l.kind \notin Called /\ l.kind # "result"
        BY <2>3, <3>3, LineIs DEF Called, Plain
      <4>2. A[m].pending \subseteq ToolUses
        BY <2>4 DEF Info
      <4>3. A[m + 1].pending = A[m].pending
        <5>1. CASE Content(l)
          <6>1. LineRead(A[m + 1], A[m], l)
            BY <2>3, <2>4, <5>1, LineParsed
          <6>2. QED
            BY <4>1, <4>2, <6>1 DEF LineRead
        <5>2. CASE ~Content(l)
          BY <2>3, <2>4, <5>2, LineParsed
        <5>3. QED
          BY <5>1, <5>2
      <4>4. \A i : i \in Open(m + 1) <=> i \in Open(m)
        BY <2>5, <2>6, <4>1
      <4>5. QED
        BY <2>4, <4>3, <4>4
    <3>4. QED
      BY <2>3, <3>1, <3>2, <3>3, LineIs
  <2>8. QED
    BY <2>1, <2>7
<1>4. 0..Len(file) \subseteq S
  <2>1. PICK k : k = Len(file)
    OBVIOUS
  <2>2. k \in Nat /\ \A m \in 0..k : m \in S /\ m < k => m + 1 \in S
    BY <1>1, <1>3, <2>1
  <2> HIDE DEF S
  <2>3. 0..k \subseteq S
    BY <1>2, <2>2, Upto
  <2>4. QED
    BY <2>1, <2>3
<1>5. QED
  BY <1>4

-----------------------------------------------------------------------------
(***************************************************************************)
(* The inductive invariant.  What a monitor has passed is whole, or it is  *)
(* among the lost lines; if nothing is lost, the monitor's cache is what   *)
(* the whole file makes of the lines before it.                            *)
(***************************************************************************)

Passed == (offset + 1) \div 2
Whole  == ParseLines(file, NoInfo, 0)

CacheInv ==
  /\ ~known => offset = 0
  /\ offset = 0 => cache = NoInfo
  /\ offset > 0 => cache.type # None
  /\ cache.tool # None => cache.pending # {}

ReadInv ==
  /\ offset % 2 = 1 => file[Passed].cut = "newline" \/ Passed \in lost
  /\ offset > 0 /\ lost = {} =>
       /\ cache.pending = Whole[Passed].pending
       /\ NoErrors(file) => Same(cache, Whole[Passed])

TranscriptInv == TypeOK /\ FileInv /\ CacheInv /\ ReadInv

\* Lines and halves of lines.
LEMMA Halves ==
  ASSUME TypeOK
  PROVE  /\ Len(file) \in Nat /\ offset \in Nat /\ Size \in Nat /\ offset <= Size
         /\ Passed \in 0..Len(file) /\ (offset > 0 => Passed > 0) /\ (offset = 0 => Passed = 0)
         /\ (Size + 1) \div 2 = Len(file) /\ (Size = 0 <=> file = <<>>)
         /\ (Size = offset => Passed = Len(file))
<1>1. Len(file) \in Nat /\ half \in BOOLEAN /\ (half => Len(file) > 0)
      /\ (file = <<>> <=> Len(file) = 0)
  BY DEF TypeOK
<1>2. Size \in Nat /\ (Size = 2 * Len(file) \/ (Size = 2 * Len(file) - 1 /\ Len(file) > 0))
  <2>1. CASE half
    BY <1>1, <2>1 DEF Size
  <2>2. CASE ~half
    BY <1>1, <2>2 DEF Size
  <2>3. QED
    BY <1>1, <2>1, <2>2
<1>3. offset \in Nat /\ offset <= Size
  BY <1>2 DEF TypeOK
<1>4. (Size + 1) \div 2 = Len(file) /\ (Size = 0 <=> file = <<>>)
  BY <1>1, <1>2
<1>5. Passed \in 0..Len(file) /\ (offset > 0 => Passed > 0) /\ (offset = 0 => Passed = 0)
      /\ (Size = offset => Passed = Len(file))
  BY <1>1, <1>2, <1>3, <1>4 DEF Passed
<1>6. QED
  BY <1>1, <1>2, <1>3, <1>4, <1>5

\* How much of the file is whole.
LEMMA CompleteIs ==
  ASSUME TypeOK
  PROVE  /\ Complete(Size) \in 0..Len(file)
         /\ Complete(Size) < Len(file) => Complete(Size) = Len(file) - 1 /\ Len(file) > 0
         /\ Size % 2 = 1 /\ file[Len(file)].cut # "newline" => Complete(Size) < Len(file)
<1>1. /\ Len(file) \in Nat /\ Size \in Nat /\ (Size + 1) \div 2 = Len(file)
  BY Halves
<1>2. CASE Size % 2 = 1 /\ file[(Size + 1) \div 2].cut = "newline"
  BY <1>1, <1>2 DEF Complete
<1>3. CASE ~(Size % 2 = 1 /\ file[(Size + 1) \div 2].cut = "newline")
  <2>1. Complete(Size) = Size \div 2
    BY <1>3 DEF Complete
  <2>2. CASE Size % 2 = 1
    BY <1>1, <2>1, <2>2
  <2>3. CASE Size % 2 # 1
    <3>1. Size \div 2 = Len(file)
      BY <1>1, <2>3
    <3>2. QED
      BY <1>1, <2>1, <2>3, <3>1
  <2>4. QED
    BY <2>2, <2>3
<1>4. QED
  BY <1>2, <1>3

\* If nothing is lost, what the monitor has passed is whole.
LEMMA PassedIsComplete ==
  ASSUME TypeOK, ReadInv, lost = {}
  PROVE  Complete(offset) = Passed
<1>1. offset \in Nat
  BY Halves
<1>2. CASE offset % 2 = 1
  BY <1>1, <1>2 DEF ReadInv, Complete, Passed
<1>3. CASE offset % 2 # 1
  BY <1>1, <1>3 DEF Complete, Passed
<1>4. QED
  BY <1>2, <1>3

\* What a scan parses.
LEMMA StartIs ==
  ASSUME TypeOK, CacheInv
  PROVE  /\ Start \in Info /\ Start.type = None /\ Start.tool = None /\ ~Start.error
         /\ offset = 0 => Start.pending = {}
         /\ offset > 0 => Start.pending = cache.pending
<1> DEFINE p == IF known /\ offset > 0 THEN cache.pending ELSE {}
<1>1. p \in SUBSET ToolUses
  BY DEF TypeOK, Info
<1>2. Start = [NoInfo EXCEPT !.pending = p]
  BY DEF Start
<1>3. /\ offset \in Nat
      /\ offset = 0 => p = {}
      /\ offset > 0 => p = cache.pending
  BY Halves DEF CacheInv
<1> HIDE DEF p
<1>4. Start \in Info /\ Start.pending = p
  BY <1>1, <1>2, NoInfoType DEF Info
<1>5. Start.type = None /\ Start.tool = None /\ ~Start.error
  BY <1>2 DEF NoInfo
<1>6. QED
  BY <1>3, <1>4, <1>5

\* The chunk of a scan, beside the whole file.
LEMMA ChunkIs ==
  ASSUME TypeOK, CacheInv, ReadInv
  PROVE  /\ Chunk \in Info
         /\ Parsing(Whole, file, NoInfo, 0)
         /\ Complete(Size) < Passed => Chunk.type = None
         /\ Complete(Size) >= Passed => \E B :
              /\ B[Complete(Size)] = Chunk
              /\ Chunked(Whole, B, file, Start, Passed, Complete(Size))
         /\ lost = {} => Start.pending = Whole[Passed].pending
<1>1. /\ Passed \in 0..Len(file) /\ Passed \in Nat /\ Len(file) \in Nat /\ offset \in Nat
      /\ Complete(Size) \in 0..Len(file) /\ file \in Seq(Line)
      /\ (offset = 0 => Passed = 0)
  BY Halves, CompleteIs DEF TypeOK
<1>2. Start \in Info /\ Start.type = None /\ Start.tool = None /\ ~Start.error
  BY StartIs
<1>3. Parsing(Whole, file, NoInfo, 0)
  BY <1>1, NoInfoType, LinesParsed DEF Whole
<1>4. PICK B : B = ParseLines(file, Start, Passed)
  OBVIOUS
<1>5. Parsing(B, file, Start, Passed)
  BY <1>1, <1>2, <1>4, LinesParsed
<1>6. Chunk = B[Complete(Size)]
  BY <1>4 DEF Chunk, Parse, Passed
<1>7. Chunk \in Info
  BY <1>1, <1>5, <1>6 DEF Parsing
<1>8. Complete(Size) < Passed => Chunk.type = None
  BY <1>1, <1>2, <1>5, <1>6 DEF Parsing
<1>9. Complete(Size) >= Passed => Chunked(Whole, B, file, Start, Passed, Complete(Size))
  <2> SUFFICES ASSUME Complete(Size) >= Passed
               PROVE  Chunked(Whole, B, file, Start, Passed, Complete(Size))
    OBVIOUS
  <2>1. Complete(Size) \in Passed..Len(file)
    BY <1>1
  <2>2. QED
    BY <1>1, <1>2, <1>3, <1>5, <2>1, ChunkParsed
<1>10. lost = {} => Start.pending = Whole[Passed].pending
  <2>1. CASE offset = 0
    <3>1. Whole[Passed] = NoInfo
      BY <1>1, <1>3, <2>1 DEF Parsing
    <3>2. NoInfo.pending = {}
      BY DEF NoInfo
    <3>3. QED
      BY <2>1, <3>1, <3>2, StartIs
  <2>2. CASE offset > 0
    BY <2>2, StartIs DEF ReadInv
  <2>3. QED
    BY <1>1, <2>1, <2>2
<1>11. QED
  BY <1>3, <1>6, <1>7, <1>8, <1>9, <1>10

\* What a scan keeps of a session that it shows.
Kept == IF HasNews THEN Chunk ELSE cache

\* A scan that shows a session keeps a reading, and shows it with its age or
\* with that of the monitor.
LEMMA KeptIs ==
  ASSUME TypeOK, CacheInv, ReadInv, readTranscript # NoInfo
  PROVE  /\ Kept \in Info /\ Kept.type # None
         /\ Kept.tool # None => Kept.pending # {}
         /\ HasNews => readTranscript = Kept /\ Complete(Size) >= Passed
         /\ ~HasNews => readTranscript = [Kept EXCEPT !.age = lastOut] /\ offset > 0
<1>1. ~BlankNews
  BY DEF readTranscript
<1>2. CASE HasNews
  <2>1. readTranscript = Chunk /\ Kept = Chunk /\ Chunk.type # None
    BY <1>1, <1>2 DEF readTranscript, Kept, HasNews
  <2>2. Complete(Size) >= Passed
    BY <2>1, ChunkIs, Halves, CompleteIs
  <2>3. Chunk \in Info /\ (Chunk.tool # None => Chunk.pending # {})
    BY <2>2, ChunkIs DEF Chunked
  <2>4. QED
    BY <1>2, <2>1, <2>2, <2>3
<1>3. CASE ~HasNews
  <2>1. readTranscript = Cached /\ Kept = cache
    BY <1>1, <1>3 DEF readTranscript, Kept
  <2>2. cache.type # None /\ readTranscript = [cache EXCEPT !.age = lastOut]
    BY <2>1 DEF Cached
  <2>3. NoInfo.type = None
    BY DEF NoInfo
  <2>4. offset > 0
    BY <2>2, <2>3, Halves DEF CacheInv
  <2>5. QED
    BY <1>3, <2>1, <2>2, <2>4 DEF CacheInv, TypeOK
<1>4. QED
  BY <1>2, <1>3

\* If nothing was lost before, what is kept is what the whole file makes of
\* the lines that are complete.
LEMMA KeptIsWhole ==
  ASSUME TypeOK, CacheInv, ReadInv, lost = {}, readTranscript # NoInfo
  PROVE  /\ Kept.pending = Whole[Complete(Size)].pending
         /\ NoErrors(file) => Same(Kept, Whole[Complete(Size)])
<1> DEFINE n == Complete(Size)
<1>1. CASE HasNews
  <2>1. PICK B : B[n] = Chunk /\ Chunked(Whole, B, file, Start, Passed, n)
    BY <1>1, KeptIs, ChunkIs
  <2>2. Kept = Chunk /\ Chunk.type # None /\ Start.pending = Whole[Passed].pending
    BY <1>1, ChunkIs DEF HasNews, Kept
  <2>3. QED
    BY <2>1, <2>2 DEF Chunked
<1>2. CASE ~HasNews
  <2>1. Whole[n] = Whole[Passed]
    <3>1. CASE Size = offset
      BY <3>1, PassedIsComplete
    <3>2. CASE Size # offset
      <4>1. Chunk.type = None
        BY <1>2, <3>2 DEF HasNews
      <4>2. n >= Passed
        BY <3>2, Halves, CompleteIs DEF Complete, Passed
      <4>3. PICK B : B[n] = Chunk /\ Chunked(Whole, B, file, Start, Passed, n)
        BY <4>2, ChunkIs
      <4>4. QED
        BY <4>1, <4>3 DEF Chunked
    <3>3. QED
      BY <3>1, <3>2
  <2>2. offset > 0 /\ Kept = cache
    BY <1>2, KeptIs DEF Kept
  <2>3. QED
    BY <2>1, <2>2 DEF ReadInv
<1>3. QED
  BY <1>1, <1>2

-----------------------------------------------------------------------------
(***************************************************************************)
(* Every step preserves the invariant.                                     *)
(***************************************************************************)

\* Before the first scan there is neither file nor monitor.
LEMMA Starts == Init => TranscriptInv
<1> SUFFICES ASSUME Init
             PROVE  TranscriptInv
  OBVIOUS
<1>1. Len(file) = 0 /\ file \in Seq(Line) /\ Size = 0
  BY DEF Init, Size
<1>2. TypeOK
  <2>1. Old \in Ages
    BY DEF Ages, Old
  <2>2. offset \in 0..Size /\ lost \subseteq DOMAIN file
    BY <1>1 DEF Init
  <2>3. Len(file) <= MaxLines
    BY <1>1
  <2>4. ~half /\ running = TRUE /\ known = FALSE /\ cache \in Info /\ lastOut \in Ages
    BY <2>1, NoInfoType DEF Init
  <2>5. half \in BOOLEAN
    BY DEF Init
  <2>6. QED
    BY <1>1, <2>2, <2>3, <2>4, <2>5 DEF TypeOK
<1>3. FileInv
  BY <1>1 DEF FileInv
<1>4. CacheInv
  BY DEF Init, CacheInv, NoInfo
<1>5. ReadInv
  BY DEF Init, ReadInv
<1>6. QED
  BY <1>2, <1>3, <1>4, <1>5 DEF TranscriptInv

\* A line is appended: what the monitor has passed stays as it is.
LEMMA AppendKeeps ==
  ASSUME TranscriptInv, NEW l \in Line, Append1(l)
  PROVE  TranscriptInv'
<1> USE DEF TranscriptInv
<1>1. /\ Len(file) \in Nat /\ offset \in Nat /\ Size \in Nat /\ offset <= Size
      /\ Passed \in 0..Len(file) /\ (offset > 0 => Passed > 0) /\ file \in Seq(Line)
  BY Halves DEF TypeOK
<1>2. /\ file' = Append(file, l) /\ half' = (l.cut # "nowhere") /\ ~half /\ l.age = 0
      /\ Len(file) < MaxLines /\ (l.kind \in Called => Kinds(l.id, Len(file)) = {})
      /\ running' = running /\ known' = known /\ offset' = offset /\ cache' = cache
      /\ lastOut' = lastOut /\ lost' = lost
  BY DEF Append1, reader
<1>3. /\ file' \in Seq(Line) /\ Len(file') = Len(file) + 1 /\ file'[Len(file) + 1] = l
      /\ \A i \in 1..Len(file) : file'[i] = file[i]
      /\ Passed' = Passed
  BY <1>1, <1>2 DEF Passed
<1>4. TypeOK'
  <2>1. Size = 2 * Len(file)
    BY <1>1, <1>2 DEF Size
  <2>2. Size' = 2 * Len(file) + 2 \/ Size' = 2 * Len(file) + 1
    BY <1>1, <1>3 DEF Size
  <2>3. offset' \in 0..Size'
    BY <1>1, <1>2, <2>1, <2>2
  <2>4. file' # <<>>
    BY <1>1, <1>3
  <2>5. DOMAIN file \subseteq DOMAIN file'
    BY <1>1, <1>3
  <2>6. QED
    BY <1>1, <1>2, <1>3, <2>3, <2>4, <2>5 DEF TypeOK
<1>5. FileInv'
  <2> SUFFICES ASSUME NEW i \in 1..Len(file'), NEW j \in 1..Len(file'), i < j
               PROVE  /\ file'[j].age <= file'[i].age
                      /\ file'[j].kind \in Called => file'[i].id # file'[j].id
    BY DEF FileInv
  <2>1. i \in 1..Len(file) /\ file'[i] = file[i]
    BY <1>1, <1>3
  <2>2. CASE j \in 1..Len(file)
    BY <1>3, <2>1, <2>2 DEF FileInv
  <2>3. CASE j = Len(file) + 1
    <3>1. file'[j] = l
      BY <1>3, <2>3
    <3>2. l.age <= file[i].age
      <4>1. file[i] \in Line
        BY <1>1, <2>1
      <4>2. file[i].age \in Nat
        BY <4>1, LineIs DEF Ages, Old
      <4>3. QED
        BY <1>2, <4>2
    <3>3. l.kind \in Called => file[i].id # l.id
      BY <1>2, <2>1 DEF Kinds
    <3>4. QED
      BY <2>1, <3>1, <3>2, <3>3
  <2>4. QED
    BY <1>1, <1>3, <2>2, <2>3
<1>6. CacheInv'
  BY <1>2 DEF CacheInv
<1>7. ReadInv'
  <2>1. offset > 0 => file'[Passed] = file[Passed]
    BY <1>1, <1>3
  <2>2. Whole'[Passed] = Whole[Passed]
    BY <1>1, <1>2, PrefixParsed DEF Whole
  <2>3. NoErrors(file') => NoErrors(file)
    BY <1>1, <1>3 DEF NoErrors
  <2>4. offset % 2 = 1 => offset > 0
    BY <1>1
  <2>5. offset' % 2 = 1 => file'[Passed'].cut = "newline" \/ Passed' \in lost'
    BY <1>2, <1>3, <2>1, <2>4 DEF ReadInv
  <2>6. offset' > 0 /\ lost' = {} =>
          /\ cache'.pending = Whole'[Passed'].pending
          /\ NoErrors(file') => Same(cache', Whole'[Passed'])
    BY <1>2, <1>3, <2>2, <2>3 DEF ReadInv
  <2>7. QED
    BY <2>5, <2>6 DEF ReadInv
<1>8. QED
  BY <1>4, <1>5, <1>6, <1>7

\* A step that leaves file and monitor alone.
LEMMA SessionKeeps ==
  ASSUME TranscriptInv, file' = file, UNCHANGED reader,
         half' \in BOOLEAN, half' => half, running' \in BOOLEAN
  PROVE  TranscriptInv'
<1> USE DEF TranscriptInv, reader
<1>1. Len(file) \in Nat /\ offset \in Nat /\ offset <= Size
  BY Halves
<1>2. Size \in Nat /\ Size' \in Nat /\ Size <= Size'
  BY <1>1 DEF Size, TypeOK
<1>3. offset' \in 0..Size'
  BY <1>1, <1>2
<1>4. TypeOK'
  BY <1>3 DEF TypeOK
<1>5. FileInv'
  BY DEF FileInv
<1>6. CacheInv'
  BY DEF CacheInv
<1>7. Passed' = Passed /\ Whole' = Whole
  BY DEF Passed, Whole
<1>8. ReadInv'
  BY <1>7 DEF ReadInv
<1>9. QED
  BY <1>4, <1>5, <1>6, <1>8

\* Time passes for the file and the monitor alike.
LEMMA TickKeeps ==
  ASSUME TranscriptInv, Tick
  PROVE  TranscriptInv'
<1> USE DEF TranscriptInv
<1>1. /\ Len(file) \in Nat /\ offset \in Nat /\ Size \in Nat /\ offset <= Size
      /\ Passed \in 0..Len(file) /\ (offset > 0 => Passed > 0) /\ file \in Seq(Line)
      /\ cache \in Info /\ lastOut \in Ages
  BY Halves DEF TypeOK
<1>2. /\ file' = [i \in DOMAIN file |-> [file[i] EXCEPT !.age = Older(@)]]
      /\ cache' = [cache EXCEPT !.age = Older(@), !.apiAge = Older(@)]
      /\ lastOut' = Older(lastOut) /\ half' = half /\ running' = running
      /\ known' = known /\ offset' = offset /\ lost' = lost
  BY DEF Tick
<1>3. OlderLines(file', file)
  <2>1. ASSUME NEW l \in Line
        PROVE  /\ [l EXCEPT !.age = Older(@)] \in Line
               /\ [l EXCEPT !.age = Older(@)].kind = l.kind
               /\ [l EXCEPT !.age = Older(@)].id = l.id
               /\ [l EXCEPT !.age = Older(@)].cut = l.cut
               /\ [l EXCEPT !.age = Older(@)].age = Older(l.age)
    <3>1. Older(l.age) \in Ages
      BY LineIs, OlderType
    <3>2. QED
      BY <3>1 DEF Line
  <2>2. DOMAIN file = 1..Len(file) /\ \A i \in 1..Len(file) : file[i] \in Line
    BY <1>1
  <2>3. file' \in [1..Len(file) -> Line]
    BY <1>2, <2>1, <2>2
  <2>4. file' \in Seq(Line) /\ Len(file') = Len(file)
    BY <1>1, <2>3
  <2>5. QED
    BY <1>2, <2>1, <2>2, <2>4 DEF OlderLines
<1>4. /\ file' \in Seq(Line) /\ Len(file') = Len(file) /\ Size' = Size /\ Passed' = Passed
      /\ \A i \in 1..Len(file) : /\ file'[i].kind = file[i].kind /\ file'[i].id = file[i].id
                                 /\ file'[i].cut = file[i].cut /\ file'[i].age = Older(file[i].age)
  BY <1>2, <1>3 DEF OlderLines, Size, Passed
<1>5. /\ cache' \in Info /\ cache'.type = cache.type /\ cache'.age = Older(cache.age)
      /\ cache'.error = cache.error /\ cache'.tool = cache.tool
      /\ cache'.pending = cache.pending /\ (cache = NoInfo => cache' = NoInfo)
  <2>1. Older(cache.age) \in Ages /\ Older(cache.apiAge) \in Ages
    BY <1>1, OlderType DEF Info
  <2>2. cache = NoInfo => Older(cache.age) = cache.age /\ Older(cache.apiAge) = cache.apiAge
    BY DEF NoInfo, Older, Old
  <2>3. QED
    BY <1>1, <1>2, <2>1, <2>2 DEF Info
<1>6. TypeOK'
  <2>1. DOMAIN file' = DOMAIN file /\ (file' = <<>> => file = <<>>)
    BY <1>1, <1>4
  <2>2. Older(lastOut) \in Ages
    BY <1>1, OlderType
  <2>3. QED
    BY <1>2, <1>4, <1>5, <2>1, <2>2 DEF TypeOK
<1>7. FileInv'
  <2>1. ASSUME NEW a \in Ages, NEW b \in Ages, a <= b
        PROVE  Older(a) <= Older(b)
    BY <2>1 DEF Older, Ages, Old
  <2> SUFFICES ASSUME NEW i \in 1..Len(file'), NEW j \in 1..Len(file'), i < j
               PROVE  /\ file'[j].age <= file'[i].age
                      /\ file'[j].kind \in Called => file'[i].id # file'[j].id
    BY DEF FileInv
  <2>2. i \in 1..Len(file) /\ j \in 1..Len(file)
    BY <1>4
  <2>3. file[i].age \in Ages /\ file[j].age \in Ages
    BY <1>1, <2>2, LineIs
  <2>4. file[j].age <= file[i].age /\ (file[j].kind \in Called => file[i].id # file[j].id)
    BY <2>2 DEF FileInv
  <2>5. QED
    BY <1>4, <2>1, <2>2, <2>3, <2>4
<1>8. CacheInv'
  BY <1>2, <1>5 DEF CacheInv
<1>9. ReadInv'
  <2>1. Parsing(Whole, file, NoInfo, 0) /\ Parsing(Whole', file', NoInfo, 0)
    BY <1>1, <1>4, NoInfoType, LinesParsed DEF Whole
  <2>2. /\ Whole'[Passed].type = Whole[Passed].type
        /\ Whole'[Passed].age = Older(Whole[Passed].age)
        /\ Whole'[Passed].tool = Whole[Passed].tool
        /\ Whole'[Passed].pending = Whole[Passed].pending
    BY <1>1, <1>3, <2>1, OlderParsed
  <2>3. NoErrors(file') => NoErrors(file)
    BY <1>4 DEF NoErrors
  <2>4. NoErrors(file') => ~Whole'[Passed].error
    <3>1. ~NoInfo.error /\ 0 \in Nat /\ Passed \in 0..Len(file')
      BY <1>1, <1>4 DEF NoInfo
    <3>2. QED
      BY <1>4, <2>1, <3>1, NoInfoType, NoErrorParsed
  <2>5. offset' % 2 = 1 => file'[Passed'].cut = "newline" \/ Passed' \in lost'
    <3>1. offset % 2 = 1 => Passed \in 1..Len(file)
      BY <1>1
    <3>2. QED
      BY <1>2, <1>4, <3>1 DEF ReadInv
  <2>6. offset' > 0 /\ lost' = {} =>
          /\ cache'.pending = Whole'[Passed'].pending
          /\ NoErrors(file') => Same(cache', Whole'[Passed'])
    BY <1>2, <1>4, <1>5, <2>2, <2>3, <2>4 DEF ReadInv, Same
  <2>7. QED
    BY <2>5, <2>6 DEF ReadInv
<1>10. QED
  BY <1>6, <1>7, <1>8, <1>9

\* A dropped monitor knows nothing.
LEMMA DropKeeps ==
  ASSUME TranscriptInv, Drop
  PROVE  TranscriptInv'
<1> USE DEF TranscriptInv, session
<1>1. /\ file' = file /\ half' = half /\ running' = running /\ known' = FALSE
      /\ offset' = 0 /\ cache' = NoInfo /\ lastOut' = Old /\ lost' = {}
  BY DEF Drop
<1>2. Size' = Size /\ Size \in Nat
  BY <1>1, Halves DEF Size
<1>3. TypeOK'
  <2>1. Old \in Ages /\ 0 \in 0..Size
    BY <1>2 DEF Ages, Old
  <2>2. QED
    BY <1>1, <1>2, <2>1, NoInfoType DEF TypeOK
<1>4. FileInv'
  BY <1>1 DEF FileInv
<1>5. CacheInv'
  BY <1>1 DEF CacheInv, NoInfo
<1>6. ReadInv'
  BY <1>1 DEF ReadInv
<1>7. QED
  BY <1>3, <1>4, <1>5, <1>6

\* A scan moves the offset to the end of the file and keeps the chunk.
LEMMA ShowKeeps ==
  ASSUME TranscriptInv, Show
  PROVE  TranscriptInv'
<1> USE DEF TranscriptInv, session
<1>1. /\ file' = file /\ half' = half /\ running' = running /\ known' = TRUE
      /\ lastOut' \in {readTranscript.age, 0} /\ readTranscript # NoInfo /\ file # <<>>
  BY DEF Show, Listed
<1>2. /\ Len(file) \in Nat /\ offset \in Nat /\ Size \in Nat /\ Size > 0 /\ file \in Seq(Line)
      /\ (Size + 1) \div 2 = Len(file) /\ Len(file) > 0
  BY <1>1, Halves DEF TypeOK
<1>3. /\ Kept \in Info /\ Kept.type # None /\ (Kept.tool # None => Kept.pending # {})
      /\ (HasNews => readTranscript = Kept)
      /\ (~HasNews => readTranscript = [Kept EXCEPT !.age = lastOut])
  BY <1>1, KeptIs
<1>4. lastOut' \in Ages
  <2>1. 0 \in Ages /\ lastOut \in Ages
    BY DEF Ages, Old, TypeOK
  <2>2. readTranscript.age \in Ages
    BY <1>3, <2>1 DEF Info
  <2>3. QED
    BY <1>1, <2>1, <2>2
<1>5. Size' = Size /\ Whole' = Whole
  BY <1>1 DEF Size, Whole
<1>6. FileInv'
  BY <1>1 DEF FileInv
<1>7. CASE known
  <2>1. /\ offset' = Size /\ cache' = Kept
        /\ lost' = IF Complete(Size) < Len(file) THEN lost \cup {Len(file)} ELSE lost
    BY <1>7 DEF Show, ReadTo, Kept
  <2>2. lost' \subseteq DOMAIN file
    BY <1>2, <2>1 DEF TypeOK
  <2>3. TypeOK'
    BY <1>1, <1>2, <1>3, <1>4, <1>5, <2>1, <2>2 DEF TypeOK
  <2>4. CacheInv'
    BY <1>1, <1>2, <1>3, <2>1 DEF CacheInv
  <2>5. Passed' = Len(file)
    BY <1>2, <2>1 DEF Passed
  <2>6. offset' % 2 = 1 => file'[Passed'].cut = "newline" \/ Passed' \in lost'
    BY <1>1, <2>1, <2>5, CompleteIs
  <2>7. lost' = {} => /\ cache'.pending = Whole'[Passed'].pending
                      /\ NoErrors(file') => Same(cache', Whole'[Passed'])
    <3> SUFFICES ASSUME lost' = {}
                 PROVE  /\ cache'.pending = Whole'[Passed'].pending
                        /\ NoErrors(file') => Same(cache', Whole'[Passed'])
      OBVIOUS
    <3>1. lost = {} /\ Complete(Size) = Len(file)
      BY <1>2, <2>1, CompleteIs
    <3>2. QED
      BY <1>1, <1>5, <2>1, <2>5, <3>1, KeptIsWhole
  <2>8. ReadInv'
    BY <2>6, <2>7 DEF ReadInv
  <2>9. QED
    BY <1>6, <2>3, <2>4, <2>8
<1>8. CASE ~known
  <2>1. offset' = 0 /\ lost' = lost /\ cache = NoInfo
    BY <1>8 DEF Show, CacheInv
  <2>2. cache' = cache
    BY <1>8 DEF Show
  <2>3. TypeOK'
    BY <1>1, <1>2, <1>4, <1>5, <2>1, <2>2 DEF TypeOK
  <2>4. CacheInv'
    BY <1>1, <2>1, <2>2 DEF CacheInv, NoInfo
  <2>5. ReadInv'
    BY <2>1 DEF ReadInv
  <2>6. QED
    BY <1>6, <2>3, <2>4, <2>5
<1>9. QED
  BY <1>7, <1>8

\* One step per action.
LEMMA StepKeeps == TranscriptInv /\ [Next]_vars => TranscriptInv'
<1> SUFFICES ASSUME TranscriptInv, [Next]_vars
             PROVE  TranscriptInv'
  OBVIOUS
<1>1. ASSUME NEW l \in Line, Append1(l)
      PROVE  TranscriptInv'
  BY <1>1, AppendKeeps
<1>2. CASE Finish
  BY <1>2, SessionKeeps DEF Finish, TranscriptInv, TypeOK
<1>3. CASE ExitOrResume
  BY <1>3, SessionKeeps DEF ExitOrResume, TranscriptInv, TypeOK
<1>4. CASE Tick
  BY <1>4, TickKeeps
<1>5. CASE Show
  BY <1>5, ShowKeeps
<1>6. CASE Drop
  BY <1>6, DropKeeps
<1>7. CASE UNCHANGED vars
  BY <1>7, SessionKeeps DEF vars, session, TranscriptInv, TypeOK
<1>8. QED
  BY <1>1, <1>2, <1>3, <1>4, <1>5, <1>6, <1>7 DEF Next, Scan

\* The invariant holds for files of every length and every cut of them.
LEMMA Invariant == Spec => []TranscriptInv
<1>1. QED
  BY Starts, StepKeeps, PTL DEF Spec

\* The variables have their types; a monitor's offset never passes the end of
\* the file that readTranscript seeks in.
THEOREM Types == Spec => []TypeOK
<1>1. TranscriptInv => TypeOK
  BY DEF TranscriptInv
<1>2. QED
  BY <1>1, Invariant, PTL

-----------------------------------------------------------------------------
(***************************************************************************)
(* What is read.                                                           *)
(***************************************************************************)

\* However a file is cut into chunks, the pending calls, the age and the state
\* that transcriptState derives from the monitor's cache are those of the
\* whole file, if no line was lost and none reports an error.
THEOREM ReadAsWhole == Spec => []ReadsAsWhole
<1>1. TranscriptInv => ReadsAsWhole
  <2> SUFFICES ASSUME TranscriptInv, offset > 0, lost = {},
                      \A i \in DOMAIN file : file[i].kind # "error"
               PROVE  LET whole == Parse(NoInfo, 0, offset)
                      IN  /\ cache.pending = whole.pending
                          /\ cache.age = whole.age
                          /\ transcriptState(cache, running) = transcriptState(whole, running)
    BY DEF ReadsAsWhole
  <2>1. NoErrors(file)
    BY DEF NoErrors, TranscriptInv, TypeOK
  <2>2. PICK w : w = Whole[Passed]
    OBVIOUS
  <2>3. cache.pending = w.pending /\ Same(cache, w)
    BY <2>1, <2>2 DEF TranscriptInv, ReadInv
  <2>4. Parse(NoInfo, 0, offset) = w
    <3>1. (0 + 1) \div 2 = 0
      OBVIOUS
    <3>2. QED
      BY <2>2, <3>1, PassedIsComplete DEF TranscriptInv, Parse, Whole
  <2>5. transcriptState(cache, running) = transcriptState(w, running)
    <3>1. cache.type = "assistant" => cache.tool = w.tool
      BY <2>3 DEF Same
    <3>2. QED
      BY <2>3, <3>1 DEF Same, transcriptState
  <2>6. QED
    BY <2>3, <2>4, <2>5 DEF Same
<1>2. QED
  BY <1>1, Invariant, PTL

\* DeriveTranscriptState answers waiting only if claude says so, or says nothing
\* and a call is pending, when no tool is remembered without one.
LEMMA WaitingHasPending ==
  ASSUME NEW info, info.tool # None => info.pending # {}, NEW alive, NEW blocked,
         NEW status \in Statuses,
         DeriveTranscriptState(info, alive, blocked, status) = "waiting"
  PROVE  status = "waiting" \/ (status = None /\ info.pending # {})
<1>1. CASE status = None
  <2>1. status \notin DOMAIN LiveState
    BY <1>1 DEF LiveState, None
  <2>2. CASE transcriptState(info, alive) = "waiting"
    <3>1. info.tool = "ask"
      BY <2>2 DEF transcriptState
    <3>2. QED
      BY <1>1, <3>1 DEF None
  <2>3. CASE transcriptState(info, alive) # "waiting"
    BY <1>1, <2>1, <2>3 DEF DeriveTranscriptState
  <2>4. QED
    BY <2>2, <2>3
<1>2. CASE status \in DOMAIN LiveState
  <2>1. LiveState[status] = "waiting"
    BY <1>2 DEF DeriveTranscriptState
  <2>2. QED
    BY <1>2, <2>1 DEF LiveState
<1>3. QED
  BY <1>1, <1>2 DEF Statuses

\* A session that a scan shows as waiting waits in claude's own words or, when
\* there are none, has a call without a result in its file, if no line was lost.
THEOREM Waits == Spec => WaitingIsReal
<1> DEFINE Real == Show =>
                     \A blocked \in BOOLEAN, status \in Statuses :
                       DeriveTranscriptState(Shown, running, blocked, status) = "waiting"
                         => \/ status = "waiting"
                            \/ status = None /\ (lost' = {} => Open(Complete(Size)) # {})
<1>1. TranscriptInv /\ [Next]_vars => [Real]_vars
  <2> SUFFICES ASSUME TranscriptInv, Show, NEW blocked \in BOOLEAN, NEW status \in Statuses,
                      DeriveTranscriptState(Shown, running, blocked, status) = "waiting",
                      status # "waiting"
               PROVE  status = None /\ (lost' = {} => Open(Complete(Size)) # {})
    OBVIOUS
  <2> USE DEF TranscriptInv
  <2>1. readTranscript # NoInfo /\ lost \subseteq lost'
    BY DEF Show
  <2>2. /\ Kept \in Info /\ (Kept.tool # None => Kept.pending # {})
        /\ readTranscript = Kept \/ readTranscript = [Kept EXCEPT !.age = lastOut]
    BY <2>1, KeptIs
  <2>3. Shown.tool = Kept.tool /\ Shown.pending = Kept.pending
    <3>1. readTranscript.tool = Kept.tool /\ readTranscript.pending = Kept.pending
          /\ readTranscript = [readTranscript EXCEPT !.age = readTranscript.age]
      BY <2>2 DEF Info
    <3>2. QED
      BY <2>2, <3>1 DEF Shown, Info
  <2>4. status = None /\ Shown.pending # {}
    <3>1. PICK info : info = Shown
      OBVIOUS
    <3>2. info.tool # None => info.pending # {}
      BY <2>2, <2>3, <3>1
    <3>3. QED
      BY <3>1, <3>2, WaitingHasPending
  <2>5. lost' = {} => Kept.pending = Whole[Complete(Size)].pending
    BY <2>1, KeptIsWhole
  <2>6. Whole[Complete(Size)].pending = Open(Complete(Size))
    BY ChunkIs, CompleteIs, PendingIsOpen DEF TypeOK
  <2>7. QED
    BY <2>3, <2>4, <2>5, <2>6
<1>2. QED
  BY <1>1, Invariant, PTL DEF Spec, WaitingIsReal

\* Scans do not drop a session that is listed and has recent content, but for
\* the newline that arrives alone.
THEOREM StaysShown == Spec => SessionStaysShown
<1> DEFINE Stale == \A i \in 1..Complete(Size) : Content(file[i]) => file[i].age > DropAge
           Stays == known /\ ~known' => ~Listed \/ BlankNews \/ Stale
<1>1. TranscriptInv /\ [Next]_vars => [Stays]_vars
  <2> SUFFICES ASSUME TranscriptInv, [Next]_vars, known, ~known', Listed, ~BlankNews,
                      NEW i \in 1..Complete(Size), Content(file[i])
               PROVE  file[i].age > DropAge
    OBVIOUS
  <2> USE DEF TranscriptInv
  <2>1. readTranscript = NoInfo
    BY DEF Next, Append1, Finish, ExitOrResume, Tick, Scan, Show, Drop, vars, reader
  <2>2. /\ Len(file) \in Nat /\ offset \in Nat /\ Size \in Nat /\ Size > 0 /\ file \in Seq(Line)
        /\ Passed \in 0..Len(file) /\ Complete(Size) \in 0..Len(file)
        /\ (offset = 0 => Passed = 0)
    BY Halves, CompleteIs DEF Listed, TypeOK
  <2>3. NoInfo.type = None
    BY DEF NoInfo
  <2>4. CASE HasNews
    <3>1. Chunk.type # None /\ Chunk.age > DropAge
      BY <2>1, <2>3, <2>4 DEF HasNews, readTranscript
    <3>2. PICK B : B[Complete(Size)] = Chunk
                   /\ Chunked(Whole, B, file, Start, Passed, Complete(Size))
      BY <2>2, <3>1, ChunkIs
    <3>3. PICK j \in Passed + 1..Complete(Size) :
            Chunk.age = file[j].age /\ \A m \in j + 1..Complete(Size) : ~Content(file[m])
      BY <3>1, <3>2 DEF Chunked
    <3>4. i \in 1..Len(file) /\ j \in 1..Len(file) /\ (i < j \/ i = j)
      BY <2>2, <3>3
    <3>5. file[i].age \in Nat /\ file[j].age \in Nat
      BY <2>2, <3>4, LineIs DEF Ages, Old
    <3>6. file[j].age <= file[i].age
      BY <3>4, <3>5 DEF FileInv
    <3>7. QED
      BY <3>1, <3>3, <3>5, <3>6
  <2>5. CASE ~HasNews
    <3>1. Cached = NoInfo
      BY <2>1, <2>5 DEF readTranscript
    <3>2. cache.type = None
      <4>1. cache \in Info
        BY DEF TypeOK
      <4>2. CASE cache.type # None
        <5>1. [cache EXCEPT !.age = lastOut] = NoInfo
          BY <3>1, <4>2 DEF Cached
        <5>2. [cache EXCEPT !.age = lastOut].type = cache.type
          BY <4>1 DEF Info
        <5>3. QED
          BY <2>3, <5>1, <5>2
      <4>3. QED
        BY <4>2
    <3>3. offset = 0 /\ Passed = 0 /\ Size # offset
      BY <2>2, <3>2 DEF CacheInv
    <3>4. Chunk.type = None
      BY <2>5, <3>3 DEF HasNews
    <3>5. PICK B : B[Complete(Size)] = Chunk
                   /\ Chunked(Whole, B, file, Start, Passed, Complete(Size))
      BY <2>2, <3>3, ChunkIs
    <3>6. \A m \in Passed + 1..Complete(Size) : ~Content(file[m])
      BY <3>4, <3>5 DEF Chunked
    <3>7. QED
      BY <2>2, <3>3, <3>6
  <2>6. QED
    BY <2>4, <2>5
<1>2. QED
  BY <1>1, Invariant, PTL DEF Spec, SessionStaysShown
=============================================================================
