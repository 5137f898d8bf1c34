-------------------------- MODULE TelemetryProofs --------------------------
(***************************************************************************)
(* The two files the proxy writes, for every size of the buffers, every    *)
(* number of requests, closers and restarts, and writes that fail: first   *)
(* the traffic log, then the state export.                                 *)
(***************************************************************************)
EXTENDS MCTelemetry, DataTheorems, TLAPS

\* A list is a prefix of every list it begins.
LEMMA BeginsPrefix ==
    ASSUME NEW T, NEW s \in Seq(T), NEW u \in Seq(T)
    PROVE  IsPrefix(s, s \o u)
<1>1. Len(s) \in Nat /\ Len(u) \in Nat
  BY LenProperties
<1>2. Len(s \o u) = Len(s) + Len(u)
  BY ConcatProperties
<1>3. SubSeq(s \o u, 1, Len(s \o u) - Len(u)) = s
  BY BeforeEnd
<1>4. Len(s \o u) - Len(u) = Len(s) /\ Len(s) <= Len(s \o u)
  BY <1>1, <1>2
<1>5. SubSeq(s, 1, Len(s)) = s
  BY SubSeqFull
<1> QED
  BY <1>3, <1>4, <1>5 DEF IsPrefix
----------------------------------------------------------------------------

Cells == Nat \X Nat

\* The places where a line of s runs into another one, and whether s ends within a line.
Breaks(s) ==
    {i \in 1 .. Len(s) - 1 : ~IsNewline(s[i]) /\ s[i + 1] # <<s[i][1], s[i][2] + 1>>}
Unfinished(s) == s # <<>> /\ ~IsNewline(s[Len(s)])

\* The broken lines of s, and the one that would be broken by writing on.
Damage(s) == Cardinality(Breaks(s)) + IF Unfinished(s) THEN 1 ELSE 0

(***************************************************************************)
(* The invariant of the logger: the file begins what was accepted, the     *)
(* buffer is the rest as long as no write failed; a closed file leaves     *)
(* nothing in the buffer; and every broken line, the one that an           *)
(* unfinished stream is about to break included, had a restart of its own. *)
(***************************************************************************)
LogInv ==
    /\ TypeOK
    /\ stream \in Seq(Cells)
    /\ \E rest \in Seq(Cells) : stream = file \o rest
    /\ ~failed => stream = file \o buffer
    /\ ~fileOpen => closed /\ (failed \/ buffer = <<>>)
    /\ \A c \in Closers : closing[c] = "waiting" => closed
    /\ Damage(stream) <= restarts

\* Parts of the stream can be put together in any order of steps.
LEMMA Regrouped == \A a, b, c \in Seq(Cells) : a \o (b \o c) = (a \o b) \o c
BY ConcatAssociative

\* The cells of a line.
LEMMA LineFacts ==
    ASSUME NEW e \in 0 .. MaxEntries - 1
    PROVE  /\ Data(e) \in Seq(Cells) /\ Newline(e) \in Seq(Cells) /\ Line(e) \in Seq(Cells)
           /\ LineCells[e] \in Nat \ {0, 1} /\ Len(Line(e)) = LineCells[e]
           /\ \A i \in 1 .. LineCells[e] : Line(e)[i] = <<e, i>>
<1> DEFINE n == LineCells[e]
           d == Data(e)
           l == Newline(e)
<1>1. n \in Nat \ {0, 1} /\ e \in Nat
  BY LoggerAssumption
<1>2. d = [i \in 1 .. n - 1 |-> <<e, i>>] /\ l = << <<e, n>> >>
  BY DEF Data, Newline
<1> HIDE DEF n, d, l
<1>3. d \in Seq(Cells) /\ Len(d) = n - 1 /\ \A i \in 1 .. n - 1 : d[i] = <<e, i>>
  <2>1. n - 1 \in Nat
    BY <1>1
  <2>2. \A i \in 1 .. n - 1 : <<e, i>> \in Cells
    BY <1>1 DEF Cells
  <2> QED
    BY <1>2, <2>1, <2>2
<1>4. l \in Seq(Cells) /\ Len(l) = 1 /\ l[1] = <<e, n>>
  <2>1. <<e, n>> \in Cells
    BY <1>1 DEF Cells
  <2> QED
    BY <1>2, <2>1
<1> DEFINE s == d \o l
<1>5. /\ s \in Seq(Cells) /\ Len(s) = Len(d) + Len(l)
      /\ \A i \in 1 .. Len(d) + Len(l) : s[i] = IF i <= Len(d) THEN d[i] ELSE l[i - Len(d)]
  BY <1>3, <1>4, ConcatProperties
<1> HIDE DEF s
<1>6. ASSUME NEW i \in 1 .. n
      PROVE  s[i] = <<e, i>>
  <2>1. i \in 1 .. Len(d) + Len(l)
    BY <1>1, <1>3, <1>4
  <2>2. CASE i <= Len(d)
    BY <1>1, <1>3, <1>5, <2>1, <2>2
  <2>3. CASE ~ (i <= Len(d))
    <3>1. i = n /\ i - Len(d) = 1
      BY <1>1, <1>3, <2>3
    <3> QED
      BY <1>4, <1>5, <2>1, <2>3, <3>1
  <2> QED
    BY <2>2, <2>3
<1>7. Line(e) = s
  BY DEF Line, s, d, l
<1>8. Len(s) = n
  BY <1>1, <1>3, <1>4, <1>5
<1> QED
  BY <1>1, <1>3, <1>4, <1>5, <1>6, <1>7, <1>8 DEF n, d, l

\* bufio.Writer.Write leaves the end of its input in the buffer, and never overfills it.
LEMMA BufferedEnd ==
    ASSUME NEW b \in Seq(Cells), Len(b) <= LogBufferSize, NEW data \in Seq(Cells)
    PROVE  /\ Buffered(b, data) \in Seq(Cells) /\ Len(Buffered(b, data)) <= LogBufferSize
           /\ \E y \in Seq(Cells) : b \o data = y \o Buffered(b, data)
<1>1. LogBufferSize \in Nat /\ Len(b) \in Nat /\ Len(data) \in Nat
  BY LoggerAssumption, LenProperties
<1> DEFINE room == LogBufferSize - Len(b)
           rest == IF b = <<>> THEN data ELSE SubSeq(data, room + 1, Len(data))
           e == <<>>
<1>2. b \o data \in Seq(Cells) /\ Len(b \o data) = Len(b) + Len(data)
  BY ConcatProperties
<1>3. e \in Seq(Cells) /\ Len(e) = 0
  OBVIOUS
<1>4. e \o (b \o data) = b \o data /\ (b \o data) \o e = b \o data
  BY <1>2, ConcatEmptySeq
<1>5. Buffered(b, data) = IF Len(data) <= room THEN b \o data
                          ELSE IF Len(rest) <= LogBufferSize THEN rest ELSE e
  BY DEF Buffered
<1>6. CASE Len(data) <= room
  <2>1. Buffered(b, data) = b \o data
    BY <1>5, <1>6
  <2>2. Len(b \o data) <= LogBufferSize
    BY <1>1, <1>2, <1>6
  <2> HIDE DEF e
  <2> QED
    BY <1>2, <1>3, <1>4, <2>1, <2>2
<1>7. CASE ~ (Len(data) <= room) /\ Len(rest) <= LogBufferSize
  <2>1. Buffered(b, data) = rest
    BY <1>5, <1>7
  <2>2. CASE b = <<>>
    <3>1. rest = data /\ b \o data = data
      BY <2>2, ConcatEmptySeq
    <3>2. b \o data = e \o rest
      BY <1>4, <3>1
    <3> HIDE DEF rest, e
    <3> QED
      BY <1>3, <1>7, <2>1, <3>1, <3>2
  <2>3. CASE b # <<>>
    <3> DEFINE u == SubSeq(data, 1, room)
    <3>1. room \in 0 .. Len(data)
      BY <1>1, <1>7
    <3> HIDE DEF room
    <3>2. rest = SubSeq(data, room + 1, Len(data))
      BY <2>3
    <3>3. u \in Seq(Cells) /\ rest \in Seq(Cells) /\ data = u \o rest
      BY <3>1, <3>2, SplitAt
    <3> HIDE DEF rest, u
    <3>4. b \o data = (b \o u) \o rest /\ b \o u \in Seq(Cells)
      <4>1. b \o (u \o rest) = (b \o u) \o rest
        BY <3>3, Regrouped, Zenon
      <4>2. b \o u \in Seq(Cells)
        BY <3>3, ConcatProperties
      <4> QED
        BY <3>3, <4>1, <4>2
    <3> QED
      BY <1>7, <2>1, <3>3, <3>4
  <2> QED
    BY <2>2, <2>3
<1>8. CASE ~ (Len(data) <= room) /\ ~ (Len(rest) <= LogBufferSize)
  <2>1. Buffered(b, data) = e
    BY <1>5, <1>8
  <2>2. Len(e) <= LogBufferSize
    BY <1>1, <1>3
  <2> HIDE DEF e
  <2> QED
    BY <1>2, <1>3, <1>4, <2>1, <2>2
<1> QED
  BY <1>6, <1>7, <1>8

\* What writeEntry hands over and what stays in the buffer are buffer and line.
LEMMA LineSplit ==
    ASSUME NEW e \in 0 .. MaxEntries - 1, buffer \in Seq(Cells), Len(buffer) <= LogBufferSize
    PROVE  /\ BufferedLine(e) \in Seq(Cells) /\ Len(BufferedLine(e)) <= LogBufferSize
           /\ HandedOver(e) \in Seq(Cells)
           /\ buffer \o Line(e) = HandedOver(e) \o BufferedLine(e)
<1> DEFINE d == Data(e)
           l == Newline(e)
           x == Buffered(buffer, d)
           z == BufferedLine(e)
           all == buffer \o Line(e)
<1>1. d \in Seq(Cells) /\ l \in Seq(Cells)
  BY LineFacts
<1>2. Line(e) = d \o l /\ z = Buffered(x, l)
  BY DEF Line, BufferedLine
<1> HIDE DEF d, l
<1>3. /\ x \in Seq(Cells) /\ Len(x) <= LogBufferSize
      /\ \E y \in Seq(Cells) : buffer \o d = y \o x
  BY <1>1, BufferedEnd
<1> HIDE DEF x, z
<1>4. /\ z \in Seq(Cells) /\ Len(z) <= LogBufferSize
      /\ \E y \in Seq(Cells) : x \o l = y \o z
  BY <1>1, <1>2, <1>3, BufferedEnd
<1>5. PICK y1 \in Seq(Cells) : buffer \o d = y1 \o x
  BY <1>3
<1>6. PICK y2 \in Seq(Cells) : x \o l = y2 \o z
  BY <1>4
<1>7. all = (y1 \o y2) \o z
  <2>1. buffer \o (d \o l) = (buffer \o d) \o l
    BY <1>1, Regrouped, Zenon
  <2>2. (y1 \o x) \o l = y1 \o (x \o l)
    BY <1>1, <1>3, Regrouped, Zenon
  <2>3. y1 \o (y2 \o z) = (y1 \o y2) \o z
    BY <1>4, Regrouped, Zenon
  <2> QED
    BY <1>2, <1>5, <1>6, <2>1, <2>2, <2>3
<1>8. y1 \o y2 \in Seq(Cells)
  BY ConcatProperties
<1>9. HandedOver(e) = SubSeq(all, 1, Len(all) - Len(z))
  BY DEF HandedOver, z
<1> HIDE DEF all
<1>10. HandedOver(e) = y1 \o y2
  BY <1>4, <1>7, <1>8, <1>9, BeforeEnd
<1> QED
  BY <1>4, <1>7, <1>8, <1>10 DEF all, z

\* The operating system takes the beginning of the cells, all of them if nothing fails.
LEMMA WriteOutFacts ==
    ASSUME NEW cells \in Seq(Cells), file \in Seq(Cells), failed \in BOOLEAN, WriteOut(cells)
    PROVE  /\ file' \in Seq(Cells) /\ failed' \in BOOLEAN
           /\ \E u \in Seq(Cells) : file \o cells = file' \o u
           /\ ~failed' => ~failed /\ file' = file \o cells
<1> DEFINE e == <<>>
<1>1. CASE file' = file \o cells /\ UNCHANGED failed
  <2>1. file \o cells \in Seq(Cells) /\ e \in Seq(Cells)
    BY ConcatProperties
  <2>2. (file \o cells) \o e = file \o cells
    BY <2>1, ConcatEmptySeq
  <2> HIDE DEF e
  <2> QED
    BY <1>1, <2>1, <2>2
<1>2. CASE \E n \in 0 .. Len(cells) - 1 :
             file' = file \o SubSeq(cells, 1, n) /\ failed' = TRUE
  <2>1. PICK n \in 0 .. Len(cells) - 1 :
             file' = file \o SubSeq(cells, 1, n) /\ failed' = TRUE
    BY <1>2
  <2>2. n \in 0 .. Len(cells)
    BY LenProperties
  <2> DEFINE a == SubSeq(cells, 1, n)
             b == SubSeq(cells, n + 1, Len(cells))
  <2>3. a \in Seq(Cells) /\ b \in Seq(Cells) /\ cells = a \o b
    BY <2>2, SplitAt
  <2> HIDE DEF a, b
  <2>4. file \o (a \o b) = (file \o a) \o b /\ file \o a \in Seq(Cells)
    BY <2>3, ConcatAssociative, ConcatProperties
  <2> QED
    BY <2>1, <2>3, <2>4 DEF a
<1> QED
  BY <1>1, <1>2 DEF WriteOut
----------------------------------------------------------------------------

\* Only so many lines can be broken.
LEMMA BreaksFinite ==
    ASSUME NEW s \in Seq(Cells)
    PROVE  IsFiniteSet(Breaks(s)) /\ Cardinality(Breaks(s)) \in Nat
<1>1. Len(s) - 1 \in Int
  BY LenProperties
<1>2. IsFiniteSet(1 .. Len(s) - 1)
  BY <1>1, FS_Interval
<1>3. Breaks(s) \subseteq 1 .. Len(s) - 1
  BY DEF Breaks
<1>4. IsFiniteSet(Breaks(s))
  BY <1>2, <1>3, FS_Subset
<1> QED
  BY <1>4, FS_CardinalityType

\* What begins a stream has no more broken lines than the stream.
LEMMA BreaksOfBeginning ==
    ASSUME NEW f \in Seq(Cells), NEW u \in Seq(Cells)
    PROVE  Cardinality(Breaks(f)) <= Cardinality(Breaks(f \o u))
<1>1. Len(f) \in Nat /\ Len(u) \in Nat
  BY LenProperties
<1> DEFINE s == f \o u
<1>2. /\ s \in Seq(Cells) /\ Len(s) = Len(f) + Len(u)
      /\ \A i \in 1 .. Len(f) + Len(u) : s[i] = IF i <= Len(f) THEN f[i] ELSE u[i - Len(f)]
  BY ConcatProperties
<1> HIDE DEF s
<1>3. \A i \in 1 .. Len(f) : s[i] = f[i]
  BY <1>1, <1>2
<1>4. Breaks(f) \subseteq Breaks(s)
  <2> SUFFICES ASSUME NEW i \in Breaks(f) PROVE i \in Breaks(s)
    OBVIOUS
  <2>1. i \in 1 .. Len(f) - 1 /\ ~IsNewline(f[i]) /\ f[i + 1] # <<f[i][1], f[i][2] + 1>>
    BY DEF Breaks
  <2>2. i \in 1 .. Len(f) /\ i + 1 \in 1 .. Len(f) /\ i \in 1 .. Len(s) - 1
    BY <1>1, <1>2, <2>1
  <2>3. s[i] = f[i] /\ s[i + 1] = f[i + 1]
    BY <1>3, <2>2
  <2> QED
    BY <2>1, <2>2, <2>3 DEF Breaks
<1>5. IsFiniteSet(Breaks(s))
  BY <1>2, BreaksFinite
<1>6. Cardinality(Breaks(f)) <= Cardinality(Breaks(s))
  BY <1>4, <1>5, FS_Subset
<1> QED
  BY <1>6 DEF s

\* A whole line breaks at most the line that was not finished, and finishes.
LEMMA LineKeepsDamage ==
    ASSUME NEW s \in Seq(Cells), NEW e \in 0 .. MaxEntries - 1
    PROVE  Damage(s \o Line(e)) <= Damage(s)
<1> DEFINE l == Line(e)
           t == s \o l
           n == Len(s)
           open == IF Unfinished(s) THEN {n} ELSE {}
<1>1. /\ n \in Nat /\ LineCells[e] \in Nat \ {0, 1} /\ Len(l) = LineCells[e] /\ l \in Seq(Cells)
      /\ \A i \in 1 .. LineCells[e] : l[i] = <<e, i>>
  BY LenProperties, LineFacts
<1> HIDE DEF l
<1>2. /\ t \in Seq(Cells) /\ Len(t) = n + Len(l)
      /\ \A i \in 1 .. n + Len(l) : t[i] = IF i <= n THEN s[i] ELSE l[i - n]
  BY <1>1, ConcatProperties
<1> HIDE DEF t
<1>3. \A i \in 1 .. n : t[i] = s[i]
  BY <1>1, <1>2
<1>4. ASSUME NEW i \in n + 1 .. Len(t)
      PROVE  t[i] = <<e, i - n>>
  <2>1. i \in 1 .. n + Len(l) /\ ~ (i <= n) /\ i - n \in 1 .. LineCells[e]
    BY <1>1, <1>2
  <2>2. t[i] = l[i - n]
    BY <1>2, <2>1
  <2> QED
    BY <1>1, <2>1, <2>2
<1>5. ~Unfinished(t)
  <2>1. Len(t) \in n + 1 .. Len(t) /\ Len(t) - n = LineCells[e]
    <3> HIDE DEF n
    <3>1. Len(t) = n + LineCells[e]
      BY <1>1, <1>2
    <3> QED
      BY <1>1, <3>1
  <2>2. t[Len(t)] = <<e, LineCells[e]>>
    BY <1>4, <2>1
  <2> QED
    BY <2>2 DEF Unfinished, IsNewline
<1>6. Breaks(t) \subseteq Breaks(s) \cup open
  <2> SUFFICES ASSUME NEW i \in Breaks(t), i \notin Breaks(s) PROVE i \in open
    OBVIOUS
  <2>1. /\ i \in 1 .. Len(t) - 1 /\ ~IsNewline(t[i])
        /\ t[i + 1] # <<t[i][1], t[i][2] + 1>>
    BY DEF Breaks
  <2>2. i \in Nat /\ i >= 1 /\ i + 1 <= Len(t)
    BY <1>1, <1>2, <2>1
  <2>3. CASE i < n
    <3>1. i \in 1 .. n /\ i + 1 \in 1 .. n /\ i \in 1 .. n - 1
      BY <1>1, <2>2, <2>3
    <3>2. t[i] = s[i] /\ t[i + 1] = s[i + 1]
      BY <1>3, <3>1
    <3> QED
      BY <2>1, <3>1, <3>2 DEF Breaks
  <2>4. CASE i = n
    <3>1. t[n] = s[n] /\ s # <<>>
      BY <1>1, <1>3, <2>2, <2>4
    <3>2. Unfinished(s)
      BY <2>1, <2>4, <3>1 DEF Unfinished
    <3> QED
      BY <2>4, <3>2
  <2>5. CASE i > n
    <3>1. i \in n + 1 .. Len(t) /\ i + 1 \in n + 1 .. Len(t) /\ i + 1 - n = i - n + 1
      BY <1>1, <1>2, <2>2, <2>5
    <3>2. t[i] = <<e, i - n>>
      BY <1>4, <3>1
    <3>3. t[i + 1] = <<e, i + 1 - n>>
      BY <1>4, <3>1
    <3> QED
      BY <2>1, <3>1, <3>2, <3>3
  <2> QED
    BY <1>1, <2>2, <2>3, <2>4, <2>5
<1>7. /\ IsFiniteSet(Breaks(s)) /\ Cardinality(Breaks(s)) \in Nat
      /\ IsFiniteSet(Breaks(t)) /\ Cardinality(Breaks(t)) \in Nat
  BY <1>2, BreaksFinite
<1>8. IsFiniteSet(open) /\ Cardinality(open) = IF Unfinished(s) THEN 1 ELSE 0
  BY FS_EmptySet, FS_Singleton
<1> HIDE DEF open
<1>9. Cardinality(Breaks(t)) <= Cardinality(Breaks(s)) + Cardinality(open)
  <2> DEFINE both == Breaks(s) \cup open
  <2>1. /\ IsFiniteSet(both)
        /\ Cardinality(both)
             = Cardinality(Breaks(s)) + Cardinality(open) - Cardinality(Breaks(s) \cap open)
    BY <1>7, <1>8, FS_Union
  <2>2. IsFiniteSet(Breaks(s) \cap open) /\ Cardinality(Breaks(s) \cap open) \in Nat
    BY <1>7, <1>8, FS_Intersection, FS_CardinalityType
  <2>3. Cardinality(Breaks(t)) <= Cardinality(both)
    BY <1>6, <2>1, FS_Subset
  <2>4. Cardinality(open) \in Nat
    BY <1>8, FS_CardinalityType
  <2> HIDE DEF both
  <2> QED
    BY <1>7, <2>1, <2>2, <2>3, <2>4
<1>10. Damage(t) = Cardinality(Breaks(t))
  BY <1>5, <1>7 DEF Damage
<1> QED
  BY <1>7, <1>8, <1>9, <1>10 DEF Damage, t, l

\* A stream cut short and written on later costs one broken line more.
LEMMA CutDamage ==
    ASSUME NEW f \in Seq(Cells), NEW u \in Seq(Cells), NEW n \in Nat, Damage(f \o u) <= n
    PROVE  Damage(f) <= n + 1
<1>1. f \o u \in Seq(Cells)
  BY ConcatProperties
<1>2. Cardinality(Breaks(f)) \in Nat /\ Cardinality(Breaks(f \o u)) \in Nat
  BY <1>1, BreaksFinite
<1>3. Cardinality(Breaks(f)) <= Cardinality(Breaks(f \o u))
  BY BreaksOfBeginning
<1> DEFINE a == Cardinality(Breaks(f))
           b == Cardinality(Breaks(f \o u))
<1>4. b + (IF Unfinished(f \o u) THEN 1 ELSE 0) <= n
  BY DEF Damage
<1> HIDE DEF a, b
<1>5. a + (IF Unfinished(f) THEN 1 ELSE 0) <= n + 1
  BY <1>2, <1>3, <1>4 DEF a, b
<1> QED
  BY <1>5 DEF Damage, a
----------------------------------------------------------------------------

\* What LogInv says of the sequences.
LEMMA LogFacts ==
    ASSUME LogInv
    PROVE  /\ TypeOK /\ buffer \in Seq(Cells) /\ file \in Seq(Cells) /\ stream \in Seq(Cells)
           /\ failed \in BOOLEAN /\ Len(buffer) <= LogBufferSize
           /\ restarts \in Nat /\ entries \in 0 .. MaxEntries
BY LoggerAssumption DEF LogInv, TypeOK, Cells

\* The invariant holds at first.
LEMMA InitLogInv == Init => LogInv
<1> SUFFICES ASSUME Init PROVE LogInv
  OBVIOUS
<1> DEFINE e == <<>>
<1>1. e \in Seq(Cells) /\ Len(e) = 0 /\ e \o e = e
  OBVIOUS
<1>2. file = e /\ buffer = e /\ stream = e /\ restarts = 0 /\ entries = 0
  BY DEF Init
<1>3. TypeOK
  <2>1. e \in Seq(Nat \X Nat) /\ Len(e) <= LogBufferSize
    BY <1>1, LoggerAssumption DEF Cells
  <2>2. entries \in 0 .. MaxEntries /\ restarts \in 0 .. MaxRestarts
    BY <1>2, LoggerAssumption
  <2> HIDE DEF e
  <2>3. closing \in [Closers -> {"idle", "waiting", "returned"}]
    BY DEF Init
  <2> QED
    BY <1>2, <2>1, <2>2, <2>3 DEF Init, TypeOK
<1>4. Damage(e) = 0
  <2>1. ~Unfinished(e)
    BY DEF Unfinished
  <2> HIDE DEF e
  <2>2. Breaks(e) = {}
    BY <1>1 DEF Breaks
  <2> QED
    BY <2>1, <2>2, FS_EmptySet DEF Damage
<1>5. fileOpen /\ \A c \in Closers : closing[c] # "waiting"
  BY DEF Init
<1> HIDE DEF e
<1>6. stream = file \o buffer /\ \E rest \in Seq(Cells) : stream = file \o rest
  BY <1>1, <1>2
<1>7. stream \in Seq(Cells) /\ Damage(stream) <= restarts
  BY <1>1, <1>2, <1>4
<1> QED
  BY <1>3, <1>5, <1>6, <1>7 DEF LogInv

\* writeEntry.
LEMMA WriteEntryLogInv == ASSUME LogInv, writeEntry PROVE LogInv'
<1>1. /\ TypeOK /\ buffer \in Seq(Cells) /\ file \in Seq(Cells) /\ stream \in Seq(Cells)
      /\ failed \in BOOLEAN /\ Len(buffer) <= LogBufferSize
      /\ restarts \in Nat /\ entries \in 0 .. MaxEntries
  BY LogFacts
<1>2. /\ entries \in 0 .. MaxEntries - 1 /\ entries' \in 0 .. MaxEntries
      /\ UNCHANGED <<mu, closed, flushStop, flusher, closing, fileOpen, restarts>>
  BY <1>1, LoggerAssumption DEF writeEntry
<1>3. CASE closed \/ failed
  <2>1. UNCHANGED <<buffer, failed, file, stream>>
    BY <1>3 DEF writeEntry
  <2>2. TypeOK'
    BY <1>1, <1>2, <2>1 DEF TypeOK
  <2>3. Damage(stream') <= restarts' /\ stream' \in Seq(Cells)
    BY <1>1, <1>2, <2>1 DEF LogInv
  <2> QED
    BY <1>2, <2>1, <2>2, <2>3 DEF LogInv
<1>4. CASE ~closed /\ ~failed
  <2> DEFINE l == Line(entries)
             h == HandedOver(entries)
             b == BufferedLine(entries)
  <2>1. stream' = stream \o l /\ buffer' = b /\ WriteOut(h)
    BY <1>4 DEF writeEntry
  <2>2. b \in Seq(Cells) /\ Len(b) <= LogBufferSize /\ h \in Seq(Cells) /\ buffer \o l = h \o b
    BY <1>1, <1>2, LineSplit
  <2>3. l \in Seq(Cells)
    BY <1>2, LineFacts
  <2>4. Damage(stream \o l) <= Damage(stream)
    BY <1>1, <1>2, LineKeepsDamage
  <2> HIDE DEF l, h, b
  <2>5. stream \o l \in Seq(Cells) /\ file \o h \in Seq(Cells)
    BY <1>1, <2>2, <2>3, ConcatProperties
  <2>6. stream \o l = (file \o h) \o b
    <3>1. stream = file \o buffer
      BY <1>4 DEF LogInv
    <3>2. file \o (buffer \o l) = (file \o buffer) \o l
      BY <1>1, <2>3, Regrouped, Zenon
    <3>3. file \o (h \o b) = (file \o h) \o b
      BY <1>1, <2>2, Regrouped, Zenon
    <3> QED
      BY <2>2, <3>1, <3>2, <3>3
  <2>7. /\ file' \in Seq(Cells) /\ failed' \in BOOLEAN
        /\ \E u \in Seq(Cells) : file \o h = file' \o u
        /\ ~failed' => ~failed /\ file' = file \o h
    BY <1>1, <2>1, <2>2, WriteOutFacts
  <2>8. TypeOK'
    BY <1>1, <1>2, <2>1, <2>2, <2>7 DEF TypeOK, Cells
  <2>9. \E rest \in Seq(Cells) : stream' = file' \o rest
    <3>1. PICK u \in Seq(Cells) : file \o h = file' \o u
      BY <2>7
    <3>2. file' \o (u \o b) = (file' \o u) \o b
      BY <2>2, <2>7, Regrouped, Zenon
    <3>3. u \o b \in Seq(Cells)
      BY <2>2, ConcatProperties
    <3> QED
      BY <2>1, <2>6, <3>1, <3>2, <3>3
  <2>10. ~failed' => stream' = file' \o buffer'
    BY <2>1, <2>6, <2>7
  <2>11. Damage(stream') <= restarts'
    <3>1. Damage(stream) <= restarts
      BY DEF LogInv
    <3>2. Damage(stream) \in Int /\ Damage(stream \o l) \in Int
      <4>1. Cardinality(Breaks(stream)) \in Nat
        BY <1>1, BreaksFinite
      <4>2. Cardinality(Breaks(stream \o l)) \in Nat
        BY <2>5, BreaksFinite
      <4> QED
        BY <4>1, <4>2 DEF Damage
    <3> QED
      BY <1>1, <1>2, <2>1, <2>4, <3>1, <3>2
  <2>12. fileOpen'
    BY <1>2, <1>4 DEF LogInv, TypeOK
  <2>13. \A c \in Closers : closing'[c] = "waiting" => closed'
    BY <1>2 DEF LogInv
  <2> QED
    BY <2>1, <2>5, <2>8, <2>9, <2>10, <2>11, <2>12, <2>13 DEF LogInv
<1> QED
  BY <1>3, <1>4

\* writer.Flush(): the file keeps beginning the stream, and without a failure has it all.
LEMMA FlushFacts ==
    ASSUME LogInv, FlushWriter
    PROVE  /\ buffer' \in Seq(Cells) /\ Len(buffer') <= LogBufferSize
           /\ file' \in Seq(Cells) /\ failed' \in BOOLEAN
           /\ \E rest \in Seq(Cells) : stream = file' \o rest
           /\ ~failed' => stream = file' \o buffer'
           /\ failed' \/ buffer' = <<>>
<1>1. /\ buffer \in Seq(Cells) /\ file \in Seq(Cells)
      /\ failed \in BOOLEAN /\ Len(buffer) <= LogBufferSize
  BY LogFacts
<1>2. CASE failed
  <2>1. UNCHANGED <<buffer, failed, file>>
    BY <1>2 DEF FlushWriter
  <2> QED
    BY <1>1, <1>2, <2>1 DEF LogInv
<1>3. CASE ~failed
  <2> DEFINE e == <<>>
  <2>1. WriteOut(buffer) /\ buffer' = e
    BY <1>3 DEF FlushWriter
  <2>2. e \in Seq(Cells) /\ Len(e) = 0
    OBVIOUS
  <2> HIDE DEF e
  <2>3. stream = file \o buffer
    BY <1>3 DEF LogInv
  <2>4. /\ file' \in Seq(Cells) /\ failed' \in BOOLEAN
        /\ \E u \in Seq(Cells) : file \o buffer = file' \o u
        /\ ~failed' => ~failed /\ file' = file \o buffer
    BY <1>1, <2>1, WriteOutFacts
  <2>5. file' \o e = file'
    BY <2>4, ConcatEmptySeq DEF e
  <2>6. Len(e) <= LogBufferSize
    BY <2>2, LoggerAssumption
  <2> QED
    BY <2>1, <2>2, <2>3, <2>4, <2>5, <2>6 DEF e
<1> QED
  BY <1>2, <1>3

\* The process ends and starts again.
LEMMA RestartLogInv == ASSUME LogInv, Restart PROVE LogInv'
<1>1. /\ TypeOK /\ buffer \in Seq(Cells) /\ file \in Seq(Cells)
      /\ restarts \in Nat /\ entries \in 0 .. MaxEntries
  BY LogFacts
<1> DEFINE e == <<>>
<1>2. /\ restarts < MaxRestarts /\ restarts' = restarts + 1 /\ stream' = file
      /\ file' = file /\ entries' = entries /\ buffer' = e /\ failed' = FALSE
      /\ mu' = "free" /\ closed' = FALSE /\ flushStop' = FALSE /\ flusher' = "select"
      /\ closing' = [c \in Closers |-> "idle"] /\ fileOpen' = TRUE
  BY DEF Restart, Opened
<1>3. e \in Seq(Cells) /\ Len(e) = 0 /\ Len(e) <= LogBufferSize
  BY LoggerAssumption
<1> HIDE DEF e
<1>4. file \o e = file
  BY <1>1, ConcatEmptySeq DEF e
<1>5. TypeOK'
  <2>1. restarts' \in 0 .. MaxRestarts
    BY <1>1, <1>2, LoggerAssumption
  <2>2. entries' \in 0 .. MaxEntries
    BY <1>1, <1>2
  <2> QED
    BY <1>1, <1>2, <1>3, <2>1, <2>2 DEF TypeOK, Cells
<1>6. Damage(stream') <= restarts'
  <2>1. PICK rest \in Seq(Cells) : stream = file \o rest
    BY DEF LogInv
  <2>2. Damage(file \o rest) <= restarts
    BY <2>1 DEF LogInv
  <2>3. Damage(file) <= restarts + 1
    BY <1>1, <2>2, CutDamage
  <2> QED
    BY <1>2, <2>3
<1>7. \A c \in Closers : closing'[c] # "waiting"
  BY <1>2
<1> QED
  BY <1>1, <1>2, <1>3, <1>4, <1>5, <1>6, <1>7 DEF LogInv

\* Every step preserves the invariant.
LEMMA NextLogInv == LogInv /\ [Next]_vars => LogInv'
<1> SUFFICES ASSUME LogInv, [Next]_vars PROVE LogInv'
  OBVIOUS
<1>0. TypeOK
  BY DEF LogInv
<1>1. CASE writeEntry
  BY <1>1, WriteEntryLogInv
<1>2. CASE Tick \/ FlusherStops
  <2>1. /\ UNCHANGED <<mu, closed, flushStop, closing, buffer, failed, file, fileOpen,
                       entries, restarts, stream>>
        /\ flusher' \in {"select", "flush", "done"}
    BY <1>2 DEF Tick, FlusherStops
  <2>2. TypeOK'
    BY <1>0, <2>1 DEF TypeOK
  <2>3. stream' \in Seq(Cells) /\ Damage(stream') <= restarts'
    BY <2>1 DEF LogInv
  <2> QED
    BY <2>1, <2>2, <2>3 DEF LogInv
<1>3. CASE Flush
  <2>1. /\ UNCHANGED <<mu, closed, flushStop, closing, fileOpen, entries, restarts, stream>>
        /\ flusher' = "select"
    BY <1>3 DEF Flush
  <2>2. stream' \in Seq(Cells) /\ Damage(stream') <= restarts'
    BY <2>1 DEF LogInv
  <2>3. CASE closed
    <3>1. UNCHANGED <<buffer, failed, file>>
      BY <1>3, <2>3 DEF Flush
    <3>2. TypeOK'
      BY <1>0, <2>1, <3>1 DEF TypeOK
    <3> QED
      BY <2>1, <2>2, <3>1, <3>2 DEF LogInv
  <2>4. CASE ~closed
    <3>1. FlushWriter
      BY <1>3, <2>4 DEF Flush
    <3>2. /\ buffer' \in Seq(Cells) /\ Len(buffer') <= LogBufferSize
          /\ file' \in Seq(Cells) /\ failed' \in BOOLEAN
          /\ \E rest \in Seq(Cells) : stream = file' \o rest
          /\ ~failed' => stream = file' \o buffer'
      BY <3>1, FlushFacts
    <3>3. TypeOK'
      BY <1>0, <2>1, <3>2 DEF TypeOK, Cells
    <3>4. fileOpen' /\ \A c \in Closers : closing'[c] = "waiting" => closed'
      BY <1>0, <2>1, <2>4 DEF LogInv, TypeOK
    <3> QED
      BY <2>1, <2>2, <3>2, <3>3, <3>4 DEF LogInv
  <2> QED
    BY <2>3, <2>4
<1>4. ASSUME NEW c \in Closers, Close(c)
      PROVE  LogInv'
  <2>1. UNCHANGED <<mu, flusher, buffer, failed, file, fileOpen, entries, restarts, stream>>
    BY <1>4 DEF Close
  <2>2. /\ closing' \in [Closers -> {"idle", "waiting", "returned"}]
        /\ closed' \in BOOLEAN /\ flushStop' \in BOOLEAN
        /\ closed => closed'
        /\ \A d \in Closers : closing'[d] = "waiting" => closed'
    <3>1. CASE closed
      <4>1. closing' = [closing EXCEPT ![c] = "returned"] /\ UNCHANGED <<closed, flushStop>>
        BY <1>4, <3>1 DEF Close
      <4> QED
        BY <1>0, <3>1, <4>1 DEF TypeOK
    <3>2. CASE ~closed
      <4>1. closing' = [closing EXCEPT ![c] = "waiting"] /\ closed' = TRUE /\ flushStop' = TRUE
        BY <1>4, <3>2 DEF Close
      <4> QED
        BY <1>0, <3>2, <4>1 DEF TypeOK
    <3> QED
      BY <3>1, <3>2
  <2>3. TypeOK'
    BY <1>0, <2>1, <2>2 DEF TypeOK
  <2>4. stream' \in Seq(Cells) /\ Damage(stream') <= restarts'
    BY <2>1 DEF LogInv
  <2> QED
    BY <2>1, <2>2, <2>3, <2>4 DEF LogInv
<1>5. ASSUME NEW c \in Closers, CloseFile(c)
      PROVE  LogInv'
  <2>1. /\ UNCHANGED <<mu, closed, flushStop, flusher, entries, restarts, stream>>
        /\ fileOpen' = FALSE /\ FlushWriter
        /\ closing' = [closing EXCEPT ![c] = "returned"] /\ closing[c] = "waiting"
    BY <1>5 DEF CloseFile
  <2>2. /\ buffer' \in Seq(Cells) /\ Len(buffer') <= LogBufferSize
        /\ file' \in Seq(Cells) /\ failed' \in BOOLEAN
        /\ \E rest \in Seq(Cells) : stream = file' \o rest
        /\ ~failed' => stream = file' \o buffer'
        /\ failed' \/ buffer' = <<>>
    BY <2>1, FlushFacts
  <2>3. TypeOK'
    BY <1>0, <2>1, <2>2 DEF TypeOK, Cells
  <2>4. closed'
    BY <2>1 DEF LogInv
  <2>5. stream' \in Seq(Cells) /\ Damage(stream') <= restarts'
    BY <2>1 DEF LogInv
  <2> QED
    BY <2>1, <2>2, <2>3, <2>4, <2>5 DEF LogInv
<1>6. CASE Restart
  BY <1>6, RestartLogInv
<1>7. CASE UNCHANGED vars
  <2>1. TypeOK'
    BY <1>0, <1>7 DEF vars, TypeOK
  <2>2. stream' \in Seq(Cells) /\ Damage(stream') <= restarts'
    BY <1>7 DEF vars, LogInv
  <2> QED
    BY <1>7, <2>1, <2>2 DEF vars, LogInv
<1> QED
  BY <1>1, <1>2, <1>3, <1>4, <1>5, <1>6, <1>7 DEF Next

\* LogInv holds in every reachable state.
THEOREM LogInvariance == Spec => []LogInv
BY InitLogInv, NextLogInv, PTL DEF Spec

(***************************************************************************)
(* For every buffer size, every length of the lines and any number of      *)
(* restarts and failed writes, the log holds what was accepted without a   *)
(* hole, and has no more broken lines than the process had restarts.       *)
(***************************************************************************)
THEOREM LogHasNoHoles == Spec => []NoHoles
<1>1. LogInv => NoHoles
  <2> SUFFICES ASSUME LogInv PROVE NoHoles
    OBVIOUS
  <2>1. TypeOK /\ file \in Seq(Cells) /\ buffer \in Seq(Cells) /\ restarts \in Nat
    BY LogFacts
  <2>2. PICK rest \in Seq(Cells) : stream = file \o rest
    BY DEF LogInv
  <2>3. IsPrefix(file, stream)
    BY <2>1, <2>2, BeginsPrefix
  <2>4. Cardinality(Breaks(file)) <= restarts
    <3>1. Cardinality(Breaks(file)) <= Cardinality(Breaks(stream))
      BY <2>1, <2>2, BreaksOfBeginning
    <3>2. Cardinality(Breaks(file)) \in Nat /\ Cardinality(Breaks(stream)) \in Nat
      BY <2>1, BreaksFinite DEF LogInv
    <3>3. Cardinality(Breaks(stream)) + (IF Unfinished(stream) THEN 1 ELSE 0) <= restarts
      BY DEF LogInv, Damage
    <3> QED
      BY <2>1, <3>1, <3>2, <3>3
  <2>5. BrokenLines = Breaks(file)
    BY DEF BrokenLines, Breaks
  <2> QED
    BY <2>1, <2>3, <2>4, <2>5 DEF NoHoles, LogInv
<1> QED
  BY <1>1, LogInvariance, PTL

\* When Close has closed the file, all that was accepted is in it unless a write failed.
THEOREM CloseFlushes == Spec => []ClosedMeansFlushed
<1>1. LogInv => ClosedMeansFlushed
  <2> SUFFICES ASSUME LogInv, ~fileOpen, ~failed PROVE file = stream
    BY DEF ClosedMeansFlushed
  <2>1. stream = file \o buffer /\ buffer = <<>>
    BY DEF LogInv
  <2>2. file \in Seq(Cells)
    BY LogFacts
  <2> QED
    BY <2>1, <2>2, ConcatEmptySeq
<1> QED
  BY <1>1, LogInvariance, PTL
----------------------------------------------------------------------------

Encodable == 1 .. MaxSnapshots \ Unencodable
Encoded(s) == Filter(s, Encodable)

\* The snapshots that the channel took before Close stopped the worker.
PromisedOnes == SubSeq(accepted, 1, promised)

(***************************************************************************)
(* The invariant of the exporter: what was accepted is, in order, in the   *)
(* file, the writer, the worker's hand and the channel; and a worker that  *)
(* has left the drain loop holds nothing and has put all that was promised *)
(* into the writer.                                                        *)
(***************************************************************************)
ExportInv ==
    /\ Exporter!TypeOK
    /\ accepted \in Seq(1 .. exported)
    /\ (exportFile \o writer) \o Encoded(hand \o ch) = Encoded(accepted)
    /\ ~done => promised = Len(accepted)
    /\ worker # "select" => done
    /\ worker \in {"flush", "exited"} =>
          /\ hand = <<>>
          /\ \E rest \in Seq(Nat) : exportFile \o writer = Encoded(PromisedOnes) \o rest
    /\ worker = "exited" => writer = <<>>
    /\ ~exportOpen => worker = "exited"

\* The instance's copy of the filter is the one the lemmas are about.
LEMMA EncodedIs == \A s : Exporter!Encoded(s) = Encoded(s)
<1>1. \A s, S : Exporter!Filter(s, S) = Filter(s, S)
  BY Zenon DEF Exporter!Filter, Filter, Exporter!Cardinality, Cardinality
<1> QED
  BY <1>1 DEF Exporter!Encoded, Encoded, Encodable

\* What the invariant says of the sequences.
LEMMA ExportFacts ==
    ASSUME ExportInv
    PROVE  /\ exported \in Nat /\ 1 .. exported \subseteq Nat
           /\ \A s \in {ch, hand, writer, exportFile, accepted} :
                 s \in Seq(1 .. exported) /\ s \in Seq(Nat)
           /\ promised \in 0 .. Len(accepted)
<1>1. /\ exported \in 0 .. MaxSnapshots /\ promised \in 0 .. Len(accepted)
      /\ \A s \in {ch, hand, writer, exportFile, accepted} : s \in Seq(1 .. exported)
  BY DEF ExportInv, Exporter!TypeOK
<1>2. exported \in Nat /\ 1 .. exported \subseteq Nat
  BY <1>1
<1>3. \A s \in Seq(1 .. exported) : s \in Seq(Nat)
  BY <1>2, SeqMonotonic
<1> QED
  BY <1>1, <1>2, <1>3

\* Filtering keeps the type, and takes lists apart.
LEMMA EncodedFacts ==
    ASSUME NEW T
    PROVE  /\ \A s \in Seq(T) : Encoded(s) \in Seq(T)
           /\ \A s, t \in Seq(T) : Encoded(s \o t) = Encoded(s) \o Encoded(t)
           /\ Encoded(<<>>) = <<>>
<1>1. \A s \in Seq(T) : Encoded(s) \in Seq(T)
  BY FilterPlaces DEF Encoded
<1>2. \A s, t \in Seq(T) : Encoded(s \o t) = Encoded(s) \o Encoded(t)
  BY FilterConcat DEF Encoded
<1>3. Encoded(<<>>) = <<>>
  <2> DEFINE e == <<>>
  <2>1. e \in Seq(T) /\ \A i \in 1 .. Len(e) : e[i] \notin Encodable
    OBVIOUS
  <2> HIDE DEF e
  <2>2. Filter(e, Encodable) = <<>>
    BY <2>1, FilterNone
  <2> QED
    BY <2>2 DEF e, Encoded
<1> QED
  BY <1>1, <1>2, <1>3

\* Lists of snapshots can be regrouped.
LEMMA RegroupedNat == \A a, b, c \in Seq(Nat) : a \o (b \o c) = (a \o b) \o c
<1> DEFINE T == Nat
<1> HIDE DEF T
<1>1. \A a, b, c \in Seq(T) : a \o (b \o c) = (a \o b) \o c
  BY ConcatAssociative
<1> QED
  BY <1>1 DEF T

\* The invariant holds at first.
LEMMA InitExportInv == Exporter!Init => ExportInv
<1> SUFFICES ASSUME Exporter!Init PROVE ExportInv
  OBVIOUS
<1> DEFINE e == <<>>
<1>1. /\ ch = e /\ hand = e /\ writer = e /\ exportFile = e /\ accepted = e
      /\ exported = 0 /\ promised = 0 /\ worker = "select" /\ done = FALSE
      /\ exportOpen = TRUE /\ exportClosed = FALSE /\ dropped = 0
      /\ exportClosing = [c \in Closers |-> "idle"]
  BY DEF Exporter!Init
<1>2. e \in Seq(1 .. 0) /\ Len(e) = 0 /\ e \o e = e
  OBVIOUS
<1>3. Encoded(e) = e
  BY EncodedFacts
<1> HIDE DEF e
<1>4. Exporter!TypeOK
  <2>1. Len(e) <= ChannelSize /\ Len(e) <= 1 /\ exported \in 0 .. MaxSnapshots
    BY <1>1, <1>2, ExporterAssumption DEF Exporter!ExporterAssumption
  <2>2. promised \in 0 .. Len(accepted) /\ dropped \in Nat
    BY <1>1, <1>2
  <2>3. exportClosing \in [Closers -> {"idle", "stopping", "waiting", "returned"}]
    BY <1>1
  <2> QED
    BY <1>1, <1>2, <2>1, <2>2, <2>3 DEF Exporter!TypeOK
<1> QED
  BY <1>1, <1>2, <1>3, <1>4 DEF ExportInv

\* ExportSnapshot.
LEMMA ExportSnapshotInv == ASSUME ExportInv, Exporter!ExportSnapshot PROVE ExportInv'
<1>1. /\ exported \in Nat /\ 1 .. exported \subseteq Nat /\ promised \in 0 .. Len(accepted)
      /\ \A s \in {ch, hand, writer, exportFile, accepted} :
            s \in Seq(1 .. exported) /\ s \in Seq(Nat)
  BY ExportFacts
<1> DEFINE x == exported + 1
<1>2. /\ exported < MaxSnapshots /\ exported' = x
      /\ UNCHANGED <<hand, worker, writer, exportFile, exportOpen, exportClosed, done,
                     exportClosing>>
  BY DEF Exporter!ExportSnapshot
<1>3. x \in Nat /\ x \in 1 .. x /\ x \in 0 .. MaxSnapshots /\ 1 .. exported \subseteq 1 .. x
  BY <1>1, <1>2, ExporterAssumption DEF Exporter!ExporterAssumption
<1> HIDE DEF x
<1>4. \A s \in {ch, hand, writer, exportFile, accepted} : s \in Seq(1 .. x)
  BY <1>1, <1>3, SeqMonotonic
<1>5. CASE Len(ch) < ChannelSize
  <2>1. /\ ch' = Append(ch, x) /\ accepted' = Append(accepted, x)
        /\ promised' = (IF done THEN promised ELSE promised + 1) /\ dropped' = dropped
    BY <1>2, <1>5 DEF Exporter!ExportSnapshot, Exporter!HasRoom
  <2>2. /\ ch' \in Seq(1 .. x) /\ Len(ch') = Len(ch) + 1 /\ accepted' \in Seq(1 .. x)
        /\ Len(accepted') = Len(accepted) + 1 /\ Len(accepted) \in Nat /\ Len(ch) \in Nat
    BY <1>3, <1>4, <2>1, AppendProperties, LenProperties
  <2>3. Exporter!TypeOK'
    <3>1. Len(ch') <= ChannelSize
      BY <1>5, <2>2, ExporterAssumption DEF Exporter!ExporterAssumption
    <3>2. promised' \in 0 .. Len(accepted')
      BY <1>1, <2>1, <2>2
    <3> QED
      BY <1>2, <1>3, <1>4, <2>1, <2>2, <3>1, <3>2 DEF ExportInv, Exporter!TypeOK
  <2>4. (exportFile' \o writer') \o Encoded(hand' \o ch') = Encoded(accepted')
    <3> DEFINE o == <<x>>
               fw == exportFile \o writer
               hc == hand \o ch
    <3>1. ch' = ch \o o /\ accepted' = accepted \o o /\ o \in Seq(Nat)
      <4>1. ch' = ch \o o
        BY <1>1, <1>3, <2>1, AppendIsConcat
      <4>2. accepted' = accepted \o o
        BY <1>1, <1>3, <2>1, AppendIsConcat
      <4>3. o \in Seq(Nat)
        BY <1>3
      <4> QED
        BY <4>1, <4>2, <4>3
    <3> HIDE DEF o
    <3>2. hand \o (ch \o o) = hc \o o
      <4>1. hand \in Seq(Nat) /\ ch \in Seq(Nat)
        BY <1>1
      <4> QED
        BY <3>1, <4>1, RegroupedNat, Zenon
    <3>3. fw \in Seq(Nat) /\ hc \in Seq(Nat)
      BY <1>1, ConcatProperties
    <3>4. fw \o Encoded(hc) = Encoded(accepted)
      BY DEF ExportInv
    <3> HIDE DEF fw, hc
    <3>5. Encoded(hc \o o) = Encoded(hc) \o Encoded(o)
      BY <3>1, <3>3, EncodedFacts
    <3>6. Encoded(accepted \o o) = Encoded(accepted) \o Encoded(o)
      BY <1>1, <3>1, EncodedFacts
    <3>7. Encoded(hc) \in Seq(Nat) /\ Encoded(o) \in Seq(Nat)
      BY <3>1, <3>3, EncodedFacts
    <3>8. fw \o (Encoded(hc) \o Encoded(o)) = (fw \o Encoded(hc)) \o Encoded(o)
      BY <3>3, <3>7, RegroupedNat, Zenon
    <3> QED
      BY <1>2, <3>1, <3>2, <3>4, <3>5, <3>6, <3>8 DEF fw, hc
  <2>5. ~done' => promised' = Len(accepted')
    BY <1>2, <2>1, <2>2 DEF ExportInv
  <2>6. worker \in {"flush", "exited"} => PromisedOnes' = PromisedOnes
    <3> SUFFICES ASSUME worker \in {"flush", "exited"}
                 PROVE  SubSeq(accepted', 1, promised') = SubSeq(accepted, 1, promised)
      BY DEF PromisedOnes
    <3>1. promised' = promised
      BY <2>1 DEF ExportInv
    <3> DEFINE a == accepted
               b == accepted'
               p == promised
    <3>2. p \in Nat /\ a \in Seq(Nat) /\ \A i \in 1 .. p : b[i] = a[i] /\ a[i] \in Nat
      <4>1. \A i \in 1 .. Len(a) : b[i] = a[i] /\ a[i] \in Nat
        BY <1>1, <1>3, <2>1, AppendProperties, ElementOfSeq
      <4> QED
        BY <1>1, <2>2, <4>1
    <3> HIDE DEF a, b, p
    <3>3. /\ SubSeq(a, 1, p) \in Seq(Nat)
          /\ Len(SubSeq(a, 1, p)) = (IF 1 <= p THEN p - 1 + 1 ELSE 0)
          /\ \A i \in 1 .. p - 1 + 1 : SubSeq(a, 1, p)[i] = a[1 + i - 1]
      BY <3>2, SubSeqProperties
    <3>4. /\ SubSeq(b, 1, p) \in Seq(Nat)
          /\ Len(SubSeq(b, 1, p)) = (IF 1 <= p THEN p - 1 + 1 ELSE 0)
          /\ \A i \in 1 .. p - 1 + 1 : SubSeq(b, 1, p)[i] = b[1 + i - 1]
      BY <3>2, SubSeqProperties
    <3>5. Len(SubSeq(a, 1, p)) = p /\ Len(SubSeq(b, 1, p)) = p
      BY <3>2, <3>3, <3>4
    <3>6. \A i \in 1 .. p : SubSeq(b, 1, p)[i] = SubSeq(a, 1, p)[i]
      BY <3>2, <3>3, <3>4
    <3>7. SubSeq(b, 1, p) = SubSeq(a, 1, p)
      BY <3>3, <3>4, <3>5, <3>6, SeqEqual
    <3> QED
      BY <3>1, <3>7 DEF a, b, p
  <2>7. worker' \in {"flush", "exited"} =>
          /\ hand' = <<>>
          /\ \E rest \in Seq(Nat) : exportFile' \o writer' = Encoded(PromisedOnes') \o rest
    BY <1>2, <2>6 DEF ExportInv
  <2>8. /\ worker' # "select" => done'
        /\ worker' = "exited" => writer' = <<>>
        /\ ~exportOpen' => worker' = "exited"
    BY <1>2 DEF ExportInv
  <2> QED
    BY <1>2, <2>2, <2>3, <2>4, <2>5, <2>7, <2>8 DEF ExportInv
<1>6. CASE ~ (Len(ch) < ChannelSize)
  <2>1. dropped' = dropped + 1 /\ UNCHANGED <<ch, accepted, promised>>
    BY <1>2, <1>6 DEF Exporter!ExportSnapshot, Exporter!HasRoom
  <2>2. Exporter!TypeOK'
    BY <1>2, <1>3, <1>4, <2>1 DEF ExportInv, Exporter!TypeOK
  <2>3. PromisedOnes' = PromisedOnes
    BY <2>1 DEF PromisedOnes
  <2>4. accepted' \in Seq(1 .. exported')
    BY <1>2, <1>4, <2>1
  <2> QED
    BY <1>2, <2>1, <2>2, <2>3, <2>4 DEF ExportInv
<1> QED
  BY <1>5, <1>6
\* The worker receives: the first of the channel goes into its hand.
LEMMA ReceiveInv == ASSUME ExportInv, Exporter!Receive PROVE ExportInv'
<1>1. /\ exported \in Nat /\ promised \in 0 .. Len(accepted)
      /\ \A s \in {ch, hand, writer, exportFile, accepted} :
            s \in Seq(1 .. exported) /\ s \in Seq(Nat)
  BY ExportFacts
<1>2. /\ worker \in {"select", "drain"} /\ hand = <<>> /\ ch # <<>>
      /\ hand' = <<Head(ch)>> /\ ch' = Tail(ch)
      /\ UNCHANGED <<worker, writer, exportFile, exportOpen, exportClosed, done, exportClosing,
                     dropped, exported, accepted, promised>>
  BY DEF Exporter!Receive
<1>3. /\ Head(ch) \in 1 .. exported /\ Tail(ch) \in Seq(1 .. exported)
      /\ Len(Tail(ch)) = Len(ch) - 1 /\ Len(ch) \in Nat
      /\ \A i \in 1 .. Len(Tail(ch)) : Tail(ch)[i] = ch[i + 1]
  BY <1>1, <1>2, HeadTailProperties, LenProperties
<1>4. hand' \in Seq(1 .. exported) /\ Len(hand') = 1
  BY <1>2, <1>3
<1>5. hand' \o ch' = hand \o ch
  <2> DEFINE T == 1 .. exported
  <2>1. ch \in Seq(T) /\ Len(ch) \in 1 .. Len(ch) /\ 1 \in 1 .. Len(ch)
    BY <1>1, <1>2, EmptySeq
  <2> HIDE DEF T
  <2>2. SubSeq(ch, 1, Len(ch)) = <<ch[1]>> \o SubSeq(ch, 2, Len(ch))
    BY <2>1, SubSeqRecursiveFirst
  <2>3. SubSeq(ch, 1, Len(ch)) = ch /\ Tail(ch) = SubSeq(ch, 2, Len(ch))
    BY <1>2, <2>1, SubSeqFull, TailIsSubSeq
  <2>4. Head(ch) = ch[1]
    BY <1>2, <2>1
  <2>5. hand \o ch = ch
    BY <1>2, <2>1, ConcatEmptySeq
  <2> QED
    BY <1>2, <2>2, <2>3, <2>4, <2>5
<1>6. Exporter!TypeOK'
  <2>1. Len(ch') <= ChannelSize
    BY <1>2, <1>3, ExporterAssumption DEF ExportInv, Exporter!TypeOK, Exporter!ExporterAssumption
  <2>2. ch' \in Seq(1 .. exported) /\ Len(hand') <= 1
    BY <1>2, <1>3, <1>4
  <2> QED
    BY <1>2, <1>4, <2>1, <2>2 DEF ExportInv, Exporter!TypeOK
<1>8. (exportFile' \o writer') \o Encoded(hand' \o ch') = Encoded(accepted')
  BY <1>2, <1>5 DEF ExportInv
<1>9. worker' \notin {"flush", "exited"}
  BY <1>2
<1> QED
  BY <1>2, <1>6, <1>8, <1>9 DEF ExportInv

\* What the worker holds goes into the writer, some of which may reach the file.
LEMMA WriteSnapshotInv == ASSUME ExportInv, Exporter!WriteSnapshot PROVE ExportInv'
<1>1. /\ exported \in Nat /\ 1 .. exported \subseteq Nat /\ promised \in 0 .. Len(accepted)
      /\ \A s \in {ch, hand, writer, exportFile, accepted} :
            s \in Seq(1 .. exported) /\ s \in Seq(Nat)
  BY ExportFacts
<1> DEFINE h == Encoded(hand)
           w == writer \o h
           T == 1 .. exported
           e == <<>>
<1>2. PICK n \in 0 .. Len(w) :
          /\ exportFile' = exportFile \o SubSeq(w, 1, n)
          /\ writer' = SubSeq(w, n + 1, Len(w))
  BY EncodedIs DEF Exporter!WriteSnapshot
<1>3. /\ hand # e /\ hand' = e
      /\ UNCHANGED <<ch, worker, exportOpen, exportClosed, done, exportClosing, dropped, exported,
                     accepted, promised>>
  BY DEF Exporter!WriteSnapshot
<1>4. e \in Seq(T) /\ Len(e) <= 1
  OBVIOUS
<1> HIDE DEF e
<1>5. h \in Seq(T) /\ h \in Seq(Nat)
  BY <1>1, EncodedFacts
<1> HIDE DEF h
<1>6. w \in Seq(T) /\ w \in Seq(Nat)
  BY <1>1, <1>5, ConcatProperties
<1> DEFINE a == SubSeq(w, 1, n)
           b == SubSeq(w, n + 1, Len(w))
<1>7. a \in Seq(T) /\ b \in Seq(T) /\ w = a \o b
  <2> HIDE DEF w, T
  <2> QED
    BY <1>6, SplitAt
<1>8. a \in Seq(Nat) /\ b \in Seq(Nat)
  BY <1>1, <1>7, SeqMonotonic
<1>9. exportFile' = exportFile \o a /\ writer' = b
  BY <1>2
<1> HIDE DEF a, b
<1>10. exportFile' \in Seq(T) /\ writer' \in Seq(T)
  BY <1>1, <1>7, <1>9, ConcatProperties
<1>11. Exporter!TypeOK'
  BY <1>3, <1>4, <1>10 DEF ExportInv, Exporter!TypeOK
<1>12. exportFile' \o writer' = (exportFile \o writer) \o h
  <2>1. exportFile \o (a \o b) = (exportFile \o a) \o b
    <3>1. exportFile \in Seq(Nat)
      BY <1>1
    <3> QED
      BY <1>8, <3>1, RegroupedNat, Zenon
  <2>2. exportFile \o (writer \o h) = (exportFile \o writer) \o h
    <3>1. exportFile \in Seq(Nat) /\ writer \in Seq(Nat)
      BY <1>1
    <3> QED
      BY <1>5, <3>1, RegroupedNat, Zenon
  <2> QED
    BY <1>7, <1>9, <2>1, <2>2
<1>13. (exportFile' \o writer') \o Encoded(hand' \o ch') = Encoded(accepted')
  <2>1. hand' \o ch' = ch
    BY <1>1, <1>3, ConcatEmptySeq DEF e
  <2>2. Encoded(hand \o ch) = h \o Encoded(ch)
    BY <1>1, EncodedFacts DEF h
  <2>3. Encoded(ch) \in Seq(Nat)
    BY <1>1, EncodedFacts
  <2>4. exportFile \o writer \in Seq(Nat)
    BY <1>1, ConcatProperties
  <2>5. (exportFile \o writer) \o (h \o Encoded(ch))
          = ((exportFile \o writer) \o h) \o Encoded(ch)
    BY <1>5, <2>3, <2>4, RegroupedNat, Zenon
  <2>6. (exportFile \o writer) \o Encoded(hand \o ch) = Encoded(accepted)
    BY DEF ExportInv
  <2> QED
    BY <1>3, <1>12, <2>1, <2>2, <2>5, <2>6
<1>14. worker \notin {"flush", "exited"} /\ worker' = worker
  BY <1>3 DEF ExportInv, e
<1> QED
  BY <1>3, <1>11, <1>13, <1>14 DEF ExportInv

\* writer.Flush() moves the writer's snapshots to the end of the file.
LEMMA FlushExport ==
    ASSUME ExportInv, Exporter!FlushWriter
    PROVE  /\ exportFile' \in Seq(1 .. exported) /\ writer' \in Seq(1 .. exported)
           /\ exportFile' \o writer' = exportFile \o writer
           /\ writer' = <<>>
<1> DEFINE T == 1 .. exported
           e == <<>>
<1>1. exportFile \in Seq(T) /\ writer \in Seq(T)
  BY ExportFacts
<1>2. exportFile' = exportFile \o writer /\ writer' = e
  BY DEF Exporter!FlushWriter
<1>3. e \in Seq(T)
  OBVIOUS
<1> HIDE DEF T
<1>4. exportFile \o writer \in Seq(T)
  BY <1>1, ConcatProperties
<1>5. (exportFile \o writer) \o e = exportFile \o writer
  BY <1>4, ConcatEmptySeq
<1> QED
  BY <1>2, <1>3, <1>4, <1>5 DEF T

\* A drained channel and an empty hand: everything promised is in the writer or the file.
LEMMA DrainedHasAll ==
    ASSUME ExportInv, hand = <<>>, ch = <<>>
    PROVE  \E rest \in Seq(Nat) : exportFile \o writer = Encoded(PromisedOnes) \o rest
<1>1. /\ promised \in 0 .. Len(accepted)
      /\ accepted \in Seq(Nat) /\ exportFile \in Seq(Nat) /\ writer \in Seq(Nat)
  BY ExportFacts
<1> DEFINE p == PromisedOnes
           q == SubSeq(accepted, promised + 1, Len(accepted))
           fw == exportFile \o writer
           e == <<>>
<1>2. p \in Seq(Nat) /\ q \in Seq(Nat) /\ accepted = p \o q
  BY <1>1, SplitAt DEF PromisedOnes
<1>3. fw \in Seq(Nat)
  BY <1>1, ConcatProperties
<1>4. fw \o Encoded(hand \o ch) = Encoded(accepted)
  BY DEF ExportInv
<1>5. hand \o ch = e /\ Encoded(e) = e
  BY EncodedFacts
<1> HIDE DEF p, q, fw
<1>6. fw \o e = fw
  BY <1>3, ConcatEmptySeq
<1>7. Encoded(p \o q) = Encoded(p) \o Encoded(q) /\ Encoded(q) \in Seq(Nat)
  BY <1>2, EncodedFacts
<1> HIDE DEF e
<1>8. fw = Encoded(p) \o Encoded(q)
  BY <1>2, <1>4, <1>5, <1>6, <1>7
<1> QED
  BY <1>7, <1>8 DEF p, fw

\* Every step preserves the invariant.
LEMMA NextExportInv == ExportInv /\ [Exporter!Next]_(Exporter!vars) => ExportInv'
<1> SUFFICES ASSUME ExportInv, [Exporter!Next]_(Exporter!vars) PROVE ExportInv'
  OBVIOUS
<1>0. Exporter!TypeOK
  BY DEF ExportInv
<1>1. CASE Exporter!ExportSnapshot
  BY <1>1, ExportSnapshotInv
<1>2. CASE Exporter!Receive
  BY <1>2, ReceiveInv
<1>3. CASE Exporter!WriteSnapshot
  BY <1>3, WriteSnapshotInv
<1>4. CASE Exporter!Tick
  <2>1. /\ UNCHANGED <<ch, hand, worker, exportOpen, exportClosed, done, exportClosing, dropped,
                       exported, accepted, promised>>
        /\ Exporter!FlushWriter
    BY <1>4 DEF Exporter!Tick
  <2>2. /\ exportFile' \in Seq(1 .. exported) /\ writer' \in Seq(1 .. exported)
        /\ exportFile' \o writer' = exportFile \o writer /\ writer' = <<>>
    BY <2>1, FlushExport
  <2>3. Exporter!TypeOK'
    BY <1>0, <2>1, <2>2 DEF Exporter!TypeOK
  <2>4. PromisedOnes' = PromisedOnes
    BY <2>1 DEF PromisedOnes
  <2> QED
    BY <2>1, <2>2, <2>3, <2>4 DEF ExportInv
<1>5. CASE Exporter!DoneCase
  <2>1. /\ UNCHANGED <<ch, hand, writer, exportFile, exportOpen, exportClosed, done,
                       exportClosing, dropped, exported, accepted, promised>>
        /\ worker = "select" /\ done /\ worker' = "drain"
    BY <1>5 DEF Exporter!DoneCase
  <2>2. Exporter!TypeOK'
    BY <1>0, <2>1 DEF Exporter!TypeOK
  <2> QED
    BY <2>1, <2>2 DEF ExportInv
<1>6. CASE Exporter!Drained
  <2>1. /\ UNCHANGED <<ch, hand, writer, exportFile, exportOpen, exportClosed, done,
                       exportClosing, dropped, exported, accepted, promised>>
        /\ worker = "drain" /\ hand = <<>> /\ ch = <<>> /\ worker' = "flush"
    BY <1>6 DEF Exporter!Drained
  <2>2. Exporter!TypeOK'
    BY <1>0, <2>1 DEF Exporter!TypeOK
  <2>3. \E rest \in Seq(Nat) : exportFile \o writer = Encoded(PromisedOnes) \o rest
    BY <2>1, DrainedHasAll
  <2>4. PromisedOnes' = PromisedOnes
    BY <2>1 DEF PromisedOnes
  <2> QED
    BY <2>1, <2>2, <2>3, <2>4 DEF ExportInv
<1>7. CASE Exporter!Exit
  <2>1. /\ UNCHANGED <<ch, hand, exportOpen, exportClosed, done, exportClosing, dropped,
                       exported, accepted, promised>>
        /\ Exporter!FlushWriter /\ worker = "flush" /\ worker' = "exited"
    BY <1>7 DEF Exporter!Exit
  <2>2. /\ exportFile' \in Seq(1 .. exported) /\ writer' \in Seq(1 .. exported)
        /\ exportFile' \o writer' = exportFile \o writer /\ writer' = <<>>
    BY <2>1, FlushExport
  <2>3. Exporter!TypeOK'
    BY <1>0, <2>1, <2>2 DEF Exporter!TypeOK
  <2>4. PromisedOnes' = PromisedOnes
    BY <2>1 DEF PromisedOnes
  <2> QED
    BY <2>1, <2>2, <2>3, <2>4 DEF ExportInv
<1>8. ASSUME NEW c \in Closers, Exporter!Close(c) \/ Exporter!CloseDone(c)
      PROVE  ExportInv'
  <2>1. /\ UNCHANGED <<ch, hand, worker, writer, exportFile, exportOpen, dropped, exported,
                       accepted, promised>>
        /\ exportClosed' \in BOOLEAN /\ done' \in BOOLEAN
        /\ done => done'
        /\ exportClosing' \in [Closers -> {"idle", "stopping", "waiting", "returned"}]
    BY <1>0, <1>8 DEF Exporter!Close, Exporter!CloseDone, Exporter!TypeOK
  <2>2. Exporter!TypeOK'
    BY <1>0, <2>1 DEF Exporter!TypeOK
  <2>3. PromisedOnes' = PromisedOnes
    BY <2>1 DEF PromisedOnes
  <2> QED
    BY <2>1, <2>2, <2>3 DEF ExportInv
<1>9. ASSUME NEW c \in Closers, Exporter!CloseFile(c)
      PROVE  ExportInv'
  <2>1. /\ UNCHANGED <<ch, hand, worker, exportClosed, done, dropped, exported, accepted,
                       promised>>
        /\ Exporter!FlushWriter /\ worker = "exited" /\ exportOpen' = FALSE
        /\ exportClosing' = [exportClosing EXCEPT ![c] = "returned"]
    BY <1>9 DEF Exporter!CloseFile
  <2>2. /\ exportFile' \in Seq(1 .. exported) /\ writer' \in Seq(1 .. exported)
        /\ exportFile' \o writer' = exportFile \o writer /\ writer' = <<>>
    BY <2>1, FlushExport
  <2>3. Exporter!TypeOK'
    BY <1>0, <2>1, <2>2 DEF Exporter!TypeOK
  <2>4. PromisedOnes' = PromisedOnes
    BY <2>1 DEF PromisedOnes
  <2> QED
    BY <2>1, <2>2, <2>3, <2>4 DEF ExportInv
<1>10. CASE UNCHANGED Exporter!vars
  <2>1. Exporter!TypeOK'
    BY <1>0, <1>10 DEF Exporter!TypeOK, Exporter!vars
  <2>2. PromisedOnes' = PromisedOnes
    BY <1>10 DEF PromisedOnes, Exporter!vars
  <2> QED
    BY <1>10, <2>1, <2>2 DEF ExportInv, Exporter!vars
<1> QED
  BY <1>1, <1>2, <1>3, <1>4, <1>5, <1>6, <1>7, <1>8, <1>9, <1>10 DEF Exporter!Next

\* ExportInv holds in every reachable state.
THEOREM ExportInvariance == Exporter!Spec => []ExportInv
BY InitExportInv, NextExportInv, PTL DEF Exporter!Spec

\* However exports, the worker and Close interleave, no snapshot that the channel took is
\* lost, doubled or overtaken on its way to the file.
THEOREM SnapshotsConserved == Exporter!Spec => []Conserved
<1>1. ExportInv => Conserved
  BY EncodedIs DEF ExportInv, Conserved, Exporter!Conserved
<1> QED
  BY <1>1, ExportInvariance, PTL

\* A closed export has every snapshot that was taken before Close stopped the worker.
THEOREM CloseExportsAll == Exporter!Spec => []ClosedMeansExported
<1>1. ExportInv => ClosedMeansExported
  <2> SUFFICES ASSUME ExportInv, ~exportOpen
               PROVE  /\ Exporter!IsPrefix(Exporter!Encoded(PromisedOnes), exportFile)
                      /\ worker = "exited" /\ writer = <<>>
    BY DEF ClosedMeansExported, Exporter!ClosedMeansExported, PromisedOnes
  <2>1. worker = "exited" /\ writer = <<>>
    BY DEF ExportInv
  <2>2. PICK rest \in Seq(Nat) : exportFile \o writer = Encoded(PromisedOnes) \o rest
    BY <2>1 DEF ExportInv
  <2>3. /\ promised \in 0 .. Len(accepted)
        /\ accepted \in Seq(Nat) /\ exportFile \in Seq(Nat)
    BY ExportFacts
  <2>4. exportFile \o writer = exportFile
    BY <2>1, <2>3, ConcatEmptySeq
  <2>5. Encoded(PromisedOnes) \in Seq(Nat)
    BY <2>3, SplitAt, EncodedFacts DEF PromisedOnes
  <2>6. IsPrefix(Encoded(PromisedOnes), exportFile)
    BY <2>2, <2>4, <2>5, BeginsPrefix
  <2>7. Exporter!IsPrefix(Encoded(PromisedOnes), exportFile)
    BY <2>6 DEF IsPrefix, Exporter!IsPrefix
  <2> QED
    BY <2>1, <2>7, EncodedIs
<1> QED
  BY <1>1, ExportInvariance, PTL
=============================================================================
