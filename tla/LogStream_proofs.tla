--------------------------- MODULE LogStream_proofs ---------------------------
(***************************************************************************)
(* Theorems about the log stream of a container, for a log of any length.  *)
(***************************************************************************)
EXTENDS LogStream, SequenceTheorems, WellFoundedInduction, TLAPS

-------------------------------------------------------------------------------
(***************************************************************************)
(* FlattenSeq adds the last sequence to what the others make.  It is       *)
(* defined by recursion: that its recursive function exists, and only one, *)
(* is shown by a least counterexample.                                     *)
(***************************************************************************)
LEMMA Least ==
  ASSUME NEW T \in SUBSET Nat, T # {}
  PROVE  \E n \in T : \A m \in T : n <= m
<1>0. T \subseteq Nat
  OBVIOUS
<1>1. PICK n \in T : \A m \in T : <<m, n>> \notin OpToRel(<, Nat)
  BY <1>0, NatLessThanWellFounded, WFMin
<1>2. \A m \in T : ~(m < n)
  BY <1>0, <1>1 DEF OpToRel
<1> QED
  BY <1>0, <1>2

\* g[i] is the first i sequences of s, one after the other
PartialJoins(S, s, n, g) ==
  /\ g \in [1 .. n -> Seq(S)]
  /\ \A i \in 1 .. n : g[i] = IF i = 1 THEN s[i] ELSE g[i - 1] \o s[i]

LEMMA PrefixesExist ==
  ASSUME NEW S, NEW s \in Seq(Seq(S)), NEW n \in 0 .. Len(s)
  PROVE  \E g : PartialJoins(S, s, n, g)
<1> DEFINE T == {k \in 0 .. Len(s) : ~ \E g : PartialJoins(S, s, k, g)}
<1>1. SUFFICES ASSUME T # {} PROVE FALSE
  OBVIOUS
<1>0. Len(s) \in Nat /\ \A i \in 1 .. Len(s) : s[i] \in Seq(S)
  BY ElementOfSeq, LenProperties
<1>2. PICK k \in T : \A m \in T : k <= m
  <2>1. T \in SUBSET Nat
    BY <1>0
  <2> QED
    BY <1>1, <2>1, Least
<1>3. k # 0
  <2>1. PartialJoins(S, s, 0, [i \in {} |-> <<>>])
    BY DEF PartialJoins
  <2> QED
    BY <2>1
<1>4. k - 1 \in 0 .. Len(s) /\ k \in 1 .. Len(s) /\ ~(k <= k - 1)
  BY <1>0, <1>3
<1>5. PICK g : PartialJoins(S, s, k - 1, g)
  BY <1>2, <1>4
<1> DEFINE last == IF k = 1 THEN s[k] ELSE g[k - 1] \o s[k]
           h == [i \in 1 .. k |-> IF i = k THEN last ELSE g[i]]
<1>6. last \in Seq(S)
  <2>1. s[k] \in Seq(S)
    BY <1>0, <1>4
  <2>2. ASSUME k # 1 PROVE g[k - 1] \in Seq(S)
    BY <1>3, <1>5, <2>2 DEF PartialJoins
  <2> QED
    BY <2>1, <2>2, ConcatProperties
<1> HIDE DEF last
<1>7. h \in [1 .. k -> Seq(S)]
  BY <1>5, <1>6 DEF PartialJoins
<1>8. ASSUME NEW i \in 1 .. k PROVE h[i] = IF i = 1 THEN s[i] ELSE h[i - 1] \o s[i]
  <2>1. i # 1 => i - 1 \in 1 .. k /\ i - 1 # k /\ h[i - 1] = g[i - 1]
    BY <1>4
  <2>2. CASE i = k
    BY <2>1, <2>2 DEF last
  <2>3. CASE i # k
    <3>1. i \in 1 .. k - 1 /\ h[i] = g[i]
      BY <1>4, <2>3
    <3> QED
      BY <1>5, <2>1, <3>1 DEF PartialJoins
  <2> QED
    BY <2>2, <2>3
<1>9. PartialJoins(S, s, k, h)
  BY <1>7, <1>8 DEF PartialJoins
<1> QED
  BY <1>9

LEMMA FlattenPrefixes ==
  ASSUME NEW S, NEW s \in Seq(Seq(S)), Len(s) # 0, NEW g, PartialJoins(S, s, Len(s), g)
  PROVE  FlattenSeq(s) = g[Len(s)]
<1> DEFINE Recursion(f) == f = [i \in 1 .. Len(s) |-> IF i = 1 THEN s[i] ELSE f[i - 1] \o s[i]]
<1>0. Len(s) \in Nat /\ Len(s) \in 1 .. Len(s)
  BY LenProperties
<1>1. Recursion(g)
  BY DEF PartialJoins
<1>2. Recursion(CHOOSE f : Recursion(f))
  BY Zenon, <1>1
<1>3. PICK f : f = (CHOOSE e : Recursion(e))
  OBVIOUS
<1>4. Recursion(f)
  BY Zenon, <1>2, <1>3
<1>5. ASSUME NEW i \in 1 .. Len(s) PROVE f[i] = g[i]
  <2> DEFINE T == {k \in 1 .. Len(s) : f[k] # g[k]}
  <2>1. SUFFICES ASSUME T # {} PROVE FALSE
    OBVIOUS
  <2>2. PICK k \in T : \A m \in T : k <= m
    <3>1. T \in SUBSET Nat
      OBVIOUS
    <3> QED
      BY <2>1, <3>1, Least
  <2>3. f[k] # g[k] /\ k \in 1 .. Len(s)
    OBVIOUS
  <2>4. k # 1 => k - 1 \in 1 .. Len(s) /\ ~(k <= k - 1)
    BY <1>0, <2>3
  <2>5. k # 1 => g[k - 1] = f[k - 1]
    BY <2>2, <2>4
  <2>6. f[k] = IF k = 1 THEN s[k] ELSE f[k - 1] \o s[k]
    BY <1>4, <2>3
  <2>7. g[k] = IF k = 1 THEN s[k] ELSE g[k - 1] \o s[k]
    BY <2>3 DEF PartialJoins
  <2> QED
    BY <2>3, <2>5, <2>6, <2>7
<1>6. FlattenSeq(s) = (CHOOSE e : Recursion(e))[Len(s)]
  BY Zenon DEF FlattenSeq
<1> QED
  BY <1>0, <1>3, <1>5, <1>6

LEMMA FlattenAppend ==
  ASSUME NEW S, NEW s \in Seq(Seq(S)), NEW e \in Seq(S)
  PROVE  /\ FlattenSeq(s) \in Seq(S) /\ FlattenSeq(Append(s, e)) \in Seq(S)
         /\ Len(FlattenSeq(Append(s, e))) = Len(FlattenSeq(s)) + Len(e)
<1> DEFINE t == Append(s, e)
           n == Len(s)
<1>1. /\ t \in Seq(Seq(S)) /\ n \in Nat /\ Len(t) = n + 1 /\ \A i \in 1 .. n : t[i] = s[i]
      /\ t[n + 1] = e
  BY AppendProperties, LenProperties
<1> HIDE DEF t
<1>2. PICK g : PartialJoins(S, t, n + 1, g)
  <2>1. n + 1 \in 0 .. Len(t)
    BY <1>1
  <2> QED
    BY <1>1, <2>1, PrefixesExist
<1>3. FlattenSeq(t) = g[n + 1] /\ g[n + 1] \in Seq(S)
  <2>1. Len(t) # 0 /\ n + 1 \in 1 .. n + 1
    BY <1>1
  <2>2. FlattenSeq(t) = g[n + 1]
    BY <1>1, <1>2, <2>1, FlattenPrefixes
  <2> QED
    BY <1>2, <2>1, <2>2 DEF PartialJoins
<1>4. CASE n = 0
  <2>1. FlattenSeq(s) = <<>> /\ s = <<>>
    BY <1>4, EmptySeq DEF FlattenSeq
  <2>2. g[1] = e
    BY <1>1, <1>2, <1>4 DEF PartialJoins
  <2> QED
    BY <1>3, <1>4, <2>1, <2>2, EmptySeq, LenProperties DEF t
<1>5. CASE n # 0
  <2> DEFINE h == [i \in 1 .. n |-> g[i]]
  <2>1. PartialJoins(S, s, n, h)
    <3>1. \A i \in 1 .. n : i \in 1 .. n + 1 /\ (i # 1 => i - 1 \in 1 .. n)
      BY <1>1
    <3>2. h \in [1 .. n -> Seq(S)]
      BY <1>2, <3>1 DEF PartialJoins
    <3>3. \A i \in 1 .. n : h[i] = IF i = 1 THEN s[i] ELSE h[i - 1] \o s[i]
      BY <1>1, <1>2, <3>1 DEF PartialJoins
    <3> QED
      BY <3>2, <3>3 DEF PartialJoins
  <2>2. n \in 1 .. n /\ h[n] = g[n]
    BY <1>1, <1>5
  <2> HIDE DEF h
  <2>3. FlattenSeq(s) = g[n] /\ g[n] \in Seq(S)
    BY <1>5, <2>1, <2>2, FlattenPrefixes DEF PartialJoins
  <2>4. g[n + 1] = g[n] \o e
    <3>1. n + 1 \in 1 .. n + 1 /\ n + 1 # 1 /\ (n + 1) - 1 = n
      BY <1>1, <1>5
    <3>2. g[n + 1] = g[(n + 1) - 1] \o t[n + 1]
      BY <1>2, <3>1 DEF PartialJoins
    <3> QED
      BY <1>1, <3>1, <3>2
  <2>5. Len(g[n] \o e) = Len(g[n]) + Len(e)
    BY <2>3, ConcatProperties
  <2> QED
    BY <1>3, <2>3, <2>4, <2>5 DEF t
<1> QED
  BY <1>4, <1>5

-------------------------------------------------------------------------------
(***************************************************************************)
(* The inductive invariant.  HeapInv: there are no more arrays, and no     *)
(* more lines in one, than lines scanned, and the elements that a slice    *)
(* has are lines.  CountInv: while the connection lives, every line        *)
(* scanned is at the client, on the wire, in logLines or on offer; and     *)
(* what the streamer is about to send says what has been sent.             *)
(***************************************************************************)
ScanInv ==
  /\ streamer = "open" => scanner = "none"
  /\ scanned <= container.lines
  /\ scanner = "offer" => scanned > 0

Room(slice) == IF slice.array = 0 THEN 0 ELSE Len(heap[slice.array])
Filled(slice) ==
  /\ slice \in Slices /\ slice.array <= Len(heap) /\ slice.len <= Room(slice)
  /\ \A i \in 1 .. slice.len : heap[slice.array][i] \in Lines

HeapInv ==
  /\ wire \in [pc : {"recv", "encode"}, slice : Slices, out : Seq(Lines)]
  /\ heap \in Seq(Seq(0 .. MaxLines))
  /\ Len(heap) <= scanned /\ logLines.len <= scanned
  /\ scanner = "offer" => Len(heap) < scanned /\ logLines.len < scanned
  /\ Filled(logLines) /\ Filled(wire.slice)

OnWire == IF wire.pc = "encode" THEN wire.slice.len ELSE 0
Offered == IF scanner = "offer" THEN 1 ELSE 0
Complete == container.end = "eof" /\ scanned = container.lines

CountInv ==
  /\ logCtx = "live" => Len(Sent) + OnWire + logLines.len + Offered = scanned
  /\ scanner = "closed" /\ logCtx = "live" /\ streamer \notin {"done", "failed"} =>
       container.end = "error" \/ Complete
  /\ streamer \in {"flush", "last"} => logLines.len > 0
  /\ streamer \in {"last", "marker"} => Complete /\ scanner = "closed"
  /\ streamer = "marker" => logLines.len = 0 /\ Len(Sent) + OnWire = container.lines

MarkerInv ==
  /\ wire.pc = "encode" /\ wire.slice.len = 0 =>
       streamer = "done" /\ container.end = "eof" /\ Len(Sent) = container.lines
  /\ \A i \in 1 .. Len(delivered) :
       delivered[i] = <<>> =>
         /\ i = Len(delivered) /\ wire.pc = "recv" /\ streamer = "done"
         /\ container.end = "eof" /\ Len(Sent) = container.lines

LogInv == LogTypeOK /\ ScanInv /\ HeapInv /\ CountInv /\ MarkerInv

-------------------------------------------------------------------------------
(***************************************************************************)
(* append: every slice there is keeps its elements, or has some replaced   *)
(* by the line.                                                            *)
(***************************************************************************)
Cells == 0 .. MaxLines
Arrays == Seq(Cells)

LEMMA ArrayTypes ==
  ASSUME NEW hp \in Seq(Arrays)
  PROVE  /\ Len(hp) \in Nat
         /\ \A a \in 1 .. Len(hp) : hp[a] \in Arrays /\ Len(hp[a]) \in Nat
BY ElementOfSeq, LenProperties DEF Arrays

\* A new array: the old elements, the line, and room for more.
LEMMA FreshArray ==
  ASSUME NEW old \in Arrays, \A i \in 1 .. Len(old) : old[i] \in Lines, NEW line \in Lines,
         NEW free, free = IF old = <<>> THEN <<>> ELSE [i \in 1 .. Len(old) - 1 |-> 0],
         NEW arr, arr = Append(old, line) \o free
  PROVE  /\ arr \in Arrays /\ Len(old) + 1 <= Len(arr)
         /\ \A i \in 1 .. Len(old) + 1 : arr[i] \in Lines
<1>0. MaxLines \in Nat /\ Len(old) \in Nat /\ line \in Cells /\ 0 \in Cells
  BY MaxLinesAssumption, LenProperties DEF Arrays, Cells, Lines
<1>1. /\ Append(old, line) \in Arrays /\ Len(Append(old, line)) = Len(old) + 1
      /\ \A i \in 1 .. Len(old) : Append(old, line)[i] = old[i]
      /\ Append(old, line)[Len(old) + 1] = line
  BY <1>0, AppendProperties DEF Arrays
<1>2. free \in Arrays
  <2>1. CASE old = <<>>
    BY <2>1, EmptySeq DEF Arrays
  <2>2. CASE old # <<>>
    <3>1. Len(old) - 1 \in Nat
      BY <2>2, EmptySeq DEF Arrays
    <3>2. free \in [1 .. Len(old) - 1 -> Cells]
      BY <1>0, <2>2
    <3> QED
      BY <3>1, <3>2, SeqDef DEF Arrays
  <2> QED
    BY <2>1, <2>2
<1> DEFINE front == Append(old, line)
<1>3. /\ arr \in Arrays /\ Len(arr) = Len(front) + Len(free) /\ Len(free) \in Nat
      /\ \A i \in 1 .. Len(front) + Len(free) : arr[i] = IF i <= Len(front) THEN front[i] ELSE free[i - Len(front)]
  BY <1>1, <1>2, ConcatProperties, LenProperties DEF Arrays
<1> HIDE DEF front
<1>4. Len(front) = Len(old) + 1
  BY <1>1 DEF front
<1>5. ASSUME NEW i \in 1 .. Len(old) + 1 PROVE arr[i] \in Lines
  <2>1. arr[i] = front[i]
    BY <1>0, <1>3, <1>4
  <2>2. i \in 1 .. Len(old) \/ i = Len(old) + 1
    BY <1>0
  <2>3. front[i] \in Lines
    BY <1>1, <2>2 DEF front
  <2> QED
    BY <2>1, <2>3
<1> QED
  BY <1>0, <1>3, <1>4, <1>5

LEMMA AppendLineHeap ==
  ASSUME LogTypeOK, HeapInv, NEW line \in Lines, logLines.len < MaxLines, Len(heap) < MaxLines,
         AppendLine(line)
  PROVE  /\ heap' \in Seq(Arrays) /\ Len(heap') <= Len(heap) + 1
         /\ logLines'.len = logLines.len + 1
         /\ Filled(logLines)'
         /\ \A slice \in Slices : Filled(slice) => Filled(slice)'
<1>0. /\ MaxLines \in Nat /\ heap \in Seq(Arrays) /\ Len(heap) \in Nat
      /\ logLines \in [array : 0 .. MaxLines, len : 0 .. MaxLines]
      /\ logLines.array \in Nat /\ logLines.len \in Nat
      /\ line \in Cells /\ line \in Nat
      /\ \A a \in 1 .. Len(heap) : heap[a] \in Arrays /\ Len(heap[a]) \in Nat
  BY MaxLinesAssumption, ArrayTypes DEF HeapInv, Filled, Slices, Arrays, Cells, Lines
<1>1. PICK hp : hp = heap'
  OBVIOUS
<1>2. PICK ll : ll = logLines'
  OBVIOUS
<1> DEFINE FilledIn(h, slice) ==
      /\ slice \in Slices /\ slice.array <= Len(h)
      /\ slice.len <= IF slice.array = 0 THEN 0 ELSE Len(h[slice.array])
      /\ \A i \in 1 .. slice.len : h[slice.array][i] \in Lines
<1>3. Filled(logLines)' <=> FilledIn(hp, ll)
  BY <1>1, <1>2 DEF Filled, Room
<1>4. ASSUME NEW slice PROVE (Filled(slice) <=> FilledIn(heap, slice)) /\ (Filled(slice)' <=> FilledIn(hp, slice))
  BY <1>1 DEF Filled, Room
<1>5. SUFFICES /\ hp \in Seq(Arrays) /\ Len(hp) <= Len(heap) + 1 /\ ll.len = logLines.len + 1 /\ FilledIn(hp, ll)
               /\ \A slice \in Slices : FilledIn(heap, slice) => FilledIn(hp, slice)
  BY <1>1, <1>2, <1>3, <1>4
<1> DEFINE full == logLines.array = 0 \/ logLines.len = Len(heap[logLines.array])
           old == SubSeq(IF logLines.array = 0 THEN <<>> ELSE heap[logLines.array], 1, logLines.len)
           free == IF old = <<>> THEN <<>> ELSE [i \in 1 .. Len(old) - 1 |-> 0]
           arr == Append(old, line) \o free
<1>6. CASE full
  <2>1. hp = Append(heap, arr) /\ ll = [array |-> Len(heap) + 1, len |-> logLines.len + 1]
    BY <1>1, <1>2, <1>6 DEF AppendLine
  <2>2. old \in Arrays /\ Len(old) = logLines.len /\ \A i \in 1 .. Len(old) : old[i] \in Lines
    <3> DEFINE src == IF logLines.array = 0 THEN <<>> ELSE heap[logLines.array]
    <3>1. \A i \in 1 .. logLines.len : src[i] \in Lines
      BY <1>0 DEF HeapInv, Filled, Room
    <3>2. \A i \in 1 .. logLines.len : src[i] \in Cells
      BY <1>0, <3>1 DEF Lines, Cells
    <3> HIDE DEF src
    <3>3. PICK o : o = SubSeq(src, 1, logLines.len)
      OBVIOUS
    <3>4. /\ o \in Arrays /\ Len(o) = IF 1 <= logLines.len THEN logLines.len - 1 + 1 ELSE 0
          /\ \A i \in 1 .. logLines.len - 1 + 1 : o[i] = src[1 + i - 1]
      BY <1>0, <3>2, <3>3, SubSeqProperties DEF Arrays
    <3>5. Len(o) = logLines.len
      BY <1>0, <3>4
    <3>6. ASSUME NEW i \in 1 .. logLines.len PROVE o[i] \in Lines
      <4>1. i \in 1 .. logLines.len - 1 + 1 /\ 1 + i - 1 = i
        BY <1>0
      <4>2. o[i] = src[1 + i - 1]
        BY <3>4, <4>1
      <4> QED
        BY <3>1, <4>1, <4>2
    <3> QED
      BY <3>3, <3>4, <3>5, <3>6 DEF src
  <2> HIDE DEF old
  <2>3. arr \in Arrays /\ Len(old) + 1 <= Len(arr) /\ \A i \in 1 .. Len(old) + 1 : arr[i] \in Lines
    BY <2>2, FreshArray
  <2> HIDE DEF arr
  <2>4. /\ hp \in Seq(Arrays) /\ Len(hp) = Len(heap) + 1
        /\ \A a \in 1 .. Len(heap) : hp[a] = heap[a]
        /\ hp[Len(heap) + 1] = arr
    BY <1>0, <2>1, <2>3, AppendProperties
  <2>5. ll \in Slices /\ ll.array = Len(heap) + 1 /\ ll.len = logLines.len + 1
    BY <1>0, <2>1 DEF Slices
  <2>6. FilledIn(hp, ll)
    <3>1. ll.array # 0 /\ hp[ll.array] = arr
      BY <1>0, <2>4, <2>5
    <3> QED
      BY <1>0, <2>2, <2>3, <2>4, <2>5, <3>1
  <2>7. ASSUME NEW slice \in Slices, FilledIn(heap, slice) PROVE FilledIn(hp, slice)
    <3>1. slice.array \in Nat /\ slice.len \in Nat
      BY <1>0 DEF Slices
    <3>2. CASE slice.array = 0
      BY <1>0, <2>4, <2>7, <3>1, <3>2
    <3>3. CASE slice.array # 0
      <4>1. hp[slice.array] = heap[slice.array]
        BY <1>0, <2>4, <2>7, <3>1, <3>3
      <4> QED
        BY <1>0, <2>4, <2>7, <3>1, <3>3, <4>1
    <3> QED
      BY <3>2, <3>3
  <2> QED
    BY <1>0, <2>4, <2>5, <2>6, <2>7
<1>7. CASE ~full
  <2>1. /\ hp = [heap EXCEPT ![logLines.array][logLines.len + 1] = line]
        /\ ll = [logLines EXCEPT !.len = @ + 1]
    BY <1>1, <1>2, <1>7 DEF AppendLine
  <2>2. PICK a \in 1 .. Len(heap) : a = logLines.array
    BY <1>0, <1>7 DEF HeapInv, Filled
  <2>3. PICK n \in 1 .. Len(heap[a]) : n = logLines.len + 1
    <3>1. logLines.len <= Len(heap[a]) /\ logLines.len # Len(heap[a]) /\ Len(heap[a]) \in Nat
      BY <1>0, <1>7, <2>2 DEF HeapInv, Filled, Room
    <3> QED
      BY <1>0, <3>1
  <2> DEFINE cell == [heap[a] EXCEPT ![n] = line]
  <2>4. hp = [heap EXCEPT ![a] = cell]
    BY <2>1, <2>2, <2>3
  <2>5. /\ cell \in Arrays /\ Len(cell) = Len(heap[a])
        /\ \A i \in 1 .. Len(heap[a]) : cell[i] = IF i = n THEN line ELSE heap[a][i]
    BY <1>0, ExceptSeq DEF Arrays
  <2> HIDE DEF cell
  <2>6. /\ hp \in Seq(Arrays) /\ Len(hp) = Len(heap)
        /\ \A b \in 1 .. Len(heap) : hp[b] = IF b = a THEN cell ELSE heap[b]
    BY <1>0, <2>4, <2>5, ExceptSeq
  <2>7. ll \in Slices /\ ll.array = a /\ ll.len = n
    BY <1>0, <2>1, <2>2, <2>3 DEF Slices
  <2>8. FilledIn(hp, ll)
    <3>1. hp[a] = cell /\ a # 0 /\ Len(cell) \in Nat
      BY <1>0, <2>5, <2>6
    <3>2. ASSUME NEW i \in 1 .. n PROVE cell[i] \in Lines
      <4>1. CASE i = n
        BY <1>0, <2>5, <4>1
      <4>2. CASE i # n
        <5>1. i \in 1 .. logLines.len /\ i \in 1 .. Len(heap[a])
          BY <1>0, <2>3, <4>2
        <5>2. heap[a][i] \in Lines
          BY <2>2, <5>1 DEF HeapInv, Filled
        <5> QED
          BY <2>5, <4>2, <5>1, <5>2
      <4> QED
        BY <4>1, <4>2
    <3> QED
      BY <1>0, <2>5, <2>6, <2>7, <3>1, <3>2
  <2>9. ASSUME NEW slice \in Slices, FilledIn(heap, slice) PROVE FilledIn(hp, slice)
    <3>1. slice.array \in Nat /\ slice.len \in Nat
      BY <1>0 DEF Slices
    <3>2. CASE slice.array # a
      <4>1. CASE slice.array = 0
        BY <1>0, <2>6, <2>9, <3>1, <4>1
      <4>2. CASE slice.array # 0
        <5>1. hp[slice.array] = heap[slice.array]
          BY <1>0, <2>6, <2>9, <3>1, <3>2, <4>2
        <5> QED
          BY <1>0, <2>6, <2>9, <3>1, <4>2, <5>1
      <4> QED
        BY <4>1, <4>2
    <3>3. CASE slice.array = a
      <4>1. hp[slice.array] = cell /\ slice.array # 0 /\ slice.len <= Len(heap[a]) /\ Len(heap[a]) \in Nat
        BY <1>0, <2>6, <2>9, <3>3
      <4>2. ASSUME NEW i \in 1 .. slice.len PROVE cell[i] \in Lines
        <5>1. i \in 1 .. Len(heap[a]) /\ heap[a][i] \in Lines
          BY <1>0, <2>9, <3>1, <3>3, <4>1
        <5> QED
          BY <2>5, <5>1
      <4> QED
        BY <1>0, <2>5, <2>6, <2>9, <3>3, <4>1, <4>2
    <3> QED
      BY <3>2, <3>3
  <2> QED
    BY <1>0, <2>3, <2>6, <2>7, <2>8, <2>9
<1> QED
  BY <1>6, <1>7

-------------------------------------------------------------------------------
(***************************************************************************)
(* The invariant holds initially and after every step.                     *)
(***************************************************************************)
LEMMA LogFacts ==
  ASSUME LogInv
  PROVE  /\ MaxLines \in Nat /\ container.lines \in 0 .. MaxLines /\ container.end \in {"open", "eof", "error"}
         /\ scanned \in 0 .. container.lines /\ scanned \in Nat /\ container.lines \in Nat
         /\ Len(heap) \in Nat
         /\ logLines \in Slices /\ logLines.array \in Nat /\ logLines.len \in Nat
         /\ wire \in [pc : {"recv", "encode"}, slice : Slices, out : Seq(Lines)]
         /\ wire.slice.array \in Nat /\ wire.slice.len \in Nat /\ Len(wire.out) \in Nat
         /\ delivered \in Seq(Seq(Lines)) /\ Len(delivered) \in Nat
         /\ Len(Sent) \in Nat /\ OnWire \in Nat /\ Offered \in Nat
<1>1. MaxLines \in Nat /\ container.lines \in 0 .. MaxLines /\ container.end \in {"open", "eof", "error"}
  BY MaxLinesAssumption DEF LogInv, LogTypeOK
<1>2. scanned \in 0 .. container.lines /\ scanned \in Nat /\ container.lines \in Nat
  BY <1>1 DEF LogInv, LogTypeOK
<1>3. /\ logLines \in Slices /\ logLines.array \in Nat /\ logLines.len \in Nat
      /\ wire \in [pc : {"recv", "encode"}, slice : Slices, out : Seq(Lines)]
      /\ wire.slice.array \in Nat /\ wire.slice.len \in Nat /\ wire.out \in Seq(Lines)
  BY <1>1 DEF LogInv, LogTypeOK, HeapInv, Slices
<1>4. Len(heap) \in Nat /\ Len(wire.out) \in Nat /\ Len(delivered) \in Nat /\ delivered \in Seq(Seq(Lines))
  BY <1>3, LenProperties DEF LogInv, LogTypeOK
<1>5. Sent \in Seq(Lines)
  BY <1>4, EmptySeq, FlattenAppend DEF Sent
<1>6. Len(Sent) \in Nat
  BY <1>5, LenProperties
<1>7. OnWire \in Nat /\ Offered \in Nat
  BY <1>3 DEF OnWire, Offered
<1> QED
  BY <1>1, <1>2, <1>3, <1>4, <1>6, <1>7

LEMMA LogStart == LogInit => LogInv
<1> SUFFICES ASSUME LogInit PROVE LogInv
  OBVIOUS
<1>1. MaxLines \in Nat /\ NoSlice \in Slices /\ NoSlice.array = 0 /\ NoSlice.len = 0
  BY MaxLinesAssumption DEF NoSlice, Slices
<1>2. /\ \A S : <<>> \in Seq(S)
      /\ Len(<<>>) = 0
  BY EmptySeq
<1>3. /\ wire = Idle /\ wire.pc = "recv" /\ wire.slice = NoSlice /\ wire.out = <<>>
      /\ wire \in [pc : {"recv", "encode"}, slice : Slices, out : Seq(Lines)]
  BY <1>1, <1>2 DEF LogInit, Idle
<1>4. /\ heap = <<>> /\ delivered = <<>> /\ logLines = NoSlice /\ container.lines = 0 /\ scanned = 0
      /\ container \in [lines : 0 .. MaxLines, end : {"open", "eof", "error"}]
  BY <1>1 DEF LogInit
<1>5. Sent = <<>>
  BY <1>2, <1>4 DEF Sent, FlattenSeq
<1>6. Filled(NoSlice)
  BY <1>1, <1>2, <1>4 DEF Filled, Room
<1>7. LogTypeOK
  BY <1>1, <1>2, <1>3, <1>4 DEF LogInit, LogTypeOK
<1>8. HeapInv
  BY <1>1, <1>2, <1>3, <1>4, <1>6 DEF LogInit, HeapInv
<1>9. CountInv
  BY <1>1, <1>2, <1>3, <1>4, <1>5 DEF LogInit, CountInv, OnWire, Offered
<1>10. MarkerInv
  BY <1>2, <1>3, <1>4 DEF MarkerInv
<1>11. ScanInv
  BY <1>4 DEF LogInit, ScanInv
<1> QED
  BY <1>7, <1>8, <1>9, <1>10, <1>11 DEF LogInv

\* A slice that keeps its array and has no element.
LEMMA FilledEmpty ==
  ASSUME NEW slice, Filled(slice)
  PROVE  /\ Filled([slice EXCEPT !.len = 0]) /\ [slice EXCEPT !.len = 0].len = 0
         /\ [slice EXCEPT !.len = 0].array = slice.array
<1>1. MaxLines \in Nat /\ slice \in Slices
  BY MaxLinesAssumption DEF Filled
<1>2. /\ [slice EXCEPT !.len = 0] \in Slices /\ [slice EXCEPT !.len = 0].len = 0
      /\ [slice EXCEPT !.len = 0].array = slice.array
  BY <1>1 DEF Slices
<1>3. slice.len \in Nat /\ slice.len <= Room(slice)
  BY <1>1 DEF Filled, Slices
<1>4. 0 <= Room(slice)
  <2>1. slice.array \in Nat
    BY <1>1 DEF Slices
  <2> QED
    BY <1>3, <2>1 DEF Room, Filled
<1>5. Room([slice EXCEPT !.len = 0]) = Room(slice)
  BY <1>2 DEF Room
<1> QED
  BY <1>1, <1>2, <1>4, <1>5 DEF Filled

\* The heap and the slices are as they were, but for a length cut to 0.
LEMMA HeapKept ==
  ASSUME LogInv, scanned' >= scanned, scanned' \in Nat, heap' = heap, wire'.slice = wire.slice,
         wire' \in [pc : {"recv", "encode"}, slice : Slices, out : Seq(Lines)],
         logLines' = logLines \/ logLines' = [logLines EXCEPT !.len = 0],
         scanner' = "offer" => scanner = "offer" \/ scanned' > scanned
  PROVE  HeapInv'
<1>1. Filled(logLines)' /\ logLines'.len <= logLines.len
  <2>1. Filled(logLines) /\ logLines.len \in Nat
    BY LogFacts DEF LogInv, HeapInv
  <2>0. PICK cut : cut = [logLines EXCEPT !.len = 0]
    OBVIOUS
  <2>3. Filled(cut) /\ cut.len = 0
    BY <2>0, <2>1, FilledEmpty
  <2>2. PICK ll : ll = logLines'
    OBVIOUS
  <2>4. CASE ll = logLines
    BY <2>1, <2>2, <2>4 DEF Filled, Room
  <2>5. CASE ll = cut
    BY <2>1, <2>2, <2>3, <2>5 DEF Filled, Room
  <2> QED
    BY <2>0, <2>2, <2>4, <2>5
<1>2. Filled(wire.slice)'
  BY DEF LogInv, HeapInv, Filled, Room
<1>3. logLines'.len \in Nat
  BY <1>1, MaxLinesAssumption DEF Filled, Slices
<1>4. Len(heap) <= scanned' /\ logLines'.len <= scanned'
  BY <1>1, <1>3, LogFacts DEF LogInv, HeapInv
<1>5. scanner' = "offer" => Len(heap) < scanned' /\ logLines'.len < scanned'
  BY <1>1, <1>3, LogFacts DEF LogInv, HeapInv
<1> QED
  BY <1>1, <1>2, <1>4, <1>5 DEF LogInv, HeapInv

LEMMA OutsideStep ==
  ASSUME LogInv, ContainerLogs \/ ContainerEnds \/ CancelConn
  PROVE  LogInv'
<1> USE LogFacts
<1>0. /\ UNCHANGED <<scanner, scanned, streamer, timer, heap, logLines, wire, delivered>>
      /\ Sent' = Sent /\ OnWire' = OnWire /\ Offered' = Offered
  BY DEF ContainerLogs, ContainerEnds, CancelConn, Sent, OnWire, Offered
<1>1. /\ container' \in [lines : 0 .. MaxLines, end : {"open", "eof", "error"}]
      /\ container'.lines \in Nat /\ container.lines <= container'.lines
      /\ container.end # "open" => container' = container
      /\ logCtx' \in {"live", "done"} /\ (logCtx' = "live" => logCtx = "live")
  <2>1. container \in [lines : 0 .. MaxLines, end : {"open", "eof", "error"}] /\ logCtx \in {"live", "done"}
    BY DEF LogInv, LogTypeOK
  <2>2. CASE ContainerLogs
    <3>1. PICK n \in 0 .. MaxLines : n = container.lines + 1
      BY <2>2 DEF ContainerLogs
    <3>2. container' = [container EXCEPT !.lines = n] /\ container.end = "open" /\ logCtx' = logCtx
      BY <2>2, <3>1 DEF ContainerLogs
    <3>3. container' \in [lines : 0 .. MaxLines, end : {"open", "eof", "error"}] /\ container'.lines = n
      BY <2>1, <3>2
    <3> QED
      BY <2>1, <3>1, <3>2, <3>3
  <2>3. CASE ContainerEnds
    BY <2>1, <2>3 DEF ContainerEnds
  <2>4. CASE CancelConn
    BY <2>1, <2>4 DEF CancelConn
  <2> QED
    BY <2>2, <2>3, <2>4
<1>2. HeapInv'
  BY <1>0, HeapKept
<1>3. LogTypeOK'
  BY <1>0, <1>1 DEF LogInv, LogTypeOK
<1>4. ScanInv'
  BY <1>0, <1>1 DEF LogInv, ScanInv
<1>5. Complete => Complete'
  BY <1>0, <1>1 DEF Complete
<1>6. CountInv'
  BY <1>0, <1>1, <1>5 DEF LogInv, CountInv, Complete
<1>7. MarkerInv'
  BY <1>0, <1>1 DEF LogInv, MarkerInv
<1> QED
  BY <1>2, <1>3, <1>4, <1>6, <1>7 DEF LogInv

\* MarkerInv looks at no scanner, and streamer stays "done" if it is.
LEMMA MarkerKept ==
  ASSUME LogInv, UNCHANGED <<container, wire, delivered>>, streamer = "done" => streamer' = "done"
  PROVE  MarkerInv' /\ Sent' = Sent /\ OnWire' = OnWire
BY DEF LogInv, MarkerInv, Sent, OnWire

LEMMA ScanStep ==
  ASSUME LogInv, Scans
  PROVE  LogInv'
<1> USE LogFacts
<1>0. /\ UNCHANGED <<container, streamer, timer, heap, logLines, wire, delivered, logCtx>>
      /\ Sent' = Sent /\ OnWire' = OnWire /\ MarkerInv'
  BY MarkerKept DEF Scans, ScanLine, ScanEnds
<1>1. CASE ScanLine
  <2>1. /\ scanner = "scan" /\ scanner' = "offer" /\ scanned' = scanned + 1 /\ scanned' \in 0 .. container.lines
        /\ Offered = 0 /\ Offered' = 1 /\ streamer \notin {"open", "last", "marker"}
    BY <1>1 DEF ScanLine, Offered, LogInv, ScanInv, CountInv
  <2>2. HeapInv'
    BY <1>0, <2>1, HeapKept
  <2>3. LogTypeOK' /\ ScanInv'
    BY <1>0, <2>1 DEF LogInv, LogTypeOK, ScanInv
  <2>4. CountInv'
    BY <1>0, <2>1 DEF LogInv, CountInv
  <2> QED
    BY <1>0, <2>2, <2>3, <2>4 DEF LogInv
<1>2. CASE ScanEnds
  <2>1. /\ scanner \in {"scan", "offer"} /\ scanner' = "closed" /\ scanned' = scanned /\ Offered' = 0
        /\ (scanner = "scan" /\ StreamEnds) \/ logCtx = "done"
    BY <1>2 DEF ScanEnds, Offered
  <2>2. HeapInv'
    BY <1>0, <2>1, HeapKept
  <2>3. LogTypeOK' /\ ScanInv'
    BY <1>0, <2>1 DEF LogInv, LogTypeOK, ScanInv
  <2>4. CountInv'
    <3>1. logCtx' = "live" => scanner = "scan" /\ Offered = 0
      BY <1>0, <2>1 DEF Offered
    <3>2. logCtx' = "live" /\ streamer' \notin {"done", "failed"} => container'.end = "error" \/ Complete'
      BY <1>0, <2>1 DEF StreamEnds, Complete
    <3> QED
      BY <1>0, <2>1, <3>1, <3>2 DEF LogInv, CountInv, Complete
  <2> QED
    BY <1>0, <2>2, <2>3, <2>4 DEF LogInv
<1> QED
  BY <1>1, <1>2 DEF Scans

\* The streamer opens the stream, waits, and leaves its loop.
LEMMA LoopStep ==
  ASSUME LogInv, OpenStream \/ TimerExpires \/ StopStream \/ ReceiveClosed
  PROVE  LogInv'
<1> USE LogFacts
<1>0. /\ UNCHANGED <<container, scanned, heap, logLines, wire, delivered, logCtx>>
      /\ Sent' = Sent /\ OnWire' = OnWire /\ MarkerInv'
  BY MarkerKept DEF OpenStream, TimerExpires, StopStream, ReceiveClosed
<1>1. CASE OpenStream
  <2>1. /\ streamer = "open" /\ scanner = "none" /\ scanner' \in {"none", "scan"} /\ streamer' \in {"select", "failed"}
        /\ timer' \in {"off", "running", "expired"}
    BY <1>1 DEF OpenStream, LogInv, ScanInv, LogTypeOK
  <2>2. HeapInv'
    BY <1>0, <2>1, HeapKept
  <2>3. LogTypeOK' /\ ScanInv' /\ CountInv'
    BY <1>0, <2>1 DEF LogInv, LogTypeOK, ScanInv, CountInv, Offered
  <2> QED
    BY <1>0, <2>2, <2>3 DEF LogInv
<1>2. CASE TimerExpires \/ StopStream
  <2>1. /\ streamer = "select" /\ streamer' \in {"select", "done"} /\ timer' \in {"off", "running", "expired"}
        /\ scanner' = scanner
    BY <1>2 DEF TimerExpires, StopStream
  <2>2. HeapInv'
    BY <1>0, <2>1, HeapKept
  <2>3. LogTypeOK' /\ ScanInv' /\ CountInv'
    BY <1>0, <2>1 DEF LogInv, LogTypeOK, ScanInv, CountInv, Offered, Complete
  <2> QED
    BY <1>0, <2>2, <2>3 DEF LogInv
<1>3. CASE ReceiveClosed
  <2>1. streamer = "select" /\ scanner = "closed" /\ scanner' = scanner /\ timer' = "off"
    BY <1>3 DEF ReceiveClosed
  <2>2. \/ streamer' \in {"failed", "done"}
        \/ /\ logCtx = "live" /\ container.end # "error"
           /\ streamer' = IF logLines.len > 0 THEN "last" ELSE "marker"
    <3>1. PICK failed \in ScanErrors :
            streamer' = CASE failed -> "failed"
                          [] ~failed /\ logCtx = "done" -> "done"
                          [] ~failed /\ logCtx = "live" -> IF logLines.len > 0 THEN "last" ELSE "marker"
      BY <1>3 DEF ReceiveClosed
    <3>2. logCtx \in {"live", "done"}
      BY DEF LogInv, LogTypeOK
    <3>3. failed \in BOOLEAN /\ (logCtx = "live" => failed = (container.end = "error"))
      <4>1. CASE logCtx = "done"
        <5>1. ScanErrors = {TRUE, FALSE}
          BY Zenon, <4>1 DEF ScanErrors
        <5> QED
          BY <4>1, <5>1
      <4>2. CASE logCtx # "done"
        <5>1. ScanErrors = {container.end = "error"}
          BY Zenon, <4>2 DEF ScanErrors
        <5> QED
          BY Zenon, <5>1
      <4> QED
        BY <4>1, <4>2
    <3>4. CASE failed
      BY Zenon, <3>1, <3>4
    <3>5. CASE ~failed /\ logCtx = "done"
      BY Zenon, <3>1, <3>5
    <3>6. CASE ~failed /\ logCtx = "live"
      <4>1. streamer' = IF logLines.len > 0 THEN "last" ELSE "marker"
        <5>1. logCtx # "done"
          BY <3>6
        <5> QED
          BY Zenon, <3>1, <3>6, <5>1
      <4> QED
        BY Zenon, <3>3, <3>6, <4>1
    <3> QED
      BY Zenon, <3>2, <3>4, <3>5, <3>6
  <2>3. HeapInv'
    BY <1>0, <2>1, HeapKept
  <2>4. LogTypeOK' /\ ScanInv'
    BY <1>0, <2>1, <2>2 DEF LogInv, LogTypeOK, ScanInv
  <2>5. CASE streamer' \in {"failed", "done"}
    <3>1. CountInv'
      BY <1>0, <2>1, <2>5 DEF LogInv, CountInv, Offered
    <3> QED
      BY <1>0, <2>3, <2>4, <3>1 DEF LogInv
  <2>6. CASE /\ logCtx = "live" /\ container.end # "error"
             /\ streamer' = IF logLines.len > 0 THEN "last" ELSE "marker"
    <3>1. Complete /\ Complete' /\ Len(Sent) + OnWire + logLines.len = scanned
      BY <1>0, <2>1, <2>6 DEF LogInv, CountInv, Complete, Offered
    <3>2. CountInv'
      BY <1>0, <2>1, <2>6, <3>1 DEF LogInv, CountInv, Offered, Complete
    <3> QED
      BY <1>0, <2>3, <2>4, <3>2 DEF LogInv
  <2> QED
    BY <2>2, <2>5, <2>6
<1> QED
  BY <1>1, <1>2, <1>3

\* A debounce that finds nothing to send, or sends it to a connection that is gone,
\* and one that starts a send.
LEMMA TimerStep ==
  ASSUME LogInv, TimerFlush
  PROVE  LogInv'
<1> USE LogFacts
<1>0. /\ UNCHANGED <<container, scanner, scanned, heap, wire, delivered, logCtx>>
      /\ streamer = "select" /\ streamer' \in {"select", "flush"} /\ timer' = "off"
      /\ Offered' = Offered
  BY DEF TimerFlush, Offered
<1>1. /\ Sent' = Sent /\ OnWire' = OnWire /\ MarkerInv'
  BY <1>0, MarkerKept
<1>2. \/ streamer' = "flush" /\ logLines.len > 0 /\ logLines' = logLines
      \/ /\ streamer' = "select" /\ logLines' = [logLines EXCEPT !.len = 0]
         /\ logCtx = "live" => logLines.len = 0
  BY <1>0 DEF TimerFlush
<1>3. HeapInv'
  BY <1>0, <1>2, HeapKept
<1>4. logLines'.len \in Nat /\ (logCtx = "live" => logLines'.len = logLines.len)
  BY <1>0, <1>2 DEF Slices
<1>5. LogTypeOK'
  <2>1. logLines' \in Slices /\ logLines'.array <= Len(heap') /\ logLines'.len <= Room(logLines)'
    BY <1>3 DEF HeapInv, Filled
  <2> QED
    BY <1>0, <2>1 DEF LogInv, LogTypeOK, Room
<1>6. ScanInv' /\ CountInv'
  BY <1>0, <1>1, <1>2, <1>4 DEF LogInv, ScanInv, CountInv, Complete
<1> QED
  BY <1>1, <1>3, <1>5, <1>6 DEF LogInv

LEMMA ReceiveStep ==
  ASSUME LogInv, ReceiveLine
  PROVE  LogInv'
<1> USE LogFacts
<1>0. /\ UNCHANGED <<container, scanned, streamer, wire, delivered, logCtx>>
      /\ streamer = "select" /\ scanner = "offer" /\ scanner' = "scan" /\ timer' = "running"
      /\ Offered = 1 /\ Offered' = 0
  BY DEF ReceiveLine, Offered
<1>1. /\ Sent' = Sent /\ OnWire' = OnWire /\ MarkerInv'
  BY <1>0, MarkerKept
<1>2. scanned \in Lines /\ logLines.len < scanned /\ Len(heap) < scanned /\ logLines.len < MaxLines /\ Len(heap) < MaxLines
  BY <1>0 DEF LogInv, HeapInv, ScanInv, Lines
<1>3. /\ heap' \in Seq(Arrays) /\ Len(heap') <= Len(heap) + 1 /\ logLines'.len = logLines.len + 1
      /\ Filled(logLines)' /\ \A slice \in Slices : Filled(slice) => Filled(slice)'
  BY <1>2, AppendLineHeap DEF LogInv, ReceiveLine
<1>4. Filled(wire.slice)'
  <2>1. PICK slice : slice = wire.slice
    OBVIOUS
  <2>2. Filled(slice)
    BY <2>1 DEF LogInv, HeapInv
  <2>3. Filled(slice)'
    BY <1>3, <2>2 DEF Filled
  <2>4. wire'.slice = slice
    BY <1>0, <2>1
  <2> QED
    BY <2>3, <2>4 DEF Filled, Room
<1>5. HeapInv'
  <2>1. Len(heap') \in Nat
    BY <1>3, LenProperties
  <2> QED
    BY <1>0, <1>2, <1>3, <1>4, <2>1 DEF HeapInv, Arrays, Cells
<1>6. LogTypeOK'
  <2>1. logLines' \in Slices /\ logLines'.array <= Len(heap') /\ logLines'.len <= Room(logLines)'
    BY <1>3 DEF Filled
  <2> QED
    BY <1>0, <1>3, <2>1 DEF LogInv, LogTypeOK, Room, Arrays, Cells
<1>7. ScanInv' /\ CountInv'
  BY <1>0, <1>1, <1>3 DEF LogInv, ScanInv, CountInv, Complete
<1> QED
  BY <1>1, <1>5, <1>6, <1>7 DEF LogInv

\* What is handed over is on the wire, and no longer in logLines.
LEMMA SendStep ==
  ASSUME LogInv, SendLines
  PROVE  LogInv'
<1> USE LogFacts
<1>0. /\ UNCHANGED <<container, scanner, scanned, timer, heap, delivered, logCtx>>
      /\ logLines' = [logLines EXCEPT !.len = 0] /\ logLines'.len = 0
      /\ Offered' = Offered /\ Sent' = Sent
      /\ logCtx \in {"live", "done"} /\ streamer \in {"flush", "last", "marker"}
  BY DEF SendLines, Offered, Sent, LogInv, LogTypeOK, Slices
<1>1. streamer' = IF streamer = "flush" THEN "select"
                  ELSE IF streamer = "last" /\ logCtx = "live" THEN "marker" ELSE "done"
  <2>1. streamer' = CASE streamer = "flush" -> "select"
                      [] streamer = "last" /\ logCtx = "live" -> "marker"
                      [] OTHER -> "done"
    BY DEF SendLines
  <2>2. CASE streamer = "flush"
    <3>1. streamer # "last"
      BY <2>2
    <3> QED
      BY Zenon, <2>1, <2>2, <3>1
  <2>3. CASE streamer = "last" /\ logCtx = "live"
    <3>1. streamer # "flush"
      BY <2>3
    <3> QED
      BY Zenon, <2>1, <2>3, <3>1
  <2>4. CASE streamer # "flush" /\ ~(streamer = "last" /\ logCtx = "live")
    BY Zenon, <2>1, <2>4
  <2> QED
    BY Zenon, <2>2, <2>3, <2>4
<1>2. Filled(logLines)'
  <2>1. PICK ll : ll = [logLines EXCEPT !.len = 0] /\ Filled(ll)
    BY FilledEmpty DEF LogInv, HeapInv
  <2> QED
    BY <1>0, <2>1 DEF Filled, Room
<1>3. /\ wire' \in [pc : {"recv", "encode"}, slice : Slices, out : Seq(Lines)]
      /\ Filled(wire.slice)' /\ Len(wire'.out) <= wire'.slice.len
      /\ \/ logCtx = "done" /\ wire' = wire
         \/ /\ wire.pc = "recv" /\ wire'.pc = "encode" /\ wire'.slice = logLines
            /\ OnWire = 0 /\ OnWire' = logLines.len
  <2>1. CASE logCtx = "done" /\ wire' = wire
    BY <1>0, <2>1 DEF LogInv, HeapInv, LogTypeOK, Filled, Room
  <2>2. CASE wire.pc = "recv" /\ wire' = [pc |-> "encode", slice |-> logLines, out |-> <<>>]
    <3>1. <<>> \in Seq(Lines) /\ Len(<<>>) = 0
      BY EmptySeq
    <3>2. /\ wire' \in [pc : {"recv", "encode"}, slice : Slices, out : Seq(Lines)]
          /\ wire'.pc = "encode" /\ wire'.slice = logLines /\ Len(wire'.out) = 0
          /\ OnWire = 0 /\ OnWire' = logLines.len
      BY <2>2, <3>1 DEF OnWire
    <3>3. Filled(wire.slice)'
      <4>1. PICK ll : ll = logLines /\ Filled(ll)
        BY DEF LogInv, HeapInv
      <4>2. wire'.slice = ll
        BY <3>2, <4>1
      <4> QED
        BY <1>0, <4>1, <4>2 DEF Filled, Room
    <3> QED
      BY <2>2, <3>2, <3>3
  <2> QED
    BY <2>1, <2>2 DEF SendLines
<1>4. HeapInv'
  BY <1>0, <1>2, <1>3 DEF LogInv, HeapInv
<1>5. LogTypeOK'
  <2>1. logLines' \in Slices /\ logLines'.array <= Len(heap') /\ logLines'.len <= Room(logLines)'
    BY <1>2 DEF Filled
  <2>2. wire'.pc \in {"recv", "encode"} /\ wire'.slice \in Slices /\ wire'.out \in Seq(Lines)
    BY <1>3
  <2>3. streamer' \in {"select", "marker", "done"}
    BY <1>1
  <2> QED
    BY <1>0, <1>3, <2>1, <2>2, <2>3 DEF LogInv, LogTypeOK, Room
<1>6. ScanInv'
  BY <1>0, <1>1 DEF LogInv, ScanInv
<1>7. CountInv'
  <2>1. Complete' <=> Complete
    BY <1>0 DEF Complete
  <2>2. logCtx' = "live" => OnWire' = logLines.len /\ OnWire = 0
    BY <1>0, <1>3
  <2>3. streamer' = "marker" => streamer = "last" /\ logCtx = "live" /\ Offered = 0
    BY <1>0, <1>1 DEF LogInv, CountInv, Offered
  <2>4. logCtx' = "live" => Len(Sent)' + OnWire' + logLines'.len + Offered' = scanned'
    <3>1. logCtx = "live" => Len(Sent) + OnWire + logLines.len + Offered = scanned
      BY DEF LogInv, CountInv
    <3>2. logCtx = "live" => Len(Sent) + logLines.len + 0 + Offered = scanned
      BY <1>0, <2>2, <3>1
    <3> QED
      BY <1>0, <2>2, <3>2
  <2>5. streamer' = "marker" => Len(Sent)' + OnWire' = container'.lines
    <3>1. SUFFICES ASSUME streamer = "last", logCtx = "live", Offered = 0
                   PROVE  Len(Sent)' + OnWire' = container'.lines
      BY <2>3
    <3>2. container.lines = scanned
      BY <3>1 DEF LogInv, CountInv, Complete
    <3>3. Len(Sent) + OnWire' + 0 + 0 = scanned
      BY <1>0, <2>4, <3>1
    <3>4. Len(Sent) + OnWire' = scanned
      BY <2>2, <1>0, <3>1, <3>3
    <3> QED
      BY <1>0, <3>2, <3>4
  <2> QED
    BY <1>0, <1>1, <2>1, <2>3, <2>4, <2>5 DEF LogInv, CountInv
<1>8. MarkerInv'
  <2>1. ASSUME wire'.pc = "encode", wire'.slice.len = 0
        PROVE  streamer' = "done" /\ container'.end = "eof" /\ Len(Sent)' = container'.lines
    <3>1. CASE logCtx = "done" /\ wire' = wire
      BY <1>0, <2>1, <3>1 DEF LogInv, MarkerInv
    <3>2. CASE wire.pc = "recv" /\ wire'.slice = logLines /\ OnWire = 0
      <4>1. streamer = "marker"
        BY <1>0, <2>1, <3>2 DEF LogInv, CountInv
      <4> QED
        BY <1>0, <1>1, <3>2, <4>1 DEF LogInv, CountInv, Complete
    <3> QED
      BY <1>3, <3>1, <3>2
  <2>2. \A i \in 1 .. Len(delivered) : delivered[i] # <<>>
    BY <1>0 DEF LogInv, MarkerInv
  <2> QED
    BY <1>0, <2>1, <2>2 DEF MarkerInv
<1> QED
  BY <1>4, <1>5, <1>6, <1>7, <1>8 DEF LogInv

LEMMA EncodeStep ==
  ASSUME LogInv, EncodeLine
  PROVE  LogInv'
<1> USE LogFacts
<1>0. /\ UNCHANGED <<container, scanner, scanned, streamer, timer, heap, logLines, delivered, logCtx>>
      /\ wire.pc = "encode" /\ Len(wire.out) < wire.slice.len
      /\ Offered' = Offered /\ Sent' = Sent
  BY DEF EncodeLine, Offered, Sent
<1>1. PICK line \in Lines : line = heap[wire.slice.array][Len(wire.out) + 1]
  <2>1. Len(wire.out) + 1 \in 1 .. wire.slice.len
    BY <1>0
  <2> QED
    BY <2>1 DEF LogInv, HeapInv, Filled
<1>2. PICK out \in Seq(Lines) : out = Append(wire.out, line) /\ Len(out) = Len(wire.out) + 1
  <2>1. wire.out \in Seq(Lines)
    OBVIOUS
  <2>2. Append(wire.out, line) \in Seq(Lines) /\ Len(Append(wire.out, line)) = Len(wire.out) + 1
    BY <2>1, AppendProperties
  <2> QED
    BY Zenon, <2>2
<1>3. wire' = [wire EXCEPT !.out = out]
  BY <1>1, <1>2 DEF EncodeLine
<1>4. /\ wire' \in [pc : {"recv", "encode"}, slice : Slices, out : Seq(Lines)]
      /\ wire'.pc = wire.pc /\ wire'.slice = wire.slice /\ wire'.out = out
  BY <1>3
<1>5. OnWire' = OnWire
  BY <1>4 DEF OnWire
<1>6. HeapInv'
  BY <1>0, <1>4, HeapKept
<1>7. LogTypeOK'
  <2>1. wire'.pc \in {"recv", "encode"} /\ wire'.slice \in Slices /\ wire'.out \in Seq(Lines)
        /\ Len(wire'.out) <= wire'.slice.len
    BY <1>0, <1>2, <1>4
  <2> QED
    BY <1>0, <2>1 DEF LogInv, LogTypeOK
<1>8. ScanInv' /\ CountInv'
  BY <1>0, <1>5 DEF LogInv, ScanInv, CountInv, Complete
<1>9. MarkerInv'
  BY <1>0, <1>4 DEF LogInv, MarkerInv
<1> QED
  BY <1>6, <1>7, <1>8, <1>9 DEF LogInv

\* What was on the wire is at the client.
LEMMA WriteStep ==
  ASSUME LogInv, WriteLines
  PROVE  LogInv'
<1> USE LogFacts
<1>0. /\ UNCHANGED <<container, scanner, scanned, streamer, timer, heap, logLines, logCtx>>
      /\ wire.pc = "encode" /\ Len(wire.out) = wire.slice.len /\ wire' = Idle
      /\ Offered' = Offered
  BY DEF WriteLines, Offered
<1>1. /\ delivered' = Append(delivered, wire.out) /\ delivered' \in Seq(Seq(Lines))
      /\ Len(delivered') = Len(delivered) + 1
      /\ \A i \in 1 .. Len(delivered) : delivered'[i] = delivered[i]
      /\ delivered'[Len(delivered) + 1] = wire.out
  <2>1. delivered' = Append(delivered, wire.out) /\ wire.out \in Seq(Lines)
    BY DEF WriteLines
  <2> QED
    BY <2>1, AppendProperties
<1>2. Len(Sent') = Len(Sent) + wire.slice.len
  <2>1. Len(FlattenSeq(Append(delivered, wire.out))) = Len(FlattenSeq(delivered)) + Len(wire.out)
    BY FlattenAppend
  <2> QED
    BY <1>0, <1>1, <2>1 DEF Sent
<1>3. OnWire = wire.slice.len /\ OnWire' = 0
  BY <1>0 DEF OnWire, Idle
<1>4. /\ NoSlice \in Slices /\ NoSlice.array = 0 /\ NoSlice.len = 0
      /\ wire' \in [pc : {"recv", "encode"}, slice : Slices, out : Seq(Lines)]
      /\ wire'.pc = "recv" /\ wire'.slice = NoSlice /\ Len(wire'.out) = 0
  <2>1. NoSlice \in Slices /\ NoSlice.array = 0 /\ NoSlice.len = 0
    BY DEF NoSlice, Slices
  <2>2. <<>> \in Seq(Lines) /\ Len(<<>>) = 0
    BY EmptySeq
  <2> QED
    BY <1>0, <2>1, <2>2 DEF Idle
<1>5. HeapInv'
  <2>1. Filled(NoSlice)
    BY <1>4 DEF Filled, Room
  <2>2. Filled(wire.slice)'
    BY <1>0, <1>4, <2>1 DEF Filled, Room
  <2>3. Filled(logLines)'
    BY <1>0 DEF LogInv, HeapInv, Filled, Room
  <2> QED
    BY <1>0, <1>4, <2>2, <2>3 DEF LogInv, HeapInv
<1>6. LogTypeOK'
  <2>1. wire'.pc \in {"recv", "encode"} /\ wire'.slice \in Slices /\ wire'.out \in Seq(Lines)
        /\ Len(wire'.out) <= wire'.slice.len
    BY <1>4
  <2> QED
    BY <1>0, <1>1, <2>1 DEF LogInv, LogTypeOK
<1>7. Len(Sent') + OnWire' = Len(Sent) + OnWire
  BY <1>2, <1>3
<1>8. CountInv'
  <2>1. logCtx' = "live" => Len(Sent') + OnWire' + logLines'.len + Offered' = scanned'
    <3>1. logCtx = "live" => (Len(Sent) + OnWire) + logLines.len + Offered = scanned
      BY DEF LogInv, CountInv
    <3> QED
      BY <1>0, <1>7, <3>1
  <2>2. streamer' = "marker" => Len(Sent') + OnWire' = container'.lines
    BY <1>0, <1>7 DEF LogInv, CountInv
  <2> QED
    BY <1>0, <2>1, <2>2 DEF LogInv, CountInv, Complete
<1>9. ScanInv'
  BY <1>0 DEF LogInv, ScanInv
<1>10. MarkerInv'
  <2>1. \A i \in 1 .. Len(delivered) : delivered[i] # <<>>
    BY <1>0 DEF LogInv, MarkerInv
  <2>2. ASSUME wire.out = <<>> 
        PROVE  streamer = "done" /\ container.end = "eof" /\ Len(Sent') = container.lines
    <3>1. wire.slice.len = 0
      BY <1>0, <2>2, EmptySeq
    <3> QED
      BY <1>0, <1>2, <3>1 DEF LogInv, MarkerInv
  <2>3. ASSUME NEW i \in 1 .. Len(delivered'), delivered'[i] = <<>>
        PROVE  i = Len(delivered') /\ wire.out = <<>>
    BY <1>1, <2>1, <2>3
  <2> QED
    BY <1>0, <1>4, <2>2, <2>3 DEF MarkerInv
<1> QED
  BY <1>5, <1>6, <1>8, <1>9, <1>10 DEF LogInv

LEMMA LogStep == LogInv /\ [LogNext]_LogVars => LogInv'
<1> SUFFICES ASSUME LogInv, [LogNext]_LogVars PROVE LogInv'
  OBVIOUS
<1>1. CASE LogNext
  BY <1>1, OutsideStep, ScanStep, LoopStep, TimerStep, ReceiveStep, SendStep, EncodeStep, WriteStep
     DEF LogNext, Streams, Writes
<1>2. CASE UNCHANGED LogVars
  BY <1>2 DEF LogVars, LogInv, LogTypeOK, ScanInv, HeapInv, Filled, Room, CountInv, MarkerInv, OnWire, Offered,
     Complete, Sent
<1> QED
  BY <1>1, <1>2

LEMMA LogCorrect == LogSpec => []LogInv
BY LogStart, LogStep, PTL DEF LogSpec

\* The slice that the streamer appends to, and the one that the writer encodes, are
\* within their arrays, and what the writer encodes are lines of the log: it never
\* meets the free end of an array.
THEOREM LogTypes == LogSpec => []LogTypeOK
<1>1. LogInv => LogTypeOK
  BY DEF LogInv
<1> QED
  BY <1>1, LogCorrect, PTL

\* The empty message that tells the client its log is complete is the last one, and
\* comes only after the end of the container and as many lines as it has logged: no
\* debounce sends an empty buffer, and the end overtakes no line, whenever the lines,
\* the timer, the end, an error or the close of the connection come.
THEOREM EndMarkerIsLast == LogSpec => []EndMarkerLast
<1>1. LogInv => EndMarkerLast
  <2> SUFFICES ASSUME LogInv PROVE EndMarkerLast
    OBVIOUS
  <2>1. DOMAIN delivered = 1 .. Len(delivered)
    BY LogFacts, LenProperties
  <2> QED
    BY <2>1 DEF LogInv, MarkerInv, EndMarkerLast
<1> QED
  BY <1>1, LogCorrect, PTL
===============================================================================
