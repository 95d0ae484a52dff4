-------------------------- MODULE TokioPipeProofs --------------------------
(***************************************************************************)
(* Theorems about TokioPipe: what the reader says of its source, and that  *)
(* no byte is lost or overwritten on the way to the sink, for a pool,      *)
(* buffers, limits and integers of any size.                               *)
(***************************************************************************)
EXTENDS TokioPipe, SequenceTheorems, FiniteSetTheorems, NaturalsInduction,
  WellFoundedInduction, TLAPS

\* cur_buf is a window, of a length that is not negative.
Window(c) == c \in [mem : {c.mem}, off : {c.off}, len : Nat, cap : Int]

\* got_eof keeps what the source ended with, while the reader is there.
EndKept == gotEof # "none" =>
  open /\ srcEnd # Open /\ gotEof = Passed(srcEnd)

\* A reader that is gone has told the task, or was dropped by it.
GoneTold ==
  /\ told # "none" => ~open
  /\ ~open => told # "none" \/ dropped

PipeInv ==
  Window(cur) /\ EndKept /\ GoneTold /\ EndTruthful /\ Registered

\* A kind of error becomes one of the crate's errors.
LEMMA KindIsKnown ==
  ASSUME NEW kind
  PROVE  FromKind(kind) \in IoErrors
<1>1. DOMAIN KindsOf \subseteq IoErrors
  BY DEF KindsOf, IoErrors
<1>2. CASE kind \in Kinds
  <2>1. \E err \in DOMAIN KindsOf : kind \in KindsOf[err]
    BY <1>2 DEF Kinds
  <2>2. FromKind(kind) \in DOMAIN KindsOf
    BY <1>2, <2>1, Zenon DEF FromKind
  <2> QED
    BY <1>1, <2>2
<1>3. CASE kind \notin Kinds
  BY <1>3 DEF FromKind, IoErrors
<1> QED
  BY <1>2, <1>3

\* Every end of the source is passed on as an answer, and is not taken for a
\* source that is still open.
LEMMA EndIsPassed ==
  ASSUME NEW end \in {Eof} \cup Failures
  PROVE  Passed(end) # "none" /\ end # Open
<1>1. CASE end = Eof
  BY <1>1 DEF Passed, Eof, Open
<1>2. ASSUME NEW k \in FailKinds, end = [kind |-> k, boxed |-> NoBox], end # Eof
      PROVE  Passed(end) # "none" /\ end # Open
  <2>1. Passed(end) = FromKind(k)
    BY <1>2 DEF Passed, FromError
  <2>2. Passed(end) # "none"
    BY <2>1, KindIsKnown DEF IoErrors
  <2>3. end # Open
    BY <1>2, PipeAssumption DEF Open
  <2> QED
    BY <2>2, <2>3
<1>3. ASSUME NEW err \in FailErrors, end = ToError(err), end # Eof
      PROVE  Passed(end) # "none" /\ end # Open
  <2>1. err \in IoErrors /\ err # NoBox /\ err # "none"
    BY PipeAssumption DEF IoErrors, NoBox
  <2>2. end.boxed = err
    BY <1>3 DEF ToError
  <2>3. Passed(end) = err
    BY <1>3, <2>1, <2>2 DEF Passed, FromError
  <2>4. end # Open
    BY <2>1, <2>2 DEF Open
  <2> QED
    BY <2>1, <2>3, <2>4
<1> QED
  BY <1>1, <1>2, <1>3 DEF Failures

\* The second half of con_poll_read keeps the invariant whatever the first half
\* left, as long as it left no empty buffer without the source's promise to
\* call back.
LEMMA AnswerKeeps ==
  ASSUME PipeInv, open,
         NEW c, NEW eof, NEW max \in Nat,
         Window(c), Answer(c, eof, max),
         eof = "none" => gotEof = "none",
         eof # "none" => srcEnd' # Open /\ eof = Passed(srcEnd'),
         c.len = 0 /\ eof = "none" => srcWaker',
         dropped' = dropped
  PROVE  PipeInv'
<1> USE DEF PipeInv, EndKept, GoneTold, EndTruthful, Registered
<1>1. told = "none"
  OBVIOUS
<1>2. CASE c.len = 0 /\ cur' = c /\ AnswerEmpty(eof)
  <2>1. Window(cur)'
    BY <1>2 DEF Window
  <2>2. CASE /\ eof = "none" /\ last' = "pending" /\ UNCHANGED <<open, gotEof, told>>
    <3>1. srcWaker'
      BY <1>2, <2>2, Zenon
    <3>2. gotEof' = "none" /\ open' /\ told' = "none" /\ last' = "pending"
      BY <1>1, <2>2, Zenon
    <3>3. EndKept' /\ GoneTold'
      BY <3>2
    <3>4. EndTruthful' /\ Registered'
      BY <3>1, <3>2
    <3> QED
      BY <2>1, <3>3, <3>4 DEF PipeInv
  <2>3. CASE /\ eof # "none" /\ open' = FALSE /\ gotEof' = "none" /\ told' = eof
             /\ last' \in {"end", "error"}
    BY <1>2, <2>1, <2>3
  <2> QED
    BY <1>2, <2>2, <2>3 DEF AnswerEmpty
<1>3. CASE c.len > 0 /\ gotEof' = eof /\ UNCHANGED <<open, told>> /\ Take(c, max)
  <2>1. Window(cur)'
    <3> DEFINE n == IF max < c.len THEN max ELSE c.len
    <3>1. n \in Nat /\ c.len - n \in Nat /\ c.cap - n \in Int
      BY DEF Window
    <3>2. cur' = [c EXCEPT !.off = @ + n, !.len = @ - n, !.cap = @ - n]
      BY <1>3 DEF Take
    <3> HIDE DEF n
    <3>3. cur' = [mem |-> c.mem, off |-> c.off + n, len |-> c.len - n, cap |-> c.cap - n]
      BY <3>2 DEF Window
    <3> QED
      BY <3>1, <3>3 DEF Window
  <2>2. last' = "data"
    BY <1>3 DEF Take
  <2> QED
    BY <1>1, <1>3, <2>1, <2>2
<1>4. CASE c.len > 0 /\ gotEof' = eof /\ UNCHANGED <<open, told>>
           /\ cur' = c /\ last' = "probe"
  BY <1>1, <1>4
<1> QED
  BY <1>2, <1>3, <1>4 DEF Answer, Window

\* A read of the source that began with a buffer that has room.
LEMMA ReadIntoKeeps ==
  ASSUME PipeInv, open, gotEof = "none",
         NEW c, NEW max \in Nat,
         Window(c), ReadInto(c, max), dropped' = dropped
  PROVE  PipeInv'
<1>1. ASSUME NEW n \in 1..(c.cap - c.len),
             Answer([c EXCEPT !.len = @ + n], "none", max),
             UNCHANGED <<srcEnd, srcWaker>>
      PROVE  PipeInv'
  <2> DEFINE d == [c EXCEPT !.len = @ + n]
  <2>1. Window(d) /\ d.len > 0
    BY DEF Window
  <2> HIDE DEF d
  <2>2. Answer(d, "none", max)
    BY <1>1 DEF d
  <2> QED
    BY <2>1, <2>2, AnswerKeeps
<1>2. CASE srcWaker' = TRUE /\ Answer(c, "none", max)
  BY <1>2, AnswerKeeps
<1>3. ASSUME NEW end \in {Eof} \cup Failures,
             srcEnd' = end, Answer(c, Passed(end), max)
      PROVE  PipeInv'
  <2>1. Passed(end) # "none" /\ end # Open
    BY EndIsPassed
  <2> QED
    BY <1>3, <2>1, AnswerKeeps
<1> QED
  BY <1>1, <1>2, <1>3 DEF ReadInto

\* A call of con_poll_read.
LEMMA ReadKeeps ==
  ASSUME PipeInv, NEW max \in Limits, Read(max)
  PROVE  PipeInv'
<1>0. dropped' = dropped /\ max \in Nat
  BY PipeAssumption DEF Read
<1>1. CASE ~open /\ ReadOver
  BY <1>0, <1>1 DEF ReadOver, reader, source, PipeInv, Window, EndKept, GoneTold,
    EndTruthful, Registered
<1>2. CASE open /\ (ReadPanics(max) \/ ReadStarved \/ ReadNoMemory)
  <2>1. /\ last' \notin {"pending", "end", "error"}
        /\ UNCHANGED <<reader, source, told>>
    BY <1>2 DEF ReadPanics, ReadStarved, ReadNoMemory
  <2> QED
    BY <1>0, <2>1 DEF reader, source, PipeInv, Window, EndKept, GoneTold, EndTruthful,
      Registered
<1>3. CASE open /\ ReadAugment(max)
  BY <1>0, <1>3, ReadIntoKeeps DEF ReadAugment, PipeInv
<1>4. CASE open /\ ReadRenew(max)
  <2> DEFINE c == [mem |-> NextBuf, off |-> 0, len |-> 0, cap |-> Size]
  <2>1. Window(c)
    BY PipeAssumption DEF Window
  <2>2. ReadInto(c, max) /\ gotEof = "none"
    BY <1>4 DEF ReadRenew
  <2> HIDE DEF c
  <2> QED
    BY <1>0, <1>4, <2>1, <2>2, ReadIntoKeeps
<1>5. CASE open /\ ReadBuffered(max)
  <2>1. Answer(cur, gotEof, max) /\ UNCHANGED source
    BY <1>5 DEF ReadBuffered
  <2>2. cur.len = 0 => gotEof # "none"
    BY <1>5 DEF ReadBuffered
  <2> QED
    BY <1>0, <1>5, <2>1, <2>2, AnswerKeeps DEF source, PipeInv, EndKept
<1> QED
  BY <1>1, <1>2, <1>3, <1>4, <1>5 DEF Read

\* Every call, of the task and of the source, keeps the invariant.
LEMMA Step ==
  ASSUME PipeInv, [Next]_vars
  PROVE  PipeInv'
<1>1. ASSUME NEW max \in Limits, Read(max)
      PROVE  PipeInv'
  BY <1>1, ReadKeeps
<1> USE DEF PipeInv, Window, EndKept, GoneTold, EndTruthful, Registered
<1>2. CASE DropRead
  BY <1>2 DEF DropRead, source
<1>3. CASE SourceWakes
  BY <1>3 DEF SourceWakes, reader
<1>4. ASSUME NEW n \in 1..Size, Write(n)
      PROVE  PipeInv'
  <2>1. UNCHANGED <<reader, source, last, woken, told, dropped>>
    BY <1>4 DEF Write
  <2> QED
    BY <2>1 DEF reader, source
<1>5. CASE Flush \/ Close
  BY <1>5 DEF Flush, Close, reader, source, task
<1>6. CASE UNCHANGED vars
  BY <1>6 DEF vars, reader, source, task
<1> QED
  BY <1>1, <1>2, <1>3, <1>4, <1>5, <1>6 DEF Next

LEMMA Invariant == Spec => []PipeInv
<1>1. Init => PipeInv
  BY DEF Init, PipeInv, Window, EndKept, GoneTold, EndTruthful, Registered
<1>2. PipeInv /\ [Next]_vars => PipeInv'
  BY Step
<1> QED
  BY <1>1, <1>2, PTL DEF Spec

(***************************************************************************)
(* con_poll_read answers Pending only if the source will call back, or has *)
(* already.                                                                *)
(***************************************************************************)
THEOREM PendingIsRegistered == Spec => []Registered
<1>1. PipeInv => Registered
  BY DEF PipeInv
<1> QED
  BY <1>1, Invariant, PTL

(***************************************************************************)
(* The end that the task is told of is the source's, comes with an empty   *)
(* buffer, and is never made up.                                           *)
(***************************************************************************)
THEOREM EndIsTruthful == Spec => []EndTruthful
<1>1. PipeInv => EndTruthful
  BY DEF PipeInv
<1> QED
  BY <1>1, Invariant, PTL

(***************************************************************************)
(* An error of the crate that crosses the AsyncRead of another layer comes *)
(* out as it was, though its kind may stand for others.                    *)
(***************************************************************************)
THEOREM ErrorsSurvive == Spec => []ErrorSurvives
<1>1. ASSUME PipeInv, told \in IoErrors
      PROVE  FromError(ToError(told)) = told
  BY <1>1 DEF FromError, ToError, IoErrors, NoBox
<1>2. ASSUME PipeInv, told \in IoErrors, srcEnd.boxed # NoBox
      PROVE  told = srcEnd.boxed
  <2>1. told # "none"
    BY <1>2 DEF IoErrors
  <2>2. told = Passed(srcEnd)
    BY <1>2, <2>1 DEF PipeInv, EndTruthful
  <2>3. srcEnd # Eof
    BY <1>2 DEF Eof
  <2> QED
    BY <1>2, <2>2, <2>3 DEF Passed, FromError
<1>3. PipeInv => ErrorSurvives
  BY <1>1, <1>2 DEF ErrorSurvives
<1> QED
  BY <1>3, Invariant, PTL

-----------------------------------------------------------------------------
(* Where the bytes are.  Chunks, buffer, heap and counts are parameters of *)
(* these predicates: a lemma says what one call does to them.              *)

\* The constants are numbers, and there is something of everything.
LEMMA Constants ==
  /\ Size \in Nat /\ Size > 0 /\ Count \in Nat /\ Count > 0
  /\ MaxHeld \in Nat /\ MaxHeld > 0 /\ Limits \subseteq Nat /\ MaxBytes \in Nat
<1>1. Size \in Nat \ {0} /\ Count \in Nat \ {0} /\ MaxHeld \in Nat \ {0} /\ MaxBytes \in Nat
  BY PipeAssumption
<1>2. Limits \subseteq 0..MaxUsize /\ MaxUsize \in Nat
  BY PipeAssumption
<1>3. Limits \subseteq Nat
  BY <1>2
<1> QED
  BY <1>1, <1>3

\* A chunk that the task holds, and the bytes of an allocation.
Chunk == [mem : Allocs, off : Nat, len : Nat]
Memory == [0..(Size - 1) -> Nat]

\* Chunks and the buffer, a window of the allocation a from o on that has l bytes
\* and room for r, lie inside of allocations.  A chunk that shares the buffer's
\* allocation lies before it: filling the buffer's free part spares the chunk.
Apart(hs, a, o, l, r) ==
  /\ hs \in Seq(Chunk) /\ \A i \in 1..Len(hs) : hs[i].off + hs[i].len <= Size
  /\ a \in Allocs \cup {NoAlloc} /\ o \in Nat /\ l \in Nat /\ r \in Nat
  /\ l <= r /\ o + r <= Size
  /\ a = NoAlloc => r = 0
  /\ \A i \in 1..Len(hs) : hs[i].mem = a => hs[i].off + hs[i].len <= o

\* p says how many bytes of the source come before each chunk and before the
\* buffer, k before the first of them, n are there in all.
Chain(p, hs, a, o, l, h, k, n) ==
  /\ p \in [1..(Len(hs) + 1) -> Nat]
  /\ p[1] = k /\ p[Len(hs) + 1] + l = n
  /\ \A i \in 1..Len(hs) : p[i + 1] = p[i] + hs[i].len
  /\ \A i \in 1..Len(hs) : \A j \in 1..hs[i].len :
       h[hs[i].mem][hs[i].off + j - 1] = p[i] + j
  /\ \A j \in 1..l : h[a][o + j - 1] = p[Len(hs) + 1] + j

Layout(hs, a, o, l, r, h, k, n) ==
  /\ Apart(hs, a, o, l, r) /\ h \in [Allocs -> Memory] /\ k \in Nat /\ n \in Nat
  /\ \E p : Chain(p, hs, a, o, l, h, k, n)

\* The fields of a chunk of a sequence.
LEMMA ChunkFields ==
  ASSUME NEW hs \in Seq(Chunk), NEW i \in 1..Len(hs)
  PROVE  /\ Len(hs) \in Nat /\ hs[i] \in Chunk
         /\ hs[i].mem \in Allocs /\ hs[i].off \in Nat /\ hs[i].len \in Nat
<1>1. Len(hs) \in Nat
  BY LenProperties
<1>2. hs[i] \in Chunk
  BY ElementOfSeq
<1> QED
  BY <1>1, <1>2 DEF Chunk

\* The numbers that describe the buffer.
LEMMA Scalars ==
  ASSUME NEW hs, NEW a, NEW o, NEW l, NEW r, Apart(hs, a, o, l, r)
  PROVE  /\ o \in Nat /\ l \in Nat /\ r \in Nat /\ l <= r /\ o + r <= Size
         /\ Len(hs) \in Nat /\ Size \in Nat
         /\ r > 0 => a \in Allocs
<1>1. Len(hs) \in Nat
  BY LenProperties DEF Apart
<1>2. r > 0 => a \in Allocs
  BY DEF Apart
<1> QED
  BY <1>1, <1>2, Constants DEF Apart

\* A read fills the free part of the buffer and nothing else.
LEMMA FillKeeps ==
  ASSUME NEW hs, NEW a, NEW o, NEW l, NEW r, NEW h, NEW k, NEW n,
         Layout(hs, a, o, l, r, h, k, n),
         NEW m \in 1..(r - l), NEW g,
         g = [h EXCEPT ![a] = [i \in 0..(Size - 1) |->
                IF i \in (o + l)..(o + l + m - 1) THEN n + i - (o + l) + 1 ELSE @[i]]]
  PROVE  Layout(hs, a, o, l + m, r, g, k, n + m)
<1> DEFINE fill == (o + l)..(o + l + m - 1)
<1>0. /\ o \in Nat /\ l \in Nat /\ r \in Nat /\ l <= r /\ o + r <= Size
      /\ Len(hs) \in Nat /\ Size \in Nat
      /\ r > 0 => a \in Allocs
  BY Scalars DEF Layout
<1>1. /\ m \in Nat /\ m >= 1 /\ l + m <= r /\ a \in Allocs
  BY <1>0
<1>2. n \in Nat /\ k \in Nat /\ h \in [Allocs -> Memory] /\ hs \in Seq(Chunk)
  BY DEF Layout, Apart
<1>3. /\ h[a] \in [0..(Size - 1) -> Nat]
      /\ \A b \in Allocs : b # a => g[b] = h[b]
      /\ g[a] = [i \in 0..(Size - 1) |->
           IF i \in fill THEN n + i - (o + l) + 1 ELSE h[a][i]]
  BY <1>1, <1>2 DEF Memory
<1>4. \A i \in fill : n + i - (o + l) + 1 \in Nat
  BY <1>0, <1>1, <1>2
<1>5. g[a] \in Memory
  <2> HIDE DEF fill
  <2>1. \A i \in 0..(Size - 1) : h[a][i] \in Nat
    BY <1>3
  <2> DEFINE v(i) == IF i \in fill THEN n + i - (o + l) + 1 ELSE h[a][i]
  <2>2. \A i \in 0..(Size - 1) : v(i) \in Nat
    BY <1>4, <2>1
  <2>3. g[a] = [i \in 0..(Size - 1) |-> v(i)]
    BY <1>3
  <2> HIDE DEF v
  <2> QED
    BY <2>2, <2>3 DEF Memory
<1>6. g \in [Allocs -> Memory]
  BY <1>1, <1>2, <1>5
<1>7. Apart(hs, a, o, l + m, r)
  BY <1>0, <1>1 DEF Layout, Apart
<1>8. PICK p : Chain(p, hs, a, o, l, h, k, n)
  BY DEF Layout
<1>9. PICK e \in Nat : e = p[Len(hs) + 1] /\ e + l = n
  <2>1. Len(hs) + 1 \in 1..(Len(hs) + 1)
    BY <1>0
  <2>2. p[Len(hs) + 1] \in Nat
    BY <1>8, <2>1 DEF Chain
  <2> QED
    BY <1>8, <2>2 DEF Chain
<1>9a. e \in Nat /\ e + l = n
  BY <1>9
<1>10. ASSUME NEW i \in 1..Len(hs), NEW j \in 1..hs[i].len
       PROVE  g[hs[i].mem][hs[i].off + j - 1] = p[i] + j
  <2>1. /\ hs[i].mem \in Allocs /\ hs[i].off \in Nat /\ hs[i].len \in Nat
    BY <1>2, ChunkFields
  <2>2. /\ hs[i].off + hs[i].len <= Size
        /\ hs[i].mem = a => hs[i].off + hs[i].len <= o
    BY DEF Layout, Apart
  <2>3. h[hs[i].mem][hs[i].off + j - 1] = p[i] + j
    BY <1>8 DEF Chain
  <2> DEFINE at == hs[i].off + j - 1
  <2>4. at \in 0..(Size - 1) /\ (hs[i].mem = a => at \notin fill)
    <3>1. PICK u \in Nat, w \in Nat : u = hs[i].off /\ w = hs[i].len
      BY <2>1
    <3>2. j \in 1..w /\ u + w <= Size /\ at = u + j - 1 /\ u \in Nat /\ w \in Nat
      BY <2>2, <3>1
    <3>3. hs[i].mem = a => u + w <= o
      BY <2>2, <3>1
    <3> HIDE DEF at
    <3>4. at \in 0..(Size - 1)
      BY <1>0, <3>2
    <3>5. ASSUME u + w <= o PROVE at \notin fill
      BY <1>0, <1>1, <3>2, <3>5
    <3> QED
      BY <3>3, <3>4, <3>5
  <2> HIDE DEF at, fill
  <2>5. g[hs[i].mem][at] = h[hs[i].mem][at]
    BY <1>3, <2>1, <2>4
  <2> QED
    BY <2>3, <2>5 DEF at
<1>11. ASSUME NEW j \in 1..(l + m)
       PROVE  g[a][o + j - 1] = e + j
  <2> DEFINE at == o + j - 1
  <2>1. at \in 0..(Size - 1) /\ (j <= l <=> at \notin fill)
    BY <1>0, <1>1
  <2>2. g[a][at] = IF at \in fill THEN n + at - (o + l) + 1 ELSE h[a][at]
    <3> HIDE DEF at, fill
    <3> QED
      BY <1>3, <2>1
  <2>3. CASE j <= l
    <3>1. j \in 1..l
      BY <1>0, <2>3
    <3>2. h[a][at] = e + j
      BY <1>8, <1>9, <3>1 DEF Chain
    <3>3. g[a][at] = h[a][at]
      <4> HIDE DEF at, fill
      <4> QED
        BY <2>1, <2>2, <2>3
    <3> QED
      BY <3>2, <3>3
  <2>4. CASE ~(j <= l)
    <3>1. n + at - (o + l) + 1 = e + j
      BY <1>0, <1>1, <1>2, <1>9a
    <3>2. g[a][at] = n + at - (o + l) + 1
      <4> HIDE DEF at, fill
      <4> QED
        BY <2>1, <2>2, <2>4
    <3> QED
      BY <3>1, <3>2
  <2> QED
    BY <2>3, <2>4
<1>12. e + (l + m) = n + m /\ n + m \in Nat
  BY <1>0, <1>1, <1>2, <1>9a
<1>13. Chain(p, hs, a, o, l + m, g, k, n + m)
  BY <1>8, <1>9, <1>10, <1>11, <1>12 DEF Chain
<1> QED
  BY <1>2, <1>6, <1>7, <1>12, <1>13 DEF Layout

\* A new buffer that nobody else holds.
LEMMA RenewKeeps ==
  ASSUME NEW hs, NEW a, NEW o, NEW r, NEW h, NEW k, NEW n,
         Layout(hs, a, o, 0, r, h, k, n),
         NEW b \in Allocs, \A i \in 1..Len(hs) : hs[i].mem # b
  PROVE  Layout(hs, b, 0, 0, Size, h, k, n)
<1>1. b # NoAlloc
  BY Constants DEF Allocs, NoAlloc
<1>2. Apart(hs, b, 0, 0, Size)
  BY <1>1, Constants DEF Layout, Apart
<1>3. PICK p : Chain(p, hs, a, o, 0, h, k, n)
  BY DEF Layout
<1>4. Chain(p, hs, b, 0, 0, h, k, n)
  BY <1>3 DEF Chain
<1> QED
  BY <1>2, <1>4 DEF Layout

\* split_to: what the task gets is the front of the buffer.
LEMMA SplitKeeps ==
  ASSUME NEW hs, NEW a, NEW o, NEW l, NEW r, NEW h, NEW k, NEW n,
         Layout(hs, a, o, l, r, h, k, n), NEW m \in 1..l
  PROVE  Layout(Append(hs, [mem |-> a, off |-> o, len |-> m]),
                a, o + m, l - m, r - m, h, k, n)
<1> DEFINE x == [mem |-> a, off |-> o, len |-> m]
           gs == Append(hs, x)
<1>0. /\ o \in Nat /\ l \in Nat /\ r \in Nat /\ l <= r /\ o + r <= Size
      /\ Len(hs) \in Nat /\ Size \in Nat
      /\ r > 0 => a \in Allocs
  BY Scalars DEF Layout
<1>1. /\ m \in Nat /\ m >= 1 /\ m <= l /\ a \in Allocs
      /\ l - m \in Nat /\ r - m \in Nat /\ o + m \in Nat
      /\ l - m <= r - m /\ (o + m) + (r - m) <= Size
  BY <1>0
<1>2. n \in Nat /\ k \in Nat /\ h \in [Allocs -> Memory] /\ hs \in Seq(Chunk)
  BY DEF Layout, Apart
<1>3. x \in Chunk /\ x.mem = a /\ x.off = o /\ x.len = m
  BY <1>0, <1>1 DEF Chunk
<1> HIDE DEF x
<1>4. /\ gs \in Seq(Chunk) /\ Len(gs) = Len(hs) + 1
      /\ \A i \in 1..Len(hs) : gs[i] = hs[i]
      /\ gs[Len(hs) + 1] = x
  BY <1>0, <1>2, <1>3, AppendProperties
<1> HIDE DEF gs
<1>5. ASSUME NEW i \in 1..Len(gs)
      PROVE  /\ gs[i].off + gs[i].len <= Size
             /\ gs[i].mem = a => gs[i].off + gs[i].len <= o + m
  <2>1. CASE i = Len(hs) + 1
    <3>1. gs[i].off = o /\ gs[i].len = m
      BY <1>3, <1>4, <2>1
    <3> QED
      BY <1>0, <1>1, <3>1
  <2>2. CASE i # Len(hs) + 1
    <3>1. i \in 1..Len(hs)
      BY <1>0, <1>4, <2>2
    <3>2. gs[i] = hs[i] /\ hs[i].off \in Nat /\ hs[i].len \in Nat
      BY <1>2, <1>4, <3>1, ChunkFields
    <3>3. hs[i].off + hs[i].len <= Size
          /\ (hs[i].mem = a => hs[i].off + hs[i].len <= o)
      BY <3>1 DEF Layout, Apart
    <3> QED
      BY <1>0, <1>1, <3>2, <3>3
  <2> QED
    BY <2>1, <2>2
<1>6. a # NoAlloc
  BY <1>1, Constants DEF Allocs, NoAlloc
<1>6a. Apart(gs, a, o + m, l - m, r - m)
  BY <1>1, <1>4, <1>5, <1>6 DEF Apart
<1>7. PICK p : Chain(p, hs, a, o, l, h, k, n)
  BY DEF Layout
<1>8. /\ p \in [1..(Len(hs) + 1) -> Nat] /\ p[Len(hs) + 1] \in Nat
      /\ p[Len(hs) + 1] + l = n
  BY <1>0, <1>7 DEF Chain
<1> DEFINE z == Len(hs)
           q == [i \in 1..(z + 2) |-> IF i = z + 2 THEN p[z + 1] + m ELSE p[i]]
<1>9. /\ q \in [1..(Len(gs) + 1) -> Nat]
      /\ \A i \in 1..(z + 1) : q[i] = p[i]
      /\ q[z + 2] = p[z + 1] + m /\ Len(gs) + 1 = z + 2
  <2>1. Len(gs) + 1 = z + 2
    BY <1>0, <1>4
  <2>2. p[z + 1] + m \in Nat
    BY <1>1, <1>8
  <2>3. \A i \in 1..(z + 2) : i # z + 2 => i \in 1..(z + 1)
    BY <1>0
  <2>4. \A i \in 1..(z + 1) : i \in 1..(z + 2) /\ i # z + 2
    BY <1>0
  <2>5. z + 2 \in 1..(z + 2)
    BY <1>0
  <2> HIDE DEF z
  <2> QED
    BY <1>8, <2>1, <2>2, <2>3, <2>4, <2>5 DEF z
<1> HIDE DEF q
<1>10. q[1] = k /\ q[Len(gs) + 1] + (l - m) = n
  <2>1. 1 \in 1..(z + 1)
    BY <1>0
  <2>2. p[1] = k
    BY <1>7 DEF Chain
  <2> QED
    BY <1>0, <1>1, <1>8, <1>9, <2>1, <2>2
<1>11. ASSUME NEW i \in 1..Len(gs)
       PROVE  /\ q[i + 1] = q[i] + gs[i].len
              /\ \A j \in 1..gs[i].len : h[gs[i].mem][gs[i].off + j - 1] = q[i] + j
  <2>1. CASE i = z + 1
    <3>1. i \in 1..(z + 1) /\ i + 1 = z + 2
      BY <1>0, <2>1
    <3>2. q[i] = p[z + 1] /\ q[i + 1] = p[z + 1] + m /\ gs[i] = x
      BY <1>4, <1>9, <2>1, <3>1
    <3>3. \A j \in 1..m : j \in 1..l
      BY <1>0, <1>1
    <3>4. \A j \in 1..l : h[a][o + j - 1] = p[z + 1] + j
      BY <1>7 DEF Chain
    <3> QED
      BY <1>3, <3>2, <3>3, <3>4
  <2>2. CASE i # z + 1
    <3>1. i \in 1..z /\ i \in 1..(z + 1) /\ i + 1 \in 1..(z + 1)
      BY <1>0, <1>4, <2>2
    <3>2. q[i] = p[i] /\ q[i + 1] = p[i + 1] /\ gs[i] = hs[i]
      BY <1>4, <1>9, <3>1
    <3>3. p[i + 1] = p[i] + hs[i].len
          /\ \A j \in 1..hs[i].len : h[hs[i].mem][hs[i].off + j - 1] = p[i] + j
      BY <1>7, <3>1 DEF Chain
    <3> QED
      BY <3>2, <3>3
  <2> QED
    BY <2>1, <2>2
<1>12. ASSUME NEW j \in 1..(l - m)
       PROVE  h[a][o + m + j - 1] = q[Len(gs) + 1] + j
  <2>1. m + j \in 1..l
    BY <1>0, <1>1
  <2>2. h[a][o + (m + j) - 1] = p[z + 1] + (m + j)
    BY <1>7, <2>1 DEF Chain
  <2>3. o + m + j - 1 = o + (m + j) - 1 /\ p[z + 1] + (m + j) = (p[z + 1] + m) + j
    BY <1>0, <1>1, <1>8
  <2>4. q[Len(gs) + 1] = p[z + 1] + m
    BY <1>9
  <2> QED
    BY <2>2, <2>3, <2>4
<1>13. Chain(q, gs, a, o + m, l - m, h, k, n)
  BY <1>9, <1>10, <1>11, <1>12 DEF Chain
<1>14. Layout(gs, a, o + m, l - m, r - m, h, k, n)
  BY <1>2, <1>6a, <1>13 DEF Layout
<1> QED
  BY <1>14 DEF gs, x

-----------------------------------------------------------------------------
(* Induction, as in IntrusiveListProofs, and what FlattenSeq computes.     *)

\* The order of the natural numbers, as a set of pairs.
Below == {p \in Nat \X Nat : p[1] < p[2]}

\* A set of numbers that is not empty has a least element.
LEMMA Least ==
  ASSUME NEW T, T \subseteq Nat, T # {}
  PROVE  \E n \in T : \A m \in T : n <= m
<1>1. Below = OpToRel(<, Nat)
  BY Zenon DEF Below, OpToRel
<1>2. IsWellFoundedOn(Below, Nat)
  BY <1>1, NatLessThanWellFounded, Zenon
<1>3. PICK n \in T : \A m \in T : ~(<<m, n>> \in Below)
  BY <1>2, WFMin, Zenon
<1>4. ASSUME NEW m \in T PROVE n <= m
  <2>1. n \in Nat /\ m \in Nat /\ ~(<<m, n>> \in Below)
    BY <1>3
  <2> QED
    BY <2>1 DEF Below
<1> QED
  BY <1>4

\* The bytes of the source after the first a, up to b.
Run(a, b) == [j \in 1..(b - a) |-> a + j]

\* A run is a sequence, of the length it says.
LEMMA RunIsSeq ==
  ASSUME NEW a \in Nat, NEW b \in Nat, a <= b
  PROVE  /\ Run(a, b) \in Seq(Nat) /\ Len(Run(a, b)) = b - a
         /\ \A j \in 1..(b - a) : Run(a, b)[j] = a + j
<1>1. b - a \in Nat
  OBVIOUS
<1>2. \A j \in 1..(b - a) : a + j \in Nat
  OBVIOUS
<1> QED
  BY <1>1, <1>2 DEF Run

\* Two runs that follow each other are one.
LEMMA RunConcat ==
  ASSUME NEW a \in Nat, NEW b \in Nat, NEW c \in Nat, a <= b, b <= c
  PROVE  Run(a, b) \o Run(b, c) = Run(a, c)
<1> DEFINE s == Run(a, b) \o Run(b, c)
<1>1. /\ Run(a, b) \in Seq(Nat) /\ Len(Run(a, b)) = b - a
      /\ \A j \in 1..(b - a) : Run(a, b)[j] = a + j
  BY RunIsSeq
<1>2. /\ Run(b, c) \in Seq(Nat) /\ Len(Run(b, c)) = c - b
      /\ \A j \in 1..(c - b) : Run(b, c)[j] = b + j
  BY RunIsSeq
<1>3. /\ Run(a, c) \in Seq(Nat) /\ Len(Run(a, c)) = c - a
      /\ \A j \in 1..(c - a) : Run(a, c)[j] = a + j
  BY RunIsSeq
<1>4. /\ s \in Seq(Nat) /\ Len(s) = (b - a) + (c - b)
      /\ \A i \in 1..((b - a) + (c - b)) :
           s[i] = IF i <= b - a THEN Run(a, b)[i] ELSE Run(b, c)[i - (b - a)]
  <2> DEFINE u == Run(a, b)
             v == Run(b, c)
  <2>1. u \in Seq(Nat) /\ v \in Seq(Nat)
    BY <1>1, <1>2
  <2> HIDE DEF u, v
  <2>2. /\ u \o v \in Seq(Nat) /\ Len(u \o v) = Len(u) + Len(v)
        /\ \A i \in 1..(Len(u) + Len(v)) :
             (u \o v)[i] = IF i <= Len(u) THEN u[i] ELSE v[i - Len(u)]
    BY <2>1, ConcatProperties
  <2>3. Len(u) = b - a /\ Len(v) = c - b
    BY <1>1, <1>2 DEF u, v
  <2> QED
    BY <2>2, <2>3 DEF u, v
<1> HIDE DEF s
<1>5. (b - a) + (c - b) = c - a
  OBVIOUS
<1>6. ASSUME NEW i \in 1..(c - a) PROVE s[i] = a + i
  <2>1. CASE i <= b - a
    <3>1. i \in 1..(b - a)
      BY <2>1
    <3> QED
      BY <1>1, <1>4, <1>5, <2>1, <3>1
  <2>2. CASE ~(i <= b - a)
    <3>1. i - (b - a) \in 1..(c - b) /\ b + (i - (b - a)) = a + i
      BY <2>2
    <3>2. s[i] = Run(b, c)[i - (b - a)]
      BY <1>4, <1>5, <2>2
    <3> QED
      BY <1>2, <3>1, <3>2
  <2> QED
    BY <2>1, <2>2
<1>7. Len(s) = Len(Run(a, c)) /\ \A i \in 1..Len(s) : s[i] = Run(a, c)[i]
  BY <1>3, <1>4, <1>5, <1>6
<1>8. s = Run(a, c)
  BY <1>3, <1>4, <1>7, SeqEqual
<1> QED
  BY <1>8 DEF s

\* Runs that follow each other are flattened to one.
LEMMA FlattenRuns ==
  ASSUME NEW N \in Nat, NEW p \in [1..(N + 1) -> Nat],
         \A i \in 1..N : p[i] <= p[i + 1]
  PROVE  /\ p[1] <= p[N + 1]
         /\ FlattenSeq([i \in 1..N |-> Run(p[i], p[i + 1])]) = Run(p[1], p[N + 1])
<1> DEFINE s == [i \in 1..N |-> Run(p[i], p[i + 1])]
<1>1. Len(s) = N
  OBVIOUS
<1>2. CASE N = 0
  <2>1. Run(p[1], p[N + 1]) = [j \in 1..0 |-> p[1] + j]
    <3>1. N + 1 = 1 /\ p[1] \in Nat /\ p[1] - p[1] = 0
      BY <1>2
    <3> QED
      BY <3>1 DEF Run
  <2>2. s = <<>> /\ [j \in 1..0 |-> p[1] + j] = <<>>
    BY <1>2
  <2>3. FlattenSeq(s) = s
    BY <1>1, <1>2 DEF FlattenSeq
  <2> QED
    BY <1>2, <2>1, <2>2, <2>3
<1>3. CASE N # 0
  <2> DEFINE step(f) == [i \in 1..N |-> IF i = 1 THEN s[i] ELSE f[i - 1] \o s[i]]
             flat == CHOOSE f : f = step(f)
             whole == [i \in 1..N |-> Run(p[1], p[i + 1])]
  <2>1. FlattenSeq(s) = flat[N]
    BY <1>1, <1>3 DEF FlattenSeq
  <2>2. \A i \in 1..N : p[i] \in Nat /\ p[i + 1] \in Nat /\ p[1] \in Nat /\ i + 1 \in 1..(N + 1)
    OBVIOUS
  <2>3. \A i \in 1..N : p[1] <= p[i + 1]
    <3> DEFINE T == {i \in 1..N : ~(p[1] <= p[i + 1])}
    <3> SUFFICES ASSUME T # {} PROVE FALSE
      OBVIOUS
    <3>1. PICK i \in T : \A m \in T : i <= m
      <4>1. T \subseteq Nat
        OBVIOUS
      <4> HIDE DEF T
      <4> QED
        BY <4>1, Least
    <3>2. i \in 1..N /\ ~(p[1] <= p[i + 1])
      OBVIOUS
    <3>3. i # 1
      BY <3>2
    <3>4. i - 1 \in 1..N /\ i - 1 < i
      BY <3>2, <3>3
    <3>5. p[1] <= p[(i - 1) + 1]
      <4>1. i - 1 \notin T
        <5> HIDE DEF T
        <5>1. i \in Nat
          BY <3>2
        <5> QED
          BY <3>1, <5>1
      <4> QED
        BY <3>4, <4>1
    <3>6. (i - 1) + 1 = i
      BY <3>2
    <3> QED
      BY <2>2, <3>2, <3>5, <3>6
  <2>4. whole = step(whole)
    <3>1. ASSUME NEW i \in 1..N
          PROVE  Run(p[1], p[i + 1]) = IF i = 1 THEN s[i] ELSE whole[i - 1] \o s[i]
      <4>1. CASE i = 1
        BY <4>1
      <4>2. CASE i # 1
        <5>1. i - 1 \in 1..N /\ (i - 1) + 1 = i
          BY <4>2
        <5>2. whole[i - 1] = Run(p[1], p[i])
          BY <5>1
        <5>3. p[1] <= p[i]
          BY <2>3, <5>1
        <5>4. Run(p[1], p[i]) \o Run(p[i], p[i + 1]) = Run(p[1], p[i + 1])
          BY <2>2, <5>3, RunConcat
        <5> QED
          BY <4>2, <5>2, <5>4
      <4> QED
        BY <4>1, <4>2
    <3> QED
      BY <3>1
  <2>5. flat = step(flat)
    <3> HIDE DEF whole, step
    <3> QED
      BY <2>4
  <2>6. \A i \in 1..N : flat[i] = Run(p[1], p[i + 1])
    <3> DEFINE T == {i \in 1..N : flat[i] # Run(p[1], p[i + 1])}
    <3> SUFFICES ASSUME T # {} PROVE FALSE
      OBVIOUS
    <3> HIDE DEF flat
    <3>1. PICK i \in T : \A m \in T : i <= m
      <4>1. T \subseteq Nat
        OBVIOUS
      <4> HIDE DEF T
      <4> QED
        BY <4>1, Least
    <3>2. i \in 1..N /\ flat[i] # Run(p[1], p[i + 1])
      OBVIOUS
    <3>3. flat[i] = IF i = 1 THEN s[i] ELSE flat[i - 1] \o s[i]
      BY <2>5, <3>2
    <3>4. whole[i] = IF i = 1 THEN s[i] ELSE whole[i - 1] \o s[i]
      BY <2>4, <3>2
    <3>5. CASE i = 1
      BY <3>2, <3>3, <3>4, <3>5
    <3>6. CASE i # 1
      <4>1. i - 1 \in 1..N /\ i - 1 < i
        BY <3>2, <3>6
      <4>2. flat[i - 1] = whole[i - 1]
        BY <3>1, <4>1
      <4> QED
        BY <3>2, <3>3, <3>4, <3>6, <4>2
    <3> QED
      BY <3>5, <3>6
  <2>7. N \in 1..N
    BY <1>3
  <2> HIDE DEF flat
  <2> QED
    BY <2>1, <2>3, <2>6, <2>7
<1> QED
  BY <1>2, <1>3

-----------------------------------------------------------------------------
(* The writer takes the first bytes.                                       *)

\* The first chunk lies where the bytes after the first k do.
LEMMA FirstChunk ==
  ASSUME NEW hs, NEW a, NEW o, NEW l, NEW r, NEW h, NEW k, NEW n,
         Layout(hs, a, o, l, r, h, k, n), hs # <<>>
  PROVE  /\ Len(hs) >= 1 /\ Head(hs) = hs[1] /\ Head(hs) \in Chunk
         /\ \A j \in 1..Head(hs).len : h[Head(hs).mem][Head(hs).off + j - 1] = k + j
<1>1. hs \in Seq(Chunk)
  BY DEF Layout, Apart
<1>2. Len(hs) \in Nat /\ Len(hs) # 0
  BY <1>1, EmptySeq
<1>3. Head(hs) = hs[1] /\ Head(hs) \in Chunk
  BY <1>1, <1>2, HeadTailProperties
<1>4. PICK p : Chain(p, hs, a, o, l, h, k, n)
  BY DEF Layout
<1>5. 1 \in 1..Len(hs)
  BY <1>2
<1>6. \A j \in 1..hs[1].len : h[hs[1].mem][hs[1].off + j - 1] = k + j
  BY <1>4, <1>5 DEF Chain
<1> QED
  BY <1>2, <1>3, <1>6

\* All of the first chunk.
LEMMA DropKeeps ==
  ASSUME NEW hs, NEW a, NEW o, NEW l, NEW r, NEW h, NEW k, NEW n,
         Layout(hs, a, o, l, r, h, k, n), hs # <<>>
  PROVE  Layout(Tail(hs), a, o, l, r, h, k + Head(hs).len, n)
<1> DEFINE gs == Tail(hs)
           z == Len(gs)
<1>1. hs \in Seq(Chunk) /\ Len(hs) \in Nat /\ Len(hs) >= 1 /\ Head(hs) = hs[1]
  BY FirstChunk, LenProperties DEF Layout, Apart
<1>2. /\ gs \in Seq(Chunk) /\ Len(hs) = z + 1
      /\ \A i \in 1..z : gs[i] = hs[i + 1]
  BY <1>1, HeadTailProperties
<1>3. z \in Nat
  BY <1>2, LenProperties
<1> HIDE DEF gs, z
<1>4. \A i \in 1..z : i + 1 \in 1..Len(hs)
  BY <1>2, <1>3
<1>5. Apart(gs, a, o, l, r)
  BY <1>2, <1>4 DEF Layout, Apart, z
<1>6. PICK p : Chain(p, hs, a, o, l, h, k, n)
  BY DEF Layout
<1>7. p \in [1..(z + 2) -> Nat] /\ p[z + 2] + l = n
  <2>1. Len(hs) + 1 = z + 2
    BY <1>2, <1>3
  <2> QED
    BY <1>6, <2>1 DEF Chain
<1> DEFINE q == [i \in 1..(z + 1) |-> p[i + 1]]
<1>8. q \in [1..(z + 1) -> Nat]
  <2>1. \A i \in 1..(z + 1) : i + 1 \in 1..(z + 2)
    BY <1>3
  <2> QED
    BY <1>7, <2>1
<1>9. q[z + 1] + l = n
  <2>1. z + 1 \in 1..(z + 1) /\ (z + 1) + 1 = z + 2
    BY <1>3
  <2> QED
    BY <1>7, <2>1
<1>10. q[1] = k + Head(hs).len /\ q[1] \in Nat
  <2>1. p[1] = k /\ \A i \in 1..Len(hs) : p[i + 1] = p[i] + hs[i].len
    BY <1>6 DEF Chain
  <2>2. 1 \in 1..(z + 1) /\ 1 \in 1..Len(hs)
    BY <1>1, <1>3
  <2>3. p[1 + 1] = k + hs[1].len /\ q[1] = p[1 + 1]
    BY <2>1, <2>2
  <2> QED
    BY <1>1, <1>8, <2>2, <2>3
<1>11. ASSUME NEW i \in 1..z
       PROVE  /\ q[i + 1] = q[i] + gs[i].len
              /\ \A j \in 1..gs[i].len : h[gs[i].mem][gs[i].off + j - 1] = q[i] + j
  <2>1. i + 1 \in 1..Len(hs) /\ gs[i] = hs[i + 1]
    BY <1>2, <1>4
  <2>2. i \in 1..(z + 1) /\ i + 1 \in 1..(z + 1)
    BY <1>3
  <2>3. q[i] = p[i + 1] /\ q[i + 1] = p[(i + 1) + 1]
    BY <2>2
  <2>4. /\ p[(i + 1) + 1] = p[i + 1] + hs[i + 1].len
        /\ \A j \in 1..hs[i + 1].len :
             h[hs[i + 1].mem][hs[i + 1].off + j - 1] = p[i + 1] + j
    BY <1>6, <2>1 DEF Chain
  <2> HIDE DEF q
  <2> QED
    BY <2>1, <2>3, <2>4
<1>12. \A j \in 1..l : h[a][o + j - 1] = q[z + 1] + j
  <2>1. z + 1 \in 1..(z + 1) /\ (z + 1) + 1 = Len(hs) + 1
    BY <1>2, <1>3
  <2>2. q[z + 1] = p[Len(hs) + 1]
    BY <2>1
  <2> HIDE DEF q
  <2> QED
    BY <1>6, <2>2 DEF Chain
<1> HIDE DEF q
<1>13. Chain(q, gs, a, o, l, h, k + Head(hs).len, n)
  BY <1>8, <1>9, <1>10, <1>11, <1>12 DEF Chain, z
<1>14. k + Head(hs).len \in Nat /\ n \in Nat /\ h \in [Allocs -> Memory]
  BY <1>10 DEF Layout
<1> QED
  BY <1>5, <1>13, <1>14 DEF Layout, gs

\* A chunk without its first m bytes.
LEMMA Trimmed ==
  ASSUME NEW x \in Chunk, NEW m
  PROVE  [x EXCEPT !.off = @ + m, !.len = @ - m]
           = [mem |-> x.mem, off |-> x.off + m, len |-> x.len - m]
<1> DEFINE b == x.off + m
           c == x.len - m
           e == [x EXCEPT !.off = b, !.len = c]
<1> HIDE DEF b, c
<1>1. e \in [mem : {x.mem}, off : {b}, len : {c}]
  BY DEF Chunk
<1> HIDE DEF e
<1>2. e = [mem |-> x.mem, off |-> b, len |-> c]
  BY <1>1
<1> QED
  BY <1>2 DEF e, b, c

\* The first m bytes of it.
LEMMA TrimKeeps ==
  ASSUME NEW hs, NEW a, NEW o, NEW l, NEW r, NEW h, NEW k, NEW n,
         Layout(hs, a, o, l, r, h, k, n), hs # <<>>,
         NEW m \in 1..Head(hs).len
  PROVE  Layout(<<[Head(hs) EXCEPT !.off = @ + m, !.len = @ - m]>> \o Tail(hs),
                a, o, l, r, h, k + m, n)
<1> DEFINE x == Head(hs)
           y == [x EXCEPT !.off = @ + m, !.len = @ - m]
           gs == <<y>> \o Tail(hs)
           z == Len(hs)
<1>1. /\ hs \in Seq(Chunk) /\ z \in Nat /\ z >= 1 /\ x = hs[1] /\ x \in Chunk
      /\ \A j \in 1..x.len : h[x.mem][x.off + j - 1] = k + j
  <2>1. hs \in Seq(Chunk)
    BY DEF Layout, Apart
  <2>2. z \in Nat
    BY <2>1, LenProperties
  <2> HIDE DEF Layout, Chunk
  <2> QED
    BY <2>1, <2>2, FirstChunk
<1> HIDE DEF x
<1>2. x.mem \in Allocs /\ x.off \in Nat /\ x.len \in Nat /\ m \in 1..x.len
  <2>1. m \in 1..x.len
    BY DEF x
  <2> QED
    BY <1>1, <2>1 DEF Chunk
<1>3. y = [mem |-> x.mem, off |-> x.off + m, len |-> x.len - m]
  BY <1>1, Trimmed
<1>4. y.mem = x.mem /\ y.off = x.off + m /\ y.len = x.len - m
  BY <1>3
<1>5. y \in Chunk
  <2>1. x.off + m \in Nat /\ x.len - m \in Nat
    BY <1>2
  <2> QED
    BY <1>2, <1>3, <2>1 DEF Chunk
<1> HIDE DEF y
<1>6. /\ Tail(hs) \in Seq(Chunk) /\ Len(Tail(hs)) = z - 1
      /\ \A i \in 1..Len(Tail(hs)) : Tail(hs)[i] = hs[i + 1]
  BY <1>1, HeadTailProperties
<1>7. /\ gs \in Seq(Chunk) /\ Len(gs) = z /\ gs[1] = y
      /\ \A i \in 1..z : i # 1 => gs[i] = hs[i]
  <2>1. <<y>> \in Seq(Chunk) /\ Len(<<y>>) = 1 /\ <<y>>[1] = y
    BY <1>5
  <2> DEFINE u == <<y>>
             v == Tail(hs)
  <2> HIDE DEF u, v
  <2>2. /\ u \o v \in Seq(Chunk) /\ Len(u \o v) = Len(u) + Len(v)
        /\ \A i \in 1..(Len(u) + Len(v)) :
             (u \o v)[i] = IF i <= Len(u) THEN u[i] ELSE v[i - Len(u)]
    BY <1>6, <2>1, ConcatProperties DEF u, v
  <2>3. Len(u) = 1 /\ u[1] = y /\ Len(v) = z - 1 /\ Len(u) + Len(v) = z
    BY <1>1, <1>6, <2>1 DEF u, v
  <2>4. ASSUME NEW i \in 1..z, i # 1 PROVE v[i - 1] = hs[i]
    <3>1. i - 1 \in 1..(z - 1) /\ (i - 1) + 1 = i
      BY <1>1, <2>4
    <3> QED
      BY <1>6, <2>3, <3>1 DEF v
  <2>5. 1 \in 1..z /\ \A i \in 1..z : i <= 1 <=> i = 1
    BY <1>1
  <2> QED
    BY <2>2, <2>3, <2>4, <2>5 DEF u, v
<1> HIDE DEF gs
<1>8. ASSUME NEW i \in 1..z
      PROVE  /\ gs[i].mem = hs[i].mem
             /\ gs[i].off + gs[i].len = hs[i].off + hs[i].len
  <2>1. CASE i = 1
    BY <1>1, <1>2, <1>4, <1>7, <2>1
  <2>2. CASE i # 1
    BY <1>7, <2>2
  <2> QED
    BY <2>1, <2>2
<1>9. Apart(gs, a, o, l, r)
  BY <1>7, <1>8 DEF Layout, Apart, z
<1>10. PICK p : Chain(p, hs, a, o, l, h, k, n)
  BY DEF Layout
<1>11. /\ p \in [1..(z + 1) -> Nat] /\ p[1] = k /\ p[z + 1] + l = n
       /\ \A i \in 1..z : p[i + 1] = p[i] + hs[i].len
       /\ \A i \in 1..z : \A j \in 1..hs[i].len :
            h[hs[i].mem][hs[i].off + j - 1] = p[i] + j
       /\ \A j \in 1..l : h[a][o + j - 1] = p[z + 1] + j
  BY <1>10 DEF Chain, z
<1>12. k \in Nat /\ n \in Nat /\ h \in [Allocs -> Memory]
  BY DEF Layout
<1>13. k + m \in Nat /\ m \in Nat
  BY <1>2, <1>12 DEF x
<1> HIDE DEF z
<1> DEFINE q == [p EXCEPT ![1] = k + m]
<1>14. /\ q \in [1..(z + 1) -> Nat] /\ q[1] = k + m
       /\ \A i \in 1..(z + 1) : i # 1 => q[i] = p[i]
  <2>1. 1 \in 1..(z + 1)
    BY <1>1
  <2> QED
    BY <1>11, <1>13, <2>1
<1> HIDE DEF q
<1>15. z + 1 \in 1..(z + 1) /\ z + 1 # 1
  BY <1>1
<1>16. q[z + 1] = p[z + 1]
  BY <1>14, <1>15
<1>17. ASSUME NEW i \in 1..z
       PROVE  /\ q[i + 1] = q[i] + gs[i].len
              /\ \A j \in 1..gs[i].len : h[gs[i].mem][gs[i].off + j - 1] = q[i] + j
  <2>1. i \in 1..(z + 1) /\ i + 1 \in 1..(z + 1) /\ i + 1 # 1
    BY <1>1
  <2>2. q[i + 1] = p[i + 1] /\ p[i + 1] = p[i] + hs[i].len
    BY <1>11, <1>14, <2>1
  <2>3. CASE i = 1
    <3>1. q[i] = k + m /\ gs[i] = y /\ p[i] = k /\ hs[i] = x
      BY <1>1, <1>7, <1>11, <1>14, <2>3
    <3>2. k + x.len = (k + m) + (x.len - m)
      BY <1>2, <1>12, <1>13
    <3>3. q[i + 1] = q[i] + gs[i].len
      BY <1>4, <2>2, <3>1, <3>2
    <3>4. ASSUME NEW j \in 1..(x.len - m)
          PROVE  h[x.mem][x.off + m + j - 1] = k + m + j
      <4>1. m + j \in 1..x.len
        BY <1>2, <1>13
      <4>2. h[x.mem][x.off + (m + j) - 1] = k + (m + j)
        BY <1>1, <4>1
      <4>3. x.off + (m + j) - 1 = x.off + m + j - 1 /\ k + (m + j) = k + m + j
        BY <1>2, <1>12, <1>13
      <4> QED
        BY <4>2, <4>3
    <3> QED
      BY <1>4, <3>1, <3>3, <3>4
  <2>4. CASE i # 1
    BY <1>7, <1>11, <1>14, <2>1, <2>2, <2>4
  <2> QED
    BY <2>3, <2>4
<1>18. Chain(q, gs, a, o, l, h, k + m, n)
  BY <1>7, <1>11, <1>14, <1>16, <1>17 DEF Chain
<1> QED
  BY <1>9, <1>12, <1>13, <1>18 DEF Layout, gs, y, x

\* What lies in an allocation from o on.
Bytes(h, a, o, l) == [i \in 1..l |-> h[a][o + i - 1]]

\* The first k bytes, the chunks and the buffer make up the n bytes of the source.
LEMMA LayoutContents ==
  ASSUME NEW hs, NEW a, NEW o, NEW l, NEW r, NEW h, NEW k, NEW n,
         Layout(hs, a, o, l, r, h, k, n)
  PROVE  Run(0, k)
           \o FlattenSeq([i \in DOMAIN hs |-> Bytes(h, hs[i].mem, hs[i].off, hs[i].len)])
           \o Bytes(h, a, o, l)
         = Run(0, n)
<1> DEFINE z == Len(hs)
<1>1. hs \in Seq(Chunk) /\ k \in Nat /\ n \in Nat /\ l \in Nat
  BY DEF Layout, Apart
<1>2. z \in Nat /\ DOMAIN hs = 1..z
  BY <1>1, LenProperties
<1>3. PICK p : Chain(p, hs, a, o, l, h, k, n)
  BY DEF Layout
<1>4. /\ p \in [1..(z + 1) -> Nat] /\ p[1] = k /\ p[z + 1] + l = n
      /\ \A i \in 1..z : p[i + 1] = p[i] + hs[i].len
      /\ \A i \in 1..z : \A j \in 1..hs[i].len :
           h[hs[i].mem][hs[i].off + j - 1] = p[i] + j
      /\ \A j \in 1..l : h[a][o + j - 1] = p[z + 1] + j
  BY <1>3 DEF Chain
<1> HIDE DEF z
<1>5. ASSUME NEW i \in 1..z
      PROVE  /\ p[i] <= p[i + 1]
             /\ Bytes(h, hs[i].mem, hs[i].off, hs[i].len) = Run(p[i], p[i + 1])
  <2>1. hs[i].len \in Nat
    BY <1>1, ChunkFields DEF z
  <2>2. p[i] \in Nat /\ p[i + 1] \in Nat
    <3>1. i \in 1..(z + 1) /\ i + 1 \in 1..(z + 1)
      BY <1>2
    <3> QED
      BY <1>4, <3>1
  <2>3. p[i + 1] = p[i] + hs[i].len
    BY <1>4
  <2>4. p[i + 1] - p[i] = hs[i].len /\ p[i] <= p[i + 1]
    BY <2>1, <2>2, <2>3
  <2>5. \A j \in 1..hs[i].len : h[hs[i].mem][hs[i].off + j - 1] = p[i] + j
    BY <1>4
  <2> QED
    BY <2>4, <2>5 DEF Bytes, Run
<1>6. /\ p[1] <= p[z + 1]
      /\ FlattenSeq([i \in 1..z |-> Run(p[i], p[i + 1])]) = Run(p[1], p[z + 1])
  BY <1>2, <1>4, <1>5, FlattenRuns
<1>7. [i \in DOMAIN hs |-> Bytes(h, hs[i].mem, hs[i].off, hs[i].len)]
        = [i \in 1..z |-> Run(p[i], p[i + 1])]
  BY <1>2, <1>5
<1>8. z + 1 \in 1..(z + 1)
  BY <1>2
<1>9. PICK e \in Nat : e = p[z + 1]
  BY <1>4, <1>8
<1>10. k <= e /\ e + l = n /\ e \in Nat
  BY <1>4, <1>6, <1>9
<1>11. Bytes(h, a, o, l) = Run(e, n)
  <2>1. n - e = l
    BY <1>1, <1>10
  <2> QED
    BY <1>4, <1>9, <2>1 DEF Bytes, Run
<1>12. e <= n /\ 0 <= k /\ 0 <= e /\ 0 \in Nat
  BY <1>1, <1>10
<1>13. Run(0, k) \o Run(k, e) = Run(0, e)
  BY <1>1, <1>10, <1>12, RunConcat
<1>14. Run(0, e) \o Run(e, n) = Run(0, n)
  BY <1>1, <1>10, <1>12, RunConcat
<1> QED
  BY <1>4, <1>6, <1>7, <1>9, <1>11, <1>13, <1>14

-----------------------------------------------------------------------------
(* There is always an allocation that is not in use.                       *)

\* S has at most n elements.
AtMost(S, n) == IsFiniteSet(S) /\ Cardinality(S) \in Nat /\ Cardinality(S) <= n

\* A function takes no more values than it has arguments.
LEMMA ImageAtMost ==
  ASSUME NEW D, IsFiniteSet(D), NEW f, DOMAIN f = D, f = [i \in D |-> f[i]]
  PROVE  AtMost({f[i] : i \in D}, Cardinality(D))
<1> DEFINE T == {f[i] : i \in D}
<1>1. f \in Surjection(D, T)
  <2>1. f \in [D -> T]
    OBVIOUS
  <2>2. \A t \in T : \E s \in D : f[s] = t
    OBVIOUS
  <2> HIDE DEF T
  <2> QED
    BY <2>1, <2>2 DEF Surjection
<1> HIDE DEF T
<1>2. IsFiniteSet(T) /\ Cardinality(T) <= Cardinality(D)
  BY <1>1, FS_Surjection
<1>3. Cardinality(T) \in Nat
  BY <1>2, FS_CardinalityType
<1>4. AtMost(T, Cardinality(D))
  BY <1>2, <1>3 DEF AtMost
<1> QED
  BY <1>4 DEF T

\* The sizes of two sets bound that of their union.
LEMMA UnionAtMost ==
  ASSUME NEW S, NEW T, NEW m \in Nat, NEW n \in Nat, AtMost(S, m), AtMost(T, n)
  PROVE  AtMost(S \cup T, m + n)
<1>1. IsFiniteSet(S) /\ IsFiniteSet(T)
  BY DEF AtMost
<1>2. /\ IsFiniteSet(S \cup T)
      /\ Cardinality(S \cup T) = Cardinality(S) + Cardinality(T) - Cardinality(S \cap T)
  BY <1>1, FS_Union
<1>3. IsFiniteSet(S \cap T)
  <2>1. S \cap T \in SUBSET S
    OBVIOUS
  <2> QED
    BY <1>1, <2>1, FS_Subset
<1>4. Cardinality(S \cap T) \in Nat /\ Cardinality(S \cup T) \in Nat
  BY <1>2, <1>3, FS_CardinalityType
<1> QED
  BY <1>2, <1>4 DEF AtMost

\* The pool's slots and the next of them.
PoolTypes ==
  /\ bufs \in [0..(Count - 1) -> Allocs \cup {NoAlloc}]
  /\ nextIdx \in 0..(Count - 1)

\* There are more allocations than handles: one is free whenever the task reads.
LEMMA SomethingFresh ==
  ASSUME PoolTypes, held \in Seq(Chunk), Len(held) <= MaxHeld
  PROVE  Fresh \in Allocs /\ Fresh \notin Live
<1>1. Count \in Nat /\ MaxHeld \in Nat /\ Count > 0
  BY Constants
<1>2. Len(held) \in Nat /\ DOMAIN held = 1..Len(held) /\ held \in [1..Len(held) -> Chunk]
  BY LenProperties
<1>3. AtMost({cur.mem}, 1)
  <2>1. IsFiniteSet({cur.mem}) /\ Cardinality({cur.mem}) = 1
    BY FS_Singleton, Zenon
  <2> QED
    BY <2>1 DEF AtMost
<1>4. AtMost({held[i].mem : i \in DOMAIN held}, Len(held))
  <2> DEFINE D == 1..Len(held)
             f == [i \in D |-> held[i].mem]
  <2>1. IsFiniteSet(D) /\ Cardinality(D) = Len(held)
    BY <1>2, FS_Interval
  <2>2. DOMAIN f = D /\ f = [i \in D |-> f[i]]
    OBVIOUS
  <2>3. {f[i] : i \in D} = {held[i].mem : i \in DOMAIN held}
    BY <1>2
  <2> HIDE DEF D, f
  <2> QED
    BY <2>1, <2>2, <2>3, ImageAtMost
<1>5. AtMost({bufs[i] : i \in DOMAIN bufs}, Count)
  <2> DEFINE D == 0..(Count - 1)
  <2>1. IsFiniteSet(D) /\ Cardinality(D) = Count
    BY <1>1, FS_Interval
  <2>2. DOMAIN bufs = D /\ bufs = [i \in D |-> bufs[i]]
    BY DEF PoolTypes
  <2> HIDE DEF D
  <2> QED
    BY <2>1, <2>2, ImageAtMost
<1>6. AtMost(Live, 1 + Len(held) + Count)
  <2>1. AtMost(InUse, 1 + Len(held))
    BY <1>2, <1>3, <1>4, UnionAtMost DEF InUse
  <2>2. 1 + Len(held) \in Nat
    BY <1>2
  <2> QED
    BY <1>1, <1>5, <2>1, <2>2, UnionAtMost DEF Live
<1>7. IsFiniteSet(Allocs) /\ Cardinality(Allocs) = Count + MaxHeld + 2
  BY <1>1, FS_Interval DEF Allocs
<1>8. ~(Allocs \subseteq Live)
  <2> SUFFICES ASSUME Allocs \subseteq Live PROVE FALSE
    OBVIOUS
  <2>1. IsFiniteSet(Live) /\ Cardinality(Live) <= 1 + Len(held) + Count
        /\ Cardinality(Live) \in Nat
    BY <1>6 DEF AtMost
  <2>2. Cardinality(Allocs) <= Cardinality(Live)
    BY <2>1, FS_Subset
  <2> QED
    BY <1>1, <1>2, <1>7, <2>1, <2>2
<1> QED
  BY <1>8 DEF Fresh

\* Nobody reads the buffer that the pool hands out.
LEMMA NextBufIsFree ==
  ASSUME PoolTypes, held \in Seq(Chunk), Len(held) <= MaxHeld
  PROVE  NextBuf \in Allocs /\ \A i \in 1..Len(held) : held[i].mem # NextBuf
<1>1. Fresh \in Allocs /\ Fresh \notin InUse
  BY SomethingFresh DEF Live
<1>2. Recyclable => bufs[nextIdx] \in Allocs /\ bufs[nextIdx] \notin InUse
  BY DEF Recyclable, PoolTypes
<1>3. NextBuf \in Allocs /\ NextBuf \notin InUse
  BY <1>1, <1>2 DEF NextBuf
<1>4. DOMAIN held = 1..Len(held)
  BY LenProperties
<1> QED
  BY <1>3, <1>4 DEF InUse

\* The pool goes on to its next slot.
LEMMA PoolMoves ==
  ASSUME PoolTypes, NEW b \in Allocs \cup {NoAlloc},
         bufs' = [bufs EXCEPT ![nextIdx] = b], nextIdx' = (nextIdx + 1) % Count
  PROVE  PoolTypes'
<1>1. nextIdx' \in 0..(Count - 1)
  BY Constants DEF PoolTypes
<1> QED
  BY <1>1 DEF PoolTypes

-----------------------------------------------------------------------------
(* The invariant, and the steps that keep it.                              *)

Buffer == [mem : Allocs \cup {NoAlloc}, off : Nat, len : Nat, cap : Nat]

\* Where the bytes from the k-th to the n-th are, when hs are the chunks, c is
\* the buffer and h the heap.
Laid(hs, c, h, k, n) ==
  c \in Buffer /\ Len(hs) <= MaxHeld /\ Layout(hs, c.mem, c.off, c.len, c.cap, h, k, n)

\* The bytes that are not written out yet are where Laid says, in the order of
\* the source; a sink that is shut down got all of them.
StreamInv ==
  /\ Laid(held, cur, heap, Len(out), produced)
  /\ out \in Seq(Nat) /\ out = Run(0, Len(out))
  /\ PoolTypes
  /\ shut => ~open /\ held = <<>> /\ (flushed = produced \/ dropped)

\* The second half of con_poll_read moves bytes from the buffer to the task.
LEMMA AnswerMoves ==
  ASSUME NEW c, NEW eof, NEW max \in Nat, NEW h, NEW k, NEW n,
         Laid(held, c, h, k, n), Len(held) < MaxHeld, Answer(c, eof, max)
  PROVE  Laid(held', cur', h, k, n)
<1>1. CASE cur' = c /\ UNCHANGED held
  BY <1>1
<1>2. CASE c.len > 0 /\ max > 0 /\ Take(c, max)
  <2> DEFINE m == IF max < c.len THEN max ELSE c.len
             x == [mem |-> c.mem, off |-> c.off, len |-> m]
             d == [c EXCEPT !.off = @ + m, !.len = @ - m, !.cap = @ - m]
  <2>1. /\ c \in Buffer /\ Layout(held, c.mem, c.off, c.len, c.cap, h, k, n)
        /\ c.off \in Nat /\ c.len \in Nat /\ c.cap \in Nat /\ c.len <= c.cap
    BY DEF Laid, Layout, Apart
  <2>2. m \in 1..c.len
    BY <1>2, <2>1
  <2>3. held' = Append(held, x) /\ cur' = d
    BY <1>2 DEF Take
  <2> HIDE DEF m
  <2>4. Layout(Append(held, x), c.mem, c.off + m, c.len - m, c.cap - m, h, k, n)
    BY <2>1, <2>2, SplitKeeps
  <2>5. d.mem = c.mem /\ d.off = c.off + m /\ d.len = c.len - m /\ d.cap = c.cap - m
    BY <2>1 DEF Buffer
  <2>6. d \in Buffer
    <3>1. c.off + m \in Nat /\ c.len - m \in Nat /\ c.cap - m \in Nat
      BY <2>1, <2>2
    <3> QED
      BY <2>1, <3>1 DEF Buffer
  <2>7. Len(Append(held, x)) <= MaxHeld
    <3>1. held \in Seq(Chunk) /\ Append(held, x) \in Seq(Chunk)
      BY <2>1, <2>4 DEF Layout, Apart
    <3>2. Len(held) \in Nat /\ Len(Append(held, x)) = Len(held) + 1
      <4>1. Len(held) \in Nat
        BY <3>1, LenProperties
      <4> QED
        BY <3>1, <4>1
    <3> QED
      BY <3>2, Constants
  <2> HIDE DEF x, d
  <2> QED
    BY <2>3, <2>4, <2>5, <2>6, <2>7 DEF Laid
<1> QED
  BY <1>1, <1>2 DEF Answer

\* The first half reads what the source gives into the buffer.
LEMMA ReadIntoMoves ==
  ASSUME NEW c, NEW max \in Nat, NEW k, Laid(held, c, heap, k, produced),
         Len(held) < MaxHeld, ReadInto(c, max)
  PROVE  Laid(held', cur', heap', k, produced')
<1>1. ASSUME NEW m \in 1..(c.cap - c.len),
             produced' = produced + m,
             heap' = [heap EXCEPT ![c.mem] = [i \in 0..(Size - 1) |->
                        IF i \in (c.off + c.len)..(c.off + c.len + m - 1)
                        THEN produced + i - (c.off + c.len) + 1 ELSE @[i]]],
             Answer([c EXCEPT !.len = @ + m], "none", max)
      PROVE  Laid(held', cur', heap', k, produced')
  <2> DEFINE d == [c EXCEPT !.len = @ + m]
  <2>1. c \in Buffer /\ Layout(held, c.mem, c.off, c.len, c.cap, heap, k, produced)
    BY DEF Laid
  <2>2. Layout(held, c.mem, c.off, c.len + m, c.cap, heap', k, produced')
    BY <1>1, <2>1, FillKeeps
  <2>3. d \in Buffer
    <3>1. c.len + m \in Nat
      BY <2>1 DEF Buffer
    <3> QED
      BY <2>1, <3>1 DEF Buffer
  <2>4. d.mem = c.mem /\ d.off = c.off /\ d.len = c.len + m /\ d.cap = c.cap
    BY <2>1 DEF Buffer
  <2> HIDE DEF d
  <2>5. Laid(held, d, heap', k, produced')
    BY <2>2, <2>3, <2>4 DEF Laid
  <2>6. Answer(d, "none", max)
    BY <1>1 DEF d
  <2> QED
    BY <2>5, <2>6, AnswerMoves
<1>2. CASE Answer(c, "none", max) /\ UNCHANGED <<heap, produced>>
  BY <1>2, AnswerMoves
<1>3. ASSUME NEW end, Answer(c, Passed(end), max), UNCHANGED <<heap, produced>>
      PROVE  Laid(held', cur', heap', k, produced')
  BY <1>3, AnswerMoves
<1> QED
  BY <1>1, <1>2, <1>3 DEF ReadInto

\* Once the reader is gone and the chunks are written, nothing is left behind,
\* unless the task dropped the reader.
LEMMA Drained ==
  ASSUME StreamInv, PipeInv, held = <<>>, ~open
  PROVE  Len(out) = produced \/ dropped
<1>1. CASE told # "none"
  <2>1. cur.len = 0
    BY <1>1 DEF PipeInv, EndTruthful
  <2>2. PICK p : Chain(p, <<>>, cur.mem, cur.off, cur.len, heap, Len(out), produced)
    BY DEF StreamInv, Laid, Layout
  <2>3. p[1] = Len(out) /\ p[0 + 1] + 0 = produced
    BY <2>1, <2>2 DEF Chain
  <2>4. Len(out) \in Nat
    BY LenProperties DEF StreamInv
  <2> QED
    BY <2>3, <2>4
<1> QED
  BY <1>1 DEF PipeInv, GoneTold

\* A call of con_poll_read.
LEMMA ReadMoves ==
  ASSUME StreamInv, NEW max \in Limits, Read(max)
  PROVE  StreamInv'
<1>1. /\ out' = out /\ shut' = shut /\ flushed' = flushed /\ dropped' = dropped
      /\ Len(held) < MaxHeld /\ max \in Nat
  BY Constants DEF Read, sink
<1>2. /\ Laid(held, cur, heap, Len(out), produced)
      /\ out \in Seq(Nat) /\ out = Run(0, Len(out)) /\ PoolTypes
      /\ shut => ~open /\ held = <<>> /\ (flushed = produced \/ dropped)
  BY DEF StreamInv
<1>3. CASE UNCHANGED <<held, cur, heap, produced, open>> /\ PoolTypes'
  BY <1>1, <1>2, <1>3 DEF StreamInv
<1>4. CASE /\ Laid(held', cur', heap', Len(out), produced')
           /\ open /\ PoolTypes'
  BY <1>1, <1>2, <1>4 DEF StreamInv
<1>5. CASE ReadOver \/ ReadPanics(max) \/ ReadStarved
  <2>1. UNCHANGED <<reader, pool, heap, source, held>>
    BY <1>5 DEF ReadOver, ReadPanics, ReadStarved
  <2>2. PoolTypes'
    BY <1>2, <2>1 DEF PoolTypes, pool
  <2> QED
    BY <1>3, <2>1, <2>2 DEF reader, source
<1>6. CASE ReadNoMemory
  <2>1. UNCHANGED <<reader, heap, source, held>>
    BY <1>6 DEF ReadNoMemory
  <2>2. PoolTypes'
    BY <1>2, <1>6, PoolMoves DEF ReadNoMemory
  <2> QED
    BY <1>3, <2>1, <2>2 DEF reader, source
<1>7. CASE open /\ ReadAugment(max)
  <2>1. Laid(held', cur', heap', Len(out), produced')
    BY <1>1, <1>2, <1>7, ReadIntoMoves DEF ReadAugment
  <2>2. PoolTypes'
    BY <1>2, <1>7 DEF PoolTypes, ReadAugment, pool
  <2> QED
    BY <1>4, <1>7, <2>1, <2>2
<1>8. CASE open /\ ReadRenew(max)
  <2> DEFINE c == [mem |-> NextBuf, off |-> 0, len |-> 0, cap |-> Size]
  <2>1. cur.len = 0 /\ GetBuf /\ ReadInto(c, max)
    BY <1>8 DEF ReadRenew
  <2>2. held \in Seq(Chunk) /\ Len(held) <= MaxHeld
    BY <1>2 DEF Laid, Layout, Apart
  <2>3. NextBuf \in Allocs /\ \A i \in 1..Len(held) : held[i].mem # NextBuf
    BY <1>2, <2>2, NextBufIsFree
  <2>4. PoolTypes'
    BY <1>2, <2>1, <2>3, PoolMoves DEF GetBuf
  <2>5. Layout(held, NextBuf, 0, 0, Size, heap, Len(out), produced)
    BY <1>2, <2>1, <2>3, RenewKeeps DEF Laid
  <2>6. c \in Buffer
    BY <2>3, Constants DEF Buffer
  <2>7. Laid(held, c, heap, Len(out), produced)
    BY <2>2, <2>5, <2>6 DEF Laid
  <2> HIDE DEF c
  <2>8. Laid(held', cur', heap', Len(out), produced')
    BY <1>1, <2>1, <2>7, ReadIntoMoves
  <2> QED
    BY <1>4, <1>8, <2>4, <2>8
<1>9. CASE open /\ ReadBuffered(max)
  <2>1. Answer(cur, gotEof, max) /\ UNCHANGED <<capacity, pool, heap, source>>
    BY <1>9 DEF ReadBuffered
  <2>2. Laid(held', cur', heap', Len(out), produced')
    BY <1>1, <1>2, <2>1, AnswerMoves DEF source
  <2>3. PoolTypes'
    BY <1>2, <2>1 DEF PoolTypes, pool
  <2> QED
    BY <1>4, <1>9, <2>2, <2>3
<1> QED
  BY <1>5, <1>6, <1>7, <1>8, <1>9 DEF Read

\* A call of prod_poll_write: the first bytes of the first chunk go to the sink.
LEMMA WriteMoves ==
  ASSUME StreamInv, NEW m, Write(m)
  PROVE  StreamInv'
<1> DEFINE x == Head(held)
<1>1. /\ held # <<>> /\ m \in 1..x.len
      /\ out' = out \o SubSeq(Content(x), 1, m)
      /\ held' = (IF m = x.len THEN <<>>
                  ELSE <<[x EXCEPT !.off = @ + m, !.len = @ - m]>>) \o Tail(held)
      /\ UNCHANGED <<reader, pool, heap, source, shut, flushed, dropped>>
  BY DEF Write
<1>2. /\ cur \in Buffer
      /\ Layout(held, cur.mem, cur.off, cur.len, cur.cap, heap, Len(out), produced)
      /\ out \in Seq(Nat) /\ out = Run(0, Len(out)) /\ PoolTypes /\ Len(held) <= MaxHeld
      /\ held \in Seq(Chunk)
  BY DEF StreamInv, Laid, Layout, Apart
<1>3. ~shut
  BY <1>1 DEF StreamInv
<1>4. Len(out) \in Nat /\ Len(held) \in Nat
  BY <1>2, LenProperties
<1>5. /\ x \in Chunk
      /\ \A j \in 1..x.len : heap[x.mem][x.off + j - 1] = Len(out) + j
  BY <1>1, <1>2, FirstChunk
<1>6. x.len \in Nat
  BY <1>5 DEF Chunk
<1> HIDE DEF x
<1>7. m \in Nat
  BY <1>1, <1>6
<1>8. SubSeq(Content(x), 1, m) = Run(Len(out), Len(out) + m)
  <2> DEFINE k == Len(out)
             s == SubSeq(Content(x), 1, m)
  <2>1. \A i \in 1..m : i \in 1..x.len
    BY <1>1, <1>6, <1>7
  <2>2. \A i \in 1..x.len : Content(x)[i] = k + i
    BY <1>5 DEF Content
  <2>3. \A i \in 1..m : Content(x)[i] = k + i
    BY <2>1, <2>2
  <2>4. k \in Nat
    BY <1>4
  <2> HIDE DEF k
  <2>5. \A i \in 1..m : Content(x)[i] \in Nat
    BY <1>7, <2>3, <2>4
  <2>6. /\ s \in Seq(Nat) /\ Len(s) = IF 1 <= m THEN m - 1 + 1 ELSE 0
        /\ \A i \in 1..(m - 1 + 1) : s[i] = Content(x)[1 + i - 1]
    BY <1>7, <2>5, SubSeqProperties
  <2> HIDE DEF s
  <2>7. Len(s) = m /\ \A i \in 1..m : s[i] = k + i
    <3>1. m >= 1 /\ m - 1 + 1 = m /\ \A i \in 1..m : 1 + i - 1 = i
      BY <1>1, <1>6
    <3> QED
      BY <2>3, <2>6, <3>1
  <2>8. /\ Run(k, k + m) \in Seq(Nat) /\ Len(Run(k, k + m)) = (k + m) - k
        /\ \A j \in 1..((k + m) - k) : Run(k, k + m)[j] = k + j
    <3>1. k + m \in Nat /\ k <= k + m
      BY <1>7, <2>4
    <3> QED
      BY <2>4, <3>1, RunIsSeq
  <2>9. (k + m) - k = m
    BY <1>7, <2>4
  <2>10. s = Run(k, k + m)
    BY <2>6, <2>7, <2>8, <2>9, SeqEqual
  <2> QED
    BY <2>10 DEF s, k
<1>9. /\ out' = Run(0, Len(out) + m) /\ Len(out') = Len(out) + m /\ out' \in Seq(Nat)
  <2> DEFINE k == Len(out)
  <2>1. k \in Nat
    BY <1>4
  <2>2. out' = Run(0, k) \o Run(k, k + m)
    BY <1>1, <1>2, <1>8
  <2> HIDE DEF k
  <2>3. /\ 0 <= k /\ k <= k + m /\ k + m \in Nat /\ 0 \in Nat /\ 0 <= k + m
        /\ (k + m) - 0 = k + m
    BY <1>7, <2>1
  <2>4. out' = Run(0, k + m)
    BY <2>1, <2>2, <2>3, RunConcat
  <2>5. Run(0, k + m) \in Seq(Nat) /\ Len(Run(0, k + m)) = (k + m) - 0
    BY <2>3, RunIsSeq
  <2> QED
    BY <2>3, <2>4, <2>5 DEF k
<1>10. /\ Layout(held', cur.mem, cur.off, cur.len, cur.cap, heap, Len(out) + m, produced)
       /\ Len(held') <= MaxHeld
  <2>0. /\ Tail(held) \in Seq(Chunk) /\ Len(Tail(held)) = Len(held) - 1
    BY <1>1, <1>2, HeadTailProperties
  <2>1. CASE m = x.len
    <3>1. held' = Tail(held)
      BY <1>1, <2>0, <2>1, ConcatEmptySeq
    <3>2. Layout(Tail(held), cur.mem, cur.off, cur.len, cur.cap, heap, Len(out) + x.len,
                 produced)
      BY <1>1, <1>2, DropKeeps DEF x
    <3>3. Len(Tail(held)) <= MaxHeld
      BY <1>2, <1>4, <2>0, Constants
    <3> QED
      BY <2>1, <3>1, <3>2, <3>3
  <2>2. CASE m # x.len
    <3> DEFINE y == [x EXCEPT !.off = @ + m, !.len = @ - m]
    <3>1. held' = <<y>> \o Tail(held)
      BY <1>1, <2>2
    <3>2. Layout(<<y>> \o Tail(held), cur.mem, cur.off, cur.len, cur.cap, heap,
                 Len(out) + m, produced)
      BY <1>1, <1>2, TrimKeeps DEF x
    <3>3. y = [mem |-> x.mem, off |-> x.off + m, len |-> x.len - m]
      BY <1>5, Trimmed
    <3>4. y \in Chunk
      <4>1. x.off + m \in Nat /\ x.len - m \in Nat /\ x.mem \in Allocs
        BY <1>1, <1>5, <1>6, <1>7 DEF Chunk
      <4> QED
        BY <3>3, <4>1 DEF Chunk
    <3> HIDE DEF y
    <3>5. <<y>> \in Seq(Chunk) /\ Len(<<y>>) = 1
      BY <3>4
    <3>6. Len(<<y>> \o Tail(held)) = Len(<<y>>) + Len(Tail(held))
      BY <2>0, <3>5, ConcatProperties
    <3>7. Len(<<y>> \o Tail(held)) <= MaxHeld
      BY <1>2, <1>4, <2>0, <3>5, <3>6, Constants
    <3> QED
      BY <3>1, <3>2, <3>7
  <2> QED
    BY <2>1, <2>2
<1>11. UNCHANGED <<cur, heap, produced, bufs, nextIdx, shut>>
  BY <1>1 DEF reader, pool, source
<1>12. PoolTypes'
  BY <1>2, <1>11 DEF PoolTypes
<1>13. Laid(held', cur', heap', Len(out'), produced')
  BY <1>2, <1>9, <1>10, <1>11 DEF Laid
<1> QED
  BY <1>3, <1>9, <1>11, <1>12, <1>13 DEF StreamInv

\* Every call keeps the invariant.
LEMMA StreamStep ==
  ASSUME StreamInv, PipeInv, [Next]_vars
  PROVE  StreamInv'
<1>1. ASSUME NEW max \in Limits, Read(max)
      PROVE  StreamInv'
  BY <1>1, ReadMoves
<1>2. ASSUME NEW n \in 1..Size, Write(n)
      PROVE  StreamInv'
  BY <1>2, WriteMoves
<1>3. CASE DropRead \/ SourceWakes \/ UNCHANGED vars
  <2>1. /\ UNCHANGED <<held, cur, heap, out, produced, bufs, nextIdx, shut, flushed>>
        /\ ~open => ~open'
        /\ dropped => dropped'
    BY <1>3 DEF DropRead, SourceWakes, vars, reader, pool, source, sink, task
  <2> QED
    BY <2>1 DEF StreamInv, PoolTypes
<1>4. CASE Flush \/ Close
  <2>1. /\ UNCHANGED <<held, cur, heap, out, produced, bufs, nextIdx, open, dropped>>
        /\ held = <<>> /\ flushed' = Len(out) /\ (shut' => ~open)
    BY <1>4 DEF Flush, Close, reader, pool, source, task, StreamInv
  <2>2. shut' => Len(out) = produced \/ dropped
    BY <2>1, Drained
  <2> QED
    BY <2>1, <2>2 DEF StreamInv, PoolTypes
<1> QED
  BY <1>1, <1>2, <1>3, <1>4 DEF Next

\* At first there is nothing anywhere.
LEMMA StreamInit == Init => StreamInv
<1> SUFFICES ASSUME Init PROVE StreamInv
  OBVIOUS
<1>1. /\ held = <<>> /\ out = <<>> /\ produced = 0 /\ ~shut
      /\ cur = [mem |-> NoAlloc, off |-> 0, len |-> 0, cap |-> 0]
      /\ heap = [a \in Allocs |-> [i \in 0..(Size - 1) |-> 0]]
  BY DEF Init
<1>2. heap \in [Allocs -> Memory]
  BY <1>1 DEF Memory
<1>3. Apart(<<>>, NoAlloc, 0, 0, 0)
  BY Constants, EmptySeq DEF Apart
<1>4. Chain([i \in 1..1 |-> 0], <<>>, NoAlloc, 0, 0, heap, 0, 0)
  BY DEF Chain
<1>5. Layout(<<>>, NoAlloc, 0, 0, 0, heap, 0, 0)
  BY <1>2, <1>3, <1>4 DEF Layout
<1>6. PoolTypes
  BY Constants DEF Init, PoolTypes
<1>7. cur \in Buffer /\ cur.mem = NoAlloc /\ cur.off = 0 /\ cur.len = 0 /\ cur.cap = 0
  BY <1>1 DEF Buffer
<1>8. Laid(held, cur, heap, Len(out), produced)
  BY <1>1, <1>5, <1>7, Constants DEF Laid
<1>9. out = Run(0, Len(out)) /\ out \in Seq(Nat)
  BY <1>1 DEF Run
<1> QED
  BY <1>1, <1>6, <1>8, <1>9 DEF StreamInv

\* The invariant says where every byte of the source is.
LEMMA StreamLost ==
  ASSUME StreamInv PROVE NothingLost
<1>1. /\ Layout(held, cur.mem, cur.off, cur.len, cur.cap, heap, Len(out), produced)
      /\ out = Run(0, Len(out))
  BY DEF StreamInv, Laid
<1>2. Run(0, Len(out))
        \o FlattenSeq([i \in DOMAIN held |->
             Bytes(heap, held[i].mem, held[i].off, held[i].len)])
        \o Bytes(heap, cur.mem, cur.off, cur.len) = Run(0, produced)
  <2> DEFINE a == cur.mem
             o == cur.off
             l == cur.len
             k == Len(out)
  <2>1. Layout(held, a, o, l, cur.cap, heap, k, produced)
    BY <1>1
  <2> HIDE DEF a, o, l, k
  <2>2. Run(0, k)
          \o FlattenSeq([i \in DOMAIN held |->
               Bytes(heap, held[i].mem, held[i].off, held[i].len)])
          \o Bytes(heap, a, o, l) = Run(0, produced)
    BY <2>1, LayoutContents, Zenon
  <2> QED
    BY <2>2 DEF a, o, l, k
<1>3. Content(cur) = Bytes(heap, cur.mem, cur.off, cur.len)
  BY DEF Content, Bytes
<1>4. [i \in DOMAIN held |-> Content(held[i])]
        = [i \in DOMAIN held |-> Bytes(heap, held[i].mem, held[i].off, held[i].len)]
  BY DEF Content, Bytes
<1>5. Run(0, produced) = [i \in 1..produced |-> i]
  <2>1. produced \in Nat /\ produced - 0 = produced
    BY <1>1 DEF Layout
  <2> QED
    BY <2>1 DEF Run
<1>6. shut => flushed = produced \/ dropped
  BY DEF StreamInv
<1> QED
  BY <1>1, <1>2, <1>3, <1>4, <1>5, <1>6 DEF NothingLost

(***************************************************************************)
(* What the sink got, what the task holds and what is buffered are the     *)
(* bytes of the source, in order: recycling a buffer, filling, splitting   *)
(* and partly writing it loses none of them and overwrites none.  A task   *)
(* that closes the sink at the end has sent on all of them.                *)
(***************************************************************************)
THEOREM StreamIsWhole == Spec => []NothingLost
<1>1. Init => StreamInv
  BY StreamInit
<1>2. PipeInv /\ StreamInv /\ [Next]_vars => StreamInv'
  BY StreamStep
<1>3. StreamInv => NothingLost
  BY StreamLost
<1> QED
  BY <1>1, <1>2, <1>3, Invariant, PTL DEF Spec

(***************************************************************************)
(* con_poll_read answers every limit that, added to half the size of a     *)
(* buffer, is still a usize, and any limit in a build that does not check  *)
(* for overflow.                                                           *)
(***************************************************************************)
THEOREM SmallLimitsAnswered ==
  ASSUME OverflowChecks => \A max \in Limits : Size \div 2 + max <= MaxUsize
  PROVE  Spec => []AnyLimitAnswered
<1> DEFINE Inv == capacity \in {0, Size} /\ AnyLimitAnswered
<1>1. Init => Inv
  BY DEF Init, AnyLimitAnswered
<1>2. Inv /\ [Next]_vars => Inv'
  <2> SUFFICES ASSUME Inv, [Next]_vars PROVE Inv'
    OBVIOUS
  <2>1. ASSUME NEW max \in Limits, Read(max) PROVE Inv'
    <3>1. CASE open /\ OverflowChecks /\ ReadPanics(max)
      <4>1. Half \in Nat /\ Half <= Size \div 2 /\ max \in Nat /\ MaxUsize \in Nat
        BY PipeAssumption, Constants DEF Half
      <4>2. Half + max > MaxUsize /\ Size \div 2 + max <= MaxUsize
        BY <3>1 DEF ReadPanics, Overflows
      <4>3. Size \div 2 \in Nat
        BY Constants
      <4> QED
        BY <4>1, <4>2, <4>3
    <3>2. CASE ReadOver \/ ReadStarved \/ ReadNoMemory
      BY <3>2 DEF ReadOver, ReadStarved, ReadNoMemory, reader, AnyLimitAnswered
    <3>3. ASSUME NEW c, NEW eof, Answer(c, eof, max), capacity' \in {0, Size}
          PROVE  Inv'
      BY <3>3 DEF Answer, AnswerEmpty, Take, AnyLimitAnswered
    <3>4. CASE ReadAugment(max) \/ ReadRenew(max) \/ ReadBuffered(max)
      BY <3>3, <3>4 DEF ReadAugment, ReadRenew, ReadBuffered, ReadInto
    <3> QED
      BY <2>1, <3>1, <3>2, <3>4 DEF Read
  <2>2. CASE DropRead \/ SourceWakes \/ Flush \/ Close \/ (\E n \in 1..Size : Write(n))
             \/ UNCHANGED vars
    <3>1. capacity' = capacity /\ last' \in {last, "none"}
      BY <2>2 DEF DropRead, SourceWakes, Flush, Close, Write, vars, reader, task
    <3> QED
      BY <3>1 DEF AnyLimitAnswered
  <2> QED
    BY <2>1, <2>2 DEF Next
<1> QED
  BY <1>1, <1>2, PTL DEF Spec
=============================================================================
