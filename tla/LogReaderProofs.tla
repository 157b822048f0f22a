---------------------------- MODULE LogReaderProofs ----------------------------
(***************************************************************************)
(* Theorems about log2bag, for logs of any length and entries of any size. *)
(***************************************************************************)
EXTENDS LogReader, SequenceInduction, FiniteSetTheorems

-----------------------------------------------------------------------------
(***************************************************************************)
(* Where the entries are among the chunks of a log.                        *)
(***************************************************************************)
HeaderChunk(i, e) == [kind |-> "header", entry |-> i, header |-> e]

\* The chunks of a log that is whole.
LogChunks(es) == [kind : {"header", "payload"}, entry : DOMAIN es, header : Entries]

\* An entry is its header and as many chunks as its size says.
LEMMA ChunkProperties ==
  ASSUME NEW es \in Seq(Entries), NEW i \in 1 .. Len(es)
  PROVE  /\ es[i].size \in Nat
         /\ Chunk(i, es[i]) \in Seq(LogChunks(es))
         /\ Len(Chunk(i, es[i])) = 1 + es[i].size
         /\ Chunk(i, es[i])[1] = HeaderChunk(i, es[i])
         /\ \A j \in 1 .. 1 + es[i].size : Chunk(i, es[i])[j].entry = i
<1> DEFINE e == es[i]
           first == HeaderChunk(i, e)
           other == [kind |-> "payload", entry |-> i, header |-> e]
           rest == [j \in 1 .. e.size |-> other]
<1>1. e \in Entries /\ e.size \in Nat /\ i \in DOMAIN es
  BY LogAssumption DEF Entries, Headers
<1>2. first \in LogChunks(es) /\ other \in LogChunks(es)
  BY <1>1 DEF LogChunks, HeaderChunk
<1>3. <<first>> \in Seq(LogChunks(es)) /\ Len(<<first>>) = 1 /\ <<first>>[1] = first
  BY <1>2
<1>4. first.entry = i /\ other.entry = i
  BY DEF HeaderChunk
<1>5. Chunk(i, e) = <<first>> \o rest
  BY DEF Chunk, HeaderChunk
<1> HIDE DEF e, first, other
<1>6. rest \in Seq(LogChunks(es)) /\ Len(rest) = e.size /\ \A j \in 1 .. e.size : rest[j] = other
  BY <1>1, <1>2
<1> HIDE DEF rest
<1>7. /\ <<first>> \o rest \in Seq(LogChunks(es))
      /\ Len(<<first>> \o rest) = 1 + e.size
      /\ (<<first>> \o rest)[1] = first
      /\ \A j \in 1 .. e.size : (<<first>> \o rest)[1 + j] = other
  BY <1>1, <1>3, <1>6, Concatenation
<1>8. ASSUME NEW j \in 1 .. 1 + e.size PROVE (<<first>> \o rest)[j].entry = i
  <2>1. CASE j = 1
    BY <1>4, <1>7, <2>1
  <2>2. CASE j # 1
    <3>1. j - 1 \in 1 .. e.size /\ 1 + (j - 1) = j
      BY <1>1, <2>2
    <3> QED BY <1>4, <1>7, <3>1
  <2> QED BY <2>1, <2>2
<1> QED BY <1>1, <1>5, <1>7, <1>8 DEF e, first

\* start[i] chunks are before entry i, and chunk j is of one of the first k entries just
\* if it is before the start of the next.
Offsets(es, start) ==
  /\ start \in [1 .. Len(es) + 1 -> Nat]
  /\ start[1] = 0
  /\ \A i \in 1 .. Len(es) : start[i + 1] = start[i] + (1 + es[i].size)
  /\ \A i, k \in 1 .. Len(es) + 1 : i <= k => start[i] <= start[k]

Layout(es, start) ==
  /\ Offsets(es, start)
  /\ Chunks(es) \in Seq(LogChunks(es))
  /\ Len(Chunks(es)) = start[Len(es) + 1]
  /\ \A i \in 1 .. Len(es) : Chunks(es)[start[i] + 1] = HeaderChunk(i, es[i])
  /\ \A j \in 1 .. Len(Chunks(es)), k \in 0 .. Len(es) :
       Chunks(es)[j].entry <= k <=> j <= start[k + 1]

\* A chunk of an entry is behind the start of it and before that of the next.
LEMMA WithinEntry ==
  ASSUME NEW first \in Nat, NEW size \in Nat, NEW next, next = first + (1 + size),
         NEW j \in Nat, j - first \in 1 .. 1 + size
  PROVE  first < j /\ j <= next /\ first + (j - first) = j
OBVIOUS

\* If chunk j is of entry i, it is before the end of the first k entries just if i is
\* one of them.
LEMMA SideOfEntry ==
  ASSUME NEW i \in Nat, NEW k \in Nat, NEW j \in Nat,
         NEW first \in Nat, NEW next \in Nat, NEW end \in Nat, first < j, j <= next,
         i <= k => next <= end, ~ (i <= k) => end <= first
  PROVE  i <= k <=> j <= end
OBVIOUS

LEMMA ChunksLayout ==
  ASSUME NEW es \in Seq(Entries)
  PROVE  \E start : Layout(es, start)
<1> DEFINE seqs == [i \in DOMAIN es |-> Chunk(i, es[i])]
           S == LogChunks(es)
<1>1. PICK n \in Nat : n = Len(es) /\ DOMAIN es = 1 .. n
  OBVIOUS
<1>2. \A i \in 1 .. n : /\ es[i].size \in Nat
                        /\ Chunk(i, es[i]) \in Seq(S)
                        /\ Len(Chunk(i, es[i])) = 1 + es[i].size
                        /\ Chunk(i, es[i])[1] = HeaderChunk(i, es[i])
                        /\ \A j \in 1 .. 1 + es[i].size : Chunk(i, es[i])[j].entry = i
  BY <1>1, ChunkProperties
<1>3. /\ seqs \in Seq(Seq(S)) /\ Len(seqs) = n
      /\ \A i \in 1 .. n : seqs[i] = Chunk(i, es[i])
  BY <1>1, <1>2
<1>4. Chunks(es) = FlattenSeq(seqs)
  BY DEF Chunks
<1> HIDE DEF seqs, S
<1>5. PICK start : /\ Starts(seqs, start)
                   /\ Chunks(es) \in Seq(S)
                   /\ Len(Chunks(es)) = start[n + 1]
                   /\ HoldsFirst(seqs, start, n, Chunks(es))
  BY <1>3, <1>4, FlattenLayout
<1>6. start \in [1 .. n + 1 -> Nat] /\ start[1] = 0
  BY <1>3, <1>5 DEF Starts
<1>7. \A i, k \in 1 .. n + 1 : i <= k => start[i] <= start[k]
  BY <1>3, <1>5, StartsAscend
<1>8. ASSUME NEW i \in 1 .. n PROVE start[i + 1] = start[i] + (1 + es[i].size)
  <2>1. start[i + 1] = start[i] + Len(seqs[i])
    BY <1>3, <1>5 DEF Starts
  <2>2. Len(seqs[i]) = 1 + es[i].size
    BY <1>2, <1>3
  <2> QED BY <2>1, <2>2
<1>9. ASSUME NEW i \in 1 .. n PROVE Chunks(es)[start[i] + 1] = HeaderChunk(i, es[i])
  <2>1. es[i].size \in Nat /\ Len(seqs[i]) = 1 + es[i].size
    BY <1>2, <1>3
  <2>2. 1 \in 1 .. Len(seqs[i])
    BY <2>1
  <2>3. seqs[i][1] = HeaderChunk(i, es[i])
    BY <1>2, <1>3
  <2> QED BY <1>5, <2>2, <2>3 DEF HoldsFirst
<1>10. ASSUME NEW j \in 1 .. Len(Chunks(es)), NEW k \in 0 .. n
       PROVE  Chunks(es)[j].entry <= k <=> j <= start[k + 1]
  <2>1. PICK i \in 1 .. n : j - start[i] \in 1 .. Len(seqs[i])
    BY <1>5 DEF HoldsFirst
  <2> DEFINE d == j - start[i]
  <2>2. /\ d \in 1 .. 1 + es[i].size /\ start[i] + d = j
        /\ start[i] \in Nat /\ j \in Nat
        /\ start[i] < j /\ j <= start[i + 1]
    <3>1. d \in 1 .. 1 + es[i].size /\ es[i].size \in Nat
      BY <1>2, <1>3, <2>1
    <3>2. start[i] \in Nat
      BY <1>6
    <3>3. j \in Nat
      BY <1>5
    <3> QED BY <1>8, <3>1, <3>2, <3>3, WithinEntry
  <2>3. Chunks(es)[j] = Chunk(i, es[i])[d]
    <3>1. d \in 1 .. Len(seqs[i])
      BY <2>1
    <3>2. Chunks(es)[start[i] + d] = seqs[i][d]
      BY <1>5, <3>1 DEF HoldsFirst
    <3> QED BY <1>3, <2>2, <3>2
  <2>4. Chunks(es)[j].entry = i
    BY <1>2, <2>2, <2>3
  <2>5. i <= k => start[i + 1] <= start[k + 1]
    BY <1>7
  <2>6. ~ (i <= k) => start[k + 1] <= start[i]
    BY <1>7
  <2>7. start[i + 1] \in Nat /\ start[k + 1] \in Nat
    BY <1>6
  <2>8. i \in Nat /\ k \in Nat
    OBVIOUS
  <2>9. i <= k <=> j <= start[k + 1]
    <3> DEFINE first == start[i]
               next == start[i + 1]
               end == start[k + 1]
    <3>1. /\ first \in Nat /\ next \in Nat /\ end \in Nat
          /\ j \in Nat /\ first < j /\ j <= next
      BY <2>2, <2>7
    <3>2. (i <= k => next <= end) /\ (~ (i <= k) => end <= first)
      BY <2>5, <2>6
    <3> HIDE DEF first, next, end
    <3>3. i <= k <=> j <= end
      BY <2>8, <3>1, <3>2, SideOfEntry
    <3> QED BY <3>3 DEF end
  <2> QED BY <2>4, <2>9
<1>11. Layout(es, start)
  BY <1>1, <1>5, <1>6, <1>7, <1>8, <1>9, <1>10 DEF Layout, Offsets, S
<1> QED BY <1>11

LEMMA Regrouped ==
  ASSUME NEW a \in Nat, NEW b \in Nat
  PROVE  a + (1 + b) = a + 1 + b
OBVIOUS

\* Where the entry after entry i starts.
LEMMA NextStart ==
  ASSUME NEW es \in Seq(Entries), NEW start, Offsets(es, start), NEW i \in 1 .. Len(es)
  PROVE  /\ es[i].size \in Nat /\ start[i] \in Nat /\ start[i + 1] \in Nat
         /\ start[i + 1] = start[i] + 1 + es[i].size
<1>1. es[i].size \in Nat
  BY ChunkProperties
<1>2. i \in 1 .. Len(es) + 1 /\ i + 1 \in 1 .. Len(es) + 1
  OBVIOUS
<1>3. start[i] \in Nat /\ start[i + 1] \in Nat
  BY <1>2 DEF Offsets
<1>4. start[i + 1] = start[i] + (1 + es[i].size)
  BY DEF Offsets
<1> QED BY <1>1, <1>3, <1>4, Regrouped

\* The reader stands behind k entries just if it is at the start of the next.
LEMMA BehindIsAtStart ==
  ASSUME NEW es \in Seq(Entries), NEW start, Layout(es, start),
         NEW p \in 0 .. Len(Chunks(es)), NEW k \in 0 .. Len(es)
  PROVE  (\A j \in DOMAIN Chunks(es) : Chunks(es)[j].entry <= k <=> j <= p)
           <=> p = start[k + 1]
<1>1. PICK n \in Nat : n = Len(Chunks(es)) /\ DOMAIN Chunks(es) = 1 .. n
  BY DEF Layout
<1>2. \A j \in 1 .. n : Chunks(es)[j].entry <= k <=> j <= start[k + 1]
  BY <1>1 DEF Layout
<1>3. start[k + 1] \in Nat /\ start[k + 1] <= n
  <2>1. k + 1 \in 1 .. Len(es) + 1 /\ Len(es) + 1 \in 1 .. Len(es) + 1
    OBVIOUS
  <2>2. Offsets(es, start) /\ n = start[Len(es) + 1]
    BY <1>1 DEF Layout
  <2>3. start[k + 1] \in Nat
    BY <2>1, <2>2 DEF Offsets
  <2>4. k + 1 <= Len(es) + 1
    OBVIOUS
  <2>5. start[k + 1] <= start[Len(es) + 1]
    BY <2>1, <2>2, <2>4 DEF Offsets
  <2> QED BY <2>2, <2>3, <2>5
<1>4. ASSUME \A j \in 1 .. n : Chunks(es)[j].entry <= k <=> j <= p, p # start[k + 1]
      PROVE  FALSE
  <2>1. \A j \in 1 .. n : j <= p <=> j <= start[k + 1]
    BY <1>2, <1>4
  <2>2. CASE p < start[k + 1]
    <3>1. p + 1 \in 1 .. n /\ p + 1 <= start[k + 1] /\ ~ (p + 1 <= p)
      BY <1>1, <1>3, <2>2
    <3> QED BY <2>1, <3>1
  <2>3. CASE start[k + 1] < p
    <3>1. p \in 1 .. n /\ p <= p /\ ~ (p <= start[k + 1])
      BY <1>1, <1>3, <2>3
    <3> QED BY <2>1, <3>1
  <2> QED BY <1>1, <1>3, <1>4, <2>2, <2>3
<1> QED BY <1>1, <1>2, <1>4

-----------------------------------------------------------------------------
(***************************************************************************)
(* A file that holds the beginning of a log.                               *)
(***************************************************************************)
\* Its whole chunks are all of its chunks, or all but the last.
LEMMA WholeBounds ==
  ASSUME NEW es, NEW f \in Seq(FileChunks(es))
  PROVE  /\ Whole(f) \in 0 .. Len(f)
         /\ \A j \in 1 .. Len(f) : j > Whole(f) => f[j].kind = "part"
BY DEF Whole

\* No chunk of a whole log is a part, and each is of one of its entries.
LEMMA LogChunk ==
  ASSUME NEW es \in Seq(Entries), NEW c \in Seq(LogChunks(es)), NEW j \in 1 .. Len(c)
  PROVE  c[j].kind # "part" /\ c[j].entry \in 1 .. Len(es)
<1>1. c[j] \in LogChunks(es) /\ DOMAIN es = 1 .. Len(es)
  OBVIOUS
<1> QED BY <1>1 DEF LogChunks

\* What is logged, in full, is a beginning of itself.
LEMMA LogIsBeginning ==
  ASSUME NEW es \in Seq(Entries)
  PROVE  /\ Chunks(es) \in Seq(FileChunks(es))
         /\ Whole(Chunks(es)) = Len(Chunks(es))
         /\ IsBeginning(Chunks(es), Chunks(es))
<1>1. Chunks(es) \in Seq(LogChunks(es))
  BY ChunksLayout DEF Layout
<1>2. LogChunks(es) \subseteq FileChunks(es)
  BY DEF LogChunks, FileChunks
<1>3. \A j \in 1 .. Len(Chunks(es)) : Chunks(es)[j].kind # "part"
  BY <1>1, LogChunk
<1> DEFINE c == Chunks(es)
<1> HIDE DEF c
<1>4. c \in Seq(FileChunks(es))
  BY <1>1, <1>2 DEF c
<1>5. Whole(c) = Len(c)
  BY <1>3, <1>4 DEF Whole, c
<1> QED BY <1>4, <1>5 DEF IsBeginning, c

\* A file that was cut anywhere is one.
LEMMA CutIsBeginning ==
  ASSUME NEW es \in Seq(Entries), NEW n \in 0 .. Len(Chunks(es)), NEW part \in BOOLEAN
  PROVE  /\ CutAt(Chunks(es), n, part) \in Seq(FileChunks(es))
         /\ IsBeginning(CutAt(Chunks(es), n, part), Chunks(es))
<1> DEFINE c == Chunks(es)
           S == FileChunks(es)
           s == SubSeq(c, 1, n)
           last == [c[n + 1] EXCEPT !.kind = "part"]
<1>1. c \in Seq(S) /\ Len(c) \in Nat /\ \A j \in 1 .. Len(c) : c[j].kind # "part"
  <2>1. c \in Seq(S)
    BY LogIsBeginning
  <2>2. c \in Seq(LogChunks(es))
    BY ChunksLayout DEF Layout
  <2> HIDE DEF c
  <2> QED BY <2>1, <2>2, LogChunk
<1>2. n \in 0 .. Len(c)
  OBVIOUS
<1> HIDE DEF c
<1>3. s \in Seq(S) /\ Len(s) = n /\ \A j \in 1 .. n : s[j] = c[j]
  BY <1>1, <1>2
<1>4. n < Len(c) => last \in S /\ last.kind = "part"
  <2> SUFFICES ASSUME n < Len(c) PROVE last \in S /\ last.kind = "part"
    OBVIOUS
  <2>1. c[n + 1] \in S
    BY <1>1, <1>2
  <2> QED BY <2>1 DEF FileChunks
<1> HIDE DEF s, last
<1>5. CASE part /\ n < Len(c)
  <2> DEFINE f == Append(s, last)
  <2>1. CutAt(c, n, part) = f
    BY <1>5 DEF CutAt, s, last
  <2>2. f \in Seq(S) /\ Len(f) = n + 1 /\ f[n + 1].kind = "part" /\ \A j \in 1 .. n : f[j] = c[j]
    BY <1>2, <1>3, <1>4, <1>5
  <2> HIDE DEF f
  <2>3. Whole(f) = n
    BY <1>2, <2>2 DEF Whole
  <2>4. IsBeginning(f, c)
    BY <1>1, <1>2, <1>5, <2>2, <2>3 DEF IsBeginning
  <2> QED BY <2>1, <2>2, <2>4 DEF c
<1>6. CASE ~ (part /\ n < Len(c))
  <2>1. CutAt(c, n, part) = s
    BY <1>6 DEF CutAt, s
  <2>2. Whole(s) \in 0 .. n
    BY <1>2, <1>3, WholeBounds
  <2>3. IsBeginning(s, c)
    BY <1>1, <1>2, <1>3, <2>2 DEF IsBeginning
  <2> QED BY <1>3, <2>1, <2>3 DEF c
<1> QED BY <1>5, <1>6

\* An entry is in the file just if the next one starts within its whole chunks.
LEMMA KeptEntries ==
  ASSUME NEW es \in Seq(Entries), NEW start, Layout(es, start),
         NEW f \in Seq(FileChunks(es)), IsBeginning(f, Chunks(es)),
         NEW i \in 1 .. Len(es)
  PROVE  Cardinality({j \in DOMAIN f : f[j].entry = i /\ f[j].kind # "part"})
           = 1 + es[i].size <=> start[i + 1] <= Whole(f)
<1> DEFINE mine == {j \in DOMAIN f : f[j].entry = i /\ f[j].kind # "part"}
           a == start[i]
           b == start[i + 1]
           w == Whole(f)
           size == es[i].size
           c == Chunks(es)
<1>1. size \in Nat
  BY ChunkProperties
<1>2. a \in Nat /\ b \in Nat /\ b = a + 1 + size
  BY NextStart DEF Layout
<1>3. w \in 0 .. Len(f) /\ \A j \in 1 .. Len(f) : j > w => f[j].kind = "part"
  BY WholeBounds
<1>4. DOMAIN f = 1 .. Len(f) /\ Len(f) \in Nat /\ Len(f) <= Len(c)
  BY DEF IsBeginning
<1>5. \A j \in 1 .. w : f[j] = c[j] /\ j \in 1 .. Len(c)
  BY <1>3, <1>4 DEF IsBeginning, Layout
<1>6. \A j \in 1 .. Len(c) : /\ c[j].kind # "part"
                             /\ c[j].entry \in Nat
                             /\ c[j].entry <= i <=> j <= b
                             /\ c[j].entry <= i - 1 <=> j <= a
  <2>1. i \in 0 .. Len(es) /\ i - 1 \in 0 .. Len(es) /\ (i - 1) + 1 = i
    OBVIOUS
  <2>2. c \in Seq(LogChunks(es))
    BY DEF Layout
  <2>4. \A j \in 1 .. Len(c) : c[j].kind # "part" /\ c[j].entry \in 1 .. Len(es)
    BY <2>2, LogChunk
  <2>3. \A j \in 1 .. Len(c) : (c[j].entry <= i <=> j <= b) /\ (c[j].entry <= i - 1 <=> j <= a)
    BY <2>1 DEF Layout
  <2> HIDE DEF a, b, c
  <2> QED BY <2>3, <2>4
<1> HIDE DEF a, b, c, w, size
<1>7. \A j \in 1 .. Len(f) : j \in mine <=> j <= w /\ a < j /\ j <= b
  <2> SUFFICES ASSUME NEW j \in 1 .. Len(f) PROVE j \in mine <=> j <= w /\ a < j /\ j <= b
    OBVIOUS
  <2>1. CASE j <= w
    <3>1. j \in 1 .. w
      BY <1>3, <2>1
    <3>2. f[j] = c[j] /\ j \in 1 .. Len(c)
      BY <1>5, <3>1
    <3>3. /\ f[j].kind # "part" /\ f[j].entry \in Nat
          /\ f[j].entry <= i <=> j <= b
          /\ f[j].entry <= i - 1 <=> j <= a
      BY <1>6, <3>2
    <3>4. f[j].entry = i <=> a < j /\ j <= b
      BY <1>2, <3>3
    <3> QED BY <1>4, <2>1, <3>3, <3>4
  <2>2. CASE ~ (j <= w)
    BY <1>3, <2>2
  <2> QED BY <2>1, <2>2
<1> DEFINE top == IF b <= w THEN b ELSE w
<1>8. mine = a + 1 .. top
  <2>1. top \in Int
    BY <1>2, <1>3
  <2>2. \A j : j \in mine => j \in 1 .. Len(f)
    BY <1>4
  <2>3. \A j : j \in a + 1 .. top => j \in 1 .. Len(f) /\ j <= w /\ a < j /\ j <= b
    BY <1>2, <1>3
  <2>4. \A j \in 1 .. Len(f) : j <= w /\ a < j /\ j <= b => j \in a + 1 .. top
    BY <1>2, <1>3
  <2> HIDE DEF mine, top
  <2> QED BY <1>7, <2>2, <2>3, <2>4
<1>9. Cardinality(a + 1 .. top) = IF a + 1 > top THEN 0 ELSE top - (a + 1) + 1
  <2>1. a + 1 \in Int /\ top \in Int
    BY <1>2, <1>3
  <2> HIDE DEF top
  <2> QED BY <2>1, FS_Interval
<1> HIDE DEF mine
<1>10. Cardinality(mine) = 1 + size <=> b <= w
  BY <1>1, <1>2, <1>3, <1>8, <1>9
<1> QED BY <1>10 DEF mine, b, w, size

-----------------------------------------------------------------------------
(***************************************************************************)
(* The reader stays in the file.                                           *)
(***************************************************************************)
\* The bar is full when all of the size has been read, and never fuller.
LEMMA BarFits ==
  ASSUME NEW read \in Nat, NEW size \in Nat \ {0}, read <= size
  PROVE  (((read * 100) \div size) * 20) \div 100 <= 20
<1> DEFINE q == (read * 100) \div size
<1>1. q \in Int /\ q * size <= read * 100
  OBVIOUS
<1> HIDE DEF q
<1>2. read * 100 <= 100 * size
  OBVIOUS
<1>3. q <= 100
  <2> SUFFICES ASSUME 101 <= q PROVE FALSE
    BY <1>1
  <2>1. 101 * size <= q * size
    BY <1>1
  <2> QED BY <1>1, <1>2, <2>1
<1>4. (q * 20) \div 100 <= 20
  BY <1>1, <1>3
<1> QED BY <1>4 DEF q

StateInv == TypeOK /\ FileInv /\ ReaderInv /\ BarEnds

LEMMA InitState == Init => StateInv
<1> SUFFICES ASSUME Init PROVE StateInv
  OBVIOUS
<1>1. entries \in Seq(Entries)
  <2>1. CASE header = "log"
    <3>1. entries \in UNION {[1 .. m -> Entries] : m \in 0 .. MaxEntries}
      BY <2>1 DEF Init, BoundedSeq, SeqOf
    <3>2. PICK m \in 0 .. MaxEntries : entries \in [1 .. m -> Entries]
      BY <3>1
    <3>3. m \in Nat
      BY LogAssumption
    <3> QED BY <3>2, <3>3
  <2>2. CASE header # "log"
    <3>1. entries = <<>>
      BY <2>2 DEF Init
    <3> QED BY <3>1
  <2> QED BY <2>1, <2>2
<1>2. file \in Seq(FileChunks(entries)) /\ IsBeginning(file, Chunks(entries))
  <2>1. CASE header = "log"
    BY <1>1, <2>1, CutIsBeginning DEF Init
  <2>2. CASE header # "log"
    <3>1. entries = <<>> /\ file = <<>>
      BY <2>2 DEF Init
    <3>2. Chunks(entries) \in Seq(FileChunks(entries))
      BY <1>1, LogIsBeginning
    <3>3. Whole(<<>>) = 0 /\ Len(<<>>) = 0 /\ <<>> \in Seq(FileChunks(entries))
      BY DEF Whole
    <3> QED BY <3>1, <3>2, <3>3 DEF IsBeginning
  <2> QED BY <2>1, <2>2
<1>3. Whole(file) \in Nat /\ Len(file) \in Nat
  BY <1>2, WholeBounds
<1>4. log_file_size \in Nat /\ log_file_size > 0 /\ log_file_size = SizeOf(file)
  BY <1>3 DEF Init, SizeOf
<1>5. TypeOK
  <2>1. counts \in [Types -> Nat]
    BY DEF Init
  <2>2. written \in Seq(0 .. Len(entries)) /\ pos \in 0 .. Len(file)
    BY <1>3 DEF Init
  <2>3. header \in {"absent", "short", "other", "log"} /\ bag \in {"none", "new", "old"}
    BY DEF Init
  <2>4. grown \in BOOLEAN /\ eof \in BOOLEAN /\ bad \in BOOLEAN /\ status = "starting"
    BY DEF Init
  <2> QED BY <1>1, <1>2, <1>4, <2>1, <2>2, <2>3, <2>4 DEF TypeOK
<1>6. FileInv
  BY <1>2, <1>4 DEF FileInv
<1>7. ReaderInv /\ BarEnds
  BY <1>3 DEF Init, ReaderInv, BarEnds
<1> QED BY <1>5, <1>6, <1>7 DEF StateInv

\* What a file is does not change while nobody writes to it.
LEMMA FileStays ==
  ASSUME FileInv, UNCHANGED fileVars
  PROVE  FileInv'
BY DEF FileInv, fileVars

\* What a header read says is of a size the model knows, and is counted as a type.
LEMMA CountedTyped ==
  ASSUME TypeOK, NEW h \in Headers, Counted(h)
  PROVE  counts' \in [Types -> Nat] /\ h.size \in Int
BY LogAssumption DEF TypeOK, Counted, Headers

LEMMA StateStep == StateInv /\ [Next]_vars => StateInv'
<1> SUFFICES ASSUME TypeOK, FileInv, ReaderInv, BarEnds, [Next]_vars PROVE StateInv'
  BY DEF StateInv
<1>1. Whole(file) \in 0 .. Len(file) /\ Len(file) \in Nat
  BY WholeBounds DEF TypeOK
<1>2. CASE CheckHeader
  <2>1. TypeOK'
    BY <1>2 DEF CheckHeader, TypeOK, fileVars
  <2>2. ReaderInv' /\ BarEnds'
    BY <1>2 DEF CheckHeader, ReaderInv, BarEnds, fileVars
  <2> QED BY <1>2, <2>1, <2>2, FileStays DEF CheckHeader, StateInv
<1>3. CASE OpenBag
  <2>1. TypeOK'
    BY <1>3 DEF OpenBag, TypeOK, fileVars
  <2>2. ReaderInv' /\ BarEnds'
    BY <1>3 DEF OpenBag, ReaderInv, BarEnds, fileVars, TypeOK
  <2> QED BY <1>3, <2>1, <2>2, FileStays DEF OpenBag, StateInv
<1>4. CASE ReadPastEnd
  <2>1. TypeOK'
    BY <1>1, <1>4 DEF ReadPastEnd, TypeOK, fileVars
  <2>2. ReaderInv' /\ BarEnds'
    BY <1>4 DEF ReadPastEnd, Reads, ReaderInv, BarEnds, fileVars
  <2> QED BY <1>4, <2>1, <2>2, FileStays DEF ReadPastEnd, StateInv
<1>5. CASE LoopEnds
  <2>1. TypeOK'
    BY <1>5 DEF LoopEnds, TypeOK, fileVars
  <2>2. ReaderInv' /\ BarEnds'
    BY <1>5 DEF LoopEnds, ReaderInv, BarEnds, fileVars
  <2> QED BY <1>5, <2>1, <2>2, FileStays DEF LoopEnds, StateInv
<1>6. ASSUME NEW h \in Headers, UnrecognizedEntry(h) PROVE StateInv'
  <2>1. TypeOK'
    BY <1>1, <1>6 DEF UnrecognizedEntry, ReadsHeader, TypeOK, fileVars
  <2>2. ReaderInv' /\ BarEnds'
    BY <1>1, <1>6 DEF UnrecognizedEntry, ReadsHeader, Reads, ReaderInv, BarEnds, fileVars,
                      TypeOK, Whole
  <2> QED BY <1>6, <2>1, <2>2, FileStays DEF UnrecognizedEntry, StateInv
<1>7. ASSUME NEW h \in Headers, UnallocatableEntry(h) PROVE StateInv'
  <2>1. TypeOK'
    BY <1>1, <1>7, CountedTyped DEF UnallocatableEntry, ReadsHeader, TypeOK, fileVars
  <2>2. ReaderInv' /\ BarEnds'
    BY <1>1, <1>7 DEF UnallocatableEntry, ReadsHeader, Reads, ReaderInv, BarEnds, fileVars,
                      TypeOK, Whole
  <2> QED BY <1>7, <2>1, <2>2, FileStays DEF UnallocatableEntry, StateInv
<1>8. ASSUME NEW h \in Headers, TruncatedEntry(h) PROVE StateInv'
  <2>1. TypeOK'
    BY <1>1, <1>8, CountedTyped DEF TruncatedEntry, ReadsHeader, TypeOK, fileVars
  <2>2. ReaderInv' /\ BarEnds'
    BY <1>1, <1>8 DEF TruncatedEntry, ReadsHeader, Reads, ReaderInv, BarEnds, fileVars
  <2> QED BY <1>8, <2>1, <2>2, FileStays DEF TruncatedEntry, StateInv
<1>9. ASSUME NEW h \in Headers, WholeEntry(h) PROVE StateInv'
  <2>1. pos' \in 1 .. Whole(file) /\ pos + 1 \in 1 .. Whole(file)
    <3>1. h.size \in Int /\ pos \in Nat
      BY <1>9, CountedTyped DEF WholeEntry, TypeOK
    <3>2. pos < Whole(file) /\ h.size \in 0 .. Whole(file) - (pos + 1) /\ pos' = pos + 1 + h.size
      BY <1>9 DEF WholeEntry, ReadsHeader, ChunksAfter
    <3> QED BY <1>1, <3>1, <3>2
  <2>2. MessageAt(pos + 1) \in 0 .. Len(entries)
    <3>1. file[pos + 1] \in FileChunks(entries)
      BY <1>1, <2>1 DEF TypeOK
    <3>2. file[pos + 1].entry \in 1 .. Len(entries) /\ Len(entries) \in Nat
      BY <3>1 DEF FileChunks, TypeOK
    <3> QED BY <3>2 DEF MessageAt
  <2>3. /\ status' \in {status, "drawing", "failed"}
        /\ written' \in {written, Append(written, MessageAt(pos + 1))}
        /\ status' = "drawing" => status = "drawing" \/ Filled(pos') > BarWidth
    BY <1>9 DEF WholeEntry, Returned
  <2>4. status = "reading" /\ ~eof /\ eof' = eof /\ bad' = bad /\ bag' = bag /\ UNCHANGED fileVars
    BY <1>9 DEF WholeEntry, ReadsHeader, Reads
  <2>5. TypeOK'
    <3>1. counts' \in [Types -> Nat]
      BY <1>9, CountedTyped DEF WholeEntry
    <3>2. written' \in Seq(0 .. Len(entries))
      <4> DEFINE messages == 0 .. Len(entries)
                 m == MessageAt(pos + 1)
      <4>1. written \in Seq(messages) /\ m \in messages
        BY <2>2 DEF TypeOK
      <4>2. written' = written \/ written' = Append(written, m)
        BY <2>3
      <4> HIDE DEF messages, m
      <4>3. written' \in Seq(messages)
        BY <4>1, <4>2
      <4> QED BY <4>3 DEF messages
    <3>3. pos' \in 0 .. Len(file)
      BY <1>1, <2>1
    <3> QED BY <2>3, <2>4, <3>1, <3>2, <3>3 DEF TypeOK, fileVars
  <2>6. ReaderInv'
    <3>1. Whole(file)' = Whole(file) /\ pos' <= Whole(file)
      BY <1>1, <2>1, <2>4 DEF fileVars
    <3> QED BY <2>3, <2>4, <3>1 DEF ReaderInv, fileVars
  <2>7. BarEnds'
    <3> SUFFICES ASSUME status' = "drawing", ~grown PROVE FALSE
      BY <2>4 DEF BarEnds, fileVars, TypeOK
    <3>1. log_file_size = 2 + Whole(file) + Len(file)
      BY DEF FileInv, SizeOf
    <3>2. log_file_size \in Nat \ {0} /\ 2 * (1 + pos') \in Nat /\ 2 * (1 + pos') <= log_file_size
      <4> DEFINE w == Whole(file)
                 l == Len(file)
                 p == pos'
      <4>1. l \in Nat /\ w \in 0 .. l /\ p \in 1 .. w /\ log_file_size = 2 + w + l
        BY <1>1, <2>1, <3>1
      <4> HIDE DEF w, l, p
      <4>2. /\ log_file_size \in Nat \ {0} /\ 2 * (1 + p) \in Nat
            /\ 2 * (1 + p) <= log_file_size
        BY <4>1
      <4> QED BY <4>2 DEF p
    <3>3. Filled(pos') <= 20
      BY <3>2, BarFits DEF Filled, BarWidth
    <3>4. ~ (Filled(pos') > 20)
      <4>1. Filled(pos') \in Int
        BY <3>2 DEF Filled, BarWidth
      <4> QED BY <3>3, <4>1
    <3> QED BY <2>3, <2>4, <3>4 DEF BarWidth
  <2> QED BY <2>4, <2>5, <2>6, <2>7, FileStays DEF StateInv
<1>10. CASE ReadFails
  <2>1. counts' \in [Types -> Nat]
    BY <1>10, CountedTyped DEF ReadFails, TypeOK
  <2>2. TypeOK'
    BY <1>10, <2>1 DEF ReadFails, TypeOK, fileVars
  <2>3. ReaderInv' /\ BarEnds'
    BY <1>10 DEF ReadFails, Reads, ReaderInv, BarEnds, fileVars
  <2> QED BY <1>10, <2>2, <2>3, FileStays DEF ReadFails, StateInv
<1>11. CASE Grow
  <2>1. /\ status = "reading" /\ ~eof /\ file' = Chunks(entries) /\ grown' = TRUE
        /\ UNCHANGED <<header, entries, log_file_size, pos, eof, bad, counts, bag, written, status>>
    BY <1>11 DEF Grow
  <2>2. /\ Chunks(entries) \in Seq(FileChunks(entries))
        /\ Whole(Chunks(entries)) = Len(Chunks(entries))
        /\ IsBeginning(Chunks(entries), Chunks(entries))
    BY LogIsBeginning DEF TypeOK
  <2>3. Len(file) <= Len(Chunks(entries)) /\ Len(Chunks(entries)) \in Nat
    BY <2>2 DEF FileInv, IsBeginning
  <2>4. pos <= Whole(file) /\ pos \in 0 .. Len(file)
    BY <2>1 DEF ReaderInv, TypeOK
  <2> DEFINE c == Chunks(entries)
  <2> HIDE DEF c
  <2>5. file' = c /\ c \in Seq(FileChunks(entries)) /\ Whole(c) = Len(c) /\ pos \in 0 .. Len(c)
    BY <1>1, <2>1, <2>2, <2>3, <2>4 DEF c
  <2>6. TypeOK'
    BY <2>1, <2>5 DEF TypeOK
  <2>7. FileInv'
    BY <2>1, <2>2 DEF FileInv
  <2>8. ReaderInv' /\ BarEnds'
    BY <2>1, <2>5 DEF ReaderInv, BarEnds
  <2> QED BY <2>6, <2>7, <2>8 DEF StateInv
<1>12. CASE UNCHANGED vars
  <2>1. TypeOK' /\ ReaderInv' /\ BarEnds'
    BY <1>12 DEF vars, fileVars, TypeOK, ReaderInv, BarEnds
  <2> QED BY <1>12, <2>1, FileStays DEF vars, StateInv
<1> QED BY <1>2, <1>3, <1>4, <1>5, <1>6, <1>7, <1>8, <1>9, <1>10, <1>11, <1>12 DEF Next, Main

-----------------------------------------------------------------------------
(***************************************************************************)
(* What is in the bag.                                                     *)
(***************************************************************************)
\* The messages of the first k entries that are in the file.
FirstMessages(k) == {i \in Translatable : i <= k}

\* An entry is in the file just if the next one starts within its whole chunks.
LEMMA KeptInFile ==
  ASSUME TypeOK, FileInv, NEW start, Layout(entries, start), NEW i \in 1 .. Len(entries)
  PROVE  Kept(i) <=> start[i + 1] <= Whole(file)
<1>1. /\ entries \in Seq(Entries) /\ file \in Seq(FileChunks(entries))
      /\ IsBeginning(file, Chunks(entries))
  BY DEF TypeOK, FileInv
<1> QED BY <1>1, KeptEntries DEF Kept

LEMMA BehindInFile ==
  ASSUME TypeOK, FileInv, NEW start, Layout(entries, start), NEW k \in 0 .. Len(entries)
  PROVE  StandsBehind(k) <=> pos = start[k + 1]
<1>1. entries \in Seq(Entries) /\ pos \in 0 .. Len(file)
  BY DEF TypeOK
<1>2. pos \in 0 .. Len(Chunks(entries))
  <2>1. Len(file) <= Len(Chunks(entries)) /\ file \in Seq(FileChunks(entries))
    BY DEF FileInv, IsBeginning, TypeOK
  <2>2. Len(Chunks(entries)) \in Nat
    BY DEF Layout
  <2> HIDE DEF Layout
  <2> QED BY <1>1, <2>1, <2>2
<1> QED BY <1>1, <1>2, BehindIsAtStart DEF StandsBehind

\* Entries end in the order of the log.
LEMMA OffsetsAscend ==
  ASSUME TypeOK, NEW start, Layout(entries, start),
         NEW i \in 0 .. Len(entries), NEW k \in 0 .. Len(entries), i <= k
  PROVE  start[i + 1] \in Nat /\ start[k + 1] \in Nat /\ start[i + 1] <= start[k + 1]
<1>1. i + 1 \in 1 .. Len(entries) + 1 /\ k + 1 \in 1 .. Len(entries) + 1 /\ i + 1 <= k + 1
  BY DEF TypeOK
<1> QED BY <1>1 DEF Layout, Offsets

\* At the start of an entry the reader reads the header of that entry.
LEMMA ReadsItsHeader ==
  ASSUME TypeOK, FileInv, NEW start, Layout(entries, start), NEW k \in 0 .. Len(entries),
         pos = start[k + 1], NEW h, ReadsHeader(h)
  PROVE  /\ k + 1 \in 1 .. Len(entries)
         /\ h = entries[k + 1]
         /\ h.size \in Nat
         /\ MessageAt(pos + 1) = k + 1
         /\ start[k + 2] = pos + 1 + h.size
<1>1. Len(entries) \in Nat /\ Whole(file) \in Nat /\ Whole(file) <= Len(Chunks(entries))
  <2>1. Len(file) <= Len(Chunks(entries)) /\ Len(file) \in Nat /\ Whole(file) \in 0 .. Len(file)
    BY WholeBounds DEF FileInv, IsBeginning, TypeOK
  <2>2. Len(Chunks(entries)) \in Nat
    BY DEF Layout
  <2> QED BY <2>1, <2>2 DEF TypeOK
<1>2. pos < Whole(file) /\ h \in HeadersAt(pos + 1) /\ pos \in Nat
  BY DEF ReadsHeader, TypeOK
<1>3. k # Len(entries)
  <2>1. Len(Chunks(entries)) = start[Len(entries) + 1]
    BY DEF Layout
  <2> QED BY <1>1, <1>2, <2>1
<1>4. k + 1 \in 1 .. Len(entries) /\ (k + 1) + 1 = k + 2
  BY <1>1, <1>3
<1>5. Chunks(entries)[pos + 1] = HeaderChunk(k + 1, entries[k + 1])
  BY <1>4 DEF Layout
<1>6. file[pos + 1] = HeaderChunk(k + 1, entries[k + 1])
  <2>1. pos + 1 \in 1 .. Whole(file)
    BY <1>1, <1>2
  <2> QED BY <1>5, <2>1 DEF FileInv, IsBeginning
<1>7. h = entries[k + 1] /\ MessageAt(pos + 1) = k + 1
  BY <1>2, <1>6 DEF HeadersAt, HeaderChunk, MessageAt
<1>8. /\ entries[k + 1].size \in Nat
      /\ start[(k + 1) + 1] = start[k + 1] + 1 + entries[k + 1].size
  <2>1. entries \in Seq(Entries) /\ Offsets(entries, start)
    BY DEF TypeOK, Layout
  <2> QED BY <1>4, <2>1, NextStart
<1> QED BY <1>4, <1>7, <1>8

\* With no entry behind the first k in the file, theirs are all of the messages.
LEMMA NoneBehind ==
  ASSUME TypeOK, FileInv, NEW start, Layout(entries, start), NEW k \in 0 .. Len(entries),
         k < Len(entries) => Whole(file) < start[k + 2]
  PROVE  FirstMessages(k) = Translatable
<1> SUFFICES ASSUME NEW i \in Translatable PROVE i <= k
  BY DEF FirstMessages
<1>1. i \in 1 .. Len(entries) /\ Kept(i) /\ Len(entries) \in Nat
  BY DEF Translatable, TypeOK
<1>2. start[i + 1] <= Whole(file)
  BY <1>1, KeptInFile
<1>3. Whole(file) \in Int
  BY WholeBounds DEF TypeOK
<1>4. ASSUME ~ (i <= k) PROVE FALSE
  <2>1. k + 1 \in 0 .. Len(entries) /\ i \in 0 .. Len(entries) /\ k + 1 <= i
    BY <1>1, <1>4
  <2>2. start[(k + 1) + 1] \in Nat /\ start[i + 1] \in Nat /\ start[(k + 1) + 1] <= start[i + 1]
    BY <2>1, OffsetsAscend
  <2>3. (k + 1) + 1 = k + 2
    OBVIOUS
  <2> QED BY <1>2, <1>3, <1>1, <1>4, <2>1, <2>2, <2>3
<1> QED BY <1>4

\* What MessagesInv says of a log of known types.
BagHoldsFirst == \E k \in 0 .. Len(entries) : Holds(FirstMessages(k))
BagHoldsRead  == \E k \in 0 .. Len(entries) : StandsBehind(k) /\ Holds(FirstMessages(k))
Reading       == status \in {"starting", "checked", "reading"} /\ ~eof
AtTheEnd      == status = "done" \/ (status = "reading" /\ eof)

LEMMA MessagesParts ==
  MessagesInv <=> (Recognized => /\ BagHoldsFirst
                                 /\ Reading => BagHoldsRead
                                 /\ AtTheEnd => Holds(Translatable))
BY DEF MessagesInv, BagHoldsFirst, BagHoldsRead, Reading, AtTheEnd, FirstMessages

\* A step that writes nothing, to the file or to the bag.
LEMMA NothingWritten ==
  ASSUME UNCHANGED <<entries, file, written>>
  PROVE  /\ Translatable' = Translatable
         /\ BagHoldsFirst => BagHoldsFirst'
         /\ BagHoldsRead /\ UNCHANGED pos => BagHoldsRead'
         /\ Holds(Translatable) => Holds(Translatable)'
<1>1. \A i : Kept(i) <=> Kept(i)'
  BY DEF Kept
<1>2. Translatable' = Translatable
  BY <1>1 DEF Translatable
<1>3. \A k : FirstMessages(k)' = FirstMessages(k)
  BY <1>2 DEF FirstMessages
<1>4. \A k : Holds(FirstMessages(k)) => Holds(FirstMessages(k))'
  BY <1>3 DEF Holds
<1>5. BagHoldsFirst => BagHoldsFirst'
  BY <1>4 DEF BagHoldsFirst
<1>6. BagHoldsRead /\ UNCHANGED pos => BagHoldsRead'
  BY <1>4 DEF BagHoldsRead, StandsBehind
<1>7. Holds(Translatable) => Holds(Translatable)'
  BY <1>2 DEF Holds
<1> QED BY <1>2, <1>5, <1>6, <1>7

\* The reader behind the first k entries comes to the end of the file.
LEMMA EndIsSeen ==
  ASSUME TypeOK, FileInv, NEW start, Layout(entries, start), NEW k \in 0 .. Len(entries),
         Holds(FirstMessages(k)), UNCHANGED <<entries, file, written>>,
         k < Len(entries) => Whole(file) < start[k + 2]
  PROVE  Holds(Translatable)'
<1>1. FirstMessages(k) = Translatable
  BY NoneBehind
<1> QED BY <1>1, NothingWritten

\* A message of the log that is appended is the last one so far.
LEMMA NextMessage ==
  ASSUME TypeOK, NEW k \in Nat, Holds(FirstMessages(k)),
         k + 1 \in Translatable, written' = Append(written, k + 1),
         UNCHANGED <<entries, file>>
  PROVE  Holds(FirstMessages(k + 1))'
<1>1. written \in Seq(Nat) /\ \A m \in DOMAIN written : written[m] <= k
  <2>1. written \in Seq(0 .. Len(entries)) /\ Len(entries) \in Nat
    BY DEF TypeOK
  <2>2. \A m \in DOMAIN written : written[m] \in FirstMessages(k)
    BY <2>1 DEF Holds, Range
  <2> QED BY <2>1, <2>2 DEF FirstMessages
<1>2. \A m, n \in DOMAIN written : m < n => written[m] < written[n]
  BY DEF Holds
<1>3. \A m, n \in DOMAIN written' : m < n => written'[m] < written'[n]
  BY <1>1, <1>2
<1>4. FirstMessages(k + 1)' = FirstMessages(k) \cup {k + 1}
  <2>1. Translatable' = Translatable
    BY DEF Translatable, Kept
  <2>2. \A i \in Translatable : i \in Int
    BY DEF Translatable, TypeOK
  <2> QED BY <2>1, <2>2 DEF FirstMessages
<1>5. Range(written') = Range(written) \cup {k + 1}
  <2>1. PICK n \in Nat : n = Len(written) /\ DOMAIN written = 1 .. n
    BY <1>1
  <2>2. DOMAIN written' = (1 .. n) \cup {n + 1} /\ written'[n + 1] = k + 1
    BY <1>1, <2>1
  <2>3. \A m \in 1 .. n : written'[m] = written[m]
    BY <1>1, <2>1
  <2> QED BY <2>1, <2>2, <2>3 DEF Range
<1>6. Range(written') = FirstMessages(k + 1)'
  BY <1>4, <1>5 DEF Holds
<1> QED BY <1>3, <1>6 DEF Holds

LEMMA InitMessages == Init /\ StateInv => MessagesInv
<1> SUFFICES ASSUME Init, StateInv, Recognized PROVE BagHoldsRead /\ BagHoldsFirst /\ ~AtTheEnd
  BY MessagesParts
<1>1. ~AtTheEnd
  BY DEF Init, AtTheEnd
<1>2. TypeOK /\ FileInv /\ entries \in Seq(Entries) /\ pos = 0 /\ written = <<>>
  BY DEF Init, StateInv, TypeOK
<1>3. PICK start : Layout(entries, start)
  BY <1>2, ChunksLayout
<1>4. 0 \in 0 .. Len(entries) /\ pos = start[0 + 1]
  BY <1>2, <1>3 DEF Layout, Offsets
<1>5. StandsBehind(0)
  BY <1>2, <1>3, <1>4, BehindInFile
<1>6. Holds(FirstMessages(0))
  <2>1. FirstMessages(0) = {}
    BY <1>2 DEF FirstMessages, Translatable
  <2>2. Range(written) = {} /\ DOMAIN written = {}
    BY <1>2 DEF Range
  <2> QED BY <2>1, <2>2 DEF Holds
<1> QED BY <1>1, <1>4, <1>5, <1>6 DEF BagHoldsRead, BagHoldsFirst

\* A whole entry of a known log: if it is a message, it is the next one in the bag.
LEMMA WholeEntryKeeps ==
  ASSUME TypeOK, FileInv, NEW start, Layout(entries, start), NEW k \in 0 .. Len(entries),
         pos = start[k + 1], Holds(FirstMessages(k)), NEW h, WholeEntry(h),
         TypeOK', FileInv'
  PROVE  BagHoldsFirst' /\ (status' = "reading" => BagHoldsRead') /\ ~AtTheEnd'
<1>1. /\ ReadsHeader(h) /\ pos' = pos + 1 + h.size /\ UNCHANGED <<entries, file, eof>>
      /\ status = "reading" /\ ~eof
  BY DEF WholeEntry, ReadsHeader, Reads, fileVars
<1>2. /\ k + 1 \in 1 .. Len(entries) /\ h = entries[k + 1] /\ h.size \in Nat
      /\ MessageAt(pos + 1) = k + 1 /\ start[k + 2] = pos + 1 + h.size
  BY <1>1, ReadsItsHeader
<1>3. k \in Nat /\ k + 1 \in 0 .. Len(entries) /\ Len(entries) \in Nat /\ (k + 1) + 1 = k + 2
  BY <1>2 DEF TypeOK
<1>4. Kept(k + 1)
  <2>1. h.size \in 0 .. Whole(file) - (pos + 1)
    BY DEF WholeEntry, ChunksAfter
  <2>2. Whole(file) \in Int /\ pos \in Int
    BY WholeBounds DEF TypeOK
  <2>3. pos + 1 + h.size <= Whole(file)
    BY <2>1, <2>2
  <2>4. start[(k + 1) + 1] <= Whole(file)
    BY <1>2, <1>3, <2>3
  <2> QED BY <1>2, <2>4, KeptInFile
<1>5. StandsBehind(k + 1)'
  <2>1. pos' \in 0 .. Len(Chunks(entries))
    <3>1. pos' \in 0 .. Len(file) /\ Len(file) <= Len(Chunks(entries))
      BY <1>1 DEF TypeOK, FileInv, IsBeginning
    <3>2. Len(file) \in Nat /\ Len(Chunks(entries)) \in Nat
      BY DEF TypeOK, Layout
    <3> QED BY <3>1, <3>2
  <2>2. \A j \in DOMAIN Chunks(entries) : Chunks(entries)[j].entry <= k + 1 <=> j <= pos'
    <3>1. pos' = start[(k + 1) + 1] /\ entries \in Seq(Entries)
      BY <1>1, <1>2, <1>3 DEF TypeOK
    <3> QED BY <1>3, <2>1, <3>1, BehindIsAtStart
  <2> QED BY <1>1, <2>2 DEF StandsBehind
<1>6. k \in (0 .. Len(entries))' /\ k + 1 \in (0 .. Len(entries))'
  BY <1>1, <1>3
<1>7. ~AtTheEnd'
  BY <1>1 DEF WholeEntry, Returned, AtTheEnd
<1>8. CASE h.type \in MessageTypes /\ h.parses
  <2>1. k + 1 \in Translatable
    BY <1>2, <1>4, <1>8 DEF Translatable
  <2>2. Returned(pos + 1, pos')
    BY <1>8 DEF WholeEntry
  <2>3. CASE written' = Append(written, k + 1)
    <3>1. Holds(FirstMessages(k + 1))'
      BY <1>1, <1>3, <2>1, <2>3, NextMessage
    <3> QED BY <1>5, <1>6, <1>7, <3>1 DEF BagHoldsFirst, BagHoldsRead
  <2>4. CASE UNCHANGED written /\ status' # "reading"
    <3>1. BagHoldsFirst
      BY DEF BagHoldsFirst
    <3> QED BY <1>1, <1>7, <2>4, <3>1, NothingWritten
  <2> QED BY <1>1, <1>2, <2>2, <2>3, <2>4 DEF Returned
<1>9. CASE ~ (h.type \in MessageTypes /\ h.parses)
  <2>1. UNCHANGED <<entries, file, written, status>>
    BY <1>1, <1>9 DEF WholeEntry
  <2>2. FirstMessages(k + 1)' = FirstMessages(k)
    <3>1. Translatable' = Translatable
      BY <2>1, NothingWritten
    <3>2. k + 1 \notin Translatable
      BY <1>2, <1>9 DEF Translatable
    <3>3. \A i \in Translatable : i \in Int
      BY DEF Translatable, TypeOK
    <3> QED BY <1>3, <3>1, <3>2, <3>3 DEF FirstMessages
  <2>3. Holds(FirstMessages(k + 1))'
    BY <2>1, <2>2 DEF Holds
  <2> QED BY <1>5, <1>6, <1>7, <2>3 DEF BagHoldsFirst, BagHoldsRead
<1> QED BY <1>8, <1>9

\* What was not logged yet is behind the reader.
LEMMA GrowKeeps ==
  ASSUME TypeOK, FileInv, ReaderInv, BagHoldsRead, Grow
  PROVE  BagHoldsFirst' /\ BagHoldsRead' /\ ~AtTheEnd'
<1>1. /\ status = "reading" /\ ~eof /\ file' = Chunks(entries)
      /\ UNCHANGED <<entries, pos, eof, written, status>>
  BY DEF Grow
<1>2. ~AtTheEnd'
  BY <1>1 DEF AtTheEnd
<1>3. PICK k \in 0 .. Len(entries) : StandsBehind(k) /\ Holds(FirstMessages(k))
  BY DEF BagHoldsRead
<1>4. entries \in Seq(Entries) /\ file \in Seq(FileChunks(entries))
  BY DEF TypeOK
<1>5. PICK start : Layout(entries, start)
  BY <1>4, ChunksLayout
<1>6. pos = start[k + 1] /\ pos <= Whole(file) /\ pos \in Nat
  <2>1. pos <= Whole(file)
    BY <1>1 DEF ReaderInv
  <2>2. pos \in Nat
    BY DEF TypeOK
  <2> QED BY <1>3, <1>5, <2>1, <2>2, BehindInFile
<1>7. ASSUME NEW i \in DOMAIN entries, i <= k PROVE Kept(i) /\ Kept(i)'
  <2>1. i \in 1 .. Len(entries) /\ i \in 0 .. Len(entries)
    BY <1>4
  <2>2. start[i + 1] <= start[k + 1] /\ start[i + 1] \in Nat
    BY <1>5, <1>7, <2>1, OffsetsAscend
  <2>3. Whole(file) \in Nat /\ Whole(file) <= Len(file) /\ Len(file) \in Nat
    BY <1>4, WholeBounds
  <2>4. start[i + 1] <= Whole(file)
    BY <1>6, <2>2, <2>3
  <2>5. Kept(i)
    BY <1>5, <2>1, <2>4, KeptInFile
  <2>6. /\ Chunks(entries) \in Seq(FileChunks(entries))
        /\ Whole(Chunks(entries)) = Len(Chunks(entries))
        /\ IsBeginning(Chunks(entries), Chunks(entries))
    BY <1>4, LogIsBeginning
  <2>7. start[i + 1] <= Whole(Chunks(entries))
    <3>1. Len(file) <= Len(Chunks(entries)) /\ Len(Chunks(entries)) \in Nat
      BY <1>5 DEF FileInv, IsBeginning, Layout
    <3> QED BY <2>2, <2>3, <2>4, <2>6, <3>1
  <2>8. Cardinality({j \in DOMAIN Chunks(entries) : /\ Chunks(entries)[j].entry = i
                                                    /\ Chunks(entries)[j].kind # "part"})
          = 1 + entries[i].size
    BY <1>4, <1>5, <2>1, <2>6, <2>7, KeptEntries
  <2>9. Kept(i)'
    BY <1>1, <2>8 DEF Kept
  <2> QED BY <2>5, <2>9
<1>8. FirstMessages(k)' = FirstMessages(k)
  BY <1>1, <1>7 DEF FirstMessages, Translatable
<1>9. Holds(FirstMessages(k))' /\ StandsBehind(k)' /\ k \in (0 .. Len(entries))'
  BY <1>1, <1>3, <1>8 DEF Holds, StandsBehind
<1> QED BY <1>2, <1>9 DEF BagHoldsFirst, BagHoldsRead

LEMMA MessagesStep == StateInv /\ MessagesInv /\ [Next]_vars /\ StateInv' => MessagesInv'
<1> SUFFICES ASSUME TypeOK, FileInv, ReaderInv, MessagesInv, [Next]_vars, TypeOK', FileInv',
                    Recognized'
             PROVE  /\ BagHoldsFirst'
                    /\ Reading' => BagHoldsRead'
                    /\ AtTheEnd' => Holds(Translatable)'
  <2>1. MessagesInv' <=> (Recognized' => /\ BagHoldsFirst'
                                         /\ Reading' => BagHoldsRead'
                                         /\ AtTheEnd' => Holds(Translatable)')
    BY MessagesParts, PTL
  <2> QED BY <2>1 DEF StateInv
<1>1. UNCHANGED entries
  BY DEF Next, Main, vars, fileVars, CheckHeader, OpenBag, ReadPastEnd, LoopEnds,
         UnrecognizedEntry, UnallocatableEntry, TruncatedEntry, WholeEntry, ReadFails, Grow
<1>2. Recognized
  BY <1>1 DEF Recognized
<1>3. /\ BagHoldsFirst
      /\ Reading => BagHoldsRead
      /\ AtTheEnd => Holds(Translatable)
  BY <1>2, MessagesParts
<1>4. PICK start : Layout(entries, start)
  BY ChunksLayout DEF TypeOK
<1>5. Whole(file) \in Int /\ pos \in Int /\ Len(entries) \in Nat
  BY WholeBounds DEF TypeOK
\* Where the reader is when it reads a header, and which header that is.
<1>6. Reads => \E k \in 0 .. Len(entries) : pos = start[k + 1] /\ Holds(FirstMessages(k))
  BY <1>3, <1>4, BehindInFile DEF Reads, Reading, BagHoldsRead
<1>7. ASSUME NEW h, ReadsHeader(h)
      PROVE  \E k \in 0 .. Len(entries) :
               /\ pos = start[k + 1] /\ Holds(FirstMessages(k))
               /\ k + 1 \in DOMAIN entries /\ h = entries[k + 1]
               /\ h.size \in Nat /\ start[k + 2] = pos + 1 + h.size
  <2>1. PICK k \in 0 .. Len(entries) : pos = start[k + 1] /\ Holds(FirstMessages(k))
    BY <1>6, <1>7 DEF ReadsHeader
  <2>2. /\ k + 1 \in 1 .. Len(entries) /\ h = entries[k + 1]
        /\ h.size \in Nat /\ start[k + 2] = pos + 1 + h.size
    BY <1>4, <1>7, <2>1, ReadsItsHeader
  <2>3. DOMAIN entries = 1 .. Len(entries)
    BY DEF TypeOK
  <2> QED BY <2>1, <2>2, <2>3
\* Steps that are neither of a message nor at the end of the file.
<1>8. CASE /\ UNCHANGED <<entries, file, pos, written>>
           /\ Reading' => Reading
           /\ AtTheEnd' => AtTheEnd
  BY <1>3, <1>8, NothingWritten
<1>9. CASE CheckHeader
  BY <1>8, <1>9 DEF CheckHeader, fileVars, Reading, AtTheEnd
<1>10. CASE OpenBag
  BY <1>8, <1>10 DEF OpenBag, fileVars, ReaderInv, Reading, AtTheEnd
<1>11. CASE LoopEnds
  BY <1>8, <1>11 DEF LoopEnds, fileVars, Reading, AtTheEnd
<1>12. CASE ReadFails
  BY <1>8, <1>12 DEF ReadFails, fileVars, Reading, AtTheEnd
<1>13. CASE UNCHANGED vars
  BY <1>8, <1>13 DEF vars, fileVars, Reading, AtTheEnd
<1>14. CASE ReadPastEnd
  <2>1. /\ Reads /\ pos >= Whole(file) /\ eof' = TRUE
        /\ UNCHANGED <<entries, file, written, status>>
    BY <1>14 DEF ReadPastEnd, fileVars
  <2>2. PICK k \in 0 .. Len(entries) : pos = start[k + 1] /\ Holds(FirstMessages(k))
    BY <1>6, <2>1
  <2>3. ASSUME k < Len(entries) PROVE Whole(file) < start[k + 2]
    <3>1. k + 1 \in 1 .. Len(entries) /\ (k + 1) + 1 = k + 2 /\ entries \in Seq(Entries)
      BY <1>5, <2>3 DEF TypeOK
    <3>2. Offsets(entries, start)
      BY <1>4 DEF Layout
    <3>3. /\ entries[k + 1].size \in Nat
          /\ start[(k + 1) + 1] = start[k + 1] + 1 + entries[k + 1].size
      BY <3>1, <3>2, NextStart
    <3> QED BY <1>5, <2>1, <2>2, <3>1, <3>3
  <2>4. Holds(Translatable)'
    BY <1>4, <2>1, <2>2, <2>3, EndIsSeen
  <2> QED BY <1>3, <2>1, <2>4, NothingWritten DEF Reading
<1>15. ASSUME NEW h \in Headers, UnrecognizedEntry(h) PROVE FALSE
  BY <1>2, <1>7, <1>15 DEF UnrecognizedEntry, Recognized
<1>16. ASSUME NEW h \in Headers, UnallocatableEntry(h) PROVE FALSE
  <2>1. ReadsHeader(h) /\ h.size = -1
    BY <1>16 DEF UnallocatableEntry
  <2>2. h.size \in Nat
    BY <1>7, <2>1
  <2> QED BY <2>1, <2>2
<1>17. ASSUME NEW h \in Headers, TruncatedEntry(h)
       PROVE  BagHoldsFirst' /\ ~Reading' /\ Holds(Translatable)'
  <2>1. /\ ReadsHeader(h) /\ h.size > Whole(file) - (pos + 1) /\ eof' = TRUE
        /\ UNCHANGED <<entries, file, written>>
    BY <1>17 DEF TruncatedEntry, ChunksAfter, fileVars
  <2>2. PICK k \in 0 .. Len(entries) :
          /\ pos = start[k + 1] /\ Holds(FirstMessages(k))
          /\ h.size \in Nat /\ start[k + 2] = pos + 1 + h.size
    BY <1>7, <2>1
  <2>3. Whole(file) < start[k + 2]
    BY <1>5, <2>1, <2>2
  <2>4. Holds(Translatable)'
    BY <1>4, <2>1, <2>2, <2>3, EndIsSeen
  <2> QED BY <1>3, <2>1, <2>4, NothingWritten DEF Reading
<1>18. ASSUME NEW h \in Headers, WholeEntry(h)
       PROVE  BagHoldsFirst' /\ (Reading' => BagHoldsRead') /\ ~AtTheEnd'
  <2>1. PICK k \in 0 .. Len(entries) : pos = start[k + 1] /\ Holds(FirstMessages(k))
    BY <1>7, <1>18 DEF WholeEntry
  <2>2. BagHoldsFirst' /\ (status' = "reading" => BagHoldsRead') /\ ~AtTheEnd'
    BY <1>4, <1>18, <2>1, WholeEntryKeeps
  <2>3. Reading' => status' = "reading"
    BY <1>18 DEF WholeEntry, ReadsHeader, Reads, Returned, Reading
  <2> QED BY <2>2, <2>3
<1>19. CASE Grow
  <2>1. Reading
    BY <1>19 DEF Grow, Reading
  <2> QED BY <1>3, <1>19, <2>1, GrowKeeps
<1> QED BY <1>9, <1>10, <1>11, <1>12, <1>13, <1>14, <1>15, <1>16, <1>17, <1>18, <1>19
        DEF Next, Main

-----------------------------------------------------------------------------
(***************************************************************************)
(* The theorems.                                                           *)
(***************************************************************************)
\* The invariant holds in every state the program reaches.
THEOREM Invariant == Spec => []IInv
<1>1. Init => IInv
  BY InitState, InitMessages DEF StateInv, IInv
<1>2. IInv /\ [Next]_vars => IInv'
  BY StateStep, MessagesStep DEF StateInv, IInv
<1> QED BY <1>1, <1>2, PTL DEF Spec

\* Positions stay in the file and what main writes are entries of the log or garbage,
\* also when the reader has lost its place.
THEOREM TypeCorrect == Spec => []TypeOK
<1>1. IInv => TypeOK
  BY DEF IInv
<1> QED BY <1>1, Invariant, PTL

\* GetNextMessage and main translate a log of entry types the reader knows, however long
\* it is and wherever it is cut off: no message is lost, repeated, invented or out of
\* order, and none is missing when main returns 0.
THEOREM KnownLogIsTranslated == Spec => []TranslatesKnownLog
<1>1. IInv => TranslatesKnownLog
  BY DEF IInv, MessagesInv, TranslatesKnownLog
<1> QED BY <1>1, Invariant, PTL

\* A file that is no log, or whose bag is there already, gets nothing written.
THEOREM BagIsOfALog == Spec => []OnlyLogsMakeBags
<1>1. IInv => OnlyLogsMakeBags
  BY DEF IInv, ReaderInv, OnlyLogsMakeBags
<1> QED BY <1>1, Invariant, PTL

\* RenderProgressBar returns, for a file of any size that does not outgrow the one it had
\* at the start: the unsigned number of the spaces after the bar does not wrap.
THEOREM BarIsDrawn == Spec => []BarEnds
<1>1. IInv => BarEnds
  BY DEF IInv
<1> QED BY <1>1, Invariant, PTL
=============================================================================
