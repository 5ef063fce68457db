--------------------------- MODULE ProgressProofs ---------------------------
(***************************************************************************)
(* Proof that OnProgress is told of each stored byte once (ChunkFetch's    *)
(* ProgressExact), for files and chunks of every size, under Sound.        *)
(***************************************************************************)
EXTENDS ChunkFetchProofs, FiniteSetTheorems

-----------------------------------------------------------------------------
(* The split of the file.                                                  *)

LEMMA Division ==
    ASSUME NEW n \in Nat, NEW r \in Nat \ {0}
    PROVE  /\ n \div r \in Nat /\ n % r \in 0 .. r - 1
           /\ n = ((n \div r) * r) + (n % r)
  OBVIOUS

LEMMA Multiples ==
    ASSUME NEW a \in Nat, NEW b \in Nat, NEW r \in Nat, a <= b
    PROVE  a * r \in Nat /\ b * r \in Nat /\ a * r <= b * r
  OBVIOUS

LEMMA NextMultiple ==
    ASSUME NEW a \in Nat, NEW r \in Nat
    PROVE  (a + 1) * r = a * r + r
  OBVIOUS

\* A chunk is not empty, no longer than RangeSize, and inside the file.
LEMMA Geometry ==
    ASSUME Sound, NEW c \in Chunks
    PROVE  /\ Offset(c) \in Nat /\ Length(c) \in 1 .. RangeSize
           /\ Span(c) = Offset(c) .. Offset(c) + Length(c) - 1
  <1> DEFINE q == ProbedSize \div RangeSize
             rest == ProbedSize % RangeSize
  <1>1. /\ q \in Nat /\ rest \in 0 .. RangeSize - 1 /\ ProbedSize = (q * RangeSize) + rest
        /\ q * RangeSize \in Nat
    <2>1. ProbedSize \in Nat /\ RangeSize \in Nat \ {0} /\ RangeSize \in Nat
      BY SizesAssumption
    <2>2. /\ q \in Nat /\ rest \in 0 .. RangeSize - 1
          /\ ProbedSize = (q * RangeSize) + rest
      BY <2>1, Division
    <2> HIDE DEF q, rest
    <2>3. q * RangeSize \in Nat
      BY <2>1, <2>2, Multiples
    <2> QED BY <2>2, <2>3
  <1>2. ChunkCount = q + (IF rest # 0 THEN 1 ELSE 0)
    BY SizeFacts DEF ChunkCount
  <1> HIDE DEF q, rest
  <1>3. c \in Nat /\ c <= ChunkCount - 1 /\ Offset(c) \in Nat /\ Offset(c) = c * RangeSize
    BY <1>1, <1>2, ChunkFacts DEF Chunks, Offset
  <1>4. Length(c) \in 1 .. RangeSize /\ Offset(c) + Length(c) <= ProbedSize
    <2>1. CASE c = ChunkCount - 1 /\ rest # 0
      <3>1. c = q
        BY <2>1, <1>1, <1>2, <1>3
      <3>2. Length(c) = ProbedSize - Offset(c) /\ Offset(c) = q * RangeSize
        BY <2>1, <3>1, <1>3, SizeFacts DEF Length
      <3> QED BY <2>1, <3>2, <1>1, SizesAssumption
    <2>2. CASE ~(c = ChunkCount - 1 /\ rest # 0)
      <3>1. c + 1 <= q
        BY <2>2, <1>1, <1>2, <1>3
      <3>2. (c + 1) * RangeSize <= q * RangeSize
        BY <3>1, <1>1, <1>3, Multiples, SizesAssumption
      <3>3. (c + 1) * RangeSize = Offset(c) + RangeSize
        BY <1>3, NextMultiple, SizesAssumption
      <3>4. Offset(c) + RangeSize <= ProbedSize
        BY <3>2, <3>3, <1>1, <1>3, SizesAssumption
      <3>5. CASE c = ChunkCount - 1
        <4>1. c + 1 = q /\ rest = 0
          BY <3>5, <2>2, <1>1, <1>2, <1>3
        <4>2. Offset(c) + RangeSize = ProbedSize
          BY <4>1, <3>3, <1>1
        <4>3. Length(c) = ProbedSize - Offset(c)
          BY <3>5, SizeFacts DEF Length
        <4> QED BY <4>2, <4>3, <1>3, SizesAssumption
      <3>6. CASE c # ChunkCount - 1
        <4>1. Length(c) = RangeSize
          BY <3>6, SizeFacts DEF Length
        <4> QED BY <4>1, <3>4, SizesAssumption
      <3> QED BY <3>5, <3>6
    <2> QED BY <2>1, <2>2
  <1> QED BY <1>3, <1>4, SizeFacts, SizesAssumption DEF Span

\* Two chunks do not overlap.
LEMMA Disjoint ==
    ASSUME Sound, NEW c \in Chunks, NEW d \in Chunks, c < d
    PROVE  Offset(c) + Length(c) <= Offset(d)
  <1>1. c \in Nat /\ d \in Nat /\ c + 1 <= d
    BY ChunkFacts
  <1>2. (c + 1) * RangeSize <= d * RangeSize /\ d * RangeSize \in Nat
    BY <1>1, Multiples, SizesAssumption
  <1>3. (c + 1) * RangeSize = c * RangeSize + RangeSize /\ c * RangeSize \in Nat
    BY <1>1, NextMultiple, Multiples, SizesAssumption
  <1> QED BY <1>2, <1>3, Geometry, SizesAssumption DEF Offset

-----------------------------------------------------------------------------
(* The invariant.                                                          *)

\* The first m bytes of the chunk are stored, and no others.  The fetch is
\* within them.  HTTP has reported these m, and goes on behind them, except
\* after a cancel; an FTP attempt has reported at most the bytes it has read,
\* and each one before at most m.
Counts(c, m) ==
    /\ Stored(c) = Offset(c) .. Offset(c) + m - 1
    /\ written[c] <= m
    /\ pc[c] = "idle" => written[c] = 0
    /\ Ftp => reported[c] \in m .. retries[c] * m + written[c]
    /\ ~Ftp => /\ reported[c] = m
               /\ pc[c] \in {"loop", "end"} => written[c] = m
               /\ pc[c] = "idle" /\ ~ctxDone => saved[c] = m

ProgressInv == \A c \in Chunks : \E m \in Nat : Counts(c, m)

LEMMA InitProgressInv == Sound /\ Init => ProgressInv
  <1> SUFFICES ASSUME Sound, Init, NEW c \in Chunks PROVE Counts(c, 0)
    BY DEF ProgressInv
  <1>1. /\ written[c] = 0 /\ saved[c] = 0 /\ retries[c] = 0 /\ reported[c] = 0
        /\ pc[c] = "idle"
    BY DEF Init
  <1>2. Stored(c) = {}
    BY ChunkFacts DEF Init, Stored
  <1> QED BY <1>1, <1>2, ChunkFacts DEF Counts

\* The fetch of c changes nothing of the others, whose bytes lie elsewhere.
LEMMA OneChunk ==
    ASSUME Sound, ProgressInv, NEW c \in Chunks, setup' = setup, ctxDone' = ctxDone,
           \A d \in Chunks \ {c} :
              /\ pc'[d] = pc[d] /\ written'[d] = written[d] /\ saved'[d] = saved[d]
              /\ retries'[d] = retries[d] /\ reported'[d] = reported[d]
              /\ Stored(d)' = Stored(d),
           NEW m \in Nat, Counts(c, m)'
    PROVE  ProgressInv'
  <1>1. Chunks' = Chunks /\ Ftp' = Ftp
    BY SizeFacts DEF Ftp
  <1>2. ASSUME NEW d \in Chunks \ {c}, NEW n \in Nat, Counts(d, n) PROVE Counts(d, n)'
    BY <1>1, <1>2 DEF Counts
  <1> QED BY <1>1, <1>2 DEF ProgressInv

\* A factor more of what is larger is larger.
LEMMA Scaled ==
    ASSUME NEW r \in Nat, NEW m \in Nat
    PROVE  /\ r * m \in Nat
           /\ \A n \in Nat : m <= n => r * n \in Nat /\ r * m <= r * n
  OBVIOUS

\* An attempt fails after reading g more bytes, with n bytes stored.
LEMMA FailedCounts ==
    ASSUME Sound, IInv, ProgressInv, NEW c \in Chunks, ~Ended(c), NEW s, Failed(c, s),
           setup' = setup, ctxDone' = ctxDone, NEW n \in Nat, NEW g \in Nat,
           reported' = [reported EXCEPT ![c] = reported[c] + g],
           Stored(c)' = Offset(c) .. Offset(c) + n - 1,
           \A d \in Chunks \ {c} : Stored(d)' = Stored(d),
           Ftp => reported[c] + g \in n .. retries[c] * n + n,
           ~Ftp => reported[c] + g = n /\ (ctxDone \/ s = n)
    PROVE  ProgressInv'
  <1>1. /\ written'[c] = 0 /\ saved'[c] = s /\ retries'[c] = retries[c] + 1
        /\ pc'[c] \in {"idle", "error"} /\ reported'[c] = reported[c] + g
        /\ retries[c] \in Nat /\ retries'[c] \in Nat
    BY DEF Failed, IInv, TypeOK
  <1>2. \A d \in Chunks \ {c} :
           /\ pc'[d] = pc[d] /\ written'[d] = written[d] /\ saved'[d] = saved[d]
           /\ retries'[d] = retries[d] /\ reported'[d] = reported[d]
    BY DEF Failed, IInv, TypeOK
  <1>3. Ftp' = Ftp
    BY DEF Ftp
  <1>4. (retries[c] + 1) * n = retries[c] * n + n /\ (retries[c] + 1) * n \in Nat
    BY <1>1, NextMultiple, Scaled
  <1>5. Counts(c, n)'
    BY <1>1, <1>3, <1>4 DEF Counts, Offset
  <1> QED BY <1>2, <1>5, OneChunk

-----------------------------------------------------------------------------
(* A read.                                                                 *)

\* g positions from w on, added to the first m of a span that holds both.
LEMMA LongerPrefix ==
    ASSUME NEW a \in Nat, NEW l \in Nat, NEW w \in Nat, NEW g \in Nat, NEW m \in Nat,
           w <= m, w + g <= l
    PROVE  {p \in a .. a + l - 1 : p \in a + w .. a + w + g - 1} \cup (a .. a + m - 1)
           = a .. a + (IF w + g > m THEN w + g ELSE m) - 1
  <1>1. {p \in a .. a + l - 1 : p \in a + w .. a + w + g - 1} = a + w .. a + w + g - 1
    <2>1. \A p \in a + w .. a + w + g - 1 : p \in a .. a + l - 1
      OBVIOUS
    <2> QED BY <2>1
  <1>2. CASE w + g > m
    <2>1. \A p \in Int : p \in a .. a + (w + g) - 1
                       <=> p \in a + w .. a + w + g - 1 \/ p \in a .. a + m - 1
      BY <1>2
    <2> QED BY <1>1, <1>2, <2>1
  <1>3. CASE ~(w + g > m)
    <2>1. \A p \in a + w .. a + w + g - 1 : p \in a .. a + m - 1
      BY <1>3
    <2> QED BY <1>1, <1>3, <2>1
  <1> QED BY <1>2, <1>3

\* What lies in one of two separate spans does not lie in the other.
LEMMA Apart ==
    ASSUME NEW a \in Nat, NEW l \in Nat, NEW b \in Nat, NEW k \in Nat,
           a + l <= b \/ b + k <= a,
           NEW i \in Nat, NEW g \in Nat, a <= i, i + g <= a + l
    PROVE  \A p \in b .. b + k - 1 : p \notin i .. i + g - 1
  OBVIOUS

\* A read stores the next bytes of its chunk, and nothing of another chunk.
LEMMA StoreCounts ==
    ASSUME Sound, IInv, NEW c \in Chunks, pc[c] = "loop", Remaining(c) > 0, Store(c),
           setup' = setup, NEW m \in Nat, written[c] <= m,
           Stored(c) = Offset(c) .. Offset(c) + m - 1
    PROVE  LET w == written[c] + Got(c) IN
           /\ w \in Nat /\ Got(c) \in Nat /\ w <= Length(c)
           /\ Stored(c)' = Offset(c) .. Offset(c) + (IF w > m THEN w ELSE m) - 1
           /\ \A d \in Chunks \ {c} : Stored(d)' = Stored(d)
  <1> DEFINE at == Offset(c) + written[c]
             w == written[c] + Got(c)
  <1>1. Good(c)
    BY PerChunk
  <1>2. /\ written[c] \in Nat /\ body[c].next = at /\ body[c].left \in Nat
        /\ Offset(c) \in Nat /\ Length(c) \in Nat
    BY <1>1, Geometry DEF Good, Bodies
  <1>3. Got(c) \in Nat /\ Got(c) <= Length(c) - written[c]
    BY <1>2, SizeFacts DEF Got, Remaining
  <1>4. data \in [Positions -> Int] /\ Positions \subseteq Nat /\ Positions' = Positions
    BY SizeFacts DEF IInv, TypeOK
  <1>5. data' = [p \in Positions |-> IF p \in at .. at + Got(c) - 1
                                     THEN body[c].next + (p - at) ELSE data[p]]
    BY <1>4, Zenon DEF Store
  <1>6. at \in Nat /\ w \in Nat /\ at + Got(c) = Offset(c) + w /\ w <= Length(c)
    BY <1>2, <1>3
  <1> HIDE DEF at, w
  <1>7. \A p \in Positions : data'[p] # Hole <=> p \in at .. at + Got(c) - 1 \/ data[p] # Hole
    BY <1>2, <1>4, <1>5, <1>6 DEF Hole
  <1>8. \A d \in Chunks : Span(d)' = Span(d) /\ Span(d) \subseteq Positions
    BY <1>4, ChunkFacts DEF Span
  <1>9. Stored(c)' = Offset(c) .. Offset(c) + (IF w > m THEN w ELSE m) - 1
    <2>1. Stored(c)' = {p \in Span(c) : p \in at .. at + Got(c) - 1 \/ data[p] # Hole}
      BY <1>7, <1>8 DEF Stored
    <2>2. Stored(c)' = {p \in Span(c) : p \in at .. at + Got(c) - 1} \cup Stored(c)
      BY <2>1 DEF Stored
    <2>3. Span(c) = Offset(c) .. Offset(c) + Length(c) - 1
      BY Geometry
    <2>4. at .. at + Got(c) - 1
          = Offset(c) + written[c] .. Offset(c) + written[c] + Got(c) - 1
      BY DEF at
    <2>5. written[c] + Got(c) <= Length(c)
      BY <1>6 DEF w
    <2>6. {p \in Offset(c) .. Offset(c) + Length(c) - 1 :
             p \in Offset(c) + written[c] .. Offset(c) + written[c] + Got(c) - 1}
          \cup (Offset(c) .. Offset(c) + m - 1)
          = Offset(c) .. Offset(c) + (IF w > m THEN w ELSE m) - 1
      <3> DEFINE a == Offset(c)
                 l == Length(c)
                 v == written[c]
                 g == Got(c)
      <3>1. a \in Nat /\ l \in Nat /\ v \in Nat /\ g \in Nat /\ v <= m /\ v + g <= l
        BY <2>5, <1>2, <1>3
      <3>2. w = v + g
        BY DEF w
      <3> HIDE DEF a, l, v, g
      <3>3. {p \in a .. a + l - 1 : p \in a + v .. a + v + g - 1} \cup (a .. a + m - 1)
            = a .. a + (IF v + g > m THEN v + g ELSE m) - 1
        BY <3>1, LongerPrefix
      <3> QED BY <3>2, <3>3 DEF a, l, v, g
    <2> QED BY <2>2, <2>3, <2>4, <2>6
  <1>10. ASSUME NEW d \in Chunks \ {c} PROVE Stored(d)' = Stored(d)
    <2>1. /\ Offset(d) \in Nat /\ Length(d) \in Nat /\ c \in Nat /\ d \in Nat
          /\ Span(d) = Offset(d) .. Offset(d) + Length(d) - 1
      BY Geometry, ChunkFacts
    <2>2. Offset(c) + Length(c) <= Offset(d) \/ Offset(d) + Length(d) <= Offset(c)
      BY <2>1, Disjoint
    <2>3. at >= Offset(c) /\ at + Got(c) <= Offset(c) + Length(c)
      BY <1>2, <1>3 DEF at
    <2> HIDE DEF at
    <2>4. \A p \in Offset(d) .. Offset(d) + Length(d) - 1 : p \notin at .. at + Got(c) - 1
      <3> DEFINE a == Offset(c)
                 l == Length(c)
                 b == Offset(d)
                 k == Length(d)
                 g == Got(c)
      <3>1. /\ a \in Nat /\ l \in Nat /\ b \in Nat /\ k \in Nat /\ at \in Nat /\ g \in Nat
            /\ a + l <= b \/ b + k <= a
            /\ a <= at /\ at + g <= a + l
        BY <2>1, <2>2, <2>3, <1>2, <1>3, <1>6
      <3> HIDE DEF a, l, b, k, g
      <3>2. \A p \in b .. b + k - 1 : p \notin at .. at + g - 1
        BY <3>1, Apart
      <3> QED BY <3>2 DEF b, k, g
    <2> QED BY <2>1, <2>4, <1>7, <1>8 DEF Stored
  <1> QED BY <1>3, <1>6, <1>9, <1>10 DEF w

\* What the files hold does not change with the file and its spans.
LEMMA SameStored ==
    ASSUME Sound, data' = data
    PROVE  \A c \in Chunks : Stored(c)' = Stored(c)
  <1>1. \A c \in Chunks : Span(c)' = Span(c)
    BY SizeFacts DEF Span
  <1> QED BY <1>1 DEF Stored

LEMMA ReadCounts ==
    ASSUME Sound, IInv, ProgressInv, NEW c \in Chunks, Read(c)
    PROVE  ProgressInv'
  <1> DEFINE w == written[c] + Got(c)
  <1>1. PICK m \in Nat : Counts(c, m)
    BY DEF ProgressInv
  <1>2. /\ pc[c] = "loop" /\ Remaining(c) > 0 /\ Store(c) /\ ~ctxDone
        /\ setup' = setup /\ ctxDone' = ctxDone
        /\ reported' = [reported EXCEPT ![c] = reported[c] + Got(c)]
    BY SizeFacts DEF Read
  <1>3. /\ w \in Nat /\ Got(c) \in Nat
        /\ Stored(c)' = Offset(c) .. Offset(c) + (IF w > m THEN w ELSE m) - 1
        /\ \A d \in Chunks \ {c} : Stored(d)' = Stored(d)
    BY <1>1, <1>2, StoreCounts DEF Counts
  <1>n. PICK n \in Nat : n = IF w > m THEN w ELSE m
    BY <1>3
  <1>4. /\ written[c] \in Nat /\ saved[c] \in Nat /\ reported[c] \in Nat
        /\ retries[c] \in Nat /\ ~Ended(c)
    BY <1>2 DEF IInv, TypeOK, Ended
  <1>5. Ftp => /\ w <= n /\ reported[c] + Got(c) >= n
               /\ reported[c] + Got(c) <= retries[c] * n + w
    <2> SUFFICES ASSUME Ftp
                 PROVE  /\ w <= n /\ reported[c] + Got(c) >= n
                        /\ reported[c] + Got(c) <= retries[c] * n + w
      OBVIOUS
    <2>1. /\ reported[c] >= m /\ reported[c] <= retries[c] * m + written[c] /\ written[c] <= m
      BY <1>1 DEF Counts
    <2>2. m <= n /\ w <= n /\ (n = m \/ n = w)
      BY <1>3, <1>n
    <2> DEFINE k == retries[c] * m
               l == retries[c] * n
               r == reported[c]
               g == Got(c)
               v == written[c]
    <2>3. k \in Nat /\ l \in Nat /\ k <= l
      BY <2>2, <1>4, Scaled
    <2>4. r >= m /\ r <= k + v /\ v <= m /\ r \in Nat /\ v \in Nat /\ g \in Nat
      BY <2>1, <1>3, <1>4
    <2>5. w = v + g
      OBVIOUS
    <2> HIDE DEF k, l, r, g, v, w
    <2>6. w <= n /\ r + g >= n /\ r + g <= l + w
      BY <2>2, <2>3, <2>4, <2>5
    <2> QED BY <2>6 DEF l, r, g
  <1>6. ~Ftp => reported[c] + Got(c) = n /\ w = n
    BY <1>1, <1>2, <1>3, <1>n, <1>4 DEF Counts
  <1>7. w <= n /\ Stored(c)' = Offset(c) .. Offset(c) + n - 1
    BY <1>3, <1>n
  <1> HIDE DEF w
  <1>8. CASE ReadError(c) # "nil" /\ ~EndsLoop(c)
    <2>1. Failed(c, LeftBehind(c, w)) /\ (~Ftp => LeftBehind(c, w) = n)
      BY <1>6, <1>8 DEF Read, w, LeftBehind
    <2>2. Ftp => reported[c] + Got(c) \in n .. retries[c] * n + n
      <3> DEFINE l == retries[c] * n
                 r == reported[c] + Got(c)
      <3>1. l \in Nat /\ r \in Nat /\ l + w <= l + n
        BY <1>3, <1>4, <1>7, Scaled
      <3>2. Ftp => r >= n /\ r <= l + w
        BY <1>5
      <3> HIDE DEF l, r
      <3>3. Ftp => r \in n .. l + n
        BY <3>1, <3>2, <1>3
      <3> QED BY <3>3 DEF l, r
    <2> QED BY <1>2, <1>3, <1>4, <1>6, <1>7, <2>1, <2>2, FailedCounts
  <1>9. CASE ~(ReadError(c) # "nil" /\ ~EndsLoop(c))
    <2>1. /\ written' = [written EXCEPT ![c] = w]
          /\ pc' = [pc EXCEPT ![c] = IF EndsLoop(c) THEN "end" ELSE "loop"]
          /\ UNCHANGED <<saved, retries>>
      BY <1>2, <1>9 DEF Read, taskVars, IInv, TypeOK, w
    <2>2. /\ pc'[c] \in {"loop", "end"} /\ written'[c] = w
          /\ reported'[c] = reported[c] + Got(c) /\ retries'[c] = retries[c]
      BY <1>2, <2>1 DEF IInv, TypeOK
    <2>3. \A d \in Chunks \ {c} :
             /\ pc'[d] = pc[d] /\ written'[d] = written[d] /\ saved'[d] = saved[d]
             /\ retries'[d] = retries[d] /\ reported'[d] = reported[d]
      BY <1>2, <2>1 DEF IInv, TypeOK
    <2>4. Ftp' = Ftp /\ retries[c] * n \in Nat
      BY <1>2, <1>4, <1>7, Scaled DEF Ftp
    <2>5. Counts(c, n)'
      <3>1. (Stored(c) = Offset(c) .. Offset(c) + n - 1)'
        BY <1>7 DEF Offset
      <3> QED BY <1>3, <1>4, <1>5, <1>6, <1>7, <2>2, <2>4, <3>1 DEF Counts
    <2> QED BY <1>2, <1>3, <1>7, <2>3, <2>5, OneChunk
  <1> QED BY <1>8, <1>9

-----------------------------------------------------------------------------
(* The other steps.                                                        *)

LEMMA FetchCounts ==
    ASSUME Sound, IInv, ProgressInv, NEW c \in Chunks, Fetch(c)
    PROVE  ProgressInv'
  <1>1. PICK m \in Nat : Counts(c, m)
    BY DEF ProgressInv
  <1>2. /\ written[c] \in Nat /\ saved[c] \in Nat /\ reported[c] \in Nat
        /\ retries[c] \in Nat /\ retries[c] * m \in Nat
        /\ reported = [reported EXCEPT ![c] = reported[c] + 0]
    <2>1. /\ written[c] \in Nat /\ saved[c] \in Nat /\ reported[c] \in Nat
          /\ retries[c] \in Nat /\ reported \in [Chunks -> Nat]
      BY DEF IInv, TypeOK
    <2> QED BY <2>1, Scaled
  <1>3. CASE Refused(c) \/ Aborted(c) \/ Incomplete(c)
    <2>1. PICK s \in Nat : Failed(c, s) /\ (~Ftp => ctxDone \/ s = m)
      <3>1. CASE Refused(c)
        BY <3>1, <1>1, <1>2 DEF Refused, Counts
      <3>2. CASE Aborted(c)
        BY <3>2, <1>2 DEF Aborted
      <3>3. CASE Incomplete(c)
        BY <3>3, <1>1, <1>2 DEF Incomplete, LeftBehind, Counts
      <3> QED BY <1>3, <3>1, <3>2, <3>3
    <2>2. UNCHANGED <<setup, data, reported, ctxDone>> /\ ~Ended(c)
      BY <1>3 DEF Refused, Aborted, Incomplete, Ended
    <2>3. Stored(c)' = Offset(c) .. Offset(c) + m - 1 /\ \A d \in Chunks : Stored(d)' = Stored(d)
      BY <1>1, <2>2, SameStored DEF Counts
    <2>4. Ftp => reported[c] + 0 \in m .. retries[c] * m + m
      BY <1>1, <1>2 DEF Counts
    <2>5. ~Ftp => reported[c] + 0 = m
      BY <1>1, <1>2 DEF Counts
    <2> QED BY <1>2, <2>1, <2>2, <2>3, <2>4, <2>5, FailedCounts
  <1>4. CASE Read(c)
    BY <1>4, ReadCounts
  <1>5. CASE Respond(c) \/ AllRead(c) \/ ChunkComplete(c)
    <2>1. PICK q : /\ pc' = [pc EXCEPT ![c] = q]
                   /\ \/ Respond(c) /\ q = "loop"
                      \/ pc[c] \in {"loop", "end"} /\ q \in {"end", "ok"} /\ written' = written
      BY <1>5 DEF Respond, AllRead, ChunkComplete
    <2>2. /\ UNCHANGED <<setup, data, saved, retries, reported, ctxDone>>
          /\ \A d \in Chunks \ {c} : pc'[d] = pc[d] /\ written'[d] = written[d]
          /\ pc'[c] = q
      BY <1>5, <2>1 DEF Respond, AllRead, ChunkComplete, taskVars, IInv, TypeOK
    <2>3. \A d \in Chunks : Stored(d)' = Stored(d)
      BY <2>2, SameStored
    <2>4. Ftp' = Ftp
      BY <2>2 DEF Ftp
    <2>5. CASE Respond(c) /\ q = "loop"
      <3>1. written'[c] = saved[c] /\ pc[c] = "idle" /\ (Ftp \/ ~ctxDone)
        BY <2>5 DEF Respond, IInv, TypeOK
      <3>2. Ftp => saved[c] = 0
        BY DEF IInv, FtpStartsAgain
      <3>3. Counts(c, m)'
        BY <1>1, <1>2, <2>2, <2>3, <2>4, <2>5, <3>1, <3>2 DEF Counts, Offset
      <3> QED BY <2>2, <2>3, <3>3, OneChunk
    <2>6. CASE pc[c] \in {"loop", "end"} /\ q \in {"end", "ok"} /\ written' = written
      <3>1. Counts(c, m)'
        BY <1>1, <1>2, <2>2, <2>3, <2>4, <2>6 DEF Counts, Offset
      <3> QED BY <2>2, <2>3, <3>1, OneChunk
    <2> QED BY <2>1, <2>5, <2>6
  <1> QED BY <1>3, <1>4, <1>5 DEF Fetch

LEMMA NextProgressInv == Sound /\ IInv /\ ProgressInv /\ [Next]_vars => ProgressInv'
  <1> SUFFICES ASSUME Sound, IInv, ProgressInv, [Next]_vars PROVE ProgressInv'
    OBVIOUS
  <1>1. CASE \E c \in Chunks : Fetch(c)
    BY <1>1, FetchCounts
  <1>2. CASE Cancel \/ Done \/ UNCHANGED vars
    <2>1. /\ UNCHANGED <<setup, data, pc, written, saved, retries, reported>>
          /\ ctxDone' = ctxDone \/ ctxDone'
      BY <1>2 DEF Cancel, Done, vars, taskVars
    <2>2. /\ \A c \in Chunks : Stored(c)' = Stored(c)
          /\ Chunks' = Chunks /\ Ftp' = Ftp
      BY <2>1, SameStored, SizeFacts DEF Ftp
    <2>3. \A c \in Chunks, m \in Nat : Counts(c, m) => Counts(c, m)'
      BY <2>1, <2>2 DEF Counts, Offset
    <2> QED BY <2>2, <2>3 DEF ProgressInv
  <1> QED BY <1>1, <1>2 DEF Next

LEMMA ProgressInvImplies == Sound /\ IInv /\ ProgressInv => ProgressExact
  <1> SUFFICES ASSUME Sound, IInv, ProgressInv, NEW c \in Chunks
               PROVE  LET n == Cardinality(Stored(c)) IN
                      IF Ftp THEN reported[c] \in n .. n * (retries[c] + 1) ELSE reported[c] = n
    BY DEF ProgressExact
  <1>1. PICK m \in Nat : Counts(c, m)
    BY DEF ProgressInv
  <1>2. Offset(c) \in Nat /\ retries[c] \in Nat /\ written[c] \in Nat
    BY Geometry DEF IInv, TypeOK
  <1>3. Cardinality(Stored(c)) = m
    <2>1. Offset(c) \in Int /\ Offset(c) + m - 1 \in Int
      BY <1>2
    <2>2. Cardinality(Offset(c) .. Offset(c) + m - 1)
          = IF Offset(c) > Offset(c) + m - 1 THEN 0
            ELSE Offset(c) + m - 1 - Offset(c) + 1
      BY <2>1, FS_Interval
    <2> QED BY <1>1, <1>2, <2>2 DEF Counts
  <1>4. retries[c] * m + m = m * (retries[c] + 1) /\ retries[c] * m \in Nat
    BY <1>2
  <1> DEFINE k == retries[c] * m
  <1>5. CASE Ftp
    <2>1. reported[c] \in m .. k + written[c] /\ written[c] <= m /\ k \in Nat
      BY <1>1, <1>4, <1>5 DEF Counts
    <2>2. k + m = m * (retries[c] + 1)
      BY <1>4
    <2> HIDE DEF k
    <2>3. reported[c] \in m .. k + m
      BY <2>1, <1>2
    <2> QED BY <2>2, <2>3, <1>3, <1>5
  <1>6. CASE ~Ftp
    BY <1>1, <1>3, <1>6 DEF Counts
  <1> QED BY <1>5, <1>6

\* Progress counts each stored byte once over HTTP, and at least once and at
\* most once per attempt over FTP, for any sizes, either storage, and whatever
\* breaks, is retried or cancelled.
THEOREM ProgressCorrect == Sound => (Spec => []ProgressExact)
  <1> SUFFICES ASSUME Sound PROVE Spec => []ProgressExact
    OBVIOUS
  <1>1. Init => ProgressInv
    BY InitProgressInv
  <1>2. IInv /\ ProgressInv /\ [Next]_vars => ProgressInv'
    BY NextProgressInv
  <1>3. IInv /\ ProgressInv => ProgressExact
    BY ProgressInvImplies
  <1>4. Spec => []IInv
    BY Invariant
  <1> QED BY <1>1, <1>2, <1>3, <1>4, PTL DEF Spec
=============================================================================
