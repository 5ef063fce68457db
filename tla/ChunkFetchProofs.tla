-------------------------- MODULE ChunkFetchProofs --------------------------
(***************************************************************************)
(* Proofs about ChunkFetch, for files and chunks of every size, either     *)
(* storage and any number of attempts, under Sound.                        *)
(***************************************************************************)
EXTENDS ChunkFetch, TLAPS

\* The probe found the length, and an HTTP server honours Range.  The runs
\* no_ranges and until_eof show what is lost without either.
Sound == /\ ProbedSize > 0
         /\ \A s \in Setups : s.ranges \/ s.protocol = "ftp"

\* A chunk that has not ended has attempts left.
RetriesLeft ==
    \A c \in Chunks : ~Ended(c) => retries[c] < MaxFetchRetries

\* FtpFetcher starts each attempt at the beginning of the chunk.
FtpStartsAgain == \A c \in Chunks : Ftp => saved[c] = 0

\* The response goes on with the byte that belongs where the next one is stored.
Aligned ==
    \A c \in Chunks : pc[c] = "loop" => body[c].next = Offset(c) + written[c]

PrefixStored(c, n) == \A p \in Span(c) : p < Offset(c) + n => data[p] = p

\* What the attempt under way, or the one that succeeded, has counted is stored.
CountedIsStored ==
    \A c \in Chunks : pc[c] \in {"loop", "end", "ok"} => PrefixStored(c, written[c])

\* Success is a matter of counting.
OkIsCounted == \A c \in Chunks : pc[c] = "ok" => written[c] >= Length(c)

IInv == /\ TypeOK /\ RetriesLeft /\ FtpStartsAgain /\ Aligned
        /\ StoredFaithful /\ WrittenIsStored /\ CountedIsStored /\ OkIsCounted

-----------------------------------------------------------------------------
(* The constants.                                                          *)

\* With a known length the target file has that length from the start.
LEMMA SizeFacts ==
    ASSUME Sound
    PROVE  /\ ~Unknown
           /\ Positions = 0 .. ProbedSize - 1
           /\ Positions' = Positions
           /\ ChunkCount \in Nat
  <1>1. ~Unknown
    BY SizesAssumption DEF Sound, Unknown
  <1>2. ProbedSize \div RangeSize \in Nat
    BY SizesAssumption
  <1> QED BY <1>1, <1>2, SizesAssumption DEF Positions, FileEnd, ChunkCount

\* The numbers of a chunk are numbers.
LEMMA ChunkFacts ==
    ASSUME Sound, NEW c \in Chunks
    PROVE  /\ c \in Nat /\ Offset(c) \in Nat /\ Length(c) \in Int
           /\ Span(c) \subseteq Positions
  <1>1. c \in Nat
    BY SizeFacts DEF Chunks
  <1>2. Offset(c) \in Nat
    BY <1>1, SizesAssumption DEF Offset
  <1> QED BY <1>1, <1>2, SizesAssumption, SizeFacts DEF Length, Span

\* A task changed at one chunk.
LEMMA OnlyOne ==
    ASSUME NEW S, NEW T, NEW f \in [S -> T], NEW c \in S, NEW x \in T
    PROVE  /\ [f EXCEPT ![c] = x] \in [S -> T]
           /\ [f EXCEPT ![c] = x][c] = x
           /\ \A d \in S \ {c} : [f EXCEPT ![c] = x][d] = f[d]
  OBVIOUS

-----------------------------------------------------------------------------
(* The kinds of steps.                                                     *)

\* The file changes only by bytes that land where they belong.
DataGrows == /\ data' \in [Positions -> Int]
             /\ \A p \in Positions : data'[p] \in {data[p], p}

Bodies == [next : Nat, left : Nat, ending : {"eof", "short", "reset"}]

\* What the fetch of c does not touch keeps the invariant.
Others(c) ==
    /\ setup' = setup
    /\ reported' \in [Chunks -> Nat] /\ ctxDone' \in BOOLEAN
    /\ \A d \in Chunks \ {c} :
         /\ pc'[d] = pc[d] /\ body'[d] = body[d] /\ written'[d] = written[d]
         /\ saved'[d] = saved[d] /\ retries'[d] = retries[d]

\* The invariant of one chunk.
Good(c) ==
    /\ pc[c] \in {"idle", "loop", "end", "ok", "error"}
    /\ body[c] \in Bodies
    /\ written[c] \in Nat /\ saved[c] \in Nat /\ retries[c] \in 0 .. MaxFetchRetries
    /\ ~Ended(c) => retries[c] < MaxFetchRetries
    /\ Ftp => saved[c] = 0
    /\ pc[c] = "loop" => body[c].next = Offset(c) + written[c]
    /\ PrefixStored(c, saved[c])
    /\ pc[c] \in {"loop", "end", "ok"} => PrefixStored(c, written[c])
    /\ pc[c] = "ok" => written[c] >= Length(c)

\* The invariant is one about each chunk and the file.
LEMMA PerChunk ==
    /\ IInv => \A c \in Chunks : Good(c)
    /\ /\ TypeOK /\ StoredFaithful
       /\ \A c \in Chunks : Good(c)
       => IInv
  BY DEF IInv, TypeOK, Good, Bodies, RetriesLeft, FtpStartsAgain, Aligned,
         WrittenIsStored, CountedIsStored, OkIsCounted, PrefixStored

\* A step of one chunk keeps the invariant of the others, because the file
\* only grows; so it is enough to look at that chunk.
LEMMA ChunkStep ==
    ASSUME Sound, IInv, NEW c \in Chunks, DataGrows, Others(c), Good(c)',
           NEW s \in Nat, NEW w \in Nat, NEW b \in Bodies,
           NEW r \in 0 .. MaxFetchRetries,
           NEW q \in {"idle", "loop", "end", "ok", "error"},
           pc' = [pc EXCEPT ![c] = q], body' = [body EXCEPT ![c] = b],
           written' = [written EXCEPT ![c] = w], saved' = [saved EXCEPT ![c] = s],
           retries' = [retries EXCEPT ![c] = r]
    PROVE  IInv'
  <1>1. Positions' = Positions
    BY SizeFacts
  <1>2. TypeOK'
    BY <1>1 DEF IInv, TypeOK, DataGrows, Others, Bodies
  <1>3. StoredFaithful'
    BY <1>1 DEF IInv, StoredFaithful, DataGrows
  <1>4. ASSUME NEW d \in Chunks \ {c} PROVE Good(d)'
    <2>1. Good(d)
      BY PerChunk
    <2>2. Span(d)' = Span(d) /\ Span(d) \subseteq Positions
      BY <1>1, ChunkFacts DEF Span
    <2>3. ASSUME NEW n, PrefixStored(d, n) PROVE \A p \in Span(d) : p < Offset(d) + n => data'[p] = p
      BY <2>2, <2>3 DEF PrefixStored, DataGrows
    <2>4. Ftp' = Ftp
      BY DEF Others, Ftp
    <2> QED BY <2>1, <2>2, <2>3, <2>4 DEF Good, Others, PrefixStored, Ended
  <1>5. \A d \in Chunks : Good(d)'
    BY <1>4
  <1> QED BY <1>2, <1>3, <1>5
          DEF IInv, Good, RetriesLeft, FtpStartsAgain, Aligned, WrittenIsStored,
              CountedIsStored, OkIsCounted, PrefixStored

\* A step that leaves the file and the attempt of every chunk alone.
LEMMA QuietStep ==
    ASSUME Sound, IInv, UNCHANGED <<setup, data, pc, body, written, taskVars>>,
           reported' \in [Chunks -> Nat], ctxDone' \in BOOLEAN
    PROVE  IInv'
  <1>1. Positions' = Positions
    BY SizeFacts
  <1>2. \A c \in Chunks : Span(c)' = Span(c)
    BY <1>1 DEF Span
  <1> QED BY <1>1, <1>2
          DEF IInv, TypeOK, RetriesLeft, FtpStartsAgain, Aligned, StoredFaithful,
              WrittenIsStored, CountedIsStored, OkIsCounted, PrefixStored, Ended, Ftp, taskVars

\* A failed attempt leaves behind what it has stored, and nothing over FTP.
LEMMA FailedStep ==
    ASSUME Sound, IInv, NEW c \in Chunks, ~Ended(c), DataGrows,
           NEW s \in Nat, Failed(c, s), Ftp => s = 0,
           \A p \in Span(c) : p < Offset(c) + s => data'[p] = p,
           setup' = setup, reported' \in [Chunks -> Nat], ctxDone' \in BOOLEAN
    PROVE  IInv'
  <1> DEFINE r == retries[c] + 1
             q == IF r < MaxFetchRetries THEN "idle" ELSE "error"
  <1>1. r \in 0 .. MaxFetchRetries
    BY SizesAssumption DEF IInv, TypeOK, RetriesLeft
  <1>2. Span(c)' = Span(c)
    BY SizeFacts DEF Span
  <1>3. Others(c)
    BY DEF Others, Failed, IInv, TypeOK
  <1>4. /\ pc'[c] = q /\ body'[c] = NoBody /\ written'[c] = 0
        /\ saved'[c] = s /\ retries'[c] = r
    BY DEF Failed, IInv, TypeOK
  <1>5. NoBody \in Bodies
    BY DEF NoBody, Bodies
  <1>6. Good(c)'
    BY <1>1, <1>2, <1>4, <1>5, SizesAssumption DEF Good, PrefixStored, Ended, Ftp
  <1> HIDE DEF r, q
  <1>7. q \in {"idle", "loop", "end", "ok", "error"}
    BY DEF q
  <1>8. 0 \in Nat
    OBVIOUS
  <1>9. /\ pc' = [pc EXCEPT ![c] = q] /\ body' = [body EXCEPT ![c] = NoBody]
        /\ written' = [written EXCEPT ![c] = 0] /\ saved' = [saved EXCEPT ![c] = s]
        /\ retries' = [retries EXCEPT ![c] = r]
    BY DEF Failed, q, r, IInv, TypeOK
  <1> QED BY <1>1, <1>3, <1>5, <1>6, <1>7, <1>8, <1>9, ChunkStep

\* What a read stores lands where it belongs, and it is all of the next bytes.
LEMMA StoreFacts ==
    ASSUME Sound, IInv, NEW c \in Chunks, pc[c] = "loop", Remaining(c) > 0, Store(c)
    PROVE  /\ DataGrows
           /\ Got(c) \in Nat /\ Got(c) <= body[c].left
           /\ \A p \in Span(c) : p < Offset(c) + written[c] + Got(c) => data'[p] = p
  <1> DEFINE at == Offset(c) + written[c]
  <1>1. Good(c)
    BY PerChunk
  <1>2. body[c].left \in Nat /\ body[c].next = at /\ written[c] \in Nat
    BY <1>1 DEF Good, Bodies
  <1>3. Remaining(c) \in Int
    BY <1>2, SizeFacts, ChunkFacts DEF Remaining
  <1>4. Got(c) \in Nat /\ Got(c) <= body[c].left
    BY <1>2, <1>3 DEF Got
  <1>5. at \in Nat
    BY <1>2, ChunkFacts
  <1>6. data \in [Positions -> Int] /\ Positions \subseteq Int
    BY SizeFacts DEF IInv, TypeOK
  <1>7. data' = [p \in Positions |-> IF p \in at .. at + Got(c) - 1
                                     THEN body[c].next + (p - at) ELSE data[p]]
    BY <1>6, Zenon DEF Store
  <1> HIDE DEF at
  <1>8. ASSUME NEW p \in Positions
        PROVE  data'[p] = IF p \in at .. at + Got(c) - 1 THEN p ELSE data[p]
    BY <1>2, <1>5, <1>6, <1>7
  <1>9. DataGrows
    BY <1>6, <1>7, <1>8, <1>2, <1>5 DEF DataGrows
  <1>10. ASSUME NEW p \in Span(c), p < at + Got(c) PROVE data'[p] = p
    <2>1. p \in Positions /\ p \in Int /\ Offset(c) <= p
      BY <1>6, ChunkFacts DEF Span
    <2>2. CASE p < at
      <3>1. data[p] = p
        BY <1>1, <2>2 DEF Good, PrefixStored, at
      <3> QED BY <3>1, <2>1, <1>8
    <2>3. CASE at <= p
      BY <2>1, <2>3, <1>4, <1>5, <1>8, <1>10
    <2> QED BY <2>1, <2>2, <2>3, <1>5
  <1> QED BY <1>4, <1>9, <1>10 DEF at

-----------------------------------------------------------------------------
(* The invariant.                                                          *)

LEMMA InitIInv == Sound /\ Init => IInv
  <1> SUFFICES ASSUME Sound, Init PROVE IInv
    OBVIOUS
  <1>1. TypeOK
    <2>1. NoBody \in Bodies /\ Hole \in Int /\ 0 \in 0 .. MaxFetchRetries
      BY SizesAssumption DEF NoBody, Bodies, Hole
    <2>2. body \in [Chunks -> Bodies] /\ data \in [Positions -> Int]
      BY <2>1, Zenon DEF Init
    <2> QED BY <2>1, <2>2 DEF Init, TypeOK, Bodies
  <1>2. \A c \in Chunks : /\ pc[c] = "idle" /\ saved[c] = 0 /\ retries[c] = 0
                          /\ Offset(c) \in Nat /\ Span(c) \subseteq Positions
    BY ChunkFacts DEF Init
  <1>3. StoredFaithful
    BY DEF Init, StoredFaithful, Hole
  <1>4. \A c \in Chunks : \A p \in Span(c) : ~(p < Offset(c) + saved[c])
    BY <1>2, SizeFacts DEF Span
  <1> QED BY <1>1, <1>2, <1>3, <1>4, SizesAssumption
          DEF IInv, RetriesLeft, FtpStartsAgain, Aligned, WrittenIsStored,
              CountedIsStored, OkIsCounted

\* The body starts with the byte that is stored first.
LEMMA RespondStep ==
    ASSUME Sound, IInv, NEW c \in Chunks, Respond(c)
    PROVE  IInv'
  <1>1. Good(c)
    BY PerChunk
  <1>2. setup \in Setups /\ setup \in Setup
    BY SetupsAssumption DEF IInv, TypeOK
  <1>3. FirstByte(c) = Offset(c) + saved[c] /\ FirstByte(c) \in Nat
    BY <1>1, <1>2, SizeFacts, ChunkFacts
       DEF FirstByte, Ranged, RangeStart, Good, Sound, Ftp
  <1>4. BodySize(c) \in Int
    <2>1. setup.remote \in Nat
      BY <1>2 DEF Setup
    <2>2. RangeEnd(c) \in Int
      BY <2>1, SizeFacts, ChunkFacts DEF RangeEnd
    <2> QED BY <1>1, <2>1, <2>2, ChunkFacts DEF BodySize, RangeStart, Good
  <1>5. PICK b \in Breaks(BodySize(c))
                   \cup {[next |-> 0, left |-> BodySize(c), ending |-> "eof"]} :
          body' = [body EXCEPT ![c] = [b EXCEPT !.next = FirstByte(c)]]
    BY DEF Respond
  <1>6. b \in [next : {0}, left : Nat, ending : {"eof", "short", "reset"}]
    <2>1. BodySize(c) > 0
      BY DEF Respond
    <2> QED BY <2>1, <1>4, <1>5 DEF Breaks
  <1> DEFINE new == [b EXCEPT !.next = FirstByte(c)]
  <1>7. new \in Bodies /\ new.next = FirstByte(c)
    BY <1>3, <1>6 DEF Bodies
  <1>8. body' = [body EXCEPT ![c] = new]
    BY <1>5
  <1> HIDE DEF new
  <1>9. /\ pc' = [pc EXCEPT ![c] = "loop"] /\ written' = [written EXCEPT ![c] = saved[c]]
        /\ saved' = [saved EXCEPT ![c] = saved[c]]
        /\ retries' = [retries EXCEPT ![c] = retries[c]]
        /\ pc[c] = "idle" /\ UNCHANGED <<setup, data, saved, retries, reported, ctxDone>>
    BY DEF Respond, taskVars, IInv, TypeOK
  <1>10. Others(c) /\ DataGrows
    BY <1>8, <1>9 DEF Others, DataGrows, IInv, TypeOK
  <1>11. Span(c)' = Span(c)
    BY SizeFacts DEF Span
  <1>12. /\ pc'[c] = "loop" /\ body'[c] = new /\ written'[c] = saved[c]
         /\ saved'[c] = saved[c] /\ retries'[c] = retries[c] /\ data' = data
         /\ setup' = setup
    BY <1>8, <1>9 DEF IInv, TypeOK
  <1>13. Good(c)'
    BY <1>1, <1>3, <1>7, <1>9, <1>11, <1>12 DEF Good, PrefixStored, Ended, Ftp
  <1>14. saved[c] \in Nat /\ retries[c] \in 0 .. MaxFetchRetries
    BY <1>1 DEF Good
  <1> QED BY <1>7, <1>8, <1>9, <1>10, <1>13, <1>14, ChunkStep

\* A response of which g bytes have been read.
LEMMA RestOfBody ==
    ASSUME NEW b \in Bodies, NEW g \in Nat, g <= b.left
    PROVE  /\ [b EXCEPT !.next = @ + g, !.left = @ - g] \in Bodies
           /\ [b EXCEPT !.next = @ + g, !.left = @ - g].next = b.next + g
  <1> DEFINE n == b.next + g
             l == b.left - g
  <1>1. n \in Nat /\ l \in Nat
    BY DEF Bodies
  <1> HIDE DEF n, l
  <1>2. [b EXCEPT !.next = n, !.left = l] = [[b EXCEPT !.next = n] EXCEPT !.left = l]
    BY DEF Bodies
  <1>3. [[b EXCEPT !.next = n] EXCEPT !.left = l] \in Bodies
    BY <1>1 DEF Bodies
  <1>4. [b EXCEPT !.next = n, !.left = l].next = n
    BY DEF Bodies
  <1> QED BY <1>2, <1>3, <1>4 DEF n, l

\* A read stores what belongs there and counts what it stores, whatever ends
\* it and whether or not it fails the attempt.
LEMMA ReadStep ==
    ASSUME Sound, IInv, NEW c \in Chunks, Read(c)
    PROVE  IInv'
  <1> DEFINE w == written[c] + Got(c)
             rest == [body[c] EXCEPT !.next = @ + Got(c), !.left = @ - Got(c)]
             q == IF EndsLoop(c) THEN "end" ELSE "loop"
  <1>1. Good(c) /\ pc[c] = "loop" /\ Remaining(c) > 0 /\ Store(c)
    BY PerChunk, SizeFacts DEF Read
  <1>2. /\ DataGrows /\ Got(c) \in Nat /\ Got(c) <= body[c].left
        /\ \A p \in Span(c) : p < Offset(c) + w => data'[p] = p
    <2>1. /\ DataGrows /\ Got(c) \in Nat /\ Got(c) <= body[c].left
          /\ \A p \in Span(c) : p < Offset(c) + written[c] + Got(c) => data'[p] = p
      BY <1>1, StoreFacts
    <2> QED BY <1>1, <2>1, ChunkFacts DEF Good
  <1>3. /\ setup' = setup /\ ctxDone' \in BOOLEAN /\ reported' \in [Chunks -> Nat]
        /\ written[c] \in Nat /\ w \in Nat
    BY <1>1, <1>2 DEF Read, IInv, TypeOK
  <1>4. Span(c)' = Span(c)
    BY SizeFacts DEF Span
  <1>5. CASE ReadError(c) # "nil" /\ ~EndsLoop(c)
    <2>1. Failed(c, LeftBehind(c, w))
      BY <1>5 DEF Read
    <2>2. saved[c] \in Nat /\ (Ftp => saved[c] = 0)
      BY <1>1 DEF Good
    <2> HIDE DEF w
    <2>3. LeftBehind(c, w) \in Nat /\ (Ftp => LeftBehind(c, w) = 0)
      BY <1>3, <2>2 DEF LeftBehind
    <2>4. ASSUME NEW p \in Span(c), p < Offset(c) + LeftBehind(c, w) PROVE data'[p] = p
      <3>1. p \in Positions /\ p \in Int /\ Offset(c) <= p /\ Offset(c) \in Nat
        BY ChunkFacts, SizeFacts DEF Span
      <3> QED BY <3>1, <2>2, <2>4, <1>2 DEF LeftBehind
    <2>5. ~Ended(c)
      BY <1>1 DEF Ended
    <2> QED BY <1>2, <1>3, <2>1, <2>3, <2>4, <2>5, FailedStep
  <1>6. CASE ~(ReadError(c) # "nil" /\ ~EndsLoop(c))
    <2>1. rest \in Bodies /\ rest.next = Offset(c) + w
      <3>1. body[c] \in Bodies /\ body[c].next = Offset(c) + written[c]
        BY <1>1 DEF Good
      <3>2. rest \in Bodies /\ rest.next = body[c].next + Got(c)
        BY <3>1, <1>2, RestOfBody
      <3> QED BY <3>1, <3>2, <1>2, <1>3, ChunkFacts
    <2>2. /\ written' = [written EXCEPT ![c] = w]
          /\ pc' = [pc EXCEPT ![c] = q]
          /\ UNCHANGED <<saved, retries>>
      BY <1>1, <1>6 DEF Read, taskVars, IInv, TypeOK
    <2>3. body' = [body EXCEPT ![c] = rest]
      <3>1. body' = [body EXCEPT ![c].next = @ + Got(c), ![c].left = @ - Got(c)]
        BY <1>6 DEF Read
      <3>2. body \in [Chunks -> Bodies]
        BY DEF IInv, TypeOK, Bodies
      <3> QED BY <3>1, <3>2, <1>2 DEF Bodies
    <2> HIDE DEF w, rest
    <2>4. q \in {"idle", "loop", "end", "ok", "error"} /\ q \in {"loop", "end"}
      OBVIOUS
    <2> HIDE DEF q
    <2>5. /\ saved' = [saved EXCEPT ![c] = saved[c]]
          /\ retries' = [retries EXCEPT ![c] = retries[c]]
          /\ pc'[c] = q /\ body'[c] = rest /\ written'[c] = w
      BY <2>2, <2>3 DEF IInv, TypeOK
    <2>6. Others(c)
      BY <1>3, <2>2, <2>3, <2>5 DEF Others, IInv, TypeOK
    <2>7. \A p \in Span(c) : p < Offset(c) + saved[c] => data'[p] = p
      <3>1. \A p \in Span(c) : p \in Positions
        BY ChunkFacts
      <3> QED BY <3>1, <1>1, <1>2 DEF Good, PrefixStored, DataGrows
    <2>8. Good(c)'
      BY <1>1, <1>2, <1>3, <1>4, <2>1, <2>2, <2>4, <2>5, <2>7
         DEF Good, PrefixStored, Ended, Ftp
    <2>9. saved[c] \in Nat /\ retries[c] \in 0 .. MaxFetchRetries
      BY <1>1 DEF Good
    <2> QED BY <1>2, <1>3, <2>1, <2>2, <2>3, <2>4, <2>5, <2>6, <2>8, <2>9, ChunkStep
  <1> QED BY <1>5, <1>6

\* The fetch leaves the loop, or has succeeded.
LEMMA MovesOn ==
    ASSUME Sound, IInv, NEW c \in Chunks, NEW q \in {"end", "ok"}, NEW b \in Bodies,
           pc[c] \in {"loop", "end"},
           q = "ok" => written[c] >= Length(c),
           pc' = [pc EXCEPT ![c] = q], body' = [body EXCEPT ![c] = b],
           UNCHANGED <<setup, data, written, saved, retries, reported, ctxDone>>
    PROVE  IInv'
  <1>1. Good(c)
    BY PerChunk
  <1>2. Span(c)' = Span(c)
    BY SizeFacts DEF Span
  <1>3. /\ written' = [written EXCEPT ![c] = written[c]]
        /\ saved' = [saved EXCEPT ![c] = saved[c]]
        /\ retries' = [retries EXCEPT ![c] = retries[c]]
        /\ pc'[c] = q /\ body'[c] = b
    BY DEF IInv, TypeOK
  <1>4. Others(c) /\ DataGrows
    BY DEF Others, DataGrows, IInv, TypeOK
  <1>5. Good(c)'
    BY <1>1, <1>2, <1>3 DEF Good, PrefixStored, Ended, Ftp
  <1>6. /\ written[c] \in Nat /\ saved[c] \in Nat /\ retries[c] \in 0 .. MaxFetchRetries
        /\ q \in {"idle", "loop", "end", "ok", "error"}
    BY <1>1 DEF Good
  <1>7. /\ pc' = [pc EXCEPT ![c] = q]
        /\ body' = [body EXCEPT ![c] = b]
    OBVIOUS
  <1> QED BY ONLY Sound, IInv, <1>3, <1>4, <1>5, <1>6, <1>7, ChunkStep

LEMMA FetchStep ==
    ASSUME Sound, IInv, NEW c \in Chunks, Fetch(c)
    PROVE  IInv'
  <1>1. Good(c) /\ reported \in [Chunks -> Nat] /\ ctxDone \in BOOLEAN
    BY PerChunk DEF IInv, TypeOK
  <1>2. ASSUME data' = data, NEW n, PrefixStored(c, n)
        PROVE  DataGrows /\ \A p \in Span(c) : p < Offset(c) + n => data'[p] = p
    BY <1>2 DEF DataGrows, PrefixStored, IInv, TypeOK
  <1>3. CASE Refused(c)
    <2>1. Failed(c, saved[c]) /\ UNCHANGED <<setup, data, reported, ctxDone>> /\ ~Ended(c)
      BY <1>3 DEF Refused, Ended
    <2> QED BY <1>1, <1>2, <2>1, FailedStep DEF Good
  <1>4. CASE Respond(c)
    BY <1>4, RespondStep
  <1>5. CASE Aborted(c)
    <2>1. Failed(c, saved[c]) /\ UNCHANGED <<setup, data, reported, ctxDone>> /\ ~Ended(c)
      BY <1>5 DEF Aborted, Ended
    <2> QED BY <1>1, <1>2, <2>1, FailedStep DEF Good
  <1>6. CASE AllRead(c)
    <2>1. body' = [body EXCEPT ![c] = body[c]]
      BY <1>6 DEF AllRead, IInv, TypeOK
    <2> QED BY <1>1, <1>6, <2>1, MovesOn DEF AllRead, taskVars, Good
  <1>7. CASE Read(c)
    BY <1>7, ReadStep
  <1>8. CASE Incomplete(c)
    <2>1. /\ Failed(c, LeftBehind(c, written[c])) /\ pc[c] = "end"
          /\ UNCHANGED <<setup, data, reported, ctxDone>> /\ ~Ended(c)
      BY <1>8 DEF Incomplete, Ended
    <2>2. /\ LeftBehind(c, written[c]) \in Nat /\ (Ftp => LeftBehind(c, written[c]) = 0)
          /\ PrefixStored(c, LeftBehind(c, written[c]))
      BY <1>1, <2>1 DEF LeftBehind, Good
    <2> QED BY <1>1, <1>2, <2>1, <2>2, FailedStep
  <1>9. CASE ChunkComplete(c)
    <2>1. NoBody \in Bodies
      BY DEF NoBody, Bodies
    <2> QED BY <1>9, <2>1, SizeFacts, MovesOn DEF ChunkComplete, taskVars
  <1> QED BY <1>3, <1>4, <1>5, <1>6, <1>7, <1>8, <1>9 DEF Fetch

LEMMA NextIInv == Sound /\ IInv /\ [Next]_vars => IInv'
  <1> SUFFICES ASSUME Sound, IInv, [Next]_vars PROVE IInv'
    OBVIOUS
  <1>1. CASE Cancel
    BY <1>1, QuietStep DEF Cancel, IInv, TypeOK
  <1>2. CASE Done \/ UNCHANGED vars
    BY <1>2, QuietStep DEF Done, vars, taskVars, IInv, TypeOK
  <1>3. CASE \E c \in Chunks : Fetch(c)
    BY <1>3, FetchStep
  <1> QED BY <1>1, <1>2, <1>3 DEF Next

\* The invariant holds in every state the program reaches.
THEOREM Invariant == Sound => (Spec => []IInv)
  <1> SUFFICES ASSUME Sound PROVE Spec => []IInv
    OBVIOUS
  <1>1. Init => IInv
    BY InitIInv
  <1>2. IInv /\ [Next]_vars => IInv'
    BY NextIInv
  <1> QED BY <1>1, <1>2, PTL DEF Spec

-----------------------------------------------------------------------------
(* The properties.                                                         *)

\* Type correctness: the variables keep their types, and no chunk is tried
\* more than MaxFetchRetries times.
THEOREM TypeCorrect == Sound => (Spec => []TypeOK)
  <1>1. IInv => TypeOK
    BY DEF IInv
  <1> QED BY <1>1, Invariant, PTL

\* Each byte of the target file is untouched or the remote byte of that
\* position, for chunks that are fetched side by side, break anywhere and are
\* tried again (fetcher.go 295-306, 321-322, protocol.go 639-655).
THEOREM FaithfulCorrect == Sound => (Spec => []StoredFaithful)
  <1>1. IInv => StoredFaithful
    BY DEF IInv
  <1> QED BY <1>1, Invariant, PTL

\* The bytes that a retry will not ask for again are in the file (fetcher.go
\* 284-287, 354, 362).
THEOREM WrittenCorrect == Sound => (Spec => []WrittenIsStored)
  <1>1. IInv => WrittenIsStored
    BY DEF IInv
  <1> QED BY <1>1, Invariant, PTL

\* A chunk that was reported complete is complete in the file, although only
\* bytes are counted, over several attempts (fetcher.go 361-372).
THEOREM OkCorrect == Sound => (Spec => []OkMeansWhole)
  <1> SUFFICES ASSUME Sound PROVE Spec => []OkMeansWhole
    OBVIOUS
  <1>1. IInv => OkMeansWhole
    <2> SUFFICES ASSUME IInv, NEW c \in Chunks, pc[c] = "ok", NEW p \in Span(c)
                 PROVE  data[p] = p
      BY DEF OkMeansWhole
    <2>1. Good(c)
      BY PerChunk
    <2>2. /\ p \in Int /\ p < Offset(c) + Length(c)
          /\ Offset(c) \in Nat /\ Length(c) \in Int
      BY SizeFacts, ChunkFacts DEF Span
    <2>3. p < Offset(c) + written[c]
      BY <2>1, <2>2 DEF Good
    <2> QED BY <2>1, <2>3 DEF Good, PrefixStored
  <1> QED BY <1>1, Invariant, PTL

-----------------------------------------------------------------------------
(* The contract of the pool, which needs neither a length nor ranges.      *)

PoolInv == /\ pc \in [Chunks -> {"idle", "loop", "end", "ok", "error"}]
           /\ retries \in [Chunks -> 0 .. MaxFetchRetries]
           /\ RetriesLeft

LEMMA InitPoolInv == Init => PoolInv
  BY SizesAssumption DEF Init, PoolInv, RetriesLeft

\* How the chunk of a step looks to the pool.
PoolStep(c) ==
    \/ UNCHANGED retries /\ pc' \in [Chunks -> {"idle", "loop", "end", "ok", "error"}]
       /\ ~Ended(c) /\ pc'[c] # "error"
       /\ \A d \in Chunks \ {c} : pc'[d] = pc[d]
    \/ ~Ended(c) /\ \E s \in {saved[c], written[c], written[c] + Got(c)} : Failed(c, s)

LEMMA FetchIsPoolStep ==
    ASSUME PoolInv, NEW c \in Chunks, Fetch(c)
    PROVE  PoolStep(c)
  <1>1. CASE Refused(c) \/ Aborted(c) \/ Incomplete(c)
    BY <1>1 DEF Refused, Aborted, Incomplete, LeftBehind, PoolStep, Ended
  <1>2. CASE Respond(c) \/ AllRead(c) \/ ChunkComplete(c)
    BY <1>2 DEF Respond, AllRead, ChunkComplete, PoolStep, Ended, PoolInv, taskVars
  <1>3. CASE Read(c)
    <2>1. CASE ReadError(c) # "nil" /\ ~EndsLoop(c)
      BY <1>3, <2>1 DEF Read, LeftBehind, PoolStep, Ended
    <2>2. CASE ~(ReadError(c) # "nil" /\ ~EndsLoop(c))
      BY <1>3, <2>2 DEF Read, PoolStep, Ended, PoolInv, taskVars
    <2> QED BY <2>1, <2>2
  <1> QED BY <1>1, <1>2, <1>3 DEF Fetch

LEMMA PoolStepKeeps ==
    ASSUME PoolInv, NEW c \in Chunks, PoolStep(c)
    PROVE  PoolInv' /\ [Pool!Next]_(Pool!vars)
  <1>1. retries[c] \in 0 .. MaxFetchRetries /\ (~Ended(c) => retries[c] < MaxFetchRetries)
    BY DEF PoolInv, RetriesLeft
  <1>2. ~Ended(c) /\ Outcome[c] = "none" /\ c \in DOMAIN pc
    BY DEF PoolStep, Outcome, PoolInv
  <1>3. CASE UNCHANGED retries /\ pc'[c] # "error"
    <2>1. /\ pc' \in [Chunks -> {"idle", "loop", "end", "ok", "error"}]
          /\ \A d \in Chunks \ {c} : pc'[d] = pc[d]
      BY <1>1, <1>3, SizesAssumption DEF PoolStep, Failed, PoolInv
    <2>2. PoolInv'
      BY <1>1, <1>2, <1>3, <2>1 DEF PoolInv, RetriesLeft, Ended
    <2>3. \A d \in Chunks \ {c} : Outcome'[d] = Outcome[d]
      BY <2>1 DEF Outcome, Ended
    <2>4. CASE pc'[c] = "ok"
      <3>1. Outcome'[c] = "ok"
        BY <2>4 DEF Outcome, Ended
      <3>2. Outcome' = [Outcome EXCEPT ![c] = "ok"]
        BY <2>3, <3>1 DEF Outcome
      <3>3. Pool!Succeed(c)
        BY <1>2, <1>3, <3>2 DEF Pool!Succeed
      <3> QED BY <2>2, <3>3 DEF Pool!Next
    <2>5. CASE pc'[c] # "ok"
      <3>1. Outcome'[c] = "none"
        BY <1>3, <2>5 DEF Outcome, Ended
      <3>2. Outcome' = Outcome
        BY <1>2, <2>3, <3>1 DEF Outcome
      <3> QED BY <1>3, <2>2, <3>2 DEF Pool!vars
    <2> QED BY <2>4, <2>5
  <1>4. CASE \E s \in {saved[c], written[c], written[c] + Got(c)} : Failed(c, s)
    <2>1. /\ retries' = [retries EXCEPT ![c] = @ + 1]
          /\ pc' = [pc EXCEPT ![c] = IF retries[c] + 1 < MaxFetchRetries
                                     THEN "idle" ELSE "error"]
      BY <1>4 DEF Failed
    <2>2. PoolInv'
      BY <1>1, <1>2, <2>1, SizesAssumption DEF PoolInv, RetriesLeft, Ended
    <2>3. \A d \in Chunks \ {c} : Outcome'[d] = Outcome[d]
      BY <2>1 DEF Outcome, Ended, PoolInv
    <2>4. CASE retries[c] + 1 < MaxFetchRetries
      <3>1. Outcome'[c] = "none"
        BY <1>2, <2>1, <2>4 DEF Outcome, Ended
      <3>2. Outcome' = Outcome
        BY <1>2, <2>3, <3>1 DEF Outcome
      <3>3. Pool!Retry(c)
        BY <1>2, <2>1, <2>4, <3>2 DEF Pool!Retry
      <3> QED BY <2>2, <3>3 DEF Pool!Next
    <2>5. CASE ~(retries[c] + 1 < MaxFetchRetries)
      <3>1. Outcome'[c] = "error"
        BY <1>2, <2>1, <2>5 DEF Outcome, Ended
      <3>2. Outcome' = [Outcome EXCEPT ![c] = "error"]
        BY <2>3, <3>1 DEF Outcome
      <3>3. retries[c] + 1 = MaxFetchRetries
        BY <1>1, <1>2, <2>5, SizesAssumption
      <3>4. Pool!GiveUp(c)
        BY <1>2, <2>1, <3>2, <3>3 DEF Pool!GiveUp
      <3> QED BY <2>2, <3>4 DEF Pool!Next
    <2> QED BY <2>4, <2>5
  <1> QED BY <1>3, <1>4 DEF PoolStep

\* Whatever the server and the storage do, the fetchers keep the contract of
\* the pool: each step of a chunk is a success, a retry, the end after the last
\* attempt, or nothing to the pool (downloader.go 151-170, fetcher.go 366-373,
\* protocol.go 670-674).
THEOREM ImplementsTaskPool == Spec => PoolSpec
  <1>1. Init => Pool!Init
    BY DEF Init, Pool!Init, Outcome, Ended
  <1>2. PoolInv /\ [Next]_vars => PoolInv' /\ [Pool!Next]_(Pool!vars)
    <2> SUFFICES ASSUME PoolInv, [Next]_vars
                 PROVE  PoolInv' /\ [Pool!Next]_(Pool!vars)
      OBVIOUS
    <2>1. CASE \E c \in Chunks : Fetch(c)
      BY <2>1, FetchIsPoolStep, PoolStepKeeps
    <2>2. CASE Cancel \/ Done \/ UNCHANGED vars
      <3>1. UNCHANGED <<pc, retries>>
        BY <2>2 DEF Cancel, Done, vars, taskVars
      <3> QED BY <3>1 DEF PoolInv, RetriesLeft, Ended, Outcome, Pool!vars
    <2> QED BY <2>1, <2>2 DEF Next
  <1> QED BY <1>1, <1>2, InitPoolInv, PTL DEF Spec, PoolSpec, Pool!Spec
=============================================================================
