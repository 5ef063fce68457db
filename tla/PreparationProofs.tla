------------------------- MODULE PreparationProofs --------------------------
(***************************************************************************)
(* Proofs about the preparation in Program: the tasks tile their files,    *)
(* skipped URLs leave nothing, and what the requesters acquire is given    *)
(* back, for any arguments, sizes, chunks and batches and any failures.    *)
(***************************************************************************)
EXTENDS ProgramProofs, SumProofs

Loop == {"probe", "state", "open", "split"}

-----------------------------------------------------------------------------
(* The steps.                                                              *)

\* A step is one of the preparation or of the end of Download, or it leaves
\* what this module is about alone, except that the context may be cancelled.
Elsewhere ==
    /\ UNCHANGED <<main, args, urls, at, loopVars, resultVars, fileVars>>
    /\ ctxDone => ctxDone'

\* The workers have left: all are done, or have backed off.
LeavesFetch == main = "fetch" /\ LeaveFetch

LEMMA StepCases ==
    ASSUME [Next]_vars
    PROVE  PreparationNext \/ LeavesFetch \/ Cleanup \/ Return \/ Exit \/ Elsewhere
  <1> USE DEF preparationVars, Elsewhere
  <1>1. CASE Main \/ AllWorkersBackOff
    BY <1>1 DEF Main, Prepare, AllWorkersDone, AllWorkersBackOff, LeavesFetch
  <1>2. CASE Cancel \/ Exited \/ UNCHANGED vars
    BY <1>2 DEF Cancel, Exited, vars
  <1>3. ASSUME NEW t \in TaskIds, Fetch(t) PROVE Elsewhere
    BY <1>3 DEF Fetch, TakeTask, FetchPlain, FetchHangs, HangCancelled, BeginVideo, FetchVideo,
           RunFfmpeg, FfmpegInTrouble
  <1> QED BY <1>1, <1>2, <1>3 DEF Next

\* The loop over the arguments adds resources to urls and changes nothing else.
LEMMA ResolvedStep ==
    ASSUME IInv, KeepArgument \/ ResolveHFModelFiles
    PROVE  /\ main = "resolve" /\ at <= Len(args) /\ at' = at + 1
           /\ urls' \in Seq(Resource) /\ Len(urls') \in Nat
           /\ UNCHANGED <<main, args, loopVars, resultVars, fileVars, ctxDone>>
  <1>1. urls' \in Seq(Resource)
    BY ResolveSteps DEF IInv, PrepareInv
  <1>2. \E us : Resolved(us)
    BY DEF KeepArgument, ResolveHFModelFiles
  <1>3. main = "resolve" /\ at <= Len(args)
    BY DEF KeepArgument, ResolveHFModelFiles, Resolving
  <1> QED BY <1>1, <1>2, <1>3 DEF Resolved

\* PrepareTasks returns with an error: in the split only after a cancel.
Skipped ==
    /\ main \in Loop /\ at <= Len(urls)
    /\ Skip
    /\ states' \in {states, WithState}
    /\ main = "split" => ctxDone
    /\ UNCHANGED <<args, urls, storages, ctxDone>>

\* The probe is done.
Probed == /\ main = "probe" /\ main' = "state" /\ at <= Len(urls)
          /\ length' \in Probes(urls[at], ctxDone) \ {ProbeError}
          /\ UNCHANGED <<args, urls, at, chunk, batch, urlTasks, resultVars, fileVars, ctxDone>>

\* The steps of PrepareTasks.
LEMMA LoopCases ==
    ASSUME PreparationNext
    PROVE  \/ KeepArgument \/ ResolveHFModelFiles \/ ResolveFails \/ StartPreparing
           \/ Skipped \/ Probed \/ CreateState \/ OpenStorage
           \/ SingleTask \/ SplitChunk \/ SplitDone \/ StartFetching
  <1> USE DEF Preparing, Loop, fileVars
  <1>1. CASE Probe
    BY <1>1 DEF Probe, Skipped, Probed
  <1>2. CASE CreateStateFails \/ OpenFails \/ SplitCancelled
    BY <1>2 DEF CreateStateFails, OpenFails, SplitCancelled, Skipped
  <1> QED BY <1>1, <1>2 DEF PreparationNext

\* The goroutine of Download cancels nothing.
LEMMA PreparationContext ==
    ASSUME PreparationNext
    PROVE  UNCHANGED ctxDone
  <1>1. CASE KeepArgument \/ ResolveHFModelFiles
    BY <1>1 DEF KeepArgument, ResolveHFModelFiles, Resolved
  <1>2. CASE SingleTask \/ SplitDone
    BY <1>2 DEF SingleTask, SplitDone, Prepared
  <1> QED BY <1>1, <1>2 DEF PreparationNext, ResolveFails, StartPreparing, Probe, CreateState,
          CreateStateFails, OpenStorage, OpenFails, SplitChunk, SplitCancelled, StartFetching

-----------------------------------------------------------------------------
(* Where the loops are.                                                    *)

\* The requesters are URLs the loop has left behind, at most one for each.
Placed ==
    /\ requesters \in Seq(1 .. Len(urls)) /\ Len(requesters) <= Len(urls)
    /\ main = "resolve" => at <= Len(args) + 1 /\ requesters = <<>>
    /\ main \in Loop => /\ at <= Len(urls) + 1 /\ Len(requesters) < at
                        /\ \A k \in DOMAIN requesters : requesters[k] < at
    /\ main = "cleanup" => at <= Len(requesters) + 1
    /\ at <= Len(urls) + Len(args) + 1

\* One requester more.
LEMMA AppendRequester ==
    ASSUME NEW S, NEW r \in Seq(S), NEW n \in S
    PROVE  /\ Append(r, n) \in Seq(S) /\ Len(Append(r, n)) = Len(r) + 1
           /\ \A k \in DOMAIN Append(r, n) :
                Append(r, n)[k] = n \/ (k \in DOMAIN r /\ Append(r, n)[k] = r[k])
           /\ Range(Append(r, n)) = Range(r) \cup {n}
  <1>1. /\ Append(r, n) \in Seq(S) /\ Len(Append(r, n)) = Len(r) + 1 /\ Len(r) \in Nat
        /\ DOMAIN r = 1 .. Len(r) /\ DOMAIN Append(r, n) = 1 .. Len(r) + 1
        /\ \A k \in DOMAIN r : Append(r, n)[k] = r[k]
        /\ Append(r, n)[Len(r) + 1] = n
    OBVIOUS
  <1>2. \A k \in DOMAIN Append(r, n) : k = Len(r) + 1 \/ k \in DOMAIN r
    BY <1>1
  <1>3. DOMAIN r \subseteq DOMAIN Append(r, n) /\ Len(r) + 1 \in DOMAIN Append(r, n)
    BY <1>1
  <1> QED BY <1>1, <1>2, <1>3 DEF Range

LEMMA LengthFacts ==
    ASSUME IInv
    PROVE  Len(args) \in Nat /\ Len(urls) \in Nat /\ at \in Nat \ {0}
  <1>1. args \in Seq(Resource) /\ urls \in Seq(Resource) /\ at \in Nat \ {0}
    BY PreparationAssumption DEF IInv, PrepareInv
  <1> QED BY <1>1

LEMMA InitPlaced == IInv /\ Init => Placed
  <1> SUFFICES ASSUME IInv, Init PROVE Placed
    OBVIOUS
  <1>1. /\ main = "resolve" /\ at = 1 /\ urls = <<>> /\ requesters = <<>>
        /\ Len(args) \in Nat
    BY LengthFacts DEF Init, PreparationInit
  <1> QED BY <1>1 DEF Placed, Loop

\* Each step keeps the loops in place.
LEMMA PlacedStep ==
    ASSUME IInv, Placed, [Next]_vars
    PROVE  Placed'
  <1> USE LengthFacts DEF resultVars, fileVars, loopVars
  <1>0. /\ requesters \in Seq(1 .. Len(urls)) /\ Len(requesters) \in Nat
        /\ Len(args) \in Nat /\ Len(urls) \in Nat /\ at \in Nat \ {0}
    BY DEF Placed
  <1>1. CASE KeepArgument \/ ResolveHFModelFiles
    <2>1. /\ main = "resolve" /\ main' = "resolve" /\ at' = at + 1 /\ at <= Len(args)
          /\ Len(urls') \in Nat /\ UNCHANGED <<args, requesters>> /\ requesters = <<>>
      BY <1>1, ResolvedStep DEF Placed
    <2> QED BY <1>0, <2>1 DEF Placed, Loop
  <1>2. CASE ResolveFails
    BY <1>0, <1>2 DEF ResolveFails, Placed, Loop
  <1>3. CASE StartPreparing
    BY <1>0, <1>3 DEF StartPreparing, Placed, Loop
  <1>4. CASE Skipped
    BY <1>0, <1>4 DEF Skipped, Skip, NextURL, Placed, Loop
  <1>5. CASE Probed \/ CreateState \/ OpenStorage \/ SplitChunk
    BY <1>0, <1>5 DEF Probed, CreateState, OpenStorage, SplitChunk, Preparing, Placed, Loop
  <1>6. CASE SingleTask \/ SplitDone
    <2>1. /\ main = "split" /\ main' = "probe" /\ at <= Len(urls) /\ at' = at + 1
          /\ requesters' = Append(requesters, at) /\ UNCHANGED <<args, urls>>
      BY <1>6 DEF SingleTask, SplitDone, Preparing, Prepared, NextURL
    <2>2. at \in 1 .. Len(urls)
      BY <1>0, <2>1
    <2>3. /\ requesters' \in Seq(1 .. Len(urls)) /\ Len(requesters') = Len(requesters) + 1
          /\ \A k \in DOMAIN requesters' :
                requesters'[k] = at \/ (k \in DOMAIN requesters /\ requesters'[k] = requesters[k])
      BY <1>0, <2>1, <2>2, AppendRequester
    <2>4. /\ Len(requesters) < at
          /\ \A k \in DOMAIN requesters : requesters[k] < at /\ requesters[k] \in Nat
      BY <1>0, <2>1 DEF Placed, Loop
    <2>5. \A k \in DOMAIN requesters' : requesters'[k] < at + 1
      BY <1>0, <2>3, <2>4
    <2> QED BY <1>0, <2>1, <2>3, <2>4, <2>5 DEF Placed, Loop
  <1>7. CASE StartFetching
    BY <1>0, <1>7 DEF StartFetching, Placed, Loop
  <1>8. CASE LeavesFetch
    BY <1>0, <1>8 DEF LeavesFetch, LeaveFetch, Placed, Loop
  <1>9. CASE Cleanup \/ Return \/ Exit
    BY <1>0, <1>9 DEF Cleanup, Return, Exit, Placed, Loop
  <1>10. CASE Elsewhere
    BY <1>10 DEF Elsewhere, Placed
  <1> QED BY <1>1, <1>2, <1>3, <1>4, <1>5, <1>6, <1>7, <1>8, <1>9, <1>10, StepCases, LoopCases

-----------------------------------------------------------------------------
(* The split of a file.                                                    *)

LEMMA Division ==
    ASSUME NEW n \in Nat, NEW r \in Nat \ {0}
    PROVE  /\ n \div r \in Nat /\ n % r \in 0 .. r - 1
           /\ n = ((n \div r) * r) + (n % r)
  OBVIOUS

LEMMA Multiples ==
    ASSUME NEW a \in Nat, NEW b \in Nat, NEW r \in Nat, a <= b
    PROVE  a * r \in Nat /\ b * r \in Nat /\ a * r <= b * r
  OBVIOUS

LEMMA NextMultiple ==
    ASSUME NEW a \in Nat, NEW r \in Nat
    PROVE  (a + 1) * r = a * r + r
  OBVIOUS

\* Turn c of the chunk loop, the end of its range, and its task.
End(c)     == IF c = ChunkCount - 1 THEN length ELSE (c + 1) * RangeSize
ChunkAt(c) == NewTask(c * RangeSize,
                      IF c = ChunkCount - 1 THEN length - c * RangeSize ELSE RangeSize)

\* The chunks follow each other from 0 to the end of the file, and none is
\* empty.
LEMMA ChunkGeometry ==
    ASSUME length \in Nat
    PROVE  /\ ChunkCount \in Nat
           /\ \A c \in 0 .. ChunkCount - 1 :
                /\ c * RangeSize \in Nat /\ End(c) \in Nat
                /\ c * RangeSize < End(c) /\ End(c) <= (c + 1) * RangeSize /\ End(c) <= length
                /\ (c + 1) * RangeSize \in Nat
           /\ length > 0 => ChunkCount > 0
           /\ ChunkCount * RangeSize >= length /\ ChunkCount * RangeSize \in Nat
  <1> DEFINE q == length \div RangeSize
             rest == length % RangeSize
  <1>r. RangeSize \in Nat \ {0} /\ RangeSize \in Nat
    BY PreparationAssumption
  <1>1. q \in Nat /\ rest \in 0 .. RangeSize - 1 /\ length = (q * RangeSize) + rest
    BY <1>r, Division
  <1>2. ChunkCount = q + (IF rest # 0 THEN 1 ELSE 0)
    BY DEF ChunkCount
  <1> HIDE DEF q, rest
  <1>3. ChunkCount \in Nat
    BY <1>1, <1>2
  <1>4. q * RangeSize \in Nat /\ (q + 1) * RangeSize = q * RangeSize + RangeSize
    BY <1>1, <1>r, Multiples, NextMultiple
  <1>5. ASSUME NEW c \in 0 .. ChunkCount - 1
        PROVE  /\ c * RangeSize \in Nat /\ End(c) \in Nat
               /\ c * RangeSize < End(c) /\ End(c) <= (c + 1) * RangeSize /\ End(c) <= length
               /\ (c + 1) * RangeSize \in Nat
    <2>1. c \in Nat /\ c + 1 \in Nat /\ c <= q /\ (c < q \/ rest # 0)
      BY <1>1, <1>2
    <2>2. c * RangeSize \in Nat /\ (c + 1) * RangeSize = c * RangeSize + RangeSize
          /\ c * RangeSize <= q * RangeSize
      BY <2>1, <1>1, <1>r, Multiples, NextMultiple
    <2>3. CASE c = ChunkCount - 1
      <3>1. (rest # 0 /\ c = q) \/ (rest = 0 /\ c + 1 = q)
        BY <2>3, <1>1, <1>2
      <3>2. c * RangeSize < length /\ length <= (c + 1) * RangeSize
        BY <3>1, <2>2, <1>1, <1>4, <1>r
      <3> QED BY <2>3, <2>2, <3>2, <1>r DEF End
    <2>4. CASE c # ChunkCount - 1
      <3>1. c + 1 <= q
        BY <2>4, <1>1, <1>2, <1>3
      <3>2. (c + 1) * RangeSize <= q * RangeSize
        BY <3>1, <2>1, <1>1, <1>r, Multiples
      <3> QED BY <2>4, <2>2, <3>2, <1>1, <1>4, <1>r DEF End
    <2> QED BY <2>3, <2>4
  <1>6. length > 0 => ChunkCount > 0
    <2>1. q = 0 => q * RangeSize = 0
      BY <1>r
    <2> QED BY <1>1, <1>2, <2>1
  <1>7. ChunkCount * RangeSize >= length /\ ChunkCount * RangeSize \in Nat
    <2>1. CASE rest = 0
      BY <2>1, <1>1, <1>2, <1>4
    <2>2. CASE rest # 0
      BY <2>2, <1>1, <1>2, <1>4, <1>r
    <2> QED BY <2>1, <2>2
  <1> QED BY <1>3, <1>5, <1>6, <1>7

\* A byte of the file lies in one chunk.
LEMMA OneChunkCovers ==
    ASSUME length \in Nat, NEW p \in 0 .. length - 1
    PROVE  \E d \in 0 .. ChunkCount - 1 : \A c \in 0 .. ChunkCount - 1 :
               (c * RangeSize <= p /\ p < End(c)) <=> c = d
  <1> DEFINE d == p \div RangeSize
             m == p % RangeSize
  <1>r. RangeSize \in Nat \ {0} /\ RangeSize \in Nat /\ p \in Nat
    BY PreparationAssumption
  <1>1. d \in Nat /\ m \in 0 .. RangeSize - 1 /\ p = (d * RangeSize) + m
    BY <1>r, Division
  <1> HIDE DEF d, m
  <1>2. d * RangeSize \in Nat /\ (d + 1) * RangeSize = d * RangeSize + RangeSize
    BY <1>1, <1>r, Multiples, NextMultiple
  <1>3. d \in 0 .. ChunkCount - 1
    <2>1. SUFFICES ASSUME ChunkCount <= d PROVE FALSE
      BY <1>1, ChunkGeometry
    <2>2. ChunkCount * RangeSize <= d * RangeSize
      BY <2>1, <1>1, <1>r, ChunkGeometry, Multiples
    <2> QED BY <2>2, <1>1, <1>2, <1>r, ChunkGeometry
  <1>4. d * RangeSize <= p /\ p < End(d)
    BY <1>1, <1>2, <1>3, <1>r DEF End
  <1>5. ASSUME NEW c \in 0 .. ChunkCount - 1, c * RangeSize <= p, p < End(c)
        PROVE  c = d
    <2>1. /\ c \in Nat /\ c * RangeSize \in Nat /\ (c + 1) * RangeSize \in Nat
          /\ p < (c + 1) * RangeSize
      BY <1>5, <1>r, ChunkGeometry
    <2>2. ~(c < d)
      <3>1. c + 1 <= d => (c + 1) * RangeSize <= d * RangeSize
        BY <2>1, <1>1, <1>r, Multiples
      <3> QED BY <2>1, <3>1, <1>1, <1>2
    <2>3. ~(d < c)
      <3>1. d + 1 <= c => (d + 1) * RangeSize <= c * RangeSize
        BY <2>1, <1>1, <1>r, Multiples
      <3>2. p < (d + 1) * RangeSize
        BY <1>1, <1>2, <1>r
      <3>3. d < c => d + 1 <= c
        BY <2>1, <1>1
      <3> QED BY <2>1, <3>1, <3>2, <3>3, <1>1, <1>2, <1>5, <1>r
    <2> QED BY <2>1, <2>2, <2>3, <1>1
  <1> QED BY <1>3, <1>4, <1>5

\* A probe tells the size of the file, or that it does not know.
LEMMA ProbeSize ==
    ASSUME NEW u \in Resource, NEW size \in Probes(u, ctxDone) \ {ProbeError}
    PROVE  size \in Nat /\ size \in {0, u.size}
  <1>1. size \in Nat /\ Probeable(u)
    BY ProbeFacts
  <1>2. CASE GetProber(u) = "http"
    <2>1. size \in HttpProbes(u, ctxDone)
      BY <1>2 DEF Probes
    <2>2. \E a \in HttpAnswer : size = HttpProbe(a, u.size)
      BY <2>1 DEF HttpProbes
    <2> QED BY <1>1, <2>2 DEF HttpProbe, HttpAnswer
  <1>3. CASE GetProber(u) # "http"
    <2>1. GetProber(u) \in {"ftp", "ffmpeg", "torrent", "magnet"}
      BY <1>3 DEF GetProber, ByScheme
    <2> QED BY <1>1, <1>3, <2>1 DEF Probes, FtpProbes, FfmpegProbes, TorrentProbes
  <1> QED BY <1>2, <1>3

\* The list built so far: what was submitted and what is in the batch are the
\* chunks in order, and the batch is never full.
Listed == urlTasks \o batch

Splitting ==
    /\ main # "split" => chunk = 0 /\ batch = <<>> /\ urlTasks = <<>>
    /\ main \in {"state", "open", "split"} => length \in {0, urls[at].size}
    /\ chunk \in 0 .. ChunkCount /\ Len(batch) < BatchSize
    /\ main = "split" => /\ Len(Listed) = chunk
                         /\ \A i \in 1 .. chunk : Listed[i] = ChunkAt(i - 1)

\* A task more at the end of the batch, which may then be submitted.
LEMMA ListedGrows ==
    ASSUME NEW T, NEW r \in Seq(T), NEW b \in Seq(T), NEW t \in T
    PROVE  /\ (r \o Append(b, t)) \o <<>> = r \o Append(b, t)
           /\ Len(r \o Append(b, t)) = Len(r \o b) + 1
           /\ \A i \in 1 .. Len(r \o b) : (r \o Append(b, t))[i] = (r \o b)[i]
           /\ (r \o Append(b, t))[Len(r \o b) + 1] = t
           /\ Len(r \o b) \in Nat
  OBVIOUS

\* Nothing is listed in the beginning.
LEMMA NothingListed == <<>> \o <<>> = <<>> /\ Len(<<>>) = 0
  OBVIOUS

LEMMA InitSplitting == Init => Splitting
  <1> SUFFICES ASSUME Init PROVE Splitting
    OBVIOUS
  <1>1. ChunkCount \in Nat
    BY ChunkGeometry DEF Init, PreparationInit
  <1>2. Len(batch) = 0 /\ BatchSize \in Nat \ {0}
    BY NothingListed, PreparationAssumption DEF Init, PreparationInit
  <1> QED BY <1>1, <1>2 DEF Init, PreparationInit, Splitting

\* One turn of the loop.
LEMMA SplitChunkStep ==
    ASSUME IInv, Splitting, SplitChunk
    PROVE  Splitting'
  <1>1. /\ main = "split" /\ chunk < ChunkCount /\ chunk' = chunk + 1
        /\ UNCHANGED <<main, args, urls, at, length, storages>>
    BY DEF SplitChunk, Preparing, fileVars
  <1>2. /\ urlTasks \in Seq(SoundTasks) /\ batch \in Seq(SoundTasks)
        /\ length \in Nat /\ at \in 1 .. Len(urls)
    BY <1>1 DEF IInv, PrepareInv
  <1>3. ChunkTask \in SoundTasks /\ ChunkTask = ChunkAt(chunk)
    <2>1. chunk * RangeSize \in Nat /\ length - chunk * RangeSize \in Int
      BY <1>1, <1>2, PreparationAssumption DEF IInv, PrepareInv
    <2>2. ChunkTask \in SoundTasks
      BY <1>1, <2>1, NewTaskSound, PreparationAssumption DEF ChunkTask, IInv
    <2> QED BY <2>2 DEF ChunkTask, ChunkAt
  <1> DEFINE filled == Append(batch, ChunkTask)
  <1>4. /\ (urlTasks \o filled) \o <<>> = urlTasks \o filled
        /\ Len(urlTasks \o filled) = Len(Listed) + 1
        /\ \A i \in 1 .. Len(Listed) : (urlTasks \o filled)[i] = Listed[i]
        /\ (urlTasks \o filled)[Len(Listed) + 1] = ChunkTask
    BY <1>2, <1>3, ListedGrows DEF Listed
  <1>5. Listed' = urlTasks \o filled /\ Len(batch') < BatchSize
    <2>1. IF Len(filled) >= BatchSize
          THEN urlTasks' = urlTasks \o filled /\ batch' = <<>>
          ELSE batch' = filled /\ UNCHANGED urlTasks
      BY DEF SplitChunk
    <2>2. Len(filled) \in Nat /\ BatchSize \in Nat \ {0} /\ Len(<<>>) = 0
      BY <1>2, <1>3, PreparationAssumption
    <2> HIDE DEF filled
    <2>3. CASE Len(filled) >= BatchSize
      BY <2>1, <2>2, <2>3, <1>4 DEF Listed
    <2>4. CASE ~(Len(filled) >= BatchSize)
      BY <2>1, <2>2, <2>4 DEF Listed
    <2> QED BY <2>3, <2>4
  <1> HIDE DEF filled
  <1>6. /\ chunk \in 0 .. ChunkCount /\ Len(Listed) = chunk
        /\ \A i \in 1 .. chunk : Listed[i] = ChunkAt(i - 1)
        /\ ChunkCount \in Nat
    BY <1>1, <1>2, ChunkGeometry DEF Splitting
  <1>7. ChunkCount' = ChunkCount /\ \A c \in Int : ChunkAt(c)' = ChunkAt(c)
    BY <1>1 DEF ChunkCount, ChunkAt, NewTask
  <1>8. ASSUME NEW i \in 1 .. chunk' PROVE Listed'[i] = ChunkAt(i - 1)'
    <2>1. i \in 1 .. chunk \/ i = chunk + 1
      BY <1>1, <1>6
    <2>2. i - 1 \in Int /\ ChunkAt(i - 1)' = ChunkAt(i - 1)
      BY <1>7
    <2>3. CASE i \in 1 .. chunk
      BY <2>2, <2>3, <1>4, <1>5, <1>6
    <2>4. CASE i = chunk + 1
      BY <2>2, <2>4, <1>3, <1>4, <1>5, <1>6
    <2> QED BY <2>1, <2>3, <2>4
  <1>9. chunk' \in 0 .. ChunkCount'
    BY <1>1, <1>6, <1>7
  <1>10. length \in {0, urls[at].size}
    BY <1>1 DEF Splitting
  <1> QED BY <1>1, <1>4, <1>5, <1>6, <1>8, <1>9, <1>10 DEF Splitting

\* Each step keeps the list of chunks in order.
LEMMA SplittingStep ==
    ASSUME IInv, Placed, Splitting, [Next]_vars
    PROVE  Splitting'
  <1> USE DEF resultVars, fileVars, loopVars
  <1>0. length \in Nat /\ urls \in Seq(Resource) /\ at \in Nat \ {0}
    BY DEF IInv, PrepareInv
  <1>e. Len(<<>>) = 0 /\ BatchSize \in Nat \ {0} /\ RangeSize \in Nat \ {0}
    BY PreparationAssumption
  <1>1. CASE KeepArgument \/ ResolveHFModelFiles
    BY <1>1, ResolvedStep DEF Splitting, ChunkCount
  <1>2. CASE ResolveFails \/ StartPreparing \/ StartFetching
    BY <1>2 DEF ResolveFails, StartPreparing, StartFetching, Resolving, Splitting, ChunkCount
  <1>3. CASE LeavesFetch \/ Cleanup \/ Return \/ Exit
    BY <1>3 DEF LeavesFetch, LeaveFetch, Cleanup, Return, Exit, Splitting, ChunkCount
  <1>4. CASE Skipped \/ SingleTask \/ SplitDone
    <2>1. NextURL
      BY <1>4 DEF Skipped, Skip, SingleTask, SplitDone, Prepared
    <2>2. ChunkCount' \in Nat
      <3>1. length' \in Nat
        BY <2>1 DEF NextURL
      <3>2. length' \div RangeSize \in Nat
        BY <3>1, <1>e, Division
      <3> QED BY <3>2 DEF ChunkCount
    <2> QED BY <2>1, <2>2, <1>e DEF NextURL, Splitting
  <1>5. CASE Probed
    <2>1. urls[at] \in Resource
      BY <1>0, <1>5 DEF Probed
    <2>2. length' \in Nat /\ length' \in {0, urls[at].size}
      BY <2>1, <1>5, ProbeSize DEF Probed
    <2>3. ChunkCount' \in Nat
      <3>1. length' \div RangeSize \in Nat
        BY <2>2, <1>e, Division
      <3> QED BY <3>1 DEF ChunkCount
    <2> QED BY <1>5, <2>2, <2>3 DEF Probed, Splitting
  <1>6. CASE CreateState
    BY <1>6 DEF CreateState, Preparing, Splitting, ChunkCount
  <1>7. CASE OpenStorage
    <2>1. /\ main = "open" /\ main' = "split" /\ chunk = 0
          /\ batch = <<>> /\ urlTasks = <<>>
          /\ UNCHANGED <<args, urls, at, length, chunk, batch, urlTasks>>
      BY <1>7 DEF OpenStorage, Preparing, Splitting
    <2>2. Listed' = <<>>
      BY <2>1, NothingListed DEF Listed
    <2> QED BY <2>1, <2>2, <1>e DEF Splitting, ChunkCount
  <1>8. CASE SplitChunk
    BY <1>8, SplitChunkStep
  <1>9. CASE Elsewhere
    BY <1>9 DEF Elsewhere, Splitting, Listed, ChunkCount, ChunkAt, NewTask
  <1> QED BY <1>1, <1>2, <1>3, <1>4, <1>5, <1>6, <1>7, <1>8, <1>9, StepCases, LoopCases

-----------------------------------------------------------------------------
(* The tasks of a URL.                                                     *)

\* One task for whatever will come, and chunks of which exactly one covers
\* each byte.
OneTask(ts, u) == /\ Len(ts) = 1 /\ ts[1].offset = 0
                  /\ ts[1].length = IF IsBitTorrent(u) THEN 0 ELSE -1

Tiling(ts, size) ==
    /\ \A k \in DOMAIN ts : /\ ts[k].offset >= 0 /\ ts[k].length > 0
                            /\ ts[k].offset + ts[k].length <= size
    /\ \A p \in 0 .. size - 1 :
          \E k \in DOMAIN ts : \A j \in DOMAIN ts : Covers(ts[j], p) <=> j = k

\* The single task is one of these.
LEMMA SingleIsComplete ==
    ASSUME IInv, Splitting, main = "split", Single, at <= Len(urls),
           NEW ts, ts = <<NewTask(0, SingleLength)>>
    PROVE  OneTask(ts, urls[at]) \/ Tiling(ts, urls[at].size)
  <1>1. /\ ts[1].offset = 0 /\ ts[1].length = SingleLength
        /\ Len(ts) = 1 /\ DOMAIN ts = {1}
    BY DEF NewTask
  <1>2. length \in Nat /\ length \in {0, urls[at].size}
    BY DEF IInv, PrepareInv, Splitting
  <1>3. CASE IsBitTorrent(urls[at]) /\ length # 0
    <2>1. ts[1].length = urls[at].size /\ urls[at].size \in Nat \ {0}
      BY <1>1, <1>2, <1>3 DEF SingleLength
    <2>2. \A p \in 0 .. urls[at].size - 1 : Covers(ts[1], p)
      BY <1>1, <2>1 DEF Covers
    <2> QED BY <1>1, <2>1, <2>2 DEF Tiling
  <1>4. CASE ~(IsBitTorrent(urls[at]) /\ length # 0)
    BY <1>1, <1>2, <1>4 DEF SingleLength, OneTask
  <1> QED BY <1>3, <1>4

\* And so are the chunks, when the loop has come to its end.
LEMMA ChunksAreComplete ==
    ASSUME IInv, Splitting, main = "split", ~Single, at <= Len(urls), chunk = ChunkCount
    PROVE  Tiling(Listed, urls[at].size)
  <1> DEFINE N == ChunkCount
  <1>1. length \in Nat \ {0} /\ length = urls[at].size
    BY DEF IInv, PrepareInv, Splitting, Single
  <1>2. /\ Listed \in Seq(SoundTasks) /\ Len(Listed) = N /\ N \in Nat
        /\ \A i \in 1 .. N : Listed[i] = ChunkAt(i - 1)
    <2>1. Listed \in Seq(SoundTasks)
      BY DEF IInv, PrepareInv, Listed
    <2>2. N \in Nat
      BY <1>1, ChunkGeometry
    <2>3. Len(Listed) = chunk /\ \A i \in 1 .. chunk : Listed[i] = ChunkAt(i - 1)
      BY DEF Splitting
    <2> QED BY <2>1, <2>2, <2>3
  <1>3. DOMAIN Listed = 1 .. N
    BY <1>2
  <1>4. ASSUME NEW i \in 1 .. N
        PROVE  /\ i - 1 \in 0 .. N - 1
               /\ Listed[i].offset = (i - 1) * RangeSize
               /\ Listed[i].offset \in Nat /\ Listed[i].length > 0
               /\ Listed[i].offset + Listed[i].length = End(i - 1)
               /\ End(i - 1) <= length
    <2> DEFINE c == i - 1
    <2>1. c \in 0 .. N - 1 /\ c \in Nat
      BY <1>2
    <2>2. /\ Listed[i].offset = c * RangeSize
          /\ Listed[i].length = IF c = N - 1 THEN length - c * RangeSize ELSE RangeSize
      BY <1>2 DEF ChunkAt, NewTask
    <2> HIDE DEF c
    <2>3. /\ c * RangeSize \in Nat /\ End(c) \in Nat
          /\ c * RangeSize < End(c) /\ End(c) <= length
      BY <1>1, <2>1, ChunkGeometry
    <2>4. (c + 1) * RangeSize = c * RangeSize + RangeSize /\ RangeSize \in Nat \ {0}
      BY <2>1, NextMultiple, PreparationAssumption
    <2>5. /\ Listed[i].length > 0
          /\ Listed[i].offset + Listed[i].length = End(c)
      BY <1>1, <2>2, <2>3, <2>4 DEF End
    <2> QED BY <2>1, <2>2, <2>3, <2>5 DEF c
  <1>5. ASSUME NEW p \in 0 .. length - 1
        PROVE  \E k \in 1 .. N : \A j \in 1 .. N : Covers(Listed[j], p) <=> j = k
    <2>1. PICK d \in 0 .. N - 1 : \A c \in 0 .. N - 1 :
                (c * RangeSize <= p /\ p < End(c)) <=> c = d
      BY <1>1, OneChunkCovers
    <2>2. d + 1 \in 1 .. N
      BY <1>2
    <2>3. ASSUME NEW j \in 1 .. N PROVE Covers(Listed[j], p) <=> j = d + 1
      <3>1. Covers(Listed[j], p) <=> ((j - 1) * RangeSize <= p /\ p < End(j - 1))
        BY <1>4 DEF Covers
      <3>2. j - 1 \in 0 .. N - 1 /\ (j - 1 = d <=> j = d + 1)
        BY <1>2
      <3> QED BY <2>1, <3>1, <3>2
    <2> QED BY <2>2, <2>3
  <1> HIDE DEF N
  <1>6. \A k \in 1 .. N : /\ Listed[k].offset >= 0 /\ Listed[k].length > 0
                          /\ Listed[k].offset + Listed[k].length <= length
    BY <1>4
  <1>7. \A p \in 0 .. length - 1 :
           \E k \in 1 .. N : \A j \in 1 .. N : Covers(Listed[j], p) <=> j = k
    BY <1>5
  <1> QED BY <1>1, <1>3, <1>6, <1>7 DEF Tiling

\* What PrepareTasks returns when it succeeds.
LEMMA PreparedList ==
    ASSUME IInv, Splitting, SingleTask \/ SplitDone
    PROVE  /\ main = "split" /\ at \in 1 .. Len(urls)
           /\ \E ts \in Seq(SoundTasks) :
                /\ Prepared(ts) /\ \A k \in DOMAIN ts : ts[k].url = at
                /\ OneTask(ts, urls[at]) \/ Tiling(ts, urls[at].size)
  <1>1. main = "split" /\ at <= Len(urls) /\ at \in 1 .. Len(urls)
    BY LengthFacts DEF SingleTask, SplitDone, Preparing
  <1>2. CASE SingleTask
    <2> DEFINE t == NewTask(0, SingleLength)
    <2>1. SingleLength \in Int
      BY DEF SingleLength, IInv, PrepareInv
    <2>2. t \in SoundTasks /\ t.url = at
      BY <1>1, <2>1, NewTaskSound DEF IInv, NewTask
    <2>3. Prepared(<<t>>) /\ Single
      BY <1>2 DEF SingleTask
    <2>4. OneTask(<<t>>, urls[at]) \/ Tiling(<<t>>, urls[at].size)
      BY <1>1, <2>3, SingleIsComplete
    <2> HIDE DEF t
    <2>5. <<t>> \in Seq(SoundTasks) /\ \A k \in DOMAIN <<t>> : <<t>>[k].url = at
      BY <2>2
    <2> QED BY <1>1, <2>3, <2>4, <2>5
  <1>3. CASE SplitDone
    <2>1. Listed \in Seq(SoundTasks)
      BY DEF IInv, PrepareInv, Listed
    <2>2. Prepared(Listed) /\ ~Single /\ chunk = ChunkCount
      BY <1>3 DEF SplitDone, Listed
    <2>3. Tiling(Listed, urls[at].size)
      BY <1>1, <2>2, ChunksAreComplete
    <2>4. ASSUME NEW k \in DOMAIN Listed PROVE Listed[k].url = at
      <3>1. k \in 1 .. chunk
        BY <1>1, <2>1 DEF Splitting
      <3> QED BY <1>1, <3>1 DEF Splitting, ChunkAt, NewTask
    <2> QED BY <1>1, <2>1, <2>2, <2>3, <2>4
  <1> QED BY <1>2, <1>3

-----------------------------------------------------------------------------
(* What is collected for the pool.                                         *)

\* The requester of urls[at] has succeeded with the tasks ts.
Collected(ts) ==
    /\ main = "split" /\ at \in 1 .. Len(urls)
    /\ ts \in Seq(SoundTasks)
    /\ Prepared(ts) /\ \A k \in DOMAIN ts : ts[k].url = at
    /\ OneTask(ts, urls[at]) \/ Tiling(ts, urls[at].size)

\* A step collects the tasks of a requester, or it leaves those of all
\* requesters, whose URLs do not change any more, alone.
LEMMA ResultCases ==
    ASSUME IInv, Splitting, [Next]_vars
    PROVE  \/ UNCHANGED resultVars /\ (main = "resolve" \/ UNCHANGED urls)
           \/ \E ts : Collected(ts)
  <1>1. CASE SingleTask \/ SplitDone
    BY <1>1, PreparedList DEF Collected
  <1>2. CASE Skipped
    BY <1>2 DEF Skipped, Skip
  <1>3. CASE KeepArgument \/ ResolveHFModelFiles
    BY <1>3, ResolvedStep
  <1>4. CASE \/ ResolveFails \/ StartPreparing \/ Probed \/ CreateState \/ OpenStorage
             \/ SplitChunk \/ StartFetching \/ LeavesFetch \/ Cleanup \/ Return \/ Exit
    BY <1>4 DEF ResolveFails, StartPreparing, Probed, CreateState, OpenStorage,
           SplitChunk, StartFetching, LeavesFetch, LeaveFetch, Cleanup, Return, Exit
  <1>5. CASE Elsewhere
    BY <1>5 DEF Elsewhere
  <1> QED BY <1>1, <1>2, <1>3, <1>4, <1>5, StepCases, LoopCases

\* The new tasks come after the old ones.
LEMMA JoinFacts ==
    ASSUME NEW T, NEW r \in Seq(T), NEW s \in Seq(T)
    PROVE  /\ Len(r) \in Nat /\ Len(s) \in Nat
           /\ DOMAIN r = 1 .. Len(r) /\ DOMAIN s = 1 .. Len(s)
           /\ DOMAIN (r \o s) = 1 .. Len(r) + Len(s)
           /\ \A i \in 1 .. Len(r) : (r \o s)[i] = r[i]
           /\ \A k \in 1 .. Len(s) : (r \o s)[Len(r) + k] = s[k]
  OBVIOUS

LEMMA CollectedFacts ==
    ASSUME IInv, Placed, NEW ts, Collected(ts)
    PROVE  /\ UNCHANGED urls
           /\ at \notin Range(requesters)
           /\ Range(requesters') = Range(requesters) \cup {at}
           /\ Len(allTasks) \in Nat /\ Len(ts) \in Nat
           /\ DOMAIN allTasks = 1 .. Len(allTasks) /\ DOMAIN ts = 1 .. Len(ts)
           /\ DOMAIN allTasks' = 1 .. Len(allTasks) + Len(ts)
           /\ \A i \in 1 .. Len(allTasks) : allTasks'[i] = allTasks[i]
           /\ \A k \in 1 .. Len(ts) : allTasks'[Len(allTasks) + k] = ts[k]
  <1>1. /\ allTasks' = allTasks \o ts /\ requesters' = Append(requesters, at)
        /\ UNCHANGED urls
    BY DEF Collected, Prepared
  <1>2. allTasks \in Seq(SoundTasks) /\ ts \in Seq(SoundTasks)
    BY DEF IInv, PrepareInv, Collected
  <1>3. /\ requesters \in Seq(1 .. Len(urls)) /\ at \in 1 .. Len(urls)
        /\ \A k \in DOMAIN requesters : requesters[k] < at
    BY DEF Placed, Loop, Collected
  <1>4. at \notin Range(requesters)
    BY <1>3 DEF Range
  <1>5. Range(Append(requesters, at)) = Range(requesters) \cup {at}
    <2> DEFINE S == 1 .. Len(urls)
    <2>1. requesters \in Seq(S) /\ at \in S
      BY <1>3
    <2> HIDE DEF S
    <2> QED BY <2>1, AppendRequester
  <1>6. Range(requesters') = Range(requesters) \cup {at}
    BY <1>1, <1>5 DEF Range
  <1> QED BY <1>1, <1>2, <1>4, <1>6, JoinFacts

\* KnownBytes reads nothing but its argument.
LEMMA KnownBytesPrimed == KnownBytes(allTasks)' = KnownBytes(allTasks')
  BY DEF KnownBytes, FoldSeq, FoldFunction, FoldFunctionOnSet, MapThenFoldSet

LEMMA InitSkipped == Init => SkippedLeavesNothing
  <1> SUFFICES ASSUME Init PROVE SkippedLeavesNothing
    OBVIOUS
  <1>1. allTasks = <<>> /\ total = 0
    BY DEF Init, PreparationInit
  <1> QED BY <1>1, KnownBytesNone DEF SkippedLeavesNothing

\* Only a requester that succeeds adds tasks, and their lengths, together.
LEMMA SkippedStep ==
    ASSUME IInv, Placed, Splitting, SkippedLeavesNothing, [Next]_vars
    PROVE  SkippedLeavesNothing'
  <1>1. CASE UNCHANGED resultVars
    <2>1. UNCHANGED <<allTasks, requesters, total>>
      BY <1>1 DEF resultVars
    <2>2. KnownBytes(allTasks)' = KnownBytes(allTasks)
      BY <2>1, KnownBytesPrimed
    <2> QED BY <2>1, <2>2 DEF SkippedLeavesNothing
  <1>2. ASSUME NEW ts, Collected(ts) PROVE SkippedLeavesNothing'
    <2>1. \A i \in DOMAIN allTasks' : allTasks'[i].url \in Range(requesters')
      <3> SUFFICES ASSUME NEW i \in DOMAIN allTasks'
                   PROVE  allTasks'[i].url \in Range(requesters')
        OBVIOUS
      <3>1. CASE i \in DOMAIN allTasks
        BY <1>2, <3>1, CollectedFacts DEF SkippedLeavesNothing
      <3>2. CASE i \notin DOMAIN allTasks
        <4>1. PICK k \in 1 .. Len(ts) : i = Len(allTasks) + k
          <5>1. i \in 1 .. Len(allTasks) + Len(ts) /\ i \notin 1 .. Len(allTasks)
                /\ Len(allTasks) \in Nat /\ Len(ts) \in Nat
            BY <1>2, <3>2, CollectedFacts
          <5>2. i - Len(allTasks) \in 1 .. Len(ts)
                /\ i = Len(allTasks) + (i - Len(allTasks))
            BY <5>1
          <5> QED BY <5>2
        <4>2. allTasks'[i] = ts[k] /\ ts[k].url = at
          BY <1>2, <4>1, CollectedFacts DEF Collected
        <4> QED BY <1>2, <4>2, CollectedFacts
      <3> QED BY <3>1, <3>2
    <2>2. total' = KnownBytes(allTasks')
      <3>1. allTasks' = allTasks \o ts /\ total' = total + KnownBytes(ts)
        BY <1>2 DEF Collected, Prepared
      <3>2. allTasks \in Seq(SoundTasks) /\ ts \in Seq(SoundTasks)
        BY <1>2 DEF IInv, PrepareInv, Collected
      <3>3. Tasklike(SoundTasks)
        BY DEF Tasklike, SoundTasks
      <3>4. KnownBytes(allTasks \o ts) = KnownBytes(allTasks) + KnownBytes(ts)
        BY <3>2, <3>3, KnownBytesAdd
      <3> QED BY <3>1, <3>4 DEF SkippedLeavesNothing
    <2> QED BY <2>1, <2>2, KnownBytesPrimed DEF SkippedLeavesNothing
  <1> QED BY <1>1, <1>2, ResultCases

-----------------------------------------------------------------------------
(* The tasks of a URL, in the list for the pool.                           *)

Whole(n) == \E i \in DOMAIN allTasks :
               /\ TasksOf(n) = {i} /\ allTasks[i].offset = 0
               /\ allTasks[i].length = IF IsBitTorrent(urls[n]) THEN 0 ELSE -1

Tiled(n) ==
    /\ \A i \in TasksOf(n) : /\ allTasks[i].offset >= 0 /\ allTasks[i].length > 0
                             /\ allTasks[i].offset + allTasks[i].length <= urls[n].size
    /\ \A p \in 0 .. urls[n].size - 1 :
          \E i \in TasksOf(n) : \A j \in TasksOf(n) : Covers(allTasks[j], p) <=> j = i

LEMMA TilePerURL == TasksTile <=> \A n \in Range(requesters) : Whole(n) \/ Tiled(n)
  BY DEF TasksTile, Whole, Tiled

\* The tasks of the URLs before stay as they are.
LEMMA OldTiles ==
    ASSUME IInv, Placed, NEW ts, Collected(ts),
           NEW n \in Range(requesters), Whole(n) \/ Tiled(n)
    PROVE  (Whole(n) \/ Tiled(n))'
  <1> DEFINE L == Len(allTasks)
             M == Len(ts)
             old == allTasks
             new == allTasks'
  <1>1. /\ n # at /\ UNCHANGED urls /\ L \in Nat /\ M \in Nat
        /\ DOMAIN old = 1 .. L /\ DOMAIN new = 1 .. L + M
        /\ \A i \in 1 .. L : new[i] = old[i]
    BY CollectedFacts
  <1>2. ASSUME NEW i \in 1 .. L + M, i \notin 1 .. L PROVE new[i].url = at
    <2>1. i - L \in 1 .. M /\ i = L + (i - L)
      BY <1>1, <1>2
    <2>2. /\ \A k \in 1 .. M : new[L + k] = ts[k]
          /\ \A k \in 1 .. M : ts[k].url = at
      BY CollectedFacts DEF Collected
    <2> QED BY <2>1, <2>2
  <1> HIDE DEF L, M, old, new
  <1>3. \A i \in 1 .. L : i \in 1 .. L + M
    BY <1>1
  <1>4. {i \in DOMAIN new : new[i].url = n} = {i \in DOMAIN old : old[i].url = n}
    BY <1>1, <1>2, <1>3
  <1>5. TasksOf(n)' = TasksOf(n)
    BY <1>4 DEF TasksOf, old, new
  <1>6. /\ TasksOf(n) \subseteq DOMAIN old /\ DOMAIN old \subseteq DOMAIN new
        /\ \A i \in DOMAIN old : new[i] = old[i]
    BY <1>1, <1>3 DEF TasksOf, old
  <1>7. CASE Whole(n)
    BY <1>1, <1>5, <1>6, <1>7 DEF Whole, old, new
  <1>8. CASE Tiled(n)
    BY <1>1, <1>5, <1>6, <1>8 DEF Tiled, Covers, old, new
  <1> QED BY <1>7, <1>8

\* The tasks that are new are those of the URL that was prepared.
LEMMA NewTile ==
    ASSUME IInv, Placed, SkippedLeavesNothing, NEW ts, Collected(ts), NEW n, n = at
    PROVE  (Whole(n) \/ Tiled(n))'
  <1> DEFINE L == Len(allTasks)
             M == Len(ts)
             new == allTasks'
  <1>1. /\ UNCHANGED urls /\ L \in Nat /\ M \in Nat
        /\ DOMAIN ts = 1 .. M /\ DOMAIN new = 1 .. L + M
        /\ \A k \in 1 .. M : new[L + k] = ts[k]
    BY CollectedFacts
  <1>2. \A i \in 1 .. L : new[i].url # n
    BY CollectedFacts DEF SkippedLeavesNothing
  <1>3. \A k \in 1 .. M : ts[k].url = n
    BY <1>1 DEF Collected
  <1> HIDE DEF L, M, new
  <1>4. \A i \in 1 .. L + M : i \notin 1 .. L => i - L \in 1 .. M /\ i = L + (i - L)
    BY <1>1
  <1>5. \A k \in 1 .. M : L + k \in 1 .. L + M
    BY <1>1
  <1>6. TasksOf(n)' = {L + k : k \in 1 .. M}
    <2>1. TasksOf(n)' = {i \in DOMAIN new : new[i].url = n}
      BY DEF TasksOf, new
    <2>2. \A i \in DOMAIN new : new[i].url = n => \E k \in 1 .. M : i = L + k
      BY <1>1, <1>2, <1>4
    <2>3. \A k \in 1 .. M : L + k \in DOMAIN new /\ new[L + k].url = n
      BY <1>1, <1>3, <1>5
    <2> QED BY <2>1, <2>2, <2>3
  <1>7. CASE OneTask(ts, urls[n])
    <2>1. /\ M = 1 /\ ts[1].offset = 0
          /\ ts[1].length = IF IsBitTorrent(urls[n]) THEN 0 ELSE -1
      BY <1>7 DEF OneTask, M
    <2>2. TasksOf(n)' = {L + 1} /\ L + 1 \in DOMAIN new /\ new[L + 1] = ts[1]
      BY <1>1, <1>5, <1>6, <2>1
    <2> QED BY <1>1, <2>1, <2>2 DEF Whole, new
  <1>8. CASE Tiling(ts, urls[n].size)
    <2>1. \A i \in TasksOf(n)' : /\ new[i].offset >= 0 /\ new[i].length > 0
                                 /\ new[i].offset + new[i].length <= urls[n].size
      <3> SUFFICES ASSUME NEW i \in TasksOf(n)'
                   PROVE  /\ new[i].offset >= 0 /\ new[i].length > 0
                          /\ new[i].offset + new[i].length <= urls[n].size
        OBVIOUS
      <3>1. PICK k \in 1 .. M : i = L + k
        BY <1>6
      <3>2. new[i] = ts[k] /\ k \in DOMAIN ts
        BY <1>1, <3>1
      <3> QED BY <1>8, <3>2 DEF Tiling
    <2>2. ASSUME NEW p \in 0 .. urls[n].size - 1
          PROVE  \E i \in TasksOf(n)' : \A j \in TasksOf(n)' : Covers(new[j], p) <=> j = i
      <3>1. PICK k \in DOMAIN ts : \A j \in DOMAIN ts : Covers(ts[j], p) <=> j = k
        BY <1>8 DEF Tiling
      <3>2. ASSUME NEW j \in 1 .. M PROVE Covers(new[L + j], p) <=> L + j = L + k
        <4>1. Covers(new[L + j], p) <=> j = k
          BY <1>1, <3>1
        <4>2. L \in Nat /\ j \in Nat /\ k \in Nat
          BY <1>1
        <4>3. L + j = L + k <=> j = k
          BY <4>2
        <4> QED BY <4>1, <4>3
      <3>3. L + k \in TasksOf(n)'
        BY <1>1, <1>6
      <3>4. ASSUME NEW i \in TasksOf(n)' PROVE Covers(new[i], p) <=> i = L + k
        <4>1. PICK j \in 1 .. M : i = L + j
          BY <1>6
        <4> QED BY <3>2, <4>1
      <3> QED BY <3>3, <3>4
    <2> QED BY <1>1, <2>1, <2>2 DEF Tiled, Covers, new
  <1> QED BY <1>7, <1>8 DEF Collected

\* Nothing is prepared in the beginning.
LEMMA InitTile == Init => TasksTile
  BY DEF Init, PreparationInit, TasksTile, Range

\* A step that prepares a URL adds tasks that tile it, and no step touches the
\* tasks of another.
LEMMA TileStep ==
    ASSUME IInv, Placed, Splitting, SkippedLeavesNothing, TasksTile, [Next]_vars
    PROVE  TasksTile'
  <1>1. CASE UNCHANGED resultVars /\ main = "resolve"
    <2>1. requesters' = <<>>
      BY <1>1 DEF resultVars, Placed
    <2> QED BY <2>1 DEF TasksTile, Range
  <1>2. CASE UNCHANGED resultVars /\ UNCHANGED urls
    BY <1>2 DEF resultVars, TasksTile, TasksOf, Range, Covers
  <1>3. ASSUME NEW ts, Collected(ts) PROVE TasksTile'
    <2>1. ASSUME NEW n \in Range(requesters') PROVE (Whole(n) \/ Tiled(n))'
      <3>1. CASE n \in Range(requesters)
        BY <1>3, <3>1, OldTiles, TilePerURL
      <3>2. CASE n = at
        BY <1>3, <3>2, NewTile
      <3> QED BY <1>3, <3>1, <3>2, CollectedFacts
    <2> QED BY <2>1 DEF TasksTile, Whole, Tiled, Range
  <1> QED BY <1>1, <1>2, <1>3, ResultCases

-----------------------------------------------------------------------------
(* What is given back.                                                     *)

\* Named(f, n): f is the name of the file of URL n.
Named(f, n) == f = parseFileName(urls[n])

\* A storage is that of a requester that is to be cleaned up, but for the one
\* that is in its split, unless the context was cancelled in one.
Held == /\ main = "resolve" => states = {} /\ storages = {}
        /\ storages \subseteq 1 .. Len(urls)
        /\ \A n \in storages : \/ n \in Range(requesters) \/ ctxDone
                               \/ main = "split" /\ n = at
        /\ \A f \in states : \E n \in 1 .. Len(urls) : Named(f, n)

\* The loop of the cleanup has given back what the requesters behind it had.
GivenBack ==
    main = "cleanup" => \A k \in 1 .. at - 1 : /\ requesters[k] \notin storages
                                               /\ \A f \in states : ~Named(f, requesters[k])

Kept == Held /\ GivenBack /\ NothingLeftBehind

LEMMA InitKept == Init => Kept
  BY DEF Init, PreparationInit, Kept, Held, GivenBack, NothingLeftBehind

\* A state file and a storage more, of the URL the loop is at.
LEMMA AcquireKept ==
    ASSUME IInv, Placed, Kept, CreateState \/ OpenStorage
    PROVE  Kept'
  <1>1. /\ main \in {"state", "open"} /\ main' \in {"open", "split"}
        /\ at \in 1 .. Len(urls)
        /\ UNCHANGED <<args, urls, at, requesters, ctxDone>>
        /\ states' \subseteq states \cup {parseFileName(urls[at])}
        /\ storages' \subseteq storages \cup {at}
        /\ main' = "split" \/ UNCHANGED storages
    BY LengthFacts DEF CreateState, OpenStorage, Preparing, WithState, resultVars, fileVars
  <1>2. \A f : \A n : Named(f, n)' <=> Named(f, n)
    BY <1>1 DEF Named, parseFileName
  <1>3. \A f \in states' : f \in states \/ Named(f, at)
    BY <1>1 DEF Named
  <1>4. Held'
    BY <1>1, <1>2, <1>3 DEF Kept, Held, Range
  <1> QED BY <1>1, <1>4 DEF Kept, GivenBack, NothingLeftBehind

\* A URL is done with: it is skipped, in the split only after a cancel, or its
\* requester is kept.
LEMMA NextURLKept ==
    ASSUME IInv, Placed, Splitting, Kept, Skipped \/ SingleTask \/ SplitDone
    PROVE  Kept'
  <1>1. CASE Skipped
    <2>1. /\ main \in Loop /\ main' = "probe" /\ at \in 1 .. Len(urls)
          /\ UNCHANGED <<args, urls, requesters, storages, ctxDone>>
          /\ states' \subseteq states \cup {parseFileName(urls[at])}
          /\ main = "split" => ctxDone
      BY <1>1, LengthFacts DEF Skipped, Skip, NextURL, WithState, resultVars
    <2>2. \A f : \A n : Named(f, n)' <=> Named(f, n)
      BY <2>1 DEF Named, parseFileName
    <2>3. \A f \in states' : f \in states \/ Named(f, at)
      BY <2>1 DEF Named
    <2>4. Held'
      BY <2>1, <2>2, <2>3 DEF Kept, Held, Range
    <2> QED BY <2>1, <2>4 DEF Kept, GivenBack, NothingLeftBehind
  <1>2. CASE SingleTask \/ SplitDone
    <2>1. PICK ts : Collected(ts)
      BY <1>2, PreparedList DEF Collected
    <2>2. Range(requesters)' = Range(requesters) \cup {at} /\ UNCHANGED urls
      BY <2>1, CollectedFacts DEF Range
    <2>3. main = "split" /\ main' = "probe" /\ UNCHANGED <<states, storages, ctxDone>>
      BY <2>1 DEF Collected, Prepared, NextURL, fileVars
    <2>4. \A f : \A n : Named(f, n)' <=> Named(f, n)
      BY <2>2 DEF Named, parseFileName
    <2>5. Held'
      BY <2>2, <2>3, <2>4 DEF Kept, Held
    <2> QED BY <2>3, <2>5 DEF Kept, GivenBack, NothingLeftBehind
  <1> QED BY <1>1, <1>2

\* One turn of the cleanup.
LEMMA CleanupKept ==
    ASSUME IInv, Placed, Kept, Cleanup
    PROVE  Kept'
  <1> DEFINE r == requesters[at]
  <1>1. /\ main = "cleanup" /\ main' = "cleanup" /\ at' = at + 1 /\ at \in Nat \ {0}
        /\ UNCHANGED <<urls, requesters, ctxDone>>
        /\ storages' = storages \ {r}
        /\ states' = states \ {parseFileName(urls[r])}
    BY LengthFacts DEF Cleanup, resultVars
  <1> HIDE DEF r
  <1>2. \A f : \A n : Named(f, n)' <=> Named(f, n)
    BY <1>1 DEF Named, parseFileName
  <1>3. Held'
    BY <1>1, <1>2 DEF Kept, Held, Range
  <1>4. r \notin storages' /\ \A f \in states' : ~Named(f, r)
    BY <1>1 DEF Named
  <1>5. ASSUME NEW k \in 1 .. at' - 1
        PROVE  /\ requesters[k] \notin storages'
               /\ \A f \in states' : ~Named(f, requesters[k])
    <2>1. k \in 1 .. at - 1 \/ k = at
      BY <1>1
    <2>2. CASE k \in 1 .. at - 1
      BY <2>2, <1>1 DEF Kept, GivenBack
    <2>3. CASE k = at
      BY <2>3, <1>4 DEF r
    <2> QED BY <2>1, <2>2, <2>3
  <1> QED BY <1>1, <1>2, <1>3, <1>5 DEF Kept, GivenBack, NothingLeftBehind

\* The cleanup has come to its end.
LEMMA ReturnKept ==
    ASSUME IInv, Placed, Kept, Return
    PROVE  Kept'
  <1>1. /\ main = "cleanup" /\ main' = "returned" /\ at > Len(requesters)
        /\ at \in Nat /\ UNCHANGED <<urls, requesters, states, storages, ctxDone>>
    BY LengthFacts DEF Return, resultVars, fileVars
  <1>2. requesters \in Seq(1 .. Len(urls)) /\ Len(requesters) \in Nat
    BY DEF Placed
  <1>3. \A n \in Range(requesters) : \E k \in 1 .. at - 1 : requesters[k] = n
    <2>1. \A k \in DOMAIN requesters : k \in 1 .. at - 1
      BY <1>1, <1>2
    <2> QED BY <2>1 DEF Range
  <1>4. \A n \in Range(requesters) : n \notin storages /\ \A f \in states : ~Named(f, n)
    BY <1>1, <1>3 DEF Kept, GivenBack
  <1>5. \A f : \A n : Named(f, n)' <=> Named(f, n)
    BY <1>1 DEF Named, parseFileName
  <1>6. Held'
    BY <1>1, <1>5 DEF Kept, Held, Range
  <1>7. ~ctxDone => storages = {}
    BY <1>1, <1>4 DEF Kept, Held
  <1> DEFINE Skips == DOMAIN urls \ Range(requesters)
  <1>8. \A f \in states : \E n \in Skips : Named(f, n)
    <2>1. DOMAIN urls = 1 .. Len(urls)
      BY DEF IInv, PrepareInv
    <2> QED BY <1>4, <2>1 DEF Kept, Held
  <1>9. NothingLeftBehind'
    <2>1. Skips' = Skips
      BY <1>1 DEF Range
    <2>2. \A f \in states' : \E n \in Skips' : Named(f, n)'
      BY <1>1, <1>5, <1>8, <2>1
    <2>3. \A f \in states' : \E n \in Skips' : f = parseFileName(urls'[n])
      BY <2>2 DEF Named, parseFileName
    <2> QED BY <1>1, <1>7, <2>3 DEF NothingLeftBehind, Range, parseFileName
  <1> QED BY <1>1, <1>6, <1>9 DEF Kept, GivenBack

\* Each step keeps the accounts.
LEMMA KeptStep ==
    ASSUME IInv, Placed, Splitting, Kept, [Next]_vars
    PROVE  Kept'
  <1> USE DEF loopVars, resultVars, fileVars
  <1>1. CASE KeepArgument \/ ResolveHFModelFiles
    <2>1. /\ main = "resolve" /\ main' = "resolve"
          /\ UNCHANGED <<states, storages>> /\ states = {} /\ storages = {}
      BY <1>1, ResolvedStep DEF Kept, Held
    <2> QED BY <2>1 DEF Kept, Held, GivenBack, NothingLeftBehind
  <1>2. CASE ResolveFails
    <2>1. /\ main = "resolve" /\ main' = "returned"
          /\ UNCHANGED <<states, storages>> /\ states = {} /\ storages = {}
      BY <1>2 DEF ResolveFails, Resolving, Kept, Held
    <2> QED BY <2>1 DEF Kept, Held, GivenBack, NothingLeftBehind
  <1>3. CASE StartPreparing
    <2>1. /\ main = "resolve" /\ main' = "probe"
          /\ UNCHANGED <<states, storages>> /\ states = {} /\ storages = {}
      BY <1>3 DEF StartPreparing, Kept, Held
    <2> QED BY <2>1 DEF Kept, Held, GivenBack, NothingLeftBehind
  <1>4. CASE \/ Probed \/ SplitChunk \/ StartFetching
             \/ LeavesFetch \/ Exit \/ Elsewhere
    <2>1. UNCHANGED <<urls, requesters, states, storages>> /\ (ctxDone => ctxDone')
      BY <1>4 DEF Probed, SplitChunk, StartFetching, LeavesFetch, LeaveFetch, Exit, Elsewhere
    <2>2. \A f : \A n : Named(f, n)' <=> Named(f, n)
      BY <2>1 DEF Named, parseFileName
    <2>3. \/ main' = main /\ at' = at
          \/ main \notin {"resolve", "split"} /\ main' # "resolve"
      BY <1>4 DEF Probed, SplitChunk, Preparing, StartFetching, LeavesFetch, LeaveFetch, Exit, Elsewhere
    <2>4. Held'
      BY <2>1, <2>2, <2>3 DEF Kept, Held, Range
    <2>5. GivenBack'
      <3>1. CASE main' = main /\ at' = at
        BY <2>1, <2>2, <3>1 DEF Kept, GivenBack
      <3>2. CASE ~(main' = main /\ at' = at)
        <4>1. main' = "cleanup" => at' = 1
          BY <1>4, <3>2 DEF Probed, SplitChunk, StartFetching, LeavesFetch, LeaveFetch, Exit, Elsewhere
        <4> QED BY <4>1 DEF GivenBack
      <3> QED BY <3>1, <3>2
    <2>6. NothingLeftBehind'
      <3>1. \/ main' \notin {"returned", "exited"} \/ ctxDone'
            \/ main \in {"returned", "exited"} /\ (~ctxDone' => ~ctxDone)
        BY <1>4, <2>1 DEF Probed, SplitChunk, Preparing, StartFetching, LeavesFetch, LeaveFetch, Exit,
               Elsewhere
      <3>2. NothingLeftBehind /\ Range(requesters)' = Range(requesters)
        BY <2>1 DEF Kept, Range
      <3>3. ASSUME main \in {"returned", "exited"}, ~ctxDone, main' \in {"returned", "exited"}
            PROVE  NothingLeftBehind'
        <4>1. storages' = {}
          BY <2>1, <3>2, <3>3 DEF NothingLeftBehind
        <4>2. \A f \in states' : \E n \in DOMAIN urls \ Range(requesters) : f = parseFileName(urls[n])
          BY <2>1, <3>2, <3>3 DEF NothingLeftBehind
        <4>3. urls' = urls /\ DOMAIN urls' = DOMAIN urls /\ Range(requesters)' = Range(requesters)
          BY <2>1, <3>2
        <4>4. (\A f \in states : \E n \in DOMAIN urls \ Range(requesters) : f = parseFileName(urls[n]))'
          BY <4>2, <4>3 DEF parseFileName
        <4> QED BY <4>1, <4>4 DEF NothingLeftBehind
      <3> QED BY <3>1, <3>3 DEF NothingLeftBehind
    <2> QED BY <2>4, <2>5, <2>6 DEF Kept
  <1>5. CASE CreateState \/ OpenStorage
    BY <1>5, AcquireKept
  <1>6. CASE Skipped \/ SingleTask \/ SplitDone
    BY <1>6, NextURLKept
  <1>7. CASE Cleanup \/ Return
    BY <1>7, CleanupKept, ReturnKept
  <1> QED BY <1>1, <1>2, <1>3, <1>4, <1>5, <1>6, <1>7, StepCases, LoopCases

-----------------------------------------------------------------------------
(* What ffmpeg has written.                                                *)

Written == /\ made \in [TaskIds -> 0 .. VideoSize] /\ lines \in [TaskIds -> 0 .. ErrLines]
           /\ ctxDone \in BOOLEAN

LEMMA InitWritten == Init => Written
  <1>1. 0 \in 0 .. VideoSize /\ 0 \in 0 .. ErrLines
    BY ProgramAssumption
  <1>2. Init => /\ made = [t \in TaskIds |-> 0] /\ lines = [t \in TaskIds |-> 0]
                /\ ctxDone = FALSE
    BY DEF Init, PreparationInit, Video!FfmpegInit
  <1> QED BY <1>1, <1>2 DEF Written

\* A process writes no more than the video and its complaints.
LEMMA WrittenStep ==
    ASSUME IInv, Written, [Next]_vars
    PROVE  Written'
  <1> USE DEF videoVars, Written
  <1>1. CASE Main \/ AllWorkersBackOff
    <2>1. UNCHANGED <<made, lines, ctxDone>>
      BY <1>1, PreparationContext
         DEF Main, Prepare, AllWorkersDone, AllWorkersBackOff, LeaveFetch, Cleanup, Return, Exit
    <2> QED BY <2>1
  <1>2. CASE Cancel \/ Exited \/ UNCHANGED vars
    BY <1>2 DEF Cancel, Exited, vars, preparationVars
  <1>3. ASSUME NEW t \in TaskIds, Fetch(t) PROVE Written'
    <2>0. UNCHANGED ctxDone
      BY <1>3 DEF Fetch, TakeTask, FetchPlain, FetchHangs, HangCancelled, BeginVideo, FetchVideo,
             RunFfmpeg, FfmpegInTrouble, preparationVars
    <2>1. CASE FetchPlain(t) \/ FetchHangs(t) \/ HangCancelled(t)
      BY <2>0, <2>1 DEF FetchPlain, FetchHangs, HangCancelled
    <2>2. CASE BeginVideo(t)
      <3>1. UNCHANGED <<made, lines>>
        BY <2>2 DEF BeginVideo, Video!Begin, Video!NotStartable, Video!OpenPipes,
               Video!processVars
      <3> QED BY <2>0, <3>1
    <2>3. CASE FetchVideo(t)
      <3>1. CASE Video!StartProcess(t)
        <4>1. made' = [made EXCEPT ![t] = 0] /\ lines' = [lines EXCEPT ![t] = 0]
          BY <3>1 DEF Video!StartProcess
        <4> QED BY <2>0, <4>1, ProgramAssumption
      <3>2. CASE ~Video!StartProcess(t)
        <4>1. UNCHANGED <<made, lines>>
          BY <2>3, <3>2 DEF FetchVideo, Video!GoOn, Video!StartFails, Video!WaitReturns,
                 Video!FetchFails, Video!FetchOk, Video!Read, Video!ParseProgress,
                 Video!CopyError, Video!ReaderEnds, Video!StrayEnds, Video!processVars
        <4> QED BY <2>0, <4>1
      <3> QED BY <3>1, <3>2
    <2>4. CASE RunFfmpeg(t) \/ FfmpegInTrouble(t)
      <3>1. CASE Video!Emit(t)
        <4>1. /\ made[t] < VideoSize /\ made' = [made EXCEPT ![t] = @ + 1]
              /\ UNCHANGED lines
          BY <3>1 DEF Video!Emit
        <4>2. made[t] + 1 \in 0 .. VideoSize
          BY <4>1, ProgramAssumption
        <4> QED BY <2>0, <4>1, <4>2
      <3>2. CASE Video!Complain(t)
        <4>1. /\ lines[t] < ErrLines /\ lines' = [lines EXCEPT ![t] = @ + 1]
              /\ UNCHANGED made
          BY <3>2 DEF Video!Complain
        <4>2. lines[t] + 1 \in 0 .. ErrLines
          BY <4>1, ProgramAssumption
        <4> QED BY <2>0, <4>1, <4>2
      <3>3. CASE ~Video!Emit(t) /\ ~Video!Complain(t)
        <4>1. UNCHANGED <<made, lines>>
          BY <2>4, <3>3 DEF RunFfmpeg, FfmpegInTrouble, Video!Process, Video!Trouble,
                 Video!ExitsOk, Video!Killed, Video!ExitsError, Video!Exit
        <4> QED BY <2>0, <4>1
      <3> QED BY <3>1, <3>2, <3>3
    <2> QED BY <1>3, <2>1, <2>2, <2>3, <2>4 DEF Fetch, TakeTask
  <1> QED BY <1>1, <1>2, <1>3 DEF Next

-----------------------------------------------------------------------------
(* The invariant and the properties.                                       *)

PreparationInv == /\ IInv /\ Placed /\ Splitting /\ Kept /\ Written
                  /\ SkippedLeavesNothing /\ TasksTile

\* The invariant holds in every state the program reaches.
THEOREM PreparationInvariant == Spec => []PreparationInv
  <1>1. Init => PreparationInv
    BY InitIInv, InitPlaced, InitSplitting, InitKept, InitWritten, InitSkipped, InitTile
       DEF PreparationInv
  <1>2. PreparationInv /\ [Next]_vars => PreparationInv'
    BY NextIInv, PlacedStep, SplittingStep, KeptStep, WrittenStep, SkippedStep, TileStep
       DEF PreparationInv
  <1> QED BY <1>1, <1>2, PTL DEF Spec

\* The tasks of a prepared URL are one task for whatever will come, or chunks
\* of which exactly one covers each byte of the file, for every size, chunk
\* size and batch size (requester.go 178-289, 313-388).
THEOREM TileCorrect == Spec => []TasksTile
  <1>1. PreparationInv => TasksTile
    BY DEF PreparationInv
  <1> QED BY <1>1, PreparationInvariant, PTL

\* A URL that was skipped has left no task behind, and the total is that of
\* the tasks that will be fetched (downloader.go 202-225).
THEOREM SkippedCorrect == Spec => []SkippedLeavesNothing
  <1>1. PreparationInv => SkippedLeavesNothing
    BY DEF PreparationInv
  <1> QED BY <1>1, PreparationInvariant, PTL

\* After a download that was not cancelled no file is open, and a state file
\* is left for skipped URLs at most (requester.go 134, 164, 390-414,
\* downloader.go 214-225, 358-362).
THEOREM LeftBehindCorrect == Spec => []NothingLeftBehind
  <1>1. PreparationInv => NothingLeftBehind
    BY DEF PreparationInv, Kept
  <1> QED BY <1>1, PreparationInvariant, PTL

\* The total is a number of bytes.
LEMMA TotalFacts ==
    ASSUME IInv, SkippedLeavesNothing
    PROVE  total \in Nat
  <1>1. Tasklike(SoundTasks) /\ allTasks \in Seq(SoundTasks)
    BY DEF Tasklike, SoundTasks, IInv, PrepareInv
  <1>2. total = Cardinality(BytesIn(allTasks, DOMAIN allTasks))
    BY <1>1, KnownBytesCounts DEF SkippedLeavesNothing
  <1>3. IsFiniteSet(BytesIn(allTasks, DOMAIN allTasks))
    BY <1>1, BytesFinite
  <1> QED BY <1>2, <1>3, FS_CardinalityType

\* All variables keep their types, and the loops over the arguments, the URLs,
\* the chunks and the requesters, the batch, the attempts, the videos and what
\* is reported of them their bounds (downloader.go 151-225, 358-362,
\* requester.go 195-289, ffmpeg_fetcher.go 50-111).
THEOREM TypeCorrect == Spec => []TypeOK
  <1>1. PreparationInv => TypeOK
    <2> SUFFICES ASSUME PreparationInv PROVE TypeOK
      OBVIOUS
    <2>1. /\ main \in Mains /\ args \in ArgLists /\ urls \in Seq(Resource)
          /\ length \in Nat /\ chunk \in 0 .. ChunkCount /\ Len(batch) < BatchSize
          /\ Len(requesters) <= Len(urls)
      BY DEF PreparationInv, IInv, PrepareInv, Placed, Splitting
    <2>2. at \in 1 .. Len(urls) + Len(args) + 1
      BY LengthFacts DEF PreparationInv, Placed
    <2>3. DOMAIN urls = 1 .. Len(urls)
      BY <2>1
    <2>4. /\ storages \subseteq DOMAIN urls /\ requesters \in Seq(DOMAIN urls)
          /\ states \subseteq {parseFileName(urls[n]) : n \in DOMAIN urls}
      BY <2>3 DEF PreparationInv, Placed, Kept, Held, Named
    <2>5. batch \in Seq(ChunkTasks) /\ urlTasks \in Seq(ChunkTasks) /\ allTasks \in Seq(ChunkTasks)
      <3>1. SoundTasks \subseteq ChunkTasks
        BY <2>3 DEF SoundTasks, ChunkTasks
      <3>2. batch \in Seq(SoundTasks) /\ urlTasks \in Seq(SoundTasks) /\ allTasks \in Seq(SoundTasks)
        BY DEF PreparationInv, IInv, PrepareInv
      <3> QED BY <3>1, <3>2, SeqMonotone
    <2>6. total \in Nat
      BY TotalFacts DEF PreparationInv
    <2>7. /\ table \in [Schemes -> {"none", "http", "ftp", "magnet"}]
          /\ fetcher \in [TaskIds -> {"none", "torrent", "ffmpeg", "http", "ftp", "magnet"}]
      <3>1. Fetchers \cup {"none"} = {"none", "torrent", "ffmpeg", "http", "ftp", "magnet"}
        BY DEF Fetchers
      <3> QED BY <3>1 DEF PreparationInv, IInv, TableSound, Types
    <2>8. Types
      BY DEF PreparationInv, IInv
    <2>9. /\ outcome \in [TaskIds -> {"none", "ok", "error"}]
          /\ retries \in [TaskIds -> 0 .. MaxFetchRetries] /\ endless \subseteq TaskIds
          /\ pc \in [TaskIds -> {"idle", "open", "wait", "join"}]
          /\ proc \in [TaskIds -> {"none", "running", "exit0", "exit1"}]
          /\ pipe \in [TaskIds -> [Video!Streams -> Seq(Nat)]]
          /\ open \in [TaskIds -> BOOLEAN] /\ reader \in [TaskIds -> SUBSET Video!Streams]
      BY <2>8 DEF Types, Streams
    <2>10. Written
      BY DEF PreparationInv
    <2>11. strays \in [TaskIds -> 0 .. MaxFetchRetries]
      <3>1. strays \in [TaskIds -> Nat] /\ retries \in [TaskIds -> 0 .. MaxFetchRetries]
        BY <2>8 DEF Types
      <3>2. \A t \in TaskIds : strays[t] <= retries[t]
        BY DEF PreparationInv, IInv, TaskInv, WellRun
      <3>3. \A t \in TaskIds : strays[t] \in 0 .. MaxFetchRetries
        BY <3>1, <3>2, ProgramAssumption
      <3> QED BY <3>1, <3>3
    <2>12. last \in [TaskIds -> 0 .. VideoSize] /\ reported \in [TaskIds -> 0 .. VideoSize]
      <3>1. last \in [TaskIds -> Nat] /\ reported \in [TaskIds -> Nat]
        BY <2>8 DEF Types
      <3>2. \A t \in TaskIds : reported[t] = last[t] /\ last[t] <= made[t]
        BY DEF PreparationInv, IInv, TaskInv, WellCounted
      <3>3. \A t \in TaskIds : made[t] \in 0 .. VideoSize
        BY <2>10 DEF Written
      <3>4. \A t \in TaskIds : last[t] \in 0 .. VideoSize /\ reported[t] \in 0 .. VideoSize
        BY <3>1, <3>2, <3>3, ProgramAssumption
      <3> QED BY <3>1, <3>4
    <2> QED BY <2>1, <2>2, <2>4, <2>5, <2>6, <2>7, <2>9, <2>10, <2>11, <2>12 DEF TypeOK, Written
  <1> QED BY <1>1, PreparationInvariant, PTL
=============================================================================
