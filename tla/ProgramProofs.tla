--------------------------- MODULE ProgramProofs ----------------------------
(***************************************************************************)
(* Proofs about Program, for any lists of arguments, listings, sizes and   *)
(* numbers of tasks and attempts, and for a caller that may cancel.        *)
(***************************************************************************)
EXTENDS Program, FiniteSetTheorems, TLAPS

-----------------------------------------------------------------------------
(* Resources.                                                              *)

Fetchers == {"torrent", "ffmpeg", "http", "ftp", "magnet"}

\* What can pass its probe: a link that does not parse is given to the HTTP
\* prober, unless its text says that it is a torrent or a video.
Probeable(u) == u.parses \/ isTorrentResource(u) \/ isVideoStreamResource(u)

\* DispatchFetcher stores only fetchers of the scheme.
TableSound == /\ table \in [Schemes -> {"none", "http", "ftp", "magnet"}]
              /\ \A s \in Schemes : table[s] \in {"none", s}

\* Each fetcher is found for what it is made for, and PrepareTasks and
\* DispatchFetcher agree on what needs a storage.
LEMMA DispatchFacts ==
    ASSUME NEW u \in Resource, TableSound
    PROVE  /\ Dispatch(table, u) \in Fetchers
           /\ SchemeKey(u) \in Schemes
           /\ Dispatch(table, u) = "ffmpeg" <=> isVideoStreamResource(u) /\ ~isTorrentResource(u)
           /\ ~isTorrentResource(u) /\ ~isVideoStreamResource(u) =>
                Dispatch(table, u) = SchemeKey(u)
           /\ Probeable(u) => (NeedsStorage(u) <=> Dispatch(table, u) \in {"http", "ftp"})
  BY DEF Resource, TableSound, Schemes, Dispatch, Fetchers, SchemeKey, GetFetcher, ByScheme,
         Probeable, NeedsStorage, IsBitTorrent

\* A sequence that lists a finite set holds its elements.
LEMMA ListFacts ==
    ASSUME NEW S, IsFiniteSet(S)
    PROVE  SetToSeq(S) \in Seq(S)
  <1>1. Cardinality(S) \in Nat /\ ExistsBijection(1 .. Cardinality(S), S)
    BY FS_CardinalityType
  <1>2. PICK f \in Bijection(1 .. Cardinality(S), S) : TRUE
    BY <1>1 DEF ExistsBijection
  <1>3. f \in [1 .. Cardinality(S) -> S] /\ IsInjective(f)
    BY <1>2 DEF Bijection, Injection, IsInjective
  <1>4. SetToSeq(S) \in [1 .. Cardinality(S) -> S]
    BY <1>3 DEF SetToSeq
  <1> QED BY <1>1, <1>4

\* The files that are chosen are files of the repository.
LEMMA MatchFacts ==
    ASSUME NEW repo \in Repos, NEW target \in {"", "all", "text"},
           NEW files \in matchHFFiles(repo, target)
    PROVE  files \subseteq repo
  <1>1. CASE target = "all"
    BY <1>1 DEF matchHFFiles, Plain
  <1>2. CASE target = ""
    BY <1>2 DEF matchHFFiles, Plain, NoTargetMatch, WithExt, DefaultONNX, ONNXData
  <1>3. CASE target = "text"
    BY <1>3 DEF matchHFFiles, Plain, TextMatches, Answering
  <1> QED BY <1>1, <1>2, <1>3

LEMMA SeqMonotone ==
    ASSUME NEW S, NEW T, S \subseteq T
    PROVE  Seq(S) \subseteq Seq(T)
  OBVIOUS

\* Their URLs are resources.
LEMMA ResolvedFacts ==
    ASSUME NEW repo \in Repos, NEW target \in {"", "all", "text"},
           NEW files \in matchHFFiles(repo, target)
    PROVE  SetToSeq({ResolvedURL(f) : f \in files}) \in Seq(Resource)
  <1> DEFINE S == {ResolvedURL(f) : f \in files}
  <1>1. files \subseteq HFFileItem /\ IsFiniteSet(files)
    BY MatchFacts, PreparationAssumption, FS_Subset
  <1>2. S \subseteq Resource
    <2> SUFFICES ASSUME NEW f \in files PROVE ResolvedURL(f) \in Resource
      OBVIOUS
    <2>1. /\ f.ext \in {"bin", "gguf", "onnx", "onnx_data"}
          /\ f.stem \in STRING /\ f.size \in Nat
      BY <1>1 DEF HFFileItem
    <2> QED BY <2>1 DEF ResolvedURL, Resource
  <1>3. IsFiniteSet(S)
    <2> DEFINE g == [f \in files |-> ResolvedURL(f)]
    <2>1. g \in Surjection(files, S)
      BY DEF Surjection
    <2> QED BY <1>1, <2>1, FS_Surjection DEF ExistsSurjection
  <1> HIDE DEF S
  <1>4. SetToSeq(S) \in Seq(S)
    BY <1>3, ListFacts
  <1>5. SetToSeq(S) \in Seq(Resource)
    BY <1>2, <1>4, SeqMonotone
  <1> QED BY <1>5 DEF S

\* A probe that succeeds returns a length, of something that can be probed.
LEMMA ProbeFacts ==
    ASSUME NEW u \in Resource, NEW size \in Probes(u, ctxDone), size # ProbeError
    PROVE  size \in Nat /\ Probeable(u)
  <1>1. u.size \in Nat
    BY DEF Resource
  <1>2. CASE GetProber(u) = "http"
    <2>1. size \in HttpProbes(u, ctxDone)
      BY <1>2 DEF Probes
    <2>2. u.parses /\ \E a \in HttpAnswer : size = HttpProbe(a, u.size)
      BY <2>1 DEF HttpProbes
    <2> QED BY <1>1, <2>2 DEF HttpProbe, HttpAnswer, Probeable
  <1>3. CASE GetProber(u) # "http"
    <2>1. GetProber(u) \in {"ftp", "ffmpeg", "torrent", "magnet"} /\ Probeable(u)
      BY <1>3 DEF GetProber, ByScheme, Probeable
    <2> QED BY <1>1, <1>3, <2>1 DEF Probes, FtpProbes, FfmpegProbes, TorrentProbes
  <1> QED BY <1>2, <1>3

-----------------------------------------------------------------------------
(* Preparation.                                                            *)

Before == {"resolve", "probe", "state", "open", "split"}

\* The tasks that DispatchFetcher and PrepareTasks see alike.
SoundTasks == {t \in [url : Nat, storage : BOOLEAN, offset : Nat, length : Int] :
                 /\ t.url \in 1 .. Len(urls)
                 /\ t.storage <=> NeedsStorage(urls[t.url])
                 /\ Probeable(urls[t.url])}

\* While a URL is prepared no later one has a storage, and its own is there
\* when its chunks are split.
StoragesInOrder ==
    /\ main = "resolve" => storages = {}
    /\ main \in {"probe", "state", "open"} => \A n \in storages : n < at
    /\ main = "split" => /\ \A n \in storages : n <= at
                         /\ at \in storages <=> NeedsStorage(urls[at])

PrepareInv ==
    /\ main \in Mains
    /\ args \in ArgLists /\ urls \in Seq(Resource)
    /\ at \in Nat \ {0} /\ length \in Nat /\ chunk \in Nat
    /\ storages \subseteq Nat
    /\ main \in {"state", "open", "split"} => at <= Len(urls) /\ Probeable(urls[at])
    /\ batch \in Seq(SoundTasks) /\ urlTasks \in Seq(SoundTasks)
    /\ allTasks \in Seq(SoundTasks)
    /\ main = "resolve" => batch = <<>> /\ urlTasks = <<>> /\ allTasks = <<>>
    /\ StoragesInOrder

LEMMA InitPrepareInv == Init => PrepareInv
  BY DEF Init, PreparationInit, PrepareInv, StoragesInOrder, Mains

\* A task made in the split is sound, if it belongs to the chunk or is the
\* only one.
LEMMA NewTaskSound ==
    ASSUME PrepareInv, main = "split", NEW o \in Nat, NEW n \in Int
    PROVE  NewTask(o, n) \in SoundTasks
  <1>1. at \in 1 .. Len(urls) /\ at \in Nat /\ Probeable(urls[at])
    BY DEF PrepareInv
  <1>2. at \in storages <=> NeedsStorage(urls[at])
    BY DEF PrepareInv, StoragesInOrder
  <1> DEFINE t == NewTask(o, n)
  <1>3. t.url = at /\ (t.storage <=> at \in storages)
    BY DEF NewTask
  <1>4. t \in [url : Nat, storage : BOOLEAN, offset : Nat, length : Int]
    <2> DEFINE b == at \in storages
    <2>1. b \in BOOLEAN /\ t = [url |-> at, storage |-> b, offset |-> o, length |-> n]
      BY DEF NewTask
    <2> HIDE DEF b, t
    <2> QED BY <1>1, <2>1
  <1> HIDE DEF t
  <1>5. t \in SoundTasks
    BY <1>1, <1>2, <1>3, <1>4 DEF SoundTasks
  <1> QED BY <1>5 DEF t

LEMMA ArgumentFacts ==
    ASSUME PrepareInv, at <= Len(args)
    PROVE  args[at] \in Resource
  BY PreparationAssumption DEF PrepareInv

\* The loop over the arguments only adds resources.
LEMMA ResolveSteps ==
    ASSUME PrepareInv, KeepArgument \/ ResolveHFModelFiles
    PROVE  PrepareInv' /\ main' = main /\ allTasks' = allTasks
  <1>1. PICK us \in Seq(Resource) : Resolved(us)
    <2>1. CASE KeepArgument
      <3>1. <<args[at]>> \in Seq(Resource)
        BY <2>1, ArgumentFacts DEF KeepArgument, Resolving
      <3> QED BY <2>1, <3>1 DEF KeepArgument
    <2>2. CASE ResolveHFModelFiles
      <3>1. PICK repo \in Repos : \E files \in matchHFFiles(repo, args[at].target) :
                 Resolved(SetToSeq({ResolvedURL(f) : f \in files}))
        BY <2>2 DEF ResolveHFModelFiles
      <3>2. args[at].target \in {"", "all", "text"}
        BY <2>2, ArgumentFacts DEF ResolveHFModelFiles, Resolving, Resource
      <3> QED BY <3>1, <3>2, ResolvedFacts
    <2> QED BY <2>1, <2>2
  <1>2. main = "resolve" /\ main' = "resolve"
    BY <1>1 DEF KeepArgument, ResolveHFModelFiles, Resolving, Resolved
  <1>3. urls' \in Seq(Resource) /\ at' \in Nat \ {0}
    BY <1>1 DEF Resolved, PrepareInv
  <1>4. /\ args' = args /\ length' = length /\ chunk' = chunk /\ storages' = storages
        /\ batch' = batch /\ urlTasks' = urlTasks /\ allTasks' = allTasks
    BY <1>1 DEF Resolved, loopVars, resultVars, fileVars
  <1>5. \A S : <<>> \in Seq(S)
    OBVIOUS
  <1> QED BY <1>2, <1>3, <1>4, <1>5 DEF PrepareInv, StoragesInOrder, Mains

\* What the steps after the resolution have in common.
PrepareStep ==
    /\ main \in Before /\ main' \in Mains
    /\ UNCHANGED <<args, urls>>
    /\ at' \in Nat \ {0} /\ length' \in Nat /\ chunk' \in Nat
    /\ storages' \subseteq Nat
    /\ main' \in {"state", "open", "split"} => at' <= Len(urls) /\ Probeable(urls[at'])
    /\ batch' \in Seq(SoundTasks) /\ urlTasks' \in Seq(SoundTasks)
    /\ allTasks' \in Seq(SoundTasks)
    /\ main' # "resolve"
    /\ StoragesInOrder'

LEMMA PrepareStepKeeps ==
    ASSUME PrepareInv, PrepareStep
    PROVE  PrepareInv'
  <1>1. SoundTasks' = SoundTasks
    BY DEF SoundTasks, PrepareStep
  <1> QED BY <1>1 DEF PrepareInv, PrepareStep

\* The end of PrepareTasks, with or without an error.
LEMMA NextURLStep ==
    ASSUME PrepareInv, NextURL, main \in {"probe", "state", "open", "split"},
           UNCHANGED <<args, urls, storages>>, allTasks' \in Seq(SoundTasks)
    PROVE  PrepareStep
  <1>1. \A n \in storages : n < at + 1
    BY DEF PrepareInv, StoragesInOrder
  <1>2. at' = at + 1 /\ main' = "probe"
    BY DEF NextURL
  <1>3. StoragesInOrder'
    BY <1>1, <1>2 DEF StoragesInOrder
  <1> QED BY <1>2, <1>3 DEF NextURL, PrepareInv, PrepareStep, Before, Mains

\* Each step of the preparation keeps the invariant.
LEMMA PrepareKeeps ==
    ASSUME PrepareInv, PreparationNext
    PROVE  PrepareInv' /\ main \in Before
  <1> USE DEF loopVars, resultVars, fileVars
  <1>1. CASE KeepArgument \/ ResolveHFModelFiles
    BY <1>1, ResolveSteps DEF KeepArgument, ResolveHFModelFiles, Resolving, Before
  <1>2. CASE ResolveFails
    <2>1. PrepareStep
      BY <1>2 DEF ResolveFails, Resolving, PrepareInv, PrepareStep, Before, Mains, StoragesInOrder
    <2> QED BY <1>2, <2>1, PrepareStepKeeps DEF ResolveFails, Resolving, Before
  <1>3. CASE StartPreparing
    <2>1. PrepareStep
      BY <1>3 DEF StartPreparing, PrepareInv, PrepareStep, Before, Mains, StoragesInOrder
    <2> QED BY <1>3, <2>1, PrepareStepKeeps DEF StartPreparing, Before
  <1>4. CASE Probe
    <2>1. /\ main = "probe" /\ at <= Len(urls) /\ urls[at] \in Resource
          /\ UNCHANGED <<args, urls, storages>>
      BY <1>4 DEF Probe, Preparing, PrepareInv
    <2>2. PICK size \in Probes(urls[at], ctxDone) :
               IF size = ProbeError THEN Skip
               ELSE /\ length' = size
                    /\ main' = "state"
                    /\ UNCHANGED <<at, chunk, batch, urlTasks, allTasks, requesters, total>>
      BY <1>4 DEF Probe
    <2>3. CASE size = ProbeError
      <3>1. PrepareStep
        BY <2>1, <2>2, <2>3, NextURLStep DEF Skip, PrepareInv
      <3> QED BY <2>1, <2>2, <2>3, <3>1, PrepareStepKeeps DEF Skip, NextURL, Before
    <2>4. CASE size # ProbeError
      <3>1. length' \in Nat /\ Probeable(urls[at]) /\ main' = "state"
        BY <2>1, <2>2, <2>4, ProbeFacts
      <3>2. UNCHANGED <<at, chunk, batch, urlTasks, allTasks>>
        BY <2>2, <2>4
      <3>3. PrepareStep
        BY <2>1, <3>1, <3>2 DEF PrepareInv, PrepareStep, Before, Mains, StoragesInOrder
      <3> QED BY <2>1, <3>1, <3>3, PrepareStepKeeps DEF Before
    <2> QED BY <2>3, <2>4
  <1>5. CASE CreateState
    <2>1. PrepareStep
      BY <1>5 DEF CreateState, Preparing, PrepareInv, PrepareStep, Before, Mains, StoragesInOrder
    <2> QED BY <1>5, <2>1, PrepareStepKeeps DEF CreateState, Preparing, Before
  <1>6. CASE CreateStateFails \/ OpenFails
    <2>1. Skip /\ main \in {"state", "open"} /\ UNCHANGED <<args, urls, storages>>
      BY <1>6 DEF CreateStateFails, OpenFails, Preparing
    <2>2. PrepareStep
      BY <2>1, NextURLStep DEF Skip, PrepareInv
    <2> QED BY <2>1, <2>2, PrepareStepKeeps DEF Skip, NextURL, Before
  <1>7. CASE OpenStorage
    <2>1. /\ main = "open" /\ main' = "split" /\ at \in Nat \ {0} /\ at <= Len(urls)
          /\ storages' = IF NeedsStorage(urls[at]) THEN storages \cup {at} ELSE storages
          /\ \A n \in storages : n < at
          /\ storages \subseteq Nat
          /\ UNCHANGED <<args, urls, at, length, chunk, batch, urlTasks, allTasks>>
      BY <1>7 DEF OpenStorage, Preparing, PrepareInv, StoragesInOrder
    <2>2. StoragesInOrder'
      BY <2>1 DEF StoragesInOrder
    <2>3. PrepareStep
      BY <2>1, <2>2 DEF PrepareInv, PrepareStep, Before, Mains
    <2> QED BY <2>1, <2>3, PrepareStepKeeps DEF Before
  <1>8. CASE SingleTask
    <2>1. main = "split" /\ Prepared(<<NewTask(0, SingleLength)>>)
      BY <1>8 DEF SingleTask, Preparing
    <2>2. NewTask(0, SingleLength) \in SoundTasks
      <3>1. SingleLength \in Int
        BY DEF SingleLength, PrepareInv
      <3> QED BY <2>1, <3>1, NewTaskSound
    <2>3. allTasks' \in Seq(SoundTasks)
      BY <2>1, <2>2 DEF Prepared, PrepareInv
    <2>4. PrepareStep
      BY <2>1, <2>3, NextURLStep DEF Prepared
    <2> QED BY <2>1, <2>4, PrepareStepKeeps DEF Prepared, NextURL, Before
  <1>9. CASE SplitChunk
    <2>1. /\ main = "split" /\ UNCHANGED <<main, args, urls, at, length, storages, allTasks>>
          /\ chunk' = chunk + 1
      BY <1>9 DEF SplitChunk, Preparing
    <2> DEFINE filled == Append(batch, ChunkTask)
    <2>2. filled \in Seq(SoundTasks)
      <3>1. chunk * RangeSize \in Nat /\ length - chunk * RangeSize \in Int
        BY PreparationAssumption DEF PrepareInv
      <3>2. ChunkTask \in SoundTasks
        BY <2>1, <3>1, NewTaskSound, PreparationAssumption DEF ChunkTask
      <3> QED BY <3>2 DEF PrepareInv
    <2>3. batch' \in Seq(SoundTasks) /\ urlTasks' \in Seq(SoundTasks)
      <3>1. IF Len(filled) >= BatchSize
            THEN urlTasks' = urlTasks \o filled /\ batch' = <<>>
            ELSE batch' = filled /\ UNCHANGED urlTasks
        BY <1>9 DEF SplitChunk
      <3>2. /\ urlTasks \in Seq(SoundTasks) /\ <<>> \in Seq(SoundTasks)
            /\ urlTasks \o filled \in Seq(SoundTasks)
        BY <2>2 DEF PrepareInv
      <3> HIDE DEF filled
      <3>3. CASE Len(filled) >= BatchSize
        BY <3>1, <3>2, <3>3
      <3>4. CASE ~(Len(filled) >= BatchSize)
        BY <2>2, <3>1, <3>2, <3>4
      <3> QED BY <3>3, <3>4
    <2>4. PrepareStep
      BY <2>1, <2>3 DEF PrepareInv, PrepareStep, Before, StoragesInOrder
    <2> QED BY <2>1, <2>4, PrepareStepKeeps DEF Before
  <1>10. CASE SplitCancelled
    <2>1. Skip /\ main = "split" /\ UNCHANGED <<args, urls, storages>>
      BY <1>10 DEF SplitCancelled, Preparing
    <2>2. PrepareStep
      BY <2>1, NextURLStep DEF Skip, PrepareInv
    <2> QED BY <2>1, <2>2, PrepareStepKeeps DEF Skip, NextURL, Before
  <1>11. CASE SplitDone
    <2>1. main = "split" /\ Prepared(urlTasks \o batch)
      BY <1>11 DEF SplitDone, Preparing
    <2>2. allTasks' \in Seq(SoundTasks)
      BY <2>1 DEF Prepared, PrepareInv
    <2>3. PrepareStep
      BY <2>1, <2>2, NextURLStep DEF Prepared
    <2> QED BY <2>1, <2>3, PrepareStepKeeps DEF Prepared, NextURL, Before
  <1>12. CASE StartFetching
    <2>1. PrepareStep
      BY <1>12 DEF StartFetching, PrepareInv, PrepareStep, Before, Mains, StoragesInOrder
    <2> QED BY <1>12, <2>1, PrepareStepKeeps DEF StartFetching, Before
  <1> QED BY <1>1, <1>2, <1>3, <1>4, <1>5, <1>6, <1>7, <1>8, <1>9, <1>10, <1>11, <1>12
          DEF PreparationNext

\* After the preparation nothing of its invariant is in doubt.
LEMMA LatePrepareInv ==
    ASSUME PrepareInv, main \notin Before, main' \in Mains \ Before,
           UNCHANGED <<args, urls, length, chunk, batch, urlTasks, allTasks>>,
           at' \in Nat \ {0}, storages' \subseteq Nat
    PROVE  PrepareInv'
  <1>1. SoundTasks' = SoundTasks
    BY DEF SoundTasks
  <1> QED BY <1>1 DEF PrepareInv, StoragesInOrder, Before

-----------------------------------------------------------------------------
(* The invariant.                                                          *)

Streams == Video!Streams

Types ==
    /\ fetcher \in [TaskIds -> Fetchers \cup {"none"}]
    /\ outcome \in [TaskIds -> {"none", "ok", "error"}]
    /\ retries \in [TaskIds -> 0 .. MaxFetchRetries]
    /\ endless \subseteq TaskIds
    /\ pc \in [TaskIds -> {"idle", "open", "wait", "join"}]
    /\ proc \in [TaskIds -> {"none", "running", "exit0", "exit1"}]
    /\ made \in [TaskIds -> Nat] /\ lines \in [TaskIds -> Nat]
    /\ pipe \in [TaskIds -> [Streams -> Seq(Nat)]]
    /\ open \in [TaskIds -> BOOLEAN]
    /\ reader \in [TaskIds -> SUBSET Streams] /\ strays \in [TaskIds -> Nat]
    /\ last \in [TaskIds -> Nat] /\ reported \in [TaskIds -> Nat]

IsVideo(u) == isVideoStreamResource(u) /\ ~isTorrentResource(u)

\* A task has been given to a fetcher that suits it, and to ffmpeg only if it
\* is a video.
WellDispatched(t) ==
    /\ fetcher[t] # "none" =>
         /\ main \notin Before /\ t \in DOMAIN allTasks
         /\ allTasks[t].storage <=> fetcher[t] \in {"http", "ftp"}
    /\ pc[t] # "idle" \/ proc[t] # "none" =>
         main \notin Before /\ t \in DOMAIN allTasks /\ IsVideo(URLOf(t))

\* A task is in one fetch at most, with no outcome yet and attempts left.
WellHeld(t) ==
    /\ InFetch(t) => outcome[t] = "none"
    /\ t \in endless => pc[t] = "idle"
    /\ outcome[t] = "none" => retries[t] < MaxFetchRetries

\* The process and the goroutines live as long as the part of Fetch that has
\* started them, and success is that of the last process.
WellRun(t) ==
    /\ Video!Runs(t) => pc[t] = "wait"
    /\ pc[t] = "idle" => reader[t] = {}
    /\ strays[t] <= retries[t]
    /\ pc[t] = "open" => reader[t] = {"err"} /\ pipe[t] = Video!NoOutput
    /\ outcome[t] = "ok" /\ proc[t] # "none" => proc[t] = "exit0"
    /\ proc[t] = "exit0" => made[t] = VideoSize

\* What is reported, read or still in the pipe has been written.
WellCounted(t) ==
    /\ reported[t] = last[t] /\ last[t] <= made[t]
    /\ \A i \in DOMAIN pipe[t]["out"] : pipe[t]["out"][i] <= made[t]

TaskInv(t) == WellDispatched(t) /\ WellHeld(t) /\ WellRun(t) /\ WellCounted(t)

IInv == /\ PrepareInv /\ TableSound /\ Types
        /\ \A t \in TaskIds : TaskInv(t)

LEMMA InitIInv == Init => IInv
  <1> SUFFICES ASSUME Init PROVE IInv
    OBVIOUS
  <1>1. PrepareInv
    BY InitPrepareInv
  <1>2. TableSound
    BY DEF Init, TableSound
  <1>3. Video!NoOutput \in [Streams -> Seq(Nat)] /\ Video!NoOutput["out"] = <<>>
    BY DEF Video!NoOutput, Streams, Video!Streams
  <1>4. Types
    BY <1>3, ProgramAssumption DEF Init, Types, Video!FfmpegInit
  <1>5. ASSUME NEW t \in TaskIds PROVE TaskInv(t)
    <2>1. /\ fetcher[t] = "none" /\ outcome[t] = "none" /\ retries[t] = 0
          /\ pc[t] = "idle" /\ proc[t] = "none" /\ made[t] = 0
          /\ pipe[t] = Video!NoOutput /\ reader[t] = {} /\ last[t] = 0 /\ reported[t] = 0
          /\ strays[t] = 0 /\ t \notin endless
      BY DEF Init, Video!FfmpegInit
    <2> QED BY <2>1, <1>3, ProgramAssumption
            DEF TaskInv, WellDispatched, WellHeld, InFetch, WellRun, WellCounted, Video!Runs
  <1> QED BY <1>1, <1>2, <1>4, <1>5 DEF IInv

\* Nothing of another task changes.
OnlyTask(t) ==
    \A d \in TaskIds \ {t} :
        /\ fetcher'[d] = fetcher[d] /\ outcome'[d] = outcome[d] /\ retries'[d] = retries[d]
        /\ pc'[d] = pc[d] /\ proc'[d] = proc[d] /\ made'[d] = made[d]
        /\ pipe'[d] = pipe[d] /\ reader'[d] = reader[d]
        /\ last'[d] = last[d] /\ reported'[d] = reported[d]
        /\ strays'[d] = strays[d] /\ (d \in endless' <=> d \in endless)

LEMMA TaskStep ==
    ASSUME IInv, NEW t \in TaskIds, OnlyTask(t), TaskInv(t)',
           Types', TableSound',
           UNCHANGED <<main, args, urls, at, length, chunk, batch, urlTasks, allTasks, storages>>
    PROVE  IInv'
  <1>1. PrepareInv'
    <2>1. SoundTasks' = SoundTasks
      BY DEF SoundTasks
    <2> QED BY <2>1 DEF IInv, PrepareInv, StoragesInOrder
  <1>2. ASSUME NEW d \in TaskIds \ {t} PROVE TaskInv(d)'
    BY <1>2 DEF IInv, OnlyTask, TaskInv, WellDispatched, WellHeld, InFetch, WellRun, WellCounted,
                URLOf, Video!Runs
  <1> QED BY <1>1, <1>2 DEF IInv

\* A step of main changes nothing of the tasks.
LEMMA MainStep ==
    ASSUME IInv, PrepareInv', UNCHANGED <<dispatchVars, poolVars, videoVars>>,
           \/ main \in Before
           \/ UNCHANGED <<urls, allTasks>> /\ main' \notin Before
    PROVE  IInv'
  <1>1. TableSound' /\ Types'
    BY DEF IInv, TableSound, Types, dispatchVars, poolVars, videoVars
  <1>2. ASSUME NEW t \in TaskIds PROVE TaskInv(t)'
    <2>1. TaskInv(t) /\ UNCHANGED <<fetcher, outcome, retries, endless, pc, proc, made, pipe, reader,
                                     strays, last, reported>>
      BY DEF IInv, dispatchVars, poolVars, videoVars
    <2>2. CASE main \in Before
      <3>1. fetcher[t] = "none" /\ pc[t] = "idle" /\ proc[t] = "none"
        BY <2>1, <2>2 DEF TaskInv, WellDispatched
      <3> QED BY <2>1, <3>1
              DEF TaskInv, WellDispatched, WellHeld, InFetch, WellRun, WellCounted, Video!Runs
    <2>3. CASE main \notin Before
      BY <2>1, <2>3
         DEF TaskInv, WellDispatched, WellHeld, InFetch, WellRun, WellCounted, Video!Runs, URLOf
    <2> QED BY <2>2, <2>3
  <1> QED BY <1>1, <1>2 DEF IInv

LEMMA MainSteps ==
    ASSUME IInv, Main \/ AllWorkersBackOff \/ Cancel \/ UNCHANGED vars
    PROVE  IInv'
  <1> USE DEF loopVars, resultVars, fileVars
  <1>1. CASE Prepare
    BY <1>1, PrepareKeeps, MainStep DEF Prepare, IInv
  <1>2. CASE AllWorkersDone \/ AllWorkersBackOff
    <2>1. /\ main = "fetch" /\ main' \in {"cleanup", "returned"} /\ at' = 1
          /\ UNCHANGED <<args, urls, length, chunk, batch, urlTasks, allTasks, storages>>
          /\ UNCHANGED <<dispatchVars, poolVars, videoVars>>
      BY <1>2 DEF AllWorkersDone, AllWorkersBackOff, LeaveFetch
    <2>2. PrepareInv'
      BY <2>1, LatePrepareInv DEF IInv, PrepareInv, Before, Mains
    <2> QED BY <2>1, <2>2, MainStep DEF Before
  <1>3. CASE Cleanup \/ Return \/ Exit
    <2>1. /\ main \in {"cleanup", "returned"} /\ main' \in {"cleanup", "returned", "exited"}
          /\ UNCHANGED <<args, urls, length, chunk, batch, urlTasks, allTasks>>
          /\ UNCHANGED <<dispatchVars, poolVars, videoVars>>
          /\ at' \in {at, at + 1} /\ storages' \subseteq storages
      BY <1>3 DEF Cleanup, Return, Exit
    <2>2. PrepareInv'
      <3>1. main \notin Before /\ main' \in Mains \ Before
        BY <2>1 DEF Before, Mains
      <3>2. at' \in Nat \ {0} /\ storages' \subseteq Nat
        BY <2>1 DEF IInv, PrepareInv
      <3> QED BY <2>1, <3>1, <3>2, LatePrepareInv DEF IInv
    <2> QED BY <2>1, <2>2, MainStep DEF Before
  <1>4. CASE Cancel \/ UNCHANGED vars
    <2>1. /\ UNCHANGED <<main, args, urls, at, length, chunk, batch, urlTasks, allTasks, storages>>
          /\ UNCHANGED <<dispatchVars, poolVars, videoVars>>
      BY <1>4 DEF Cancel, vars, preparationVars
    <2>2. PrepareInv'
      <3>1. SoundTasks' = SoundTasks
        BY <2>1 DEF SoundTasks
      <3> QED BY <2>1, <3>1 DEF IInv, PrepareInv, StoragesInOrder
    <2>3. main \in Before \/ (UNCHANGED <<urls, allTasks>> /\ main' \notin Before)
      BY <2>1
    <2> QED BY <2>1, <2>2, <2>3, MainStep
  <1> QED BY <1>1, <1>2, <1>3, <1>4 DEF Main

\* A task is given to the fetcher that suits it.
LEMMA DispatchedFacts ==
    ASSUME IInv, NEW t \in TaskIds, Unsettled(t), Dispatched(t)
    PROVE  /\ TableSound' /\ fetcher' \in [TaskIds -> Fetchers \cup {"none"}]
           /\ \A d \in TaskIds \ {t} : fetcher'[d] = fetcher[d]
           /\ main \notin Before /\ t \in DOMAIN allTasks /\ outcome[t] = "none"
           /\ ~InFetch(t)
           /\ fetcher'[t] # "none"
           /\ allTasks[t].storage <=> fetcher'[t] \in {"http", "ftp"}
           /\ Dispatch(table, URLOf(t)) = "ffmpeg" <=> IsVideo(URLOf(t))
           /\ retries[t] < MaxFetchRetries
  <1> DEFINE u == URLOf(t)
             f == Dispatch(table, u)
  <1>1. main \notin Before /\ t \in DOMAIN allTasks /\ outcome[t] = "none" /\ ~InFetch(t)
    BY DEF Unsettled, Working, Before
  <1>2. /\ allTasks[t] \in SoundTasks /\ urls \in Seq(Resource)
        /\ TableSound /\ fetcher \in [TaskIds -> Fetchers \cup {"none"}]
    BY <1>1 DEF IInv, PrepareInv, Types
  <1>3. u \in Resource /\ Probeable(u) /\ (allTasks[t].storage <=> NeedsStorage(u))
    BY <1>2 DEF SoundTasks, URLOf
  <1> HIDE DEF u
  <1>4. /\ f \in Fetchers /\ SchemeKey(u) \in Schemes
        /\ f = "ffmpeg" <=> IsVideo(u)
        /\ ~isTorrentResource(u) /\ ~isVideoStreamResource(u) => f = SchemeKey(u)
        /\ NeedsStorage(u) <=> f \in {"http", "ftp"}
    BY <1>2, <1>3, DispatchFacts DEF IsVideo
  <1>5. /\ fetcher' = [fetcher EXCEPT ![t] = f]
        /\ table' = IF isTorrentResource(u) \/ isVideoStreamResource(u) THEN table
                    ELSE [table EXCEPT ![SchemeKey(u)] = f]
    BY DEF Dispatched, u
  <1> HIDE DEF f
  <1>6. TableSound'
    BY <1>2, <1>4, <1>5 DEF TableSound, Schemes
  <1>7. /\ fetcher' \in [TaskIds -> Fetchers \cup {"none"}] /\ fetcher'[t] = f
        /\ \A d \in TaskIds \ {t} : fetcher'[d] = fetcher[d]
    BY <1>2, <1>4, <1>5
  <1>8. retries[t] < MaxFetchRetries
    BY <1>1 DEF IInv, TaskInv, WellHeld
  <1>9. f # "none"
    BY <1>4 DEF Fetchers
  <1> QED BY <1>1, <1>3, <1>4, <1>6, <1>7, <1>8, <1>9 DEF u, f

\* How a task comes out of a fetch that fails.
LEMMA FailsFacts ==
    ASSUME IInv, NEW t \in TaskIds, outcome[t] = "none",
           retries' = [retries EXCEPT ![t] = @ + 1],
           outcome' = IF retries[t] + 1 < MaxFetchRetries THEN outcome
                      ELSE [outcome EXCEPT ![t] = "error"]
    PROVE  /\ outcome' \in [TaskIds -> {"none", "ok", "error"}]
           /\ retries' \in [TaskIds -> 0 .. MaxFetchRetries]
           /\ outcome'[t] \in {"none", "error"}
           /\ outcome'[t] = "none" => retries'[t] < MaxFetchRetries
           /\ retries'[t] = retries[t] + 1
           /\ \A d \in TaskIds \ {t} : outcome'[d] = outcome[d] /\ retries'[d] = retries[d]
  <1>1. /\ retries \in [TaskIds -> 0 .. MaxFetchRetries] /\ retries[t] < MaxFetchRetries
        /\ outcome \in [TaskIds -> {"none", "ok", "error"}]
    BY DEF IInv, Types, TaskInv, WellHeld
  <1>2. retries[t] + 1 \in 0 .. MaxFetchRetries
    BY <1>1, ProgramAssumption
  <1>3. CASE retries[t] + 1 < MaxFetchRetries
    BY <1>1, <1>2, <1>3
  <1>4. CASE ~(retries[t] + 1 < MaxFetchRetries)
    BY <1>1, <1>2, <1>4
  <1> QED BY <1>3, <1>4

\* A task that is given to a fetcher other than ffmpeg, and what becomes of it.
LEMMA PlainStep ==
    ASSUME IInv, NEW t \in TaskIds, Unsettled(t), Dispatched(t),
           Dispatch(table, URLOf(t)) # "ffmpeg",
           UNCHANGED <<preparationVars, videoVars>>,
           \/ (Succeeds(t) \/ Fails(t)) /\ UNCHANGED endless
           \/ endless' = endless \cup {t} /\ UNCHANGED <<outcome, retries>>
    PROVE  IInv'
  <1>1. ~IsVideo(URLOf(t)) /\ main \notin Before /\ t \notin endless
    BY DispatchedFacts DEF InFetch
  <1>2. TaskInv(t) /\ pc[t] = "idle" /\ proc[t] = "none"
    BY <1>1 DEF IInv, TaskInv, WellDispatched
  <1>3. /\ outcome' \in [TaskIds -> {"none", "ok", "error"}]
        /\ retries' \in [TaskIds -> 0 .. MaxFetchRetries]
        /\ endless' \subseteq TaskIds
        /\ outcome'[t] = "none" => retries'[t] < MaxFetchRetries
        /\ t \in endless' => outcome'[t] = "none"
        /\ retries'[t] >= retries[t]
        /\ \A d \in TaskIds \ {t} : /\ outcome'[d] = outcome[d] /\ retries'[d] = retries[d]
                                    /\ d \in endless' <=> d \in endless
    <2>1. CASE Succeeds(t) /\ UNCHANGED endless
      BY <1>1, <2>1 DEF Succeeds, IInv, Types
    <2>2. CASE Fails(t) /\ UNCHANGED endless
      <3>1. outcome[t] = "none" /\ retries[t] \in Nat /\ endless \subseteq TaskIds
        BY DispatchedFacts DEF IInv, Types
      <3>2. /\ retries' = [retries EXCEPT ![t] = @ + 1]
            /\ outcome' = IF retries[t] + 1 < MaxFetchRetries THEN outcome
                          ELSE [outcome EXCEPT ![t] = "error"]
        BY <2>2 DEF Fails
      <3>3. /\ outcome' \in [TaskIds -> {"none", "ok", "error"}]
            /\ retries' \in [TaskIds -> 0 .. MaxFetchRetries]
            /\ outcome'[t] = "none" => retries'[t] < MaxFetchRetries
            /\ retries'[t] = retries[t] + 1
            /\ \A d \in TaskIds \ {t} : outcome'[d] = outcome[d] /\ retries'[d] = retries[d]
        BY <3>1, <3>2, FailsFacts
      <3> QED BY <1>1, <2>2, <3>1, <3>3
    <2>3. CASE endless' = endless \cup {t} /\ UNCHANGED <<outcome, retries>>
      <3>1. outcome[t] = "none" /\ retries[t] < MaxFetchRetries
        BY DispatchedFacts
      <3>2. /\ outcome \in [TaskIds -> {"none", "ok", "error"}]
            /\ retries \in [TaskIds -> 0 .. MaxFetchRetries] /\ endless \subseteq TaskIds
        BY DEF IInv, Types
      <3> QED BY <2>3, <3>1, <3>2
    <2> QED BY <2>1, <2>2, <2>3
  <1>4. UNCHANGED <<main, args, urls, at, length, chunk, batch, urlTasks, allTasks, storages,
                    pc, proc, made, lines, pipe, open, reader, strays, last, reported>>
    BY DEF preparationVars, loopVars, resultVars, fileVars, videoVars
  <1>5. Types' /\ TableSound'
    BY <1>3, <1>4, DispatchedFacts DEF IInv, Types
  <1>6. OnlyTask(t)
    BY <1>3, <1>4, DispatchedFacts DEF OnlyTask
  <1>7. TaskInv(t)'
    <2>1. WellDispatched(t)'
      BY <1>2, <1>4, DispatchedFacts DEF WellDispatched
    <2>2. strays[t] \in Nat /\ retries[t] \in Nat /\ retries'[t] \in Nat
      BY <1>3 DEF IInv, Types
    <2>3. WellHeld(t)' /\ WellRun(t)' /\ WellCounted(t)'
      BY <1>2, <1>3, <1>4, <2>2
         DEF TaskInv, WellHeld, InFetch, WellRun, WellCounted, Video!Runs
    <2> QED BY <2>1, <2>3 DEF TaskInv
  <1> QED BY <1>4, <1>5, <1>6, <1>7, TaskStep

\* A fetch without an end that is cancelled.
LEMMA CancelledStep ==
    ASSUME IInv, NEW t \in TaskIds, HangCancelled(t)
    PROVE  IInv'
  <1>1. /\ t \in endless /\ endless' = endless \ {t} /\ Fails(t)
        /\ UNCHANGED <<main, args, urls, at, length, chunk, batch, urlTasks, allTasks, storages,
                       table, fetcher,
                       pc, proc, made, lines, pipe, open, reader, strays, last, reported>>
    BY DEF HangCancelled, preparationVars, loopVars, resultVars, fileVars, dispatchVars, videoVars
  <1>2. TaskInv(t) /\ outcome[t] = "none" /\ pc[t] = "idle"
    BY <1>1 DEF IInv, TaskInv, WellHeld, InFetch
  <1>3. /\ outcome' \in [TaskIds -> {"none", "ok", "error"}]
        /\ retries' \in [TaskIds -> 0 .. MaxFetchRetries]
        /\ outcome'[t] \in {"none", "error"}
        /\ outcome'[t] = "none" => retries'[t] < MaxFetchRetries
        /\ retries'[t] = retries[t] + 1
        /\ \A d \in TaskIds \ {t} : outcome'[d] = outcome[d] /\ retries'[d] = retries[d]
    BY <1>1, <1>2, FailsFacts DEF Fails
  <1>4. Types' /\ TableSound'
    BY <1>1, <1>3 DEF IInv, Types, TableSound
  <1>5. OnlyTask(t)
    BY <1>1, <1>3 DEF OnlyTask
  <1>6. TaskInv(t)'
    <2>1. WellDispatched(t)'
      BY <1>1, <1>2 DEF TaskInv, WellDispatched, URLOf
    <2>2. strays[t] \in Nat /\ retries[t] \in Nat
      BY DEF IInv, Types
    <2>3. WellHeld(t)' /\ WellRun(t)' /\ WellCounted(t)'
      BY <1>1, <1>2, <1>3, <2>2
         DEF TaskInv, WellHeld, InFetch, WellRun, WellCounted, Video!Runs
    <2> QED BY <2>1, <2>3 DEF TaskInv
  <1> QED BY <1>1, <1>4, <1>5, <1>6, TaskStep

-----------------------------------------------------------------------------
(* ffmpeg.                                                                 *)

mainVars == <<main, args, urls, at, loopVars, resultVars, fileVars, endless>>

\* A step of a video fetch that is under way: the task stays with its fetcher.
LEMMA VideoStep ==
    ASSUME IInv, NEW t \in TaskIds, pc[t] # "idle", OnlyTask(t), Types',
           UNCHANGED <<mainVars, dispatchVars>>,
           (WellHeld(t) /\ WellRun(t) /\ WellCounted(t))'
    PROVE  IInv'
  <1>1. UNCHANGED <<main, args, urls, at, length, chunk, batch, urlTasks, allTasks, storages,
                    table, fetcher, endless>>
    BY DEF mainVars, loopVars, resultVars, fileVars, dispatchVars
  <1>2. TaskInv(t)
    BY DEF IInv
  <1>3. WellDispatched(t)'
    BY <1>1, <1>2 DEF TaskInv, WellDispatched, URLOf
  <1>4. TableSound'
    BY <1>1 DEF IInv, TableSound
  <1> QED BY <1>1, <1>2, <1>3, <1>4, TaskStep DEF TaskInv

\* The facts of one task, to start from.
LEMMA TaskFacts ==
    ASSUME IInv, NEW t \in TaskIds
    PROVE  /\ TaskInv(t) /\ Types
           /\ pc[t] \in {"idle", "open", "wait", "join"} /\ proc[t] \in {"none", "running", "exit0", "exit1"}
           /\ made[t] \in Nat /\ lines[t] \in Nat /\ last[t] \in Nat /\ reported[t] \in Nat
           /\ pipe[t] \in [Streams -> Seq(Nat)] /\ reader[t] \in SUBSET Streams
           /\ strays[t] \in Nat /\ retries[t] \in Nat /\ strays[t] <= retries[t]
           /\ Streams = {"out", "err"}
           /\ Video!NoOutput \in [Streams -> Seq(Nat)] /\ Video!NoOutput["out"] = <<>>
  <1>1. TaskInv(t) /\ Types
    BY DEF IInv
  <1>2. Streams = {"out", "err"} /\ Video!NoOutput = [s \in Streams |-> <<>>]
    BY DEF Streams, Video!Streams, Video!NoOutput
  <1>3. strays[t] \in Nat /\ retries[t] \in Nat /\ strays[t] <= retries[t]
    BY <1>1 DEF Types, TaskInv, WellRun
  <1>4. Video!NoOutput \in [Streams -> Seq(Nat)] /\ Video!NoOutput["out"] = <<>>
    BY <1>2
  <1>5. /\ pc[t] \in {"idle", "open", "wait", "join"} /\ proc[t] \in {"none", "running", "exit0", "exit1"}
        /\ made[t] \in Nat /\ lines[t] \in Nat /\ last[t] \in Nat /\ reported[t] \in Nat
        /\ pipe[t] \in [Streams -> Seq(Nat)] /\ reader[t] \in SUBSET Streams
    BY <1>1 DEF Types
  <1> QED BY <1>1, <1>2, <1>3, <1>4, <1>5

LEMMA BeginStep ==
    ASSUME IInv, NEW t \in TaskIds, BeginVideo(t)
    PROVE  IInv'
  <1>1. /\ Unsettled(t) /\ Dispatched(t) /\ IsVideo(URLOf(t)) /\ main \notin Before
        /\ t \in DOMAIN allTasks /\ outcome[t] = "none" /\ t \notin endless /\ TableSound'
        /\ UNCHANGED <<main, args, urls, at, length, chunk, batch, urlTasks, allTasks, storages,
                       endless>>
    BY DispatchedFacts DEF BeginVideo, InFetch, preparationVars, loopVars, resultVars, fileVars
  <1>2. pc[t] = "idle" /\ TaskInv(t) /\ reader[t] = {}
    BY TaskFacts DEF BeginVideo, Video!Begin, Video!NotStartable, Video!OpenPipes, Video!Queued,
                     TaskInv, WellRun
  <1>3. WellDispatched(t)'
    BY <1>1, DispatchedFacts DEF WellDispatched, URLOf, Before
  <1>4. CASE Video!NotStartable(t)
    <2>1. UNCHANGED <<proc, made, lines, pipe, open, reader, strays, last, reported>>
      BY <1>4 DEF Video!NotStartable, Video!processVars, Video!readVars
    <2>2. /\ pc' = [pc EXCEPT ![t] = "idle"]
          /\ retries' = [retries EXCEPT ![t] = @ + 1]
          /\ outcome' = IF retries[t] + 1 < MaxFetchRetries THEN outcome
                        ELSE [outcome EXCEPT ![t] = "error"]
      BY <1>4 DEF Video!NotStartable, Video!Failed
    <2>3. pc' = pc
      BY <1>2, <2>2 DEF IInv, Types
    <2>4. Types'
      <3>1. fetcher' \in [TaskIds -> Fetchers \cup {"none"}]
        BY <1>1, DispatchedFacts DEF IInv, Types
      <3>2. /\ retries' \in [TaskIds -> 0 .. MaxFetchRetries]
            /\ outcome' \in [TaskIds -> {"none", "ok", "error"}]
        BY <1>1, <2>2, FailsFacts DEF IInv, Types
      <3> QED BY <1>1, <2>1, <2>3, <3>1, <3>2 DEF IInv, Types
    <2>5. OnlyTask(t)
      BY <1>1, <2>1, <2>2, <2>3, FailsFacts, DispatchedFacts DEF OnlyTask
    <2>6. /\ outcome'[t] \in {"none", "error"} /\ retries'[t] = retries[t] + 1
          /\ outcome'[t] = "none" => retries'[t] < MaxFetchRetries
      BY <1>1, <2>2, FailsFacts
    <2>7. WellHeld(t)' /\ WellRun(t)' /\ WellCounted(t)'
      BY <1>1, <1>2, <2>1, <2>3, <2>6, TaskFacts
         DEF TaskInv, WellHeld, InFetch, WellRun, WellCounted, Video!Runs
    <2> QED BY <1>1, <1>3, <2>4, <2>5, <2>7, TaskStep DEF TaskInv
  <1>5. CASE Video!OpenPipes(t)
    <2>1. /\ pc' = [pc EXCEPT ![t] = "open"] /\ open' = [open EXCEPT ![t] = TRUE]
          /\ pipe' = [pipe EXCEPT ![t] = Video!NoOutput]
          /\ reader' = [reader EXCEPT ![t] = @ \cup {"err"}]
          /\ UNCHANGED <<proc, made, lines, last, reported, strays, outcome, retries>>
      BY <1>5 DEF Video!OpenPipes, Video!processVars, Video!poolVars
    <2>2. Types'
      <3>1. Types /\ Video!NoOutput \in [Streams -> Seq(Nat)] /\ "err" \in Streams
        BY TaskFacts
      <3>2. /\ open' \in [TaskIds -> BOOLEAN] /\ reader' \in [TaskIds -> SUBSET Streams]
            /\ pc' \in [TaskIds -> {"idle", "open", "wait", "join"}]
            /\ pipe' \in [TaskIds -> [Streams -> Seq(Nat)]]
        BY <2>1, <3>1 DEF Types
      <3>3. fetcher' \in [TaskIds -> Fetchers \cup {"none"}]
        BY <1>1, DispatchedFacts
      <3> QED BY <1>1, <2>1, <3>1, <3>2, <3>3 DEF Types
    <2>3. OnlyTask(t)
      <3>1. \A d \in TaskIds \ {t} : fetcher'[d] = fetcher[d]
        BY <1>1, DispatchedFacts
      <3>2. Types
        BY TaskFacts
      <3> QED BY <1>1, <2>1, <3>1, <3>2 DEF OnlyTask, Types
    <2>4. /\ pc'[t] = "open" /\ pipe'[t] = Video!NoOutput /\ reader'[t] = {"err"}
      BY <1>2, <2>1, TaskFacts DEF Types
    <2>5. WellHeld(t)' /\ WellRun(t)' /\ WellCounted(t)'
      BY <1>1, <1>2, <2>1, <2>4, TaskFacts
         DEF TaskInv, WellHeld, InFetch, WellRun, WellCounted, Video!Runs
    <2> QED BY <1>1, <1>3, <2>2, <2>3, <2>5, TaskStep DEF TaskInv
  <1> QED BY <1>4, <1>5 DEF BeginVideo, Video!Begin

\* Fetch goes on: it starts the process, waits for it, or returns.
LEMMA GoOnStep ==
    ASSUME IInv, NEW t \in TaskIds, Video!GoOn(t), UNCHANGED <<mainVars, dispatchVars>>
    PROVE  IInv'
  <1> USE DEF Video!processVars, Video!readVars, Video!poolVars
  <1>1. pc[t] # "idle" /\ TaskInv(t) /\ outcome[t] = "none" /\ main' = main
        /\ fetcher' = fetcher /\ endless' = endless /\ t \notin endless
    <2>1. pc[t] # "idle"
      BY DEF Video!GoOn, Video!StartFails, Video!StartProcess, Video!WaitReturns,
             Video!FetchFails, Video!FetchOk, Video!Joined
    <2> QED BY <2>1, TaskFacts DEF TaskInv, WellHeld, InFetch, mainVars, dispatchVars
  <1>2. ASSUME Video!Failed(t)
        PROVE  /\ pc' = [pc EXCEPT ![t] = "idle"] /\ pc'[t] = "idle"
               /\ outcome' \in [TaskIds -> {"none", "ok", "error"}]
               /\ retries' \in [TaskIds -> 0 .. MaxFetchRetries]
               /\ outcome'[t] \in {"none", "error"}
               /\ outcome'[t] = "none" => retries'[t] < MaxFetchRetries
               /\ retries'[t] = retries[t] + 1
               /\ \A d \in TaskIds \ {t} : outcome'[d] = outcome[d] /\ retries'[d] = retries[d]
    <2>1. pc' = [pc EXCEPT ![t] = "idle"] /\ pc'[t] = "idle"
      BY <1>2, TaskFacts DEF Video!Failed, Types
    <2> QED BY <1>1, <1>2, <2>1, FailsFacts DEF Video!Failed
  <1>3. CASE Video!StartFails(t)
    <2>1. /\ pc[t] = "open" /\ Video!Failed(t)
          /\ open' = [open EXCEPT ![t] = FALSE]
          /\ reader' = [reader EXCEPT ![t] = @ \ {"err"}]
          /\ strays' = [strays EXCEPT ![t] = @ + 1]
          /\ UNCHANGED <<proc, made, lines, pipe, last, reported>>
      BY <1>3 DEF Video!StartFails
    <2>2. Types'
      <3>1. Types /\ strays[t] + 1 \in Nat
        BY TaskFacts
      <3>2. strays' \in [TaskIds -> Nat] /\ open' \in [TaskIds -> BOOLEAN]
        BY <2>1, <3>1 DEF Types
      <3>3. reader' \in [TaskIds -> SUBSET Streams]
        BY <2>1, <3>1 DEF Types
      <3>4. /\ pc' = [pc EXCEPT ![t] = "idle"]
            /\ outcome' \in [TaskIds -> {"none", "ok", "error"}]
            /\ retries' \in [TaskIds -> 0 .. MaxFetchRetries]
        BY <1>2, <2>1
      <3>5. pc' \in [TaskIds -> {"idle", "open", "wait", "join"}]
        BY <3>1, <3>4 DEF Types
      <3> QED BY <1>1, <2>1, <3>1, <3>2, <3>3, <3>4, <3>5 DEF Types
    <2>3. OnlyTask(t)
      BY <1>1, <1>2, <2>1 DEF OnlyTask, IInv, Types
    <2>4. reader'[t] = {} /\ strays'[t] = strays[t] + 1
      BY <1>1, <2>1, TaskFacts DEF Types, TaskInv, WellRun
    <2>5. (WellHeld(t) /\ WellRun(t) /\ WellCounted(t))'
      BY <1>1, <1>2, <2>1, <2>4, TaskFacts
         DEF TaskInv, WellHeld, InFetch, WellRun, WellCounted, Video!Runs
    <2> QED BY <1>1, <2>2, <2>3, <2>5, VideoStep
  <1>4. CASE Video!StartProcess(t)
    <2>1. /\ pc[t] = "open"
          /\ pc' = [pc EXCEPT ![t] = "wait"] /\ proc' = [proc EXCEPT ![t] = "running"]
          /\ made' = [made EXCEPT ![t] = 0] /\ lines' = [lines EXCEPT ![t] = 0]
          /\ reader' = [reader EXCEPT ![t] = @ \cup {"out"}]
          /\ last' = [last EXCEPT ![t] = 0] /\ reported' = [reported EXCEPT ![t] = 0]
          /\ UNCHANGED <<pipe, open, strays, outcome, retries>>
      BY <1>4 DEF Video!StartProcess
    <2>2. Types'
      BY <1>1, <2>1, TaskFacts DEF Types
    <2>3. OnlyTask(t)
      BY <1>1, <2>1, TaskFacts DEF OnlyTask, Types
    <2>4. /\ pc'[t] = "wait" /\ proc'[t] = "running" /\ made'[t] = 0 /\ last'[t] = 0
          /\ reported'[t] = 0 /\ pipe[t]["out"] = <<>>
      BY <1>1, <2>1, TaskFacts DEF Types, TaskInv, WellRun
    <2>5. (WellHeld(t) /\ WellRun(t) /\ WellCounted(t))'
      BY <1>1, <2>1, <2>4 DEF TaskInv, WellHeld, InFetch, WellRun, WellCounted, Video!Runs
    <2> QED BY <1>1, <2>2, <2>3, <2>5, VideoStep
  <1>5. CASE Video!WaitReturns(t)
    <2>1. /\ pc[t] = "wait" /\ ~Video!Runs(t)
          /\ pc' = [pc EXCEPT ![t] = "join"] /\ open' = [open EXCEPT ![t] = FALSE]
          /\ pipe' = [pipe EXCEPT ![t] = Video!NoOutput]
          /\ UNCHANGED <<proc, made, lines, reader, strays, last, reported, outcome, retries>>
      BY <1>5 DEF Video!WaitReturns
    <2>2. Types'
      BY <1>1, <2>1, TaskFacts DEF Types
    <2>3. OnlyTask(t)
      BY <1>1, <2>1, TaskFacts DEF OnlyTask, Types
    <2>4. pc'[t] = "join" /\ pipe'[t]["out"] = <<>>
      BY <2>1, TaskFacts DEF Types
    <2>5. (WellHeld(t) /\ WellRun(t) /\ WellCounted(t))'
      BY <1>1, <2>1, <2>4 DEF TaskInv, WellHeld, InFetch, WellRun, WellCounted, Video!Runs
    <2> QED BY <1>1, <2>2, <2>3, <2>5, VideoStep
  <1>6. CASE Video!FetchFails(t)
    <2>1. /\ pc[t] = "join" /\ reader[t] = {} /\ Video!Failed(t)
          /\ UNCHANGED <<proc, made, lines, pipe, open, reader, strays, last, reported>>
      BY <1>6 DEF Video!FetchFails, Video!Joined
    <2>2. Types'
      BY <1>1, <1>2, <2>1, TaskFacts DEF Types
    <2>3. OnlyTask(t)
      BY <1>1, <1>2, <2>1, TaskFacts DEF OnlyTask, Types
    <2>4. (WellHeld(t) /\ WellRun(t) /\ WellCounted(t))'
      BY <1>1, <1>2, <2>1, TaskFacts
         DEF TaskInv, WellHeld, InFetch, WellRun, WellCounted, Video!Runs
    <2> QED BY <1>1, <2>2, <2>3, <2>4, VideoStep
  <1>7. CASE Video!FetchOk(t)
    <2>1. /\ pc[t] = "join" /\ reader[t] = {} /\ proc[t] = "exit0"
          /\ pc' = [pc EXCEPT ![t] = "idle"] /\ outcome' = [outcome EXCEPT ![t] = "ok"]
          /\ UNCHANGED <<proc, made, lines, pipe, open, reader, strays, last, reported, retries>>
      BY <1>7 DEF Video!FetchOk, Video!Joined
    <2>2. Types'
      BY <1>1, <2>1, TaskFacts DEF Types
    <2>3. OnlyTask(t)
      BY <1>1, <2>1, TaskFacts DEF OnlyTask, Types
    <2>4. pc'[t] = "idle" /\ outcome'[t] = "ok"
      BY <2>1, TaskFacts DEF Types
    <2>5. (WellHeld(t) /\ WellRun(t) /\ WellCounted(t))'
      BY <1>1, <2>1, <2>4 DEF TaskInv, WellHeld, InFetch, WellRun, WellCounted, Video!Runs
    <2> QED BY <1>1, <2>2, <2>3, <2>5, VideoStep
  <1> QED BY <1>3, <1>4, <1>5, <1>6, <1>7 DEF Video!GoOn

\* A copier of stderr that was left behind ends.
LEMMA StrayStep ==
    ASSUME IInv, NEW t \in TaskIds, Video!StrayEnds(t), UNCHANGED <<mainVars, dispatchVars>>
    PROVE  IInv'
  <1>1. /\ strays[t] > 0 /\ strays' = [strays EXCEPT ![t] = @ - 1]
        /\ UNCHANGED <<pc, proc, made, lines, pipe, open, reader, last, reported, outcome, retries>>
    BY DEF Video!StrayEnds, Video!processVars, Video!readVars, Video!poolVars
  <1>2. UNCHANGED <<main, args, urls, at, length, chunk, batch, urlTasks, allTasks, storages,
                    table, fetcher, endless>>
    BY DEF mainVars, loopVars, resultVars, fileVars, dispatchVars
  <1>3. strays[t] - 1 \in Nat /\ strays'[t] = strays[t] - 1
    BY <1>1, TaskFacts DEF Types
  <1>4. Types' /\ TableSound'
    BY <1>1, <1>2, <1>3 DEF IInv, Types, TableSound
  <1>5. OnlyTask(t)
    BY <1>1, <1>2 DEF OnlyTask, IInv, Types
  <1>6. TaskInv(t)'
    <2>1. TaskInv(t) /\ strays'[t] <= retries'[t]
      BY <1>1, <1>3, TaskFacts
    <2>2. WellDispatched(t)' /\ WellHeld(t)' /\ WellCounted(t)'
      BY <1>1, <1>2, <2>1 DEF TaskInv, WellDispatched, WellHeld, InFetch, WellCounted, URLOf
    <2>3. WellRun(t)'
      BY <1>1, <2>1 DEF TaskInv, WellRun, Video!Runs
    <2> QED BY <2>2, <2>3 DEF TaskInv
  <1> QED BY <1>2, <1>4, <1>5, <1>6, TaskStep

\* The goroutines read what the process has written.
LEMMA ReadStep ==
    ASSUME IInv, NEW t \in TaskIds, Video!Read(t), UNCHANGED <<mainVars, dispatchVars>>
    PROVE  IInv'
  <1> USE DEF Video!processVars, Video!readVars, Video!poolVars
  <1>0. CASE Video!StrayEnds(t)
    BY <1>0, StrayStep
  <1> SUFFICES ASSUME ~Video!StrayEnds(t) PROVE IInv'
    BY <1>0
  <1>1. pc[t] # "idle" /\ TaskInv(t) /\ main' = main /\ fetcher' = fetcher
        /\ endless' = endless /\ reader[t] \subseteq Streams
    BY TaskFacts DEF TaskInv, WellRun, mainVars, dispatchVars,
       Video!Read, Video!ParseProgress, Video!CopyError, Video!ReaderEnds
  <1>2. CASE Video!ParseProgress(t)
    <2> DEFINE size == Head(pipe[t]["out"])
               rest == Tail(pipe[t]["out"])
    <2>1. /\ pipe[t]["out"] # <<>> /\ pipe[t]["out"] \in Seq(Nat)
          /\ pipe[t] \in [Streams -> Seq(Nat)] /\ "out" \in reader[t]
      BY <1>2, TaskFacts DEF Video!ParseProgress
    <2>2. /\ size \in Nat /\ size <= made[t] /\ rest \in Seq(Nat)
          /\ \A i \in DOMAIN rest : rest[i] <= made[t]
      <3>1. \A i \in 1 .. Len(pipe[t]["out"]) : pipe[t]["out"][i] <= made[t]
        BY <1>1, <2>1 DEF TaskInv, WellCounted
      <3>2. /\ Len(pipe[t]["out"]) \in Nat \ {0} /\ rest \in Seq(Nat)
            /\ size = pipe[t]["out"][1] /\ size \in Nat
            /\ \A i \in DOMAIN rest : i + 1 \in 1 .. Len(pipe[t]["out"])
                                      /\ rest[i] = pipe[t]["out"][i + 1]
        BY <2>1
      <3> QED BY <3>1, <3>2
    <2> DEFINE d == Video!Delta(t, size)
               new == IF d > 0 THEN size ELSE last[t]
    <2>3. d \in Nat /\ reported[t] + d \in Nat /\ new \in Nat /\ new = last[t] + d /\ new <= made[t]
      <3>1. /\ last[t] \in Nat /\ reported[t] \in Nat /\ made[t] \in Nat /\ last[t] <= made[t]
            /\ size \in Nat /\ size <= made[t]
        BY <1>1, <2>2, TaskFacts DEF TaskInv, WellCounted
      <3>2. d = IF size > last[t] THEN size - last[t] ELSE 0
        BY DEF Video!Delta
      <3> HIDE DEF size, d
      <3> QED BY <3>1, <3>2
    <2>4. /\ last' = [last EXCEPT ![t] = new]
          /\ reported' = [reported EXCEPT ![t] = reported[t] + d]
          /\ UNCHANGED <<pc, proc, made, lines, open, reader, strays, outcome, retries>>
      BY <1>2 DEF Video!ParseProgress
    <2>5. pipe' = [pipe EXCEPT ![t] = [pipe[t] EXCEPT !["out"] = rest]]
      BY <1>2 DEF Video!ParseProgress
    <2> HIDE DEF size, rest, d, new
    <2>6. [pipe[t] EXCEPT !["out"] = rest] \in [Streams -> Seq(Nat)]
          /\ [pipe[t] EXCEPT !["out"] = rest]["out"] = rest
      BY <2>1, <2>2, TaskFacts
    <2>7. Types'
      BY <1>1, <2>3, <2>4, <2>5, <2>6, TaskFacts DEF Types
    <2>8. OnlyTask(t)
      BY <1>1, <2>4, <2>5, TaskFacts DEF OnlyTask, Types
    <2>9. last'[t] = new /\ reported'[t] = reported[t] + d /\ pipe'[t]["out"] = rest
      BY <2>4, <2>5, <2>6, TaskFacts DEF Types
    <2>10. pc[t] # "open"
      BY <1>1, <2>1, TaskFacts DEF TaskInv, WellRun
    <2>11. (WellHeld(t) /\ WellRun(t) /\ WellCounted(t))'
      BY <1>1, <2>2, <2>3, <2>4, <2>9, <2>10, TaskFacts
         DEF TaskInv, WellHeld, InFetch, WellRun, WellCounted, Video!Runs
    <2> QED BY <1>1, <2>7, <2>8, <2>11, VideoStep
  <1>3. CASE Video!CopyError(t)
    <2> DEFINE rest == Tail(pipe[t]["err"])
    <2>1. /\ pipe[t]["err"] # <<>> /\ pipe[t] \in [Streams -> Seq(Nat)] /\ rest \in Seq(Nat)
      BY <1>3, TaskFacts DEF Video!CopyError
    <2>2. pc[t] # "open"
      BY <1>1, <2>1 DEF TaskInv, WellRun, Video!NoOutput, Video!Streams
    <2>3. /\ pipe' = [pipe EXCEPT ![t] = [pipe[t] EXCEPT !["err"] = rest]]
          /\ UNCHANGED <<pc, proc, made, lines, open, reader, strays, last, reported, outcome, retries>>
      BY <1>3 DEF Video!CopyError
    <2> HIDE DEF rest
    <2>4. [pipe[t] EXCEPT !["err"] = rest] \in [Streams -> Seq(Nat)]
          /\ [pipe[t] EXCEPT !["err"] = rest]["out"] = pipe[t]["out"]
      BY <2>1, TaskFacts
    <2>5. Types'
      BY <1>1, <2>3, <2>4, TaskFacts DEF Types
    <2>6. OnlyTask(t)
      BY <1>1, <2>3, TaskFacts DEF OnlyTask, Types
    <2>7. pipe'[t]["out"] = pipe[t]["out"]
      BY <2>3, <2>4, TaskFacts DEF Types
    <2>8. (WellHeld(t) /\ WellRun(t) /\ WellCounted(t))'
      BY <1>1, <2>2, <2>3, <2>7 DEF TaskInv, WellHeld, InFetch, WellRun, WellCounted, Video!Runs
    <2> QED BY <1>1, <2>5, <2>6, <2>8, VideoStep
  <1>4. CASE \E s \in Streams : Video!ReaderEnds(t, s)
    <2>1. PICK s \in Streams : Video!ReaderEnds(t, s)
      BY <1>4
    <2>2. /\ pc[t] \in {"wait", "join"} /\ reader' = [reader EXCEPT ![t] = @ \ {s}]
          /\ UNCHANGED <<pc, proc, made, lines, pipe, open, strays, last, reported, outcome, retries>>
      BY <2>1 DEF Video!ReaderEnds
    <2>3. Types'
      BY <1>1, <2>2, TaskFacts DEF Types
    <2>4. OnlyTask(t)
      BY <1>1, <2>2, TaskFacts DEF OnlyTask, Types
    <2>5. (WellHeld(t) /\ WellRun(t) /\ WellCounted(t))'
      BY <1>1, <2>2 DEF TaskInv, WellHeld, InFetch, WellRun, WellCounted, Video!Runs
    <2> QED BY <1>1, <2>3, <2>4, <2>5, VideoStep
  <1> QED BY <1>2, <1>3, <1>4 DEF Video!Read, Streams

LEMMA AppendBounded ==
    ASSUME NEW q \in Seq(Nat), NEW x \in Nat, NEW n \in Nat, x <= n + 1,
           \A i \in DOMAIN q : q[i] <= n
    PROVE  /\ Append(q, x) \in Seq(Nat)
           /\ \A i \in DOMAIN Append(q, x) : Append(q, x)[i] <= n + 1
  <1>1. \A i \in 1 .. Len(q) : q[i] \in Nat /\ q[i] <= n /\ Append(q, x)[i] = q[i]
    OBVIOUS
  <1>2. /\ DOMAIN Append(q, x) = 1 .. Len(q) + 1 /\ Append(q, x)[Len(q) + 1] = x
        /\ Len(q) \in Nat
    OBVIOUS
  <1> QED BY <1>1, <1>2

\* The process writes, or ends.
LEMMA ProcessStep ==
    ASSUME IInv, NEW t \in TaskIds, Video!Process(t) \/ Video!Trouble(t),
           UNCHANGED <<mainVars, dispatchVars>>
    PROVE  IInv'
  <1> USE DEF Video!processVars, Video!readVars, Video!poolVars
  <1>1. /\ pc[t] = "wait" /\ TaskInv(t) /\ Video!Runs(t)
        /\ main' = main /\ fetcher' = fetcher /\ endless' = endless
    BY TaskFacts DEF TaskInv, WellRun, mainVars, dispatchVars, Video!Process, Video!Trouble,
       Video!Emit, Video!ExitsOk, Video!Killed, Video!Complain, Video!ExitsError
  <1>2. CASE Video!Emit(t)
    <2>1. PICK x \in {made[t] + 1, Video!NA} : Video!Write(t, "out", x)
      BY <1>2 DEF Video!Emit
    <2> DEFINE longer == Append(pipe[t]["out"], x)
    <2>2. /\ x \in Nat /\ x <= made[t] + 1
          /\ pipe[t]["out"] \in Seq(Nat) /\ pipe[t] \in [Streams -> Seq(Nat)]
      BY TaskFacts DEF Video!NA
    <2>3. /\ longer \in Seq(Nat)
          /\ \A i \in DOMAIN longer : longer[i] <= made[t] + 1
      <3>1. \A i \in DOMAIN pipe[t]["out"] : pipe[t]["out"][i] <= made[t]
        BY <1>1 DEF TaskInv, WellCounted
      <3> QED BY <2>2, <3>1, TaskFacts, AppendBounded
    <2>4. /\ made' = [made EXCEPT ![t] = made[t] + 1]
          /\ UNCHANGED <<pc, proc, lines, open, reader, strays, last, reported, outcome, retries>>
      BY <1>2 DEF Video!Emit
    <2>5. pipe' = [pipe EXCEPT ![t] = [pipe[t] EXCEPT !["out"] = longer]]
      BY <2>1 DEF Video!Write
    <2> HIDE DEF longer
    <2>6. [pipe[t] EXCEPT !["out"] = longer] \in [Streams -> Seq(Nat)]
          /\ [pipe[t] EXCEPT !["out"] = longer]["out"] = longer
      BY <2>2, <2>3, TaskFacts
    <2>7. Types'
      <3>1. Types /\ made[t] + 1 \in Nat
        BY TaskFacts
      <3>2. made' \in [TaskIds -> Nat] /\ pipe' \in [TaskIds -> [Streams -> Seq(Nat)]]
        BY <2>4, <2>5, <2>6, <3>1 DEF Types
      <3> QED BY <1>1, <2>4, <3>1, <3>2 DEF Types
    <2>8. OnlyTask(t)
      BY <1>1, <2>4, <2>5, TaskFacts DEF OnlyTask, Types
    <2>9. made'[t] = made[t] + 1 /\ pipe'[t]["out"] = longer
      BY <2>4, <2>5, <2>6, TaskFacts DEF Types
    <2>10. (WellHeld(t) /\ WellRun(t) /\ WellCounted(t))'
      BY <1>1, <2>3, <2>4, <2>9, TaskFacts
         DEF TaskInv, WellHeld, InFetch, WellRun, WellCounted, Video!Runs
    <2> QED BY <1>1, <2>7, <2>8, <2>10, VideoStep
  <1>3. CASE Video!Complain(t)
    <2> DEFINE longer == Append(pipe[t]["err"], lines[t] + 1)
    <2>1. pipe[t] \in [Streams -> Seq(Nat)] /\ longer \in Seq(Nat)
      BY TaskFacts
    <2>2. /\ lines' = [lines EXCEPT ![t] = lines[t] + 1]
          /\ pipe' = [pipe EXCEPT ![t] = [pipe[t] EXCEPT !["err"] = longer]]
          /\ UNCHANGED <<pc, proc, made, open, reader, strays, last, reported, outcome, retries>>
      BY <1>3 DEF Video!Complain, Video!Write
    <2> HIDE DEF longer
    <2>3. [pipe[t] EXCEPT !["err"] = longer] \in [Streams -> Seq(Nat)]
          /\ [pipe[t] EXCEPT !["err"] = longer]["out"] = pipe[t]["out"]
      BY <2>1, TaskFacts
    <2>4. Types'
      <3>1. Types /\ lines[t] + 1 \in Nat
        BY TaskFacts
      <3>2. lines' \in [TaskIds -> Nat] /\ pipe' \in [TaskIds -> [Streams -> Seq(Nat)]]
        BY <2>2, <2>3, <3>1 DEF Types
      <3> QED BY <1>1, <2>2, <3>1, <3>2 DEF Types
    <2>5. OnlyTask(t)
      BY <1>1, <2>2, TaskFacts DEF OnlyTask, Types
    <2>6. pipe'[t]["out"] = pipe[t]["out"]
      BY <2>2, <2>3, TaskFacts DEF Types
    <2>7. (WellHeld(t) /\ WellRun(t) /\ WellCounted(t))'
      BY <1>1, <2>2, <2>6 DEF TaskInv, WellHeld, InFetch, WellRun, WellCounted, Video!Runs
    <2> QED BY <1>1, <2>4, <2>5, <2>7, VideoStep
  <1>4. CASE Video!ExitsOk(t) \/ Video!ExitsError(t) \/ Video!Killed(t)
    <2>1. PICK how \in {"exit0", "exit1"} :
            Video!Exit(t, how) /\ (how = "exit0" => made[t] = VideoSize)
      BY <1>4 DEF Video!ExitsOk, Video!ExitsError, Video!Killed
    <2>2. /\ proc' = [proc EXCEPT ![t] = how]
          /\ UNCHANGED <<pc, made, lines, pipe, open, reader, strays, last, reported, outcome, retries>>
      BY <2>1 DEF Video!Exit
    <2>3. Types'
      BY <1>1, <2>2, TaskFacts DEF Types
    <2>4. OnlyTask(t)
      BY <1>1, <2>2, TaskFacts DEF OnlyTask, Types
    <2>5. proc'[t] = how
      BY <2>2, TaskFacts DEF Types
    <2>6. outcome[t] = "none"
      BY <1>1 DEF TaskInv, WellHeld, InFetch
    <2>7. (WellHeld(t) /\ WellRun(t) /\ WellCounted(t))'
      BY <1>1, <2>1, <2>2, <2>5, <2>6 DEF TaskInv, WellHeld, InFetch, WellRun, WellCounted, Video!Runs
    <2> QED BY <1>1, <2>3, <2>4, <2>7, VideoStep
  <1> QED BY <1>2, <1>3, <1>4 DEF Video!Process, Video!Trouble

LEMMA NextIInv == IInv /\ [Next]_vars => IInv'
  <1> SUFFICES ASSUME IInv, [Next]_vars PROVE IInv'
    OBVIOUS
  <1>1. CASE Main \/ AllWorkersBackOff \/ Cancel \/ Exited \/ UNCHANGED vars
    BY <1>1, MainSteps DEF Exited
  <1>2. ASSUME NEW t \in TaskIds, Fetch(t) PROVE IInv'
    <2>1. CASE FetchPlain(t) \/ FetchHangs(t)
      BY <2>1, PlainStep DEF FetchPlain, FetchHangs
    <2>5. CASE HangCancelled(t)
      BY <2>5, CancelledStep
    <2>2. CASE BeginVideo(t)
      BY <2>2, BeginStep
    <2>3. CASE FetchVideo(t)
      BY <2>3, GoOnStep, ReadStep DEF FetchVideo, mainVars, preparationVars
    <2>4. CASE RunFfmpeg(t) \/ FfmpegInTrouble(t)
      BY <2>4, ProcessStep DEF RunFfmpeg, FfmpegInTrouble, mainVars, preparationVars
    <2> QED BY <1>2, <2>1, <2>2, <2>3, <2>4, <2>5 DEF Fetch, TakeTask
  <1> QED BY <1>1, <1>2 DEF Next

\* The invariant holds in every state the program reaches.
THEOREM Invariant == Spec => []IInv
  <1> QED BY InitIInv, NextIInv, PTL DEF Spec

-----------------------------------------------------------------------------
(* The properties.                                                         *)

\* No task is given to a fetcher that stores through a nil storage, and none
\* with a storage to one that makes its own file, whatever the arguments are
\* and in whatever order the table of fetchers fills up (requester.go 77-165,
\* protocol.go 470-494).
THEOREM StorageCorrect == Spec => []StorageMatchesFetcher
  <1>1. IInv => StorageMatchesFetcher
    BY DEF IInv, TaskInv, WellDispatched, StorageMatchesFetcher
  <1> QED BY <1>1, Invariant, PTL

\* A video that was reported complete is the whole output of one process
\* (ffmpeg_fetcher.go 90-108).
THEOREM VideoOkCorrect == Spec => []VideoOkIsWhole
  <1>1. IInv => VideoOkIsWhole
    BY DEF IInv, TaskInv, WellRun, VideoOkIsWhole, Video!VideoOkIsWhole
  <1> QED BY <1>1, Invariant, PTL

\* What an attempt has reported the process has written, whatever was lost
\* with the pipes (ffmpeg_fetcher.go 75-92).
THEOREM VideoProgressCorrect == Spec => []VideoProgressBounded
  <1>1. IInv => VideoProgressBounded
    BY DEF IInv, TaskInv, WellCounted, VideoProgressBounded, Video!VideoProgressBounded
  <1> QED BY <1>1, Invariant, PTL

\* A fetch that has returned has left no process and no goroutine that reads
\* from one; at most one copier of stderr per failed attempt without a process
\* (ffmpeg_fetcher.go 65-72, 90-96, downloader.go 172).
THEOREM FetchCorrect == Spec => []NothingOutlivesFetch
  <1>1. IInv => NothingOutlivesFetch
    BY DEF IInv, TaskInv, WellRun, NothingOutlivesFetch, Video!NothingOutlivesFetch, Video!Runs
  <1> QED BY <1>1, Invariant, PTL

-----------------------------------------------------------------------------
(* The contract of the pool.                                               *)

\* A failed fetch is a retry or the end of the task.
LEMMA FailedIsPoolStep ==
    ASSUME IInv, NEW t \in TaskIds, outcome[t] = "none",
           retries' = [retries EXCEPT ![t] = @ + 1],
           outcome' = IF retries[t] + 1 < MaxFetchRetries THEN outcome
                      ELSE [outcome EXCEPT ![t] = "error"]
    PROVE  Pool!Next
  <1>1. retries[t] \in 0 .. MaxFetchRetries /\ retries[t] < MaxFetchRetries
    BY DEF IInv, Types, TaskInv, WellHeld
  <1>2. CASE retries[t] + 1 < MaxFetchRetries
    <2>1. Pool!Retry(t)
      BY <1>2 DEF Pool!Retry
    <2> QED BY <2>1 DEF Pool!Next
  <1>3. CASE ~(retries[t] + 1 < MaxFetchRetries)
    <2>1. retries[t] + 1 = MaxFetchRetries
      BY <1>1, <1>3, ProgramAssumption
    <2>2. Pool!GiveUp(t)
      BY <1>3, <2>1 DEF Pool!GiveUp
    <2> QED BY <2>2 DEF Pool!Next
  <1> QED BY <1>2, <1>3

LEMMA OkIsPoolStep ==
    ASSUME NEW t \in TaskIds, outcome[t] = "none",
           outcome' = [outcome EXCEPT ![t] = "ok"], UNCHANGED retries
    PROVE  Pool!Next
  BY DEF Pool!Next, Pool!Succeed

LEMMA FetchIsPoolStep ==
    ASSUME IInv, NEW t \in TaskIds, Fetch(t)
    PROVE  Pool!Next \/ UNCHANGED <<outcome, retries>>
  <1> USE DEF Video!poolVars
  <1>1. CASE FetchPlain(t)
    BY <1>1, FailedIsPoolStep, OkIsPoolStep DEF FetchPlain, Unsettled, Succeeds, Fails
  <1>7. CASE FetchHangs(t)
    BY <1>7 DEF FetchHangs
  <1>8. CASE HangCancelled(t)
    <2>1. outcome[t] = "none"
      BY <1>8 DEF HangCancelled, IInv, TaskInv, WellHeld, InFetch
    <2> QED BY <1>8, <2>1, FailedIsPoolStep DEF HangCancelled, Fails
  <1>2. CASE BeginVideo(t)
    <2>1. outcome[t] = "none"
      BY <1>2 DEF BeginVideo, Unsettled
    <2> QED BY <1>2, <2>1, FailedIsPoolStep
            DEF BeginVideo, Video!Begin, Video!NotStartable, Video!OpenPipes, Video!Failed
  <1>3. CASE Video!StartFails(t) \/ Video!FetchFails(t)
    <2>1. pc[t] # "idle"
      BY <1>3 DEF Video!StartFails, Video!FetchFails, Video!Joined
    <2>2. outcome[t] = "none"
      BY <2>1 DEF IInv, TaskInv, WellHeld, InFetch
    <2> QED BY <1>3, <2>2, FailedIsPoolStep DEF Video!StartFails, Video!FetchFails, Video!Failed
  <1>4. CASE Video!FetchOk(t)
    <2>1. pc[t] # "idle"
      BY <1>4 DEF Video!FetchOk, Video!Joined
    <2>2. outcome[t] = "none"
      BY <2>1 DEF IInv, TaskInv, WellHeld, InFetch
    <2> QED BY <1>4, <2>2, OkIsPoolStep DEF Video!FetchOk
  <1>5. CASE Video!StartProcess(t) \/ Video!WaitReturns(t) \/ Video!Read(t)
    BY <1>5 DEF Video!StartProcess, Video!WaitReturns, Video!Read, Video!ParseProgress,
                Video!CopyError, Video!ReaderEnds, Video!StrayEnds
  <1>6. CASE Video!Process(t) \/ Video!Trouble(t)
    BY <1>6 DEF Video!Process, Video!Trouble, Video!Emit, Video!ExitsOk, Video!Killed,
                Video!Complain, Video!ExitsError, Video!Exit
  <1> QED BY <1>1, <1>2, <1>3, <1>4, <1>5, <1>6, <1>7, <1>8
          DEF Fetch, TakeTask, FetchVideo, RunFfmpeg, FfmpegInTrouble, Video!GoOn

\* Tasks of all kinds together keep the contract of the pool: each ends at
\* most once, after a success or after MaxFetchRetries failures (downloader.go
\* 151-170, ffmpeg_fetcher.go 94-111).
THEOREM ImplementsTaskPool == Spec => PoolSpec
  <1>1. Init => Pool!Init
    BY DEF Init, Pool!Init
  <1>2. IInv /\ [Next]_vars => [Pool!Next]_(Pool!vars)
    <2> SUFFICES ASSUME IInv, [Next]_vars PROVE [Pool!Next]_(Pool!vars)
      OBVIOUS
    <2>1. CASE \E t \in TaskIds : Fetch(t)
      BY <2>1, FetchIsPoolStep DEF Pool!vars
    <2>2. CASE Main \/ AllWorkersBackOff \/ Cancel \/ Exited \/ UNCHANGED vars
      <3>1. UNCHANGED poolVars
        BY <2>2 DEF Main, Prepare, AllWorkersDone, AllWorkersBackOff, LeaveFetch, Cleanup, Return, Exit, Cancel, Exited, vars
      <3> QED BY <3>1 DEF poolVars, Pool!vars
    <2> QED BY <2>1, <2>2 DEF Next
  <1> QED BY <1>1, <1>2, Invariant, PTL DEF Spec, PoolSpec, Pool!Spec
=============================================================================
