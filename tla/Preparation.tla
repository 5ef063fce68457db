---------------------------- MODULE Preparation -----------------------------
(***************************************************************************)
(* What Download does before its first worker starts: PrepareAllTasks      *)
(* resolves the Hugging Face models among its arguments and lets a         *)
(* Requester prepare each URL (PrepareTasks: probe, state file, target     *)
(* file, chunks).  One goroutine; the caller may cancel its context, and   *)
(* files, connections and servers may fail, between any two steps.         *)
(*                                                                         *)
(* No earlier run has left files: Requester.tla is about those, and shows  *)
(* that no chunk is ever found complete.                                   *)
(***************************************************************************)
EXTENDS Resources, Sequences, SequencesExt

CONSTANTS
    ArgLists,    \* the lists of arguments considered (Downloader.URLs)
    Repos,       \* the listings a Hugging Face repository may have: sets of HFFileItem
    RangeSize,   \* bytes per chunk, 1MB in fetcher.go
    BatchSize    \* Config.TaskBatchSize, 100 by default

ASSUME PreparationAssumption ==
    /\ ArgLists \subseteq Seq(Resource) /\ Repos \subseteq SUBSET HFFileItem
    /\ \A repo \in Repos : IsFiniteSet(repo)
    /\ RangeSize \in Nat \ {0} /\ BatchSize \in Nat \ {0}

VARIABLES
    main,        \* where the goroutine of Download is
    args,        \* the arguments, fixed for a run
    urls,        \* resolvedURLs
    at,          \* index of the loop over args, then of the loop over urls
    length,      \* meta.Size of the URL being prepared
    chunk,       \* i of the chunk loop
    batch,       \* tasks not yet passed to SubmitTask
    urlTasks,    \* tasks passed to SubmitTask by this requester
    allTasks,    \* tasks of the requesters that succeeded
    requesters,  \* indices in urls of the requesters that succeeded
    total,       \* TotalSize
    states,      \* names of files that have a state file
    storages,    \* indices in urls whose storage is open
    ctxDone      \* the context is cancelled (by the caller)

loopVars   == <<length, chunk, batch, urlTasks>>
resultVars == <<allTasks, requesters, total>>
fileVars   == <<states, storages>>
preparationVars == <<main, args, urls, at, loopVars, resultVars, fileVars, ctxDone>>

PreparationInit ==
    /\ main = "resolve"
    /\ args \in ArgLists
    /\ urls = <<>>
    /\ at = 1
    /\ length = 0 /\ chunk = 0
    /\ batch = <<>> /\ urlTasks = <<>>
    /\ allTasks = <<>> /\ requesters = <<>>
    /\ total = 0
    /\ states = {} /\ storages = {}
    /\ ctxDone = FALSE

-----------------------------------------------------------------------------
(* The loop over the arguments.                                            *)

Resolving == main = "resolve" /\ at <= Len(args)

Resolved(us) ==
    /\ urls' = urls \o us
    /\ at' = at + 1
    /\ UNCHANGED <<main, args, loopVars, resultVars, fileVars, ctxDone>>

\* An ordinary URL, or a model that does not parse (kept with a warning).
KeepArgument == Resolving /\ args[at].hf # "model" /\ Resolved(<<args[at]>>)

\* The listing is fetched and something in it matches the target.
ResolveHFModelFiles ==
    /\ Resolving /\ args[at].hf = "model" /\ ~ctxDone
    /\ \E repo \in Repos : \E files \in matchHFFiles(repo, args[at].target) :
         files # {} /\ Resolved(SetToSeq({ResolvedURL(f) : f \in files}))

\* The listing cannot be had, or nothing in it matches: Download returns.
ResolveFails ==
    /\ Resolving /\ args[at].hf = "model"
    /\ main' = "returned"
    /\ UNCHANGED <<args, urls, at, loopVars, resultVars, fileVars, ctxDone>>

StartPreparing ==
    /\ main = "resolve" /\ at > Len(args)
    /\ main' = "probe"
    /\ at' = 1
    /\ UNCHANGED <<args, urls, loopVars, resultVars, fileVars, ctxDone>>

-----------------------------------------------------------------------------
(* PrepareTasks for urls[at].                                              *)

Preparing(step) == main = step /\ at <= Len(urls)

NextURL == /\ main' = "probe"
           /\ at' = at + 1
           /\ length' = 0 /\ chunk' = 0
           /\ batch' = <<>> /\ urlTasks' = <<>>

\* Mutant: the tasks are collected before the error is looked at.
SkipKeepsTasks == /\ NextURL
                  /\ allTasks' = allTasks \o urlTasks
                  /\ UNCHANGED <<requesters, total>>

\* PrepareTasks returns an error: a warning, and on with the next URL.
Skip == NextURL /\ UNCHANGED resultVars

Probe ==
    /\ Preparing("probe")
    /\ \E size \in Probes(urls[at], ctxDone) :
         IF size = ProbeError THEN Skip
         ELSE /\ length' = size
              /\ main' = "state"
              /\ UNCHANGED <<at, chunk, batch, urlTasks, resultVars>>
    /\ UNCHANGED <<args, urls, fileVars, ctxDone>>

WithState == states \cup {parseFileName(urls[at])}

\* NewDownloadState and the initial Save.
CreateState ==
    /\ Preparing("state")
    /\ states' = WithState
    /\ main' = "open"
    /\ UNCHANGED <<args, urls, at, loopVars, resultVars, storages, ctxDone>>

\* The state file cannot be created, or not be given its size.
CreateStateFails ==
    /\ Preparing("state")
    /\ states' \in {states, WithState}
    /\ Skip
    /\ UNCHANGED <<args, urls, storages, ctxDone>>

\* The target file, with its storage handler; a torrent and a video have none.
OpenStorage ==
    /\ Preparing("open")
    /\ storages' = IF NeedsStorage(urls[at]) THEN storages \cup {at} ELSE storages
    /\ main' = "split"
    /\ UNCHANGED <<args, urls, at, loopVars, resultVars, states, ctxDone>>

OpenFails ==
    /\ Preparing("open") /\ NeedsStorage(urls[at])
    /\ Skip
    /\ UNCHANGED <<args, urls, fileVars, ctxDone>>

-----------------------------------------------------------------------------
(* The split.  A task carries its URL, whether it has a storage handler,   *)
(* and its range; length -1 stands for a dynamic size or until EOF.        *)

NewTask(offset, len) == [url |-> at, storage |-> at \in storages,
                         offset |-> offset, length |-> len]

Single == ~NeedsStorage(urls[at]) \/ length <= 0

SingleLength == IF IsBitTorrent(urls[at]) THEN length ELSE -1

ChunkCount == (length \div RangeSize) + (IF length % RangeSize # 0 THEN 1 ELSE 0)

ChunkTask == NewTask(chunk * RangeSize,
                     IF chunk = ChunkCount - 1 THEN length - chunk * RangeSize ELSE RangeSize)

\* The lengths of the tasks that have one, added up for TotalSize.
KnownBytes(tasks) ==
    FoldSeq(LAMBDA t, sum : IF t.length > 0 THEN sum + t.length ELSE sum, 0, tasks)

Prepared(tasks) ==
    /\ NextURL
    /\ allTasks' = allTasks \o tasks
    /\ requesters' = Append(requesters, at)
    /\ total' = total + KnownBytes(tasks)
    /\ UNCHANGED <<args, urls, fileVars, ctxDone>>

SingleTask ==
    /\ Preparing("split") /\ Single
    /\ Prepared(<<NewTask(0, SingleLength)>>)

\* One turn of the loop; a full batch is passed to SubmitTask.
SplitChunk ==
    /\ Preparing("split") /\ ~Single
    /\ chunk < ChunkCount /\ ~ctxDone
    /\ LET filled == Append(batch, ChunkTask) IN
         IF Len(filled) >= BatchSize
         THEN urlTasks' = urlTasks \o filled /\ batch' = <<>>
         ELSE batch' = filled /\ UNCHANGED urlTasks
    /\ chunk' = chunk + 1
    /\ UNCHANGED <<main, args, urls, at, length, resultVars, fileVars, ctxDone>>

\* The context is cancelled in the middle: what was submitted is dropped with
\* the requester, whose storage stays open.
SplitCancelled ==
    /\ Preparing("split") /\ ~Single
    /\ chunk < ChunkCount /\ ctxDone
    /\ Skip
    /\ UNCHANGED <<args, urls, fileVars, ctxDone>>

\* Mutant: the last batch, which is not full, is not submitted.
SplitDoneUnflushed ==
    /\ Preparing("split") /\ ~Single
    /\ chunk = ChunkCount
    /\ Prepared(urlTasks)

SplitDone ==
    /\ Preparing("split") /\ ~Single
    /\ chunk = ChunkCount
    /\ Prepared(urlTasks \o batch)

\* PrepareAllTasks returns.
StartFetching ==
    /\ main = "probe" /\ at > Len(urls)
    /\ main' = "fetch"
    /\ UNCHANGED <<args, urls, at, loopVars, resultVars, fileVars, ctxDone>>

PreparationNext ==
    \/ KeepArgument \/ ResolveHFModelFiles \/ ResolveFails \/ StartPreparing
    \/ Probe \/ CreateState \/ CreateStateFails \/ OpenStorage \/ OpenFails
    \/ SingleTask \/ SplitChunk \/ SplitCancelled \/ SplitDone \/ StartFetching

-----------------------------------------------------------------------------
(* Correctness properties.                                                 *)

TasksOf(n) == {i \in DOMAIN allTasks : allTasks[i].url = n}

Covers(t, p) == t.offset <= p /\ p < t.offset + t.length

\* The tasks of a prepared URL are one task for whatever will come, or chunks
\* inside the remote file of which exactly one covers each byte, however the
\* size was learnt, wherever the batches end and whatever failed for other
\* URLs (requester.go 178-289, 313-388).
TasksTile ==
    \A n \in Range(requesters) :
        \/ \E i \in DOMAIN allTasks :
              /\ TasksOf(n) = {i} /\ allTasks[i].offset = 0
              /\ allTasks[i].length = IF IsBitTorrent(urls[n]) THEN 0 ELSE -1
        \/ /\ \A i \in TasksOf(n) :
                 /\ allTasks[i].offset >= 0 /\ allTasks[i].length > 0
                 /\ allTasks[i].offset + allTasks[i].length <= urls[n].size
           /\ \A p \in 0 .. urls[n].size - 1 :
                 \E i \in TasksOf(n) : \A j \in TasksOf(n) : Covers(allTasks[j], p) <=> j = i

\* A URL that was skipped has left no task behind, whatever its requester had
\* submitted before it failed, and the total the progress bar counts up to is
\* that of the tasks that will be fetched (downloader.go 202-225).
SkippedLeavesNothing ==
    /\ \A i \in DOMAIN allTasks : allTasks[i].url \in Range(requesters)
    /\ total = KnownBytes(allTasks)
=============================================================================
