------------------------------ MODULE Program -------------------------------
(***************************************************************************)
(* The whole program for one command line: the arguments are resolved and  *)
(* prepared (Preparation), the tasks go through the worker pool, each to   *)
(* the fetcher DispatchFetcher finds for it, the requesters are cleaned up *)
(* and main cleans up the protocols.                                       *)
(*                                                                         *)
(* The pool is as TaskPool has it, with the two things the auto-tuner adds *)
(* to it: all workers may leave at a back-off, and one may be spawned late.*)
(* The hang of retries in full queues is not repeated here (Downloader).  A*)
(* fetch over HTTP, FTP or BitTorrent is one step with a free outcome, or  *)
(* goes on until it is cancelled; ChunkFetch.tla and TorrentSession.tla    *)
(* are its inside.  One by ffmpeg is all the steps of Ffmpeg.tla.          *)
(***************************************************************************)
EXTENDS Preparation

CONSTANTS MaxTasks,          \* bound on the number of tasks of the lists considered
          MaxFetchRetries,   \* 3 in fetcher.go
          VideoSize, ErrLines, PipeCap,   \* see Ffmpeg
          AutoTune,          \* Config.AutoTune, true unless a program clears it
          MayCancel          \* whether the caller may cancel the context it passed

ASSUME ProgramAssumption ==
    /\ AutoTune \in BOOLEAN /\ MayCancel \in BOOLEAN /\ MaxTasks \in Nat
    /\ VideoSize \in Nat /\ ErrLines \in Nat
    /\ PipeCap \in Nat \ {0} /\ MaxFetchRetries \in Nat \ {0}

TaskIds == 1 .. MaxTasks

VARIABLES
    table,     \* DispatchFetcher.fetchers: scheme -> fetcher, "none" before the first use
    fetcher,   \* the fetcher a task was last given to
    outcome,   \* what OnChunkComplete was called with: "none", "ok", "error"
    retries,   \* ChunkTask.Retries
    endless,   \* tasks in a fetch that will not end unless it is cancelled
    pc, proc, made, lines, pipe, open, reader, strays, last, reported   \* see Ffmpeg

dispatchVars == <<table, fetcher>>
poolVars     == <<outcome, retries, endless>>
videoVars    == <<pc, proc, made, lines, pipe, open, reader, strays, last, reported>>
vars == <<preparationVars, dispatchVars, poolVars, videoVars>>

\* The context derived by Download: cancelled with the caller's and, by the
\* deferred call, when Download returns.
Cancelled == ctxDone \/ main \in {"returned", "exited"}

Video == INSTANCE Ffmpeg WITH Tasks <- TaskIds, Size <- VideoSize, ctxDone <- Cancelled

Schemes == {"http", "ftp", "magnet"}

Init ==
    /\ PreparationInit
    /\ table = [s \in Schemes |-> "none"]
    /\ fetcher = [t \in TaskIds |-> "none"]
    /\ outcome = [t \in TaskIds |-> "none"]
    /\ retries = [t \in TaskIds |-> 0]
    /\ endless = {}
    /\ Video!FfmpegInit

Prepare == PreparationNext /\ UNCHANGED <<dispatchVars, poolVars, videoVars>>

-----------------------------------------------------------------------------
(* The pool.                                                               *)

InFetch(t) == pc[t] # "idle" \/ t \in endless

\* There are workers until wg.Wait returns, and one that a tick of the tuner
\* spawned after that may go on until main ends.
Working == main = "fetch" \/ (AutoTune /\ main \in {"cleanup", "returned"})

\* A task that a worker can receive.
Unsettled(t) == Working /\ t \in DOMAIN allTasks /\ outcome[t] = "none" /\ ~InFetch(t)

URLOf(t) == urls[allTasks[t].url]

\* DispatchFetcher.Fetch.  A new torrent or video fetcher is not stored.
Dispatched(t) ==
    LET u == URLOf(t) IN
    /\ fetcher' = [fetcher EXCEPT ![t] = Dispatch(table, u)]
    /\ table' = IF isTorrentResource(u) \/ isVideoStreamResource(u) THEN table
                ELSE [table EXCEPT ![SchemeKey(u)] = Dispatch(table, u)]

Succeeds(t) == /\ outcome' = [outcome EXCEPT ![t] = "ok"]
               /\ UNCHANGED retries

Fails(t) == /\ retries' = [retries EXCEPT ![t] = @ + 1]
            /\ outcome' = IF retries[t] + 1 < MaxFetchRetries THEN outcome
                          ELSE [outcome EXCEPT ![t] = "error"]

\* A fetch over HTTP, FTP or BitTorrent that ends.
FetchPlain(t) ==
    /\ Unsettled(t) /\ Dispatch(table, URLOf(t)) # "ffmpeg"
    /\ Dispatched(t)
    /\ Succeeds(t) \/ Fails(t)
    /\ UNCHANGED <<endless, preparationVars, videoVars>>

\* One that does not end by itself: the default file storage reports no end of
\* an HTTP body that is shorter than the task, which is every body when the
\* length is unknown (ChunkFetch!Spins), and a torrent can wait for metadata,
\* pieces or a stop it has missed (TorrentSession).
FetchHangs(t) ==
    /\ Unsettled(t) /\ Dispatch(table, URLOf(t)) \in {"http", "torrent", "magnet"}
    /\ Dispatched(t)
    /\ endless' = endless \cup {t}
    /\ UNCHANGED <<outcome, retries, preparationVars, videoVars>>

\* ctx.Done() in its loop.
HangCancelled(t) ==
    /\ t \in endless /\ Cancelled
    /\ main # "exited"
    /\ endless' = endless \ {t}
    /\ Fails(t)
    /\ UNCHANGED <<preparationVars, dispatchVars, videoVars>>

BeginVideo(t) ==
    /\ Unsettled(t) /\ Dispatch(table, URLOf(t)) = "ffmpeg"
    /\ Dispatched(t)
    /\ UNCHANGED <<endless, preparationVars>>
    /\ Video!Begin(t)

FetchVideo(t) ==
    /\ main # "exited"
    /\ UNCHANGED <<endless, preparationVars, dispatchVars>>
    /\ Video!GoOn(t) \/ Video!Read(t)

RunFfmpeg(t) ==
    /\ main # "exited"
    /\ UNCHANGED <<endless, preparationVars, dispatchVars>>
    /\ Video!Process(t)

FfmpegInTrouble(t) ==
    /\ main # "exited"
    /\ UNCHANGED <<endless, preparationVars, dispatchVars>>
    /\ Video!Trouble(t)

\* wg.Wait returns when every worker has left.  They leave when the context is
\* cancelled and they find no task: all tasks have ended, or the caller has
\* cancelled and the tasks that are left are in no worker's hands.
PoolDone == \/ \A t \in DOMAIN allTasks : outcome[t] # "none"
            \/ ctxDone /\ \A t \in DOMAIN allTasks : ~InFetch(t)

\* Download looks at the caller's context once.
LeaveFetch ==
    /\ main' = IF ctxDone THEN "returned" ELSE "cleanup"
    /\ at' = 1
    /\ UNCHANGED <<args, urls, loopVars, resultVars, fileVars, ctxDone,
                   dispatchVars, poolVars, videoVars>>

AllWorkersDone == main = "fetch" /\ PoolDone /\ LeaveFetch

\* After a back-off of the tuner all workers may leave between two tasks
\* (Downloader, run tuner_strand).
AllWorkersBackOff ==
    /\ main = "fetch" /\ AutoTune
    /\ \A t \in DOMAIN allTasks : ~InFetch(t)
    /\ LeaveFetch

-----------------------------------------------------------------------------
(* The end.                                                                *)

\* Mutant: a requester without a storage has nothing to clean up.
CleanupStored ==
    /\ main = "cleanup" /\ at <= Len(requesters)
    /\ LET n == requesters[at] IN
         /\ storages' = storages \ {n}
         /\ states' = IF n \in storages THEN states \ {parseFileName(urls[n])} ELSE states
    /\ at' = at + 1
    /\ UNCHANGED <<main, args, urls, loopVars, resultVars, ctxDone,
                   dispatchVars, poolVars, videoVars>>

\* Requester.Cleanup: the storages are synced and closed, their errors logged,
\* the two state files removed.
Cleanup ==
    /\ main = "cleanup" /\ at <= Len(requesters)
    /\ LET n == requesters[at] IN
         /\ storages' = storages \ {n}
         /\ states' = states \ {parseFileName(urls[n])}
    /\ at' = at + 1
    /\ UNCHANGED <<main, args, urls, loopVars, resultVars, ctxDone,
                   dispatchVars, poolVars, videoVars>>

Return ==
    /\ main = "cleanup" /\ at > Len(requesters)
    /\ main' = "returned"
    /\ UNCHANGED <<args, urls, at, loopVars, resultVars, fileVars, ctxDone,
                   dispatchVars, poolVars, videoVars>>

\* CleanupProtocols (TorrentSession.tla), and main returns.
Exit ==
    /\ main = "returned"
    /\ main' = "exited"
    /\ UNCHANGED <<args, urls, at, loopVars, resultVars, fileVars, ctxDone,
                   dispatchVars, poolVars, videoVars>>

Cancel ==
    /\ MayCancel /\ ~ctxDone
    /\ main # "exited"
    /\ ctxDone' = TRUE
    /\ UNCHANGED <<main, args, urls, at, loopVars, resultVars, fileVars,
                   dispatchVars, poolVars, videoVars>>

Exited == main = "exited" /\ UNCHANGED vars

Main == Prepare \/ AllWorkersDone \/ Cleanup \/ Return \/ Exit
TakeTask(t) == FetchPlain(t) \/ FetchHangs(t) \/ BeginVideo(t)
Fetch(t) == TakeTask(t) \/ HangCancelled(t) \/ FetchVideo(t)
            \/ RunFfmpeg(t) \/ FfmpegInTrouble(t)

Next == Main \/ AllWorkersBackOff \/ (\E t \in TaskIds : Fetch(t)) \/ Cancel \/ Exited

Spec == Init /\ [][Next]_vars

\* Go runs every goroutine that can go on; nothing obliges the tuner to back
\* off.  That ffmpeg writes, exits or dies when it is killed is assumed of it:
\* the code gives a fetch by ffmpeg no time limit.
FairSpec ==
    /\ Spec
    /\ WF_vars(Main)
    /\ \A t \in TaskIds : /\ WF_vars(TakeTask(t)) /\ WF_vars(HangCancelled(t))
                          /\ WF_vars(FetchVideo(t))
                          /\ WF_vars(RunFfmpeg(t))

-----------------------------------------------------------------------------
(* Correctness properties.                                                 *)

Mains == {"resolve", "probe", "state", "open", "split", "fetch", "cleanup",
          "returned", "exited"}

\* A ChunkTask as PrepareTasks makes it for one of the resolved URLs.
ChunkTasks == [url : DOMAIN urls, storage : BOOLEAN, offset : Nat, length : Int]

\* The types of all variables, and the bounds of the loops.  That MaxTasks is
\* enough for the lists considered is no invariant: with too small a bound
\* PoolDone asks for the outcome of a task that has none, which TLC reports.
TypeOK ==
    /\ main \in Mains
    /\ args \in ArgLists /\ urls \in Seq(Resource)
    /\ at \in 1 .. Len(urls) + Len(args) + 1
    /\ length \in Nat /\ chunk \in 0 .. ChunkCount
    /\ batch \in Seq(ChunkTasks) /\ Len(batch) < BatchSize
    /\ urlTasks \in Seq(ChunkTasks) /\ allTasks \in Seq(ChunkTasks)
    /\ requesters \in Seq(DOMAIN urls) /\ Len(requesters) <= Len(urls)
    /\ total \in Nat
    /\ states \subseteq {parseFileName(urls[n]) : n \in DOMAIN urls}
    /\ storages \subseteq DOMAIN urls
    /\ fetcher \in [TaskIds -> {"none", "torrent", "ffmpeg", "http", "ftp", "magnet"}]
    /\ table \in [Schemes -> {"none", "http", "ftp", "magnet"}]
    /\ outcome \in [TaskIds -> {"none", "ok", "error"}]
    /\ retries \in [TaskIds -> 0 .. MaxFetchRetries]
    /\ endless \subseteq TaskIds
    /\ pc \in [TaskIds -> {"idle", "open", "wait", "join"}]
    /\ proc \in [TaskIds -> {"none", "running", "exit0", "exit1"}]
    /\ made \in [TaskIds -> 0 .. VideoSize] /\ lines \in [TaskIds -> 0 .. ErrLines]
    /\ pipe \in [TaskIds -> [Video!Streams -> Seq(Nat)]]
    /\ open \in [TaskIds -> BOOLEAN]
    /\ reader \in [TaskIds -> SUBSET Video!Streams]
    /\ strays \in [TaskIds -> 0 .. MaxFetchRetries]
    /\ last \in [TaskIds -> 0 .. VideoSize] /\ reported \in [TaskIds -> 0 .. VideoSize]
    /\ ctxDone \in BOOLEAN

\* The two halves of the program decide from the same URL on their own what it
\* is: PrepareTasks whether its tasks get a storage, DispatchFetcher, over a
\* table that fills up as hosts of other schemes are fetched, who fetches
\* them.  A task is never given to a fetcher that stores through a nil
\* storage, and none with a storage to one that makes its own file
\* (requester.go 77-165, protocol.go 470-494).
StorageMatchesFetcher ==
    \A t \in TaskIds :
        fetcher[t] # "none" => (allTasks[t].storage <=> fetcher[t] \in {"http", "ftp"})

\* After a download that was not cancelled no file is open, and a state file
\* is left for skipped URLs at most: whatever failed on the way, each resource
\* that a requester acquired has been given back (requester.go 134, 164,
\* 390-414, downloader.go 214-225, 358-362).
NothingLeftBehind ==
    main \in {"returned", "exited"} /\ ~ctxDone =>
        /\ storages = {}
        /\ \A f \in states : \E n \in DOMAIN urls \ Range(requesters) :
              f = parseFileName(urls[n])

\* Ffmpeg's properties, of the videos among the tasks.
VideoOkIsWhole       == Video!VideoOkIsWhole
VideoProgressBounded == Video!VideoProgressBounded
NothingOutlivesFetch == Video!NothingOutlivesFetch

\* Plain and video tasks together keep the contract of the pool: each ends at
\* most once, after a success or after MaxFetchRetries failures (downloader.go
\* 151-170, ffmpeg_fetcher.go 94-111).
Pool == INSTANCE TaskPool WITH Tasks <- TaskIds, cleaned <- FALSE
PoolSpec == Pool!Spec

\* The program ends, whichever arguments cannot be resolved, probed, created or
\* fetched, and whenever the caller cancels (main.go 136-137), unless it is
\* left in a fetch that does not end by itself and nobody cancels it: the HTTP
\* fetch of a file of unknown or shrunk size, or a torrent that gets nothing.
Termination == <>(main = "exited") \/ <>[](endless # {} /\ ~Cancelled)
=============================================================================
