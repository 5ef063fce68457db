# A TLA+ model of oget

oget (`cmd/main.go`, `pkg/oget`) downloads a list of URLs. It probes each one,
splits it into 1 MB chunks, and lets a pool of workers fetch the chunks into a
pre-allocated file, with retries, an auto-tuner that changes the number of
workers, and a state file from which a later run is meant to resume. This
directory holds TLA+ modules of its core, TLC configurations that check them on
small instances, and TLAPS proofs about them for every instance.

## The system

| Component | State | Operations | Talks to |
|---|---|---|---|
| Worker pool, `downloader.go` | host queues, `activeWorkers`, `targetConcurrency`, two WaitGroups, a derived context | `Download`, `addTask`, `spawnWorker`, tuner, waiter | requesters (tasks, `Cleanup`), fetchers (`Fetch`), task callbacks |
| HTTP fetch, `fetcher.go` | `ChunkTask.Written`, `Retries`, the response body | `Fetch`, `ReadAtFrom` | server, storage, `OnProgress`, `OnChunkComplete` |
| Mmap storage, `mmap_storage.go` | mapping and its lock | `ReadAtFrom`, `Sync`, `Close` | fetches, `Cleanup` |
| Requester, `requester.go` | storages of one URL | `PrepareTasks`, `Cleanup`, `HttpProber.Probe` | state file, target file, pool |
| Resume state, `state.go` | header and bitset in `.name.oget` | `NewDownloadState`, `LoadState`, `MarkComplete`, `Save`, `Close` | requester, chunk completion |
| BitTorrent, `protocol.go`, `bt_clean.go` | one session for the process, its database | probe, fetch loop, janitor, cleanup | external library |
| FTP, `protocol.go` | a connection per fetch | probe, `Fetch` | server, storage, `OnProgress` |
| FFmpeg, `ffmpeg_*.go` | a child process, two pipes, two goroutines that read them | probe, `Fetch`, progress parser | child process, the context that kills it |
| Preparation, `downloader.go`, `requester.go`, `hf.go` | resolved URLs, tasks, requesters, total | `PrepareAllTasks`, `ResolveHFModelFiles`, `PrepareTasks`, the probes | servers, files, the pool |
| Dispatch and file names, `protocol.go`, `util.go` | the table of fetchers of `DispatchFetcher` | `GetProber`, `GetFetcher`, `DispatchFetcher.Fetch`, `parseFileName` | preparation, pool |
| HLS parser, `hls_tools.go` | none | pure functions, called by tests only | |
| Configuration, command line, system calls | none that changes | | |

What is hard in it, and what makes each part correct:

- **Pool.** Workers steal from each other's hosts, are the receivers *and*
  (through retries) the senders of the same bounded queues, and are spawned and
  retired by the tuner; the end of the download is found by two WaitGroups and a
  context. Each task must be fetched by one worker at a time, end exactly once,
  and never get lost; the context must not be cancelled early; Download must
  return; Cleanup must come last.
- **Fetch.** A body can break anywhere; the retry goes on at `Offset+Written`;
  completion is decided by counting bytes. Every byte must land at its place,
  `Written` must not run ahead of the file, progress must count each byte once,
  and every fetch must end.
- **Requester and state.** A crash can come between any two steps, the remote
  file and the target file can change between two runs. What a run counts as
  done must be in the file, and should be recorded for the next run.
- **Torrent session.** Its creation happens once and can fail; a janitor removes
  old torrents beside probes and fetches that look them up, add them and wait for
  them, several of them perhaps for the same torrent. Whoever asks must get a
  session or an error, a fetch reported complete must have all pieces, the
  janitor must spare new torrents, and a fetch whose torrent is left alone must end.
- **Preparation.** A URL may fail after it has opened its file, created its state
  and submitted tasks; sizes come from three requests that fall back on each
  other; full batches are submitted inside the loop. The tasks of a URL must cover
  its bytes once, a skipped URL must leave nothing in the download, and what a
  requester acquired must be given back.
- **Dispatch.** Preparation and dispatcher decide separately what a URL is, the
  latter with a table that fills up during the download. A task must get a storage
  exactly if its fetcher stores through one.
- **FFmpeg.** The process blocks on a full pipe, `cmd.Wait` closes the pipes under
  the goroutines that read them, a cancel kills the process at any moment, and a
  retry overwrites the same file. Half a video must not count, and no process or
  goroutine may outlive its fetch.
- **FTP.** A retry starts its chunk again, and a connection that breaks looks like
  the end of the file.

The list of hazards with their lines is in `PROJECT.json`.

## The modules

| Module | Models | |
|---|---|---|
| `TaskPool` | the abstract promise of `Download` about its tasks | specification |
| `Downloader` | the worker pool | implements `TaskPool` |
| `ChunkFetch` | `HttpFetcher.Fetch` and `FtpFetcher.Fetch` with both storages, for all chunks of a file | the inside of `Downloader`'s fetch step; implements `TaskPool` |
| `Requester` | `PrepareTasks`, the state file and `Cleanup` over many runs | its download phase is `Downloader` seen from one URL |
| `TorrentSession` | the torrent library's session, the probes and fetches of torrents and magnets, the janitor, `CleanupProtocols` | another inside of `Downloader`'s fetch step |
| `Resources` | what is decided from the text of a URL and from the answers of servers: dispatch, file names, files of a model, sizes | operators of `Preparation` and `Program` |
| `Preparation` | `PrepareAllTasks` with `ResolveHFModelFiles` and `PrepareTasks`, for a list of arguments | the first part of `Program` |
| `Ffmpeg` | `FFmpegFetcher.Fetch`, its process, pipes and goroutines, for all videos of a download | instantiated by `Program` |
| `Program` | `main`: preparation, dispatch, the pool as `TaskPool` has it, the end | composes `Preparation`, `Resources`, `Ffmpeg`; implements `TaskPool` |
| `MCDownloader`, `MCChunkFetch`, `MCRequester`, `MCTorrentSession`, `MCProgram` | constants for TLC | |
| `DownloaderProofs`, `ChunkFetchProofs`, `ProgressProofs`, `RequesterProofs`, `TorrentProofs` | theorems about the module of that name (`ProgressProofs`: more about `ChunkFetch`) | |
| `ProgramProofs`, `SumProofs`, `PreparationProofs` | theorems about `Program`: dispatch, ffmpeg and the pool; the total; preparation and cleanup | the last extends the other two |

`TaskPool` is where the pieces meet: the pool is shown to keep its promise, the
attempts of the chunk fetchers to fit it, and `Program`, which uses it in place of the
pool, to keep it for plain and video tasks together.

### Downloader

The processes are the goroutine that called `Download` (`main`), the workers,
the waiter on `tasksWg`, the tuner and the owner of the caller's context. The
model starts when the initial workers are spawned and every task's
`OnChunkComplete` is wrapped (lines 268-292, during which no worker can find a
task): all `tasksWg.Add` calls have been made then.

| Code | Model |
|---|---|
| `addTask(allTasks...)`, 293 | `SubmitNext` per task, into the queue of the *first* task's host; blocks while the queue is full |
| 296-352 | `Submitted` starts tuner and waiter |
| worker loop 98-173 | `LoadActive`, `Compare` (two atomic loads are two steps), `TakeOwn`, `Snapshot`, `Steal`, `LookFurther`, `Idle`, then `FetchOk`, `FetchFailed`+`Requeue`, or `FetchGivenUp` |
| the two `defer`s 94-95 | `Leave` (decrement), `WgDone` |
| tuner 297-345 | `TunerCool`, `TunerUp` (spawns), `TunerDown`, `TunerStop`; the measured speed is a free choice, so a tick may do any of what its guards on target and cooldown allow |
| waiter 349-352 | `WaiterCancel` |
| 354-362 | `AllWorkersDone`, `Return` (Cleanup unless the caller cancelled) |
| caller's cancel | `ParentCancel` |

A channel operation and an atomic operation are each one step. A fetch is one
step with a free outcome, because nothing but the task it holds is shared while
it runs. A failed fetch and the send of its copy are two steps, since the send
may block. The name of a worker that has left may be used again by the tuner.

### ChunkFetch

A byte is the index it has in the remote file; the target file holds a byte or a
hole at each position. One step is one evaluation of the loop of `Fetch`, so one
`ReadAtFrom`; parallel chunks interleave between them. `Setups` says which
protocol, which storage, which remote size and whether an HTTP server honours
`Range`; the response body ends cleanly, or breaks after any number of bytes with an
unexpected EOF or another error. The worker's part, to retry or to give up, is in
`Failed`, and `FetchFailed` and `FetchGivenUp` of `Downloader` are the same decision.
With an unknown size the reads ask for `ReadUnit` bytes.

The FTP loop (`protocol.go` 609-677) is the same one with other answers, which are
operators: `FirstByte` and `BodySize` (`RETR` from the chunk's offset to the end of the
file), `Breaks` (a broken connection may look like the end of the file), `EndsLoop`
(a read of nothing ends the loop, `io.ErrUnexpectedEOF` is an error), and
`LeftBehind` (`ChunkTask.Written` is never set, so each attempt starts again).

### Requester

One URL of known length whose server sends an ETag (`Last-Modified` is treated
by the code in the same way and is left out). A run is `Probe`, then `Resume` or
`NewDownloadState` and `Save`, `OpenTarget`, `Split`, and the ends of the tasks;
`Crash` may come after any of them and leaves the files as they are. The content
of a chunk is the version of the remote file it came from, or `Torn`. A chunk
fetched while the remote file has changed since the probe may hold any version
since then or a mixture, because the requests carry no `If-Range`.

### TorrentSession

One resource is one `.torrent` or magnet URL. The probes run one after the other,
as `PrepareAllTasks` calls them, then the tasks run in parallel; their retries are
the worker's. Each call into the library is a step, except that `Listen` makes the two
calls that ask for notifications: a stop between them is missed as one before them is,
and a completion is seen by the next tick.

| Code | Model |
|---|---|
| `getRainSession` 356-406 | `BeginProbe`; phase `"crashed"` is a method call on a nil session; it stops the probing, so nothing else happens |
| `fetchTorrentContent` 49-104 | free, or `ContentFails` |
| `GetTorrent`, `AddTorrent`/`AddURI`, "already added", `GetTorrent` (127-144, 192-208, 755-772, 843-859) | `LookUp`, `Add`, `AddFails`, `AlreadyAdded`, `LookUpAgain`, the same for both protocols and for probes and fetches, except that a probe adds the torrent stopped |
| the probes' ends 156-168, 784-824 | `ProbeOk`, `ProbeTimeout`, `FilesFail` |
| `t.Start()`, then `NotifyComplete` and `NotifyStop` (220, 231-232; 877, 888-889) | `Start`, `Listen`; a torrent that stops between the two is not heard (`stop` = `"missed"`) |
| the fetch loops 234-276, 890-932 | `FetchOk`, `FetchStopped`, `Aborted` |
| the tests that end them 243, 269, 926 | `FetchOk`: a notification of completion, `BytesDone` (bytes against the task's length) or `PiecesDone` of what `Stats` may return |
| the janitor's `cleanup` 411-432 | `JanitorLists`, then `JanitorRemoves` for each torrent, in any order |
| `CleanupProtocols` 444-458 | `CleanupProtocols` |
| the library | `MetadataArrives`, `PieceArrives`, `TorrentStops`; the database as an earlier run left it is a choice of `Init` |

A removed torrent lives on as an object in the hands of those who looked it up;
it never runs again. Whether a fetch hears that its torrent was removed is left
open. `Stats` counts bytes and pieces, a short last piece among them or not, and
returns zeroes of a torrent without metadata and perhaps of a removed one. Trackers,
and what is passed to `OnProgress`, are left out.

### Resources and Preparation

A resource is a record of what the code looks at in the text of a URL: scheme,
whether `url.Parse` accepts it, the ending, whether `.m3u8` or `.mpd` occurs in it,
the stem of its name, and whether it is a Hugging Face model. The size of the file
behind it is the server's.

| Code | Model |
|---|---|
| `isTorrentResource`, `isVideoStreamResource`, `GetProber`, `GetFetcher`, `DispatchFetcher.Fetch`, `protocol.go` 469-567 | operators of the same names, `Dispatch` |
| `matchHFFiles` 231-348 | the selections it may return; a file carries the strongest way in which it answers to the target |
| `HttpProber.Probe` 313-388, FTP and FFmpeg probes | `HttpProbe` per answer to its three requests, `FtpProbes`, `FfmpegProbes` |
| loop over the arguments 181-200 | `KeepArgument`, `ResolveHFModelFiles`, `ResolveFails` |
| `PrepareTasks` 75-289 | `Probe`, `CreateState`, `OpenStorage`, `SingleTask` or `SplitChunk` per turn of the loop and `SplitDone`; `CreateStateFails`, `OpenFails`, `SplitCancelled` |
| skipping a URL, collecting tasks 209-224 | `Skip`, `Prepared` |

Names of files are distinct in the instances: what two URLs with the same last
segment should do is not said anywhere (`util.go` 9). No earlier run has left files; that is
`Requester`'s subject.

### Ffmpeg and Program

| Code | Model |
|---|---|
| `Fetch` 27-72 up to `cmd.Start` | `NotStartable`, `OpenPipes`, `StartProcess`, and `StartFails`, which returns without waiting for the copier of stderr: it stays behind (`strays`) until `StrayEnds` |
| the process, external | `Emit` (a unit of output and a report of the size, or N/A), `Complain` (stderr), `ExitsOk`, `ExitsError`, `Killed`; a write waits for room in the pipe |
| the two goroutines 62-88, `ParseFFmpegProgress` | `ParseProgress`, `CopyError`, `ReaderEnds` |
| `cmd.Wait`, the two channels 90-92 | `WaitReturns` (closes both pipes, what was not read is lost), `Joined` |
| the end 94-111 | `FetchFails`, `FetchOk` |
| `DispatchFetcher.Fetch` | `Dispatched`, which also fills the table |
| a worker's fetch over HTTP, FTP, BitTorrent | `FetchPlain`, one step with a free outcome; or, over HTTP and BitTorrent, `FetchHangs`, which only a cancel ends (`HangCancelled`) |
| a worker's fetch by ffmpeg | `BeginVideo`, `FetchVideo`, `RunFfmpeg`, `FfmpegInTrouble` |
| `wg.Wait` | `AllWorkersDone`, or `AllWorkersBackOff` when the tuner's back-off has sent all workers away between two tasks |
| a worker that the tuner spawns after `wg.Wait` (330) | tasks can be taken until `main` ends (`Working`) |
| `Cleanup`, the return, the end of `main` | `Cleanup` per requester, `Return`, `Exit` |

## The runs

| Run | Instance | Result |
|---|---|---|
| `pool` | 2 workers, 3 tasks, 2 hosts of which one is empty (magnet), queues of 3, 3 retries, a caller that may cancel, no tuner; deadlock checked | `TypeOK`, `TasksWgExact`, `CancelMeansSettled`, `CleanupAfterAllSettled`, `SubmitHasReceivers`, `PoolSpec`, `Termination`, `EveryTaskEnds` hold |
| `tuned` | 1 initial worker and room for two more, 2 tasks, queues of 1, 2 retries, tuner, a caller that may cancel | `TaskConservation`, `ActiveExact`, `AttemptsSpec` hold |
| `http` | 2 chunks of 3 and 2 bytes, HTTP with `Range` and FTP, both storages, a remote file that has or has not shrunk since the probe, 3 attempts, a caller that may cancel | `TypeOK`, `StoredFaithful`, `WrittenIsStored`, `OkMeansWhole`, `ProgressExact`, `EndsUnlessSpinning`, `PoolSpec` hold |
| `resume` | 2 chunks, 3 versions, any number of runs and crashes | `TypeOK`, `ResumeSafe` hold |
| `torrents` | 2 magnet links of one torrent, or one of them and a `.torrent` of another, any of which an earlier run may have left long ago, 2 pieces of 2 bytes and 1, 2 attempts, a caller that may cancel | `TypeOK`, `OkHasAllPieces`, `AddedIsSpared`, `NoWaitForMetadata`, `EveryTorrentEnds` hold |
| `program` | 9 lists of arguments (below), chunks of 2 units, batches of 2, 2 attempts, videos of 2 units, pipes of 1, the tuner's back-off and late worker, a caller that may cancel; deadlock checked | `TypeOK`, `TasksTile`, `SkippedLeavesNothing`, `StorageMatchesFetcher`, `NothingLeftBehind`, `VideoOkIsWhole`, `VideoProgressBounded`, `NothingOutlivesFetch`, `PoolSpec`, `Termination` hold |
| `retry_hang` | 2 workers, 4 tasks, queues of 1 | `NoRetryHang` fails |
| `tuner_strand` | 2 workers, 2 tasks, tuner | `CleanupAfterAllSettled` fails |
| `no_ranges` | as `http`, a server that answers 200 | `StoredFaithful` fails |
| `until_eof` | unknown size, file storage | `EveryFetchEnds` fails |
| `resume_lost` | as `resume` | `CompletedIsRecorded` fails |
| `nil_session` | as `torrents` | `SessionOrError` fails |

Why the bounds are enough to be interesting. Two workers are enough for a theft,
a race for a task, and for all workers to be stuck or to leave at once; three
tasks with two hosts make a queue of mixed hosts (all tasks start in the first
one's) and a retry that moves to the other; three attempts are the code's. In
`tuned` a third name lets the tuner spawn while a retired worker is still between
its two deferred calls; `MaxConcurrency` is 2. A name must be free for
`TunerUp`: this is the only guard that the code does not have. In `http` the
chunks are of different sizes, the longer one needs several reads after a break,
and each body may break at each byte. With `ReadUnit` smaller than a file,
`until_eof` reads more than once. In `resume` three versions allow a change
between the run that wrote the header and the run that reads it, and another one
during the latter. In `torrents` the two magnets race to add the same torrent
and the janitor can remove it from under both, at the same time as a new torrent
that it must not touch is added; `Downloads` lists what the run is asked for,
`Databases` what an earlier run may have left. Two pieces, the last one short, are
enough for a torrent of which something is there, and whose bytes depend on which
piece that is.

The lists of `program` are a file of five units (three chunks in batches of two,
the last one short); an FTP file of four (no short chunk) with a torrent; a file of
one chunk with a playlist; an FTP file of one chunk with a magnet link that mentions
`.m3u8`; a file whose size nobody knows with a torrent and a magnet; a link that does
not parse with a model that is none; and the file of unknown size with a model without
a target, with "all" and with a text target, over four listings that make the rules of
`matchHFFiles` differ. The fetches of a list fill
the table of fetchers in every order. A video of two units with pipes of one lets
the process block on either pipe, be killed before, between and after its reports,
and lose reports when the pipes close. `MaxTasks` = 4 is the longest list of tasks
these arguments can make.

`CHECK_DEADLOCK FALSE` is in `torrents` and `nil_session`, where the program ends and
where the fetch of a removed torrent may wait for ever, in `tuned` and in `tuner_strand`, which have the retry
hang or a worker pool that has left, in `retry_hang`, which looks for it by its
own invariant. All other runs check deadlock; `program` ends in `Exited`.

### What the failing runs show

- `retry_hang` (`downloader.go` 85, 161). Each worker holds a failed task and the
  queue of its host is full: all block in the send, nobody receives, and the send
  ignores the context. With the real capacity of 100 it takes as many failures at
  the same time as there are workers, and a file of more than 100 MB.
- `tuner_strand` (99, 140, 354). After one back-off several workers can load
  `activeWorkers` before the first of them has decremented it. If all do, all
  leave, `wg.Wait()` returns, and Cleanup removes the state as after a success.
  `CleanupAfterAllSettled` asks only that no task is left that could still end. The
  comment it belongs to (357, "if download completed successfully") asks for more than
  the code tests: chunks that were given up count as ended, and Cleanup removes the state
  files after them too, with or without tuner (358 looks at the context alone).
- `resume_lost` (`requester.go` 134). The state is closed by a `defer` of
  `PrepareTasks`, before any chunk is fetched, and `MarkComplete` on a closed state
  does nothing: no run ever finds a finished chunk.
- `no_ranges` (`fetcher.go` 314). A 200 answer to a ranged request is stored at
  the offset that was asked for, although it starts at byte 0.
- `until_eof` (`fetcher.go` 104, 344). The file storage hides the EOF that is the
  only end of a fetch of unknown length. A known length with a body that ends
  cleanly but too early meets the same loop (`Spins`), so that "download incomplete"
  (363) is never reported for it. `http` has this case, a file that has shrunk on the file
  storage, and `EndsUnlessSpinning` says that nothing else keeps a chunk from ending:
  the mmap storage reports the EOF, and the FTP loop takes a read of nothing for the end.
- `nil_session` (`protocol.go` 357, 358, 398). The error of `torrent.NewSession` goes to
  a local variable of the first caller. `sync.Once` does not run again, so the
  next URL's probe gets a nil session with a nil error and calls a method on it.

### Fairness

`FairSpec` of `Downloader` assumes weak fairness of `main`, of the waiter, of
each worker and of the tuner's stop: goroutines that can run do run. It includes
that a fetch returns; `EveryFetchEnds` and `EndsUnlessSpinning` are about that. Nothing makes the caller
cancel or the tuner change the target, and a fetch may fail each time.
`FairSpec` of `ChunkFetch` assumes that each fetch goes on: the server answers,
the body continues or breaks, the worker takes the task again. The loop of
`until_eof` is then an infinite run of steps that change nothing.
`FairSpec` of `Program` assumes that `main`, each fetch and its reading goroutines go
on, and of ffmpeg that it writes, exits, or dies when it is killed, unless the pipe it
writes to is full. That is an assumption about the process: the code gives it no time
limit, so an ffmpeg that neither writes nor exits stops the download until the caller
cancels. Nothing makes ffmpeg complain or fail, the tuner back off, or the caller cancel.
`Termination` of `Program` excepts the runs that stay in a fetch without an end
(`FetchHangs`: the loop of `until_eof`, a torrent that gets nothing) which nobody cancels.
The stranding of `tuner_strand` is a step of `Program` (`AllWorkersBackOff`); the hang of
`retry_hang` is not, since `Program` has no queues.
`FairSpec` of `TorrentSession` assumes that probes and fetches go on, and, of the
network, that a running torrent with metadata gets its pieces; without it a fetch
may wait for ever, which the code allows. Nothing is assumed of the janitor, of
metadata or of the caller. Where the janitor has removed a kept torrent
`EveryTorrentEnds` says nothing of its fetches: a magnet then waits for metadata
without a timeout, which `NoWaitForMetadata` shows to be the only such case. It also
excepts a fetch whose torrent stopped between `t.Start()` and `NotifyStop`: nobody tells
it, and it waits until the caller cancels.

## The proofs

`DownloaderProofs`, from `ConstantsAssumption` alone (finitely many workers, at
least one initial worker and one task, positive capacities):

- The inductive invariant is `TypeOK /\ TaskConservation /\ RetriesLeft`.
  `TaskConservation` alone is not inductive with types: that `retries` stays within
  its range needs that a task which is not settled has attempts left, and that
  only an unsettled task can be in a worker's hands. It has three parts
  (`QueuedOnce`, `HeldOnce`, `NoneLost`), and four lemmas say what keeps them:
  a receive, a send, a completion, and any step that moves no task. Each action
  is one of the four.
- `Conservation`, `TypeCorrect` follow. `TasksWgCorrect` uses them for the fact that a
  task is completed once, so that the counter and the set of unsettled tasks
  shrink together. `ActiveCorrect` counts the living workers through spawns and
  departures. `CancelCorrect` follows from the count.
- `CleanupCorrect` and `ImplementsTaskPool` assume `~AutoTune`; `tuner_strand` shows
  that they are false with it. They rest on the invariant `Untuned`: without
  tuner `active <= target`, so no worker sees a surplus, the initial workers leave
  only when the context is done, and `wg.Wait()` returns only then. The second
  theorem maps each step to a step of `TaskPool` or to a stutter.
- `ImplementsAttempts` says how much of `TaskPool` is left with the tuner: all of it but
  the moment of `Cleanup` (the refinement with `cleaned` always `FALSE`, `AttemptsSpec`). It is
  a statement of safety: a stranded task never ends, and does not violate it.
  Both refinements share `TaskStep`: a fetch that ends is a success, a retry or the
  last failure of its task, and every other step is a stutter.
- `ReceiversCorrect`: while `addTask` sends, nobody but the caller can have cancelled and
  the tuner is not born, so no worker has left (`Submitting`). Workers that are stuck with a
  retry receive nothing; if all are, they and the full queue they wait for hold tasks that
  are all different (`StuckHoldTasks`), so at least `QueueCap` and the number of workers
  together were submitted. That is the second exception of `SubmitHasReceivers`, beside
  the caller's cancel: in both, `main` may stay blocked in its send.
- `NoHang` gives a condition under which `retry_hang` cannot happen: with queues that
  hold all tasks, the worker that sends a task back finds room, because the tasks in a
  queue and the one in its hand are different (`RoomForRetry`). With the real capacity,
  downloads of at most 100 tasks cannot hang there.

`RequesterProofs`, for any set of chunks and number of versions: the invariant is
the types, that the bitset is open only inside `PrepareTasks`, that no bit is ever
set, and that the probe is not newer than the server. `TypeCorrect` and `ResumeCorrect` follow, and
`NothingIsRecorded` states the reason plainly: **`ResumeSafe` holds because every run
downloads everything.** The mutant of `MarkComplete` shows that recording chunks
without more changes would break it, since a chunk that was given up is recorded
like a good one, and `NewDownloadState` keeps old bits.

`TorrentProofs`, for any resources, IDs, database and number of attempts, from
`TorrentAssumption`: the invariant adds to the types that what the janitor has
listed is still the earlier run's (`DoomedKept`, the reason for `AddedIsSpared`), and
what is known of each resource (`Fine`): a torrent of this run that it holds is the
one in the session, so that nobody adds it a second time over a complete one; a
fetch past the search holds a torrent; a task that was not given up has attempts
left. Each kind of step has a lemma: a task moves, a task fails, a torrent changes,
`Add` and `Start` (which do both), and the janitor's removal. `SparedCorrect` and `OkCorrect` follow;
the latter rests on what the tests of the fetch loop mean for any sizes: fewer than all
pieces have fewer bytes than the task (`BytesBelow`), whatever the last one weighs, and
`Stats` that pass a test are those of a torrent with all pieces (`DoneHasAll`).
`MetadataCorrect` rests on a second invariant, `LearnedInv`, about two moments of a magnet
link: what its probe has learned is still in the session when its fetch looks it up,
unless the janitor came in between. `NextLasts` says what no step undoes, `NextMoves`
how a task comes to hold a torrent and to count as probed.

`ChunkFetchProofs`, for any sizes, either storage and any number of attempts. Its
assumption `Sound` is that the probe found a length and that each server honours
`Range` or speaks FTP; `no_ranges` and `until_eof` show what is lost without it.

- `StoredFaithful` alone is not inductive, since it says nothing of the bytes that
  are on their way. The invariant adds that the next byte of a response belongs where the next one is
  stored (`Aligned`), that what an attempt has counted is stored
  (`CountedIsStored`), that an FTP task carries nothing over (`FtpStartsAgain`), and
  that success is counted (`OkIsCounted`), so that `OkMeansWhole` follows from a count.
- Chunks write to one file in parallel. `ChunkStep` says why this is harmless: the file only
  grows by right bytes (`DataGrows`), so a step of one chunk keeps the facts about all
  others, and each action is looked at for its own chunk.
- `ImplementsTaskPool` needs no assumption: every attempt fails once or succeeds, whatever the
  server does. It covers the files of unknown length too, whose fetch may not end.

`ProgressProofs`, under `Sound` too, proves `ProgressExact` with an invariant of its own.
`ProgressInv` says of each chunk that its first `m` bytes are stored and no others, for
some `m`: over HTTP `m` bytes are reported and an attempt goes on behind them (after a
cancel it may not, but then nothing more is read); over FTP each attempt reports what it reads once
more, so that `m` is at most what is reported, and `m` for each failed attempt and the bytes of this
one are the most. `Geometry` and `Disjoint` show that the chunks of the split share no
byte, which lets a chunk be looked at alone and the stored bytes be counted chunk by chunk.

`ProgramProofs`, from the assumptions on the constants alone, so for any arguments,
listings, servers, sizes of chunks, batches, pipes and videos:

- `PrepareInv` follows a task from the split to the pool: it carries a storage exactly
  if its URL needs one (`SoundTasks`), for which storages must not be opened ahead of
  the URL under preparation (`StoragesInOrder`), and a URL that does not parse does not get past its probe.
  With what the table may hold for a scheme (`TableSound`), `StorageCorrect` follows.
- Each task has an invariant of four parts: `WellDispatched`, `WellHeld` (who may read and run
  in which phase of the fetch), `WellRun` (a process is reported complete only when it has exited
  with the whole output) and `WellCounted` (the progress is at most the largest
  report, and reports are at most what was written). Steps of `main` keep all of them, a step of a task only has to keep its own.
- `VideoOkCorrect`, `VideoProgressCorrect`, `FetchCorrect` and `ImplementsTaskPool`
  follow. They hold of the late worker's fetches too. `FetchCorrect` allows the copiers of
  stderr that `StartFails` leaves behind, at most one for each failed attempt.

`PreparationProofs`, from the same assumptions, about what `PrepareAllTasks` hands to the
pool and what is given back:

- `Placed` says where the loops are: the requesters are URLs behind the loop, so none is
  prepared twice. Every step is one of the preparation, of the end of `Download`, or
  leaves both alone (`StepCases`, `LoopCases`), and a step collects the tasks of one
  requester or changes none (`ResultCases`).
- `Splitting` is the invariant of the chunk loop: what was submitted and what is in the
  batch are, one behind the other, the chunks `0 .. chunk - 1`, wherever the batches end.
  `ChunkGeometry` and `OneChunkCovers` are its arithmetic: no chunk is empty, the last
  ends with the file, and each byte lies in one. So the list is a tiling when the loop
  ends (`ChunksAreComplete`).
- `TileCorrect` carries this over to the list of all tasks: those of other URLs do not
  change (`OldTiles`), those of the new one are exactly the new ones (`NewTile`), which
  needs that a skipped URL has left none. `TasksTile` and `SkippedLeavesNothing` are then
  inductive together with the above.
- `SkippedCorrect` needs that the total is additive. `KnownBytes` is a fold of the
  community modules, so a recursive function. `SumProofs` shows that it counts the bytes
  of the tasks (`KnownBytesCounts`): its recursion has one solution (`FoldIsUnique`, by a
  least counterexample among the sets of tasks), and a cardinality is one.
- `LeftBehindCorrect` rests on `Held` (an open storage belongs to a kept requester, or to
  the URL in its split, unless the context was cancelled; a state file is named after a
  URL) and `GivenBack` (what the loop of the cleanup is past is gone). A failure in the
  split without a cancel would break `Held`: the split is the one place where
  `PrepareTasks` returns with a storage open.
- `TypeCorrect` collects the types and bounds of all variables from these, the lists of
  tasks and the pipes included.

Every safety invariant, action property and refinement that a passing run checks is
proved. Only model-checked: liveness (`Termination`, `EveryTaskEnds`, `EndsUnlessSpinning`,
`EveryTorrentEnds`) and the absence of deadlock, which need ENABLED or fairness, and the
counterexamples of the failing runs. The bound `MaxTasks` may be any number in the proofs
about `Program`; that it is large enough for the lists considered is a matter of the
instance: were it too small, `PoolDone` would ask for the outcome of a task that has none,
an error in TLC.

## Not modelled, and the plan

The plan that is left: the conditions under which the properties of the failing runs hold,
as `NoHang` is for `retry_hang` (ranges and a known length are already the assumption
`Sound` of `ChunkFetchProofs`): for `tuner_strand`, which back-offs cannot strand tasks.

Left out, and why:

- The HLS parser and `validateURL` are called by tests only, `MultiFetcher`, `LoadConfig`
  and the splice functions by nobody; the io_uring storage is a placeholder.
- The lock of the mmap storage: `Close` runs in `Cleanup`, after `wg.Wait`. Only a
  worker that the tuner spawns after that (`downloader.go` 330) could meet it.
- The text of specs, endpoints, tokens, names and ffmpeg arguments is formatting;
  flags and defaults enter as constants. The checksum is computed and compared with nothing.
- What torrents pass to `OnProgress`, trackers, and `CleanBT`.
- That chunks which were given up are cleaned up after like good ones, and that a short body
  spins on the file storage, have no failing run of their own: the first is a test the code
  does not make, the second is the loop of `until_eof`.
- Transports and system calls have no state of their own that changes; the progress
  bar, the test server and the benchmark are not part of the download.

Three observations that no run is about. A body without a length that breaks off with
`io.ErrUnexpectedEOF` is taken for complete (`fetcher.go` 353), so `OkMeansWhole` is proved for known sizes. The stderr text of
a failed ffmpeg may be incomplete in the error message, because `cmd.Wait` may close its pipe before it
is copied (`ffmpeg_fetcher.go` 62-90). And two URLs with one file name write to one file.
