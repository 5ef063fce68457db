------------------------------- MODULE Ffmpeg -------------------------------
(***************************************************************************)
(* FFmpegFetcher.Fetch for the video tasks of a download: a child process, *)
(* two pipes with a goroutine reading each, the wait for the process, and  *)
(* the context that kills it.  The process is external: it writes Size     *)
(* units of output to its file, reports some of them on stdout             *)
(* ("total_size", or N/A), may write to stderr, and blocks while the pipe  *)
(* it writes to is full.                                                   *)
(***************************************************************************)
EXTENDS Integers, Sequences

CONSTANTS
    Tasks,           \* the tasks of the download
    Size,            \* units of output of a whole video
    ErrLines,        \* bound on the lines a process writes to stderr
    PipeCap,         \* what a pipe holds, in reports or lines
    MaxFetchRetries  \* 3 in fetcher.go

Streams == {"out", "err"}

VARIABLES
    pc,        \* where the fetch is: "idle", "open", "wait", "join"
    proc,      \* the process: "none", "running", "exit0", "exit1"
    made,      \* units in the output file
    lines,     \* lines written to stderr
    pipe,      \* unread reports and lines of the two pipes
    open,      \* the reading ends of the pipes are open
    reader,    \* the streams of this attempt whose goroutine runs
    strays,    \* copiers of stderr that attempts without a process have left running
    last,      \* lastTotalSize
    reported,  \* units passed to OnProgress by this attempt
    outcome,   \* what the task ended with: "none", "ok", "error"
    retries,   \* ChunkTask.Retries
    ctxDone    \* the context Download has derived is cancelled

processVars == <<proc, made, lines>>
readVars    == <<reader, last, reported>>
poolVars    == <<outcome, retries>>

NoOutput == [s \in Streams |-> <<>>]

FfmpegInit ==
    /\ pc = [v \in Tasks |-> "idle"]
    /\ proc = [v \in Tasks |-> "none"]
    /\ made = [v \in Tasks |-> 0]
    /\ lines = [v \in Tasks |-> 0]
    /\ pipe = [v \in Tasks |-> NoOutput]
    /\ open = [v \in Tasks |-> FALSE]
    /\ reader = [v \in Tasks |-> {}]
    /\ strays = [v \in Tasks |-> 0]
    /\ last = [v \in Tasks |-> 0]
    /\ reported = [v \in Tasks |-> 0]

-----------------------------------------------------------------------------
(* Fetch up to the start of the process.                                   *)

Queued(v) == pc[v] = "idle" /\ outcome[v] = "none"

\* Mutant: retries without end.
FailedAlwaysRetries(v) ==
    /\ pc' = [pc EXCEPT ![v] = "idle"]
    /\ retries' = [retries EXCEPT ![v] = @ + 1]
    /\ UNCHANGED outcome

\* Mutant: the first failure is the last.
FailedGivesUp(v) ==
    /\ pc' = [pc EXCEPT ![v] = "idle"]
    /\ retries' = [retries EXCEPT ![v] = @ + 1]
    /\ outcome' = [outcome EXCEPT ![v] = "error"]

\* Fetch returns an error: the worker retries the task or gives it up
\* (Downloader!FetchFailed, FetchGivenUp).
Failed(v) ==
    /\ pc' = [pc EXCEPT ![v] = "idle"]
    /\ retries' = [retries EXCEPT ![v] = @ + 1]
    /\ outcome' = IF retries[v] + 1 < MaxFetchRetries THEN outcome
                  ELSE [outcome EXCEPT ![v] = "error"]

\* No ffmpeg, no directory for the output, or no pipe.
NotStartable(v) ==
    /\ Queued(v)
    /\ Failed(v)
    /\ UNCHANGED <<processVars, pipe, open, readVars, strays, ctxDone>>

\* The pipes exist, and the goroutine that copies stderr runs.
OpenPipes(v) ==
    /\ Queued(v)
    /\ pc' = [pc EXCEPT ![v] = "open"]
    /\ open' = [open EXCEPT ![v] = TRUE]
    /\ pipe' = [pipe EXCEPT ![v] = NoOutput]
    /\ reader' = [reader EXCEPT ![v] = @ \cup {"err"}]
    /\ UNCHANGED <<processVars, last, reported, strays, poolVars, ctxDone>>

\* cmd.Start fails, as it does when the context is cancelled, and closes the
\* pipes.  Fetch returns without <-stderrDone: the copier may still run.
StartFails(v) ==
    /\ pc[v] = "open"
    /\ Failed(v)
    /\ open' = [open EXCEPT ![v] = FALSE]
    /\ reader' = [reader EXCEPT ![v] = @ \ {"err"}]
    /\ strays' = [strays EXCEPT ![v] = @ + 1]
    /\ UNCHANGED <<processVars, pipe, last, reported, ctxDone>>

\* It finds its pipe closed, and has copied nothing.
StrayEnds(v) ==
    /\ strays[v] > 0
    /\ strays' = [strays EXCEPT ![v] = @ - 1]
    /\ UNCHANGED <<pc, processVars, pipe, open, readVars, poolVars, ctxDone>>

\* cmd.Start; -y makes the process overwrite what an earlier one has left.
StartProcess(v) ==
    /\ pc[v] = "open" /\ ~ctxDone
    /\ pc' = [pc EXCEPT ![v] = "wait"]
    /\ proc' = [proc EXCEPT ![v] = "running"]
    /\ made' = [made EXCEPT ![v] = 0]
    /\ lines' = [lines EXCEPT ![v] = 0]
    /\ reader' = [reader EXCEPT ![v] = @ \cup {"out"}]
    /\ last' = [last EXCEPT ![v] = 0]
    /\ reported' = [reported EXCEPT ![v] = 0]
    /\ UNCHANGED <<pipe, open, strays, poolVars, ctxDone>>

-----------------------------------------------------------------------------
(* The process.                                                            *)

Runs(v) == proc[v] = "running"
Room(v, s) == Len(pipe[v][s]) < PipeCap
Write(v, s, x) == pipe' = [pipe EXCEPT ![v][s] = Append(@, x)]
NA == 0

\* A unit of the video and a report of the size, or one without the size.
Emit(v) ==
    /\ Runs(v) /\ made[v] < Size /\ Room(v, "out")
    /\ made' = [made EXCEPT ![v] = @ + 1]
    /\ \E x \in {made[v] + 1, NA} : Write(v, "out", x)
    /\ UNCHANGED <<pc, proc, lines, open, readVars, strays, poolVars, ctxDone>>

Complain(v) ==
    /\ Runs(v) /\ lines[v] < ErrLines /\ Room(v, "err")
    /\ lines' = [lines EXCEPT ![v] = @ + 1]
    /\ Write(v, "err", lines[v] + 1)
    /\ UNCHANGED <<pc, proc, made, open, readVars, strays, poolVars, ctxDone>>

Exit(v, how) ==
    /\ proc' = [proc EXCEPT ![v] = how]
    /\ UNCHANGED <<pc, made, lines, pipe, open, readVars, strays, poolVars, ctxDone>>

ExitsOk(v)    == Runs(v) /\ made[v] = Size /\ Exit(v, "exit0")
ExitsError(v) == Runs(v) /\ Exit(v, "exit1")

\* exec.CommandContext kills the process when the context is cancelled.
Killed(v) == Runs(v) /\ ctxDone /\ Exit(v, "exit1")

-----------------------------------------------------------------------------
(* The goroutines that read, and the end of Fetch.                         *)

\* Mutant: what is reported is the size, not what it grew by.
DeltaWhole(v, size) == IF size > last[v] THEN size ELSE 0

\* The callback of ParseFFmpegProgress; N/A leaves TotalSize as it was.
Delta(v, size) == IF size > last[v] THEN size - last[v] ELSE 0

\* Mutant: the progress is read when the process has exited.
ParseAfterWait(v) ==
    /\ "out" \in reader[v] /\ pc[v] = "join"
    /\ reader' = [reader EXCEPT ![v] = @ \ {"out"}]
    /\ UNCHANGED <<pc, processVars, pipe, open, last, reported, strays, poolVars, ctxDone>>

ParseProgress(v) ==
    /\ "out" \in reader[v] /\ open[v] /\ pipe[v]["out"] # <<>>
    /\ LET d == Delta(v, Head(pipe[v]["out"])) IN
         /\ last' = [last EXCEPT ![v] = IF d > 0 THEN Head(pipe[v]["out"]) ELSE @]
         /\ reported' = [reported EXCEPT ![v] = @ + d]
    /\ pipe' = [pipe EXCEPT ![v]["out"] = Tail(@)]
    /\ UNCHANGED <<pc, processVars, open, reader, strays, poolVars, ctxDone>>

\* io.Copy into stderrBuf.
CopyError(v) ==
    /\ "err" \in reader[v] /\ open[v] /\ pipe[v]["err"] # <<>>
    /\ pipe' = [pipe EXCEPT ![v]["err"] = Tail(@)]
    /\ UNCHANGED <<pc, processVars, open, readVars, strays, poolVars, ctxDone>>

\* The end of the pipe, or a closed one.
ReaderEnds(v, s) ==
    /\ s \in reader[v] /\ pc[v] \in {"wait", "join"}
    /\ ~open[v] \/ (~Runs(v) /\ pipe[v][s] = <<>>)
    /\ reader' = [reader EXCEPT ![v] = @ \ {s}]
    /\ UNCHANGED <<pc, processVars, pipe, open, last, reported, strays, poolVars, ctxDone>>

\* cmd.Wait returns once the process has exited and closes the reading ends:
\* what the goroutines have not read is lost.
WaitReturns(v) ==
    /\ pc[v] = "wait" /\ ~Runs(v)
    /\ pc' = [pc EXCEPT ![v] = "join"]
    /\ open' = [open EXCEPT ![v] = FALSE]
    /\ pipe' = [pipe EXCEPT ![v] = NoOutput]
    /\ UNCHANGED <<processVars, readVars, strays, poolVars, ctxDone>>

\* Mutant: nobody waits for the goroutine that parses the progress.
JoinedError(v) == pc[v] = "join" /\ "err" \notin reader[v]

\* <-stderrDone and <-progressDone.
Joined(v) == pc[v] = "join" /\ reader[v] = {}

FetchFails(v) ==
    /\ Joined(v)
    /\ ctxDone \/ proc[v] = "exit1"
    /\ Failed(v)
    /\ UNCHANGED <<processVars, pipe, open, readVars, strays, ctxDone>>

\* Mutant: only the context is looked at, not the error of cmd.Wait.
FetchOkUnchecked(v) ==
    /\ Joined(v)
    /\ ~ctxDone
    /\ pc' = [pc EXCEPT ![v] = "idle"]
    /\ outcome' = [outcome EXCEPT ![v] = "ok"]
    /\ UNCHANGED <<processVars, pipe, open, readVars, strays, retries, ctxDone>>

\* OnChunkComplete.
FetchOk(v) ==
    /\ Joined(v)
    /\ ~ctxDone /\ proc[v] = "exit0"
    /\ pc' = [pc EXCEPT ![v] = "idle"]
    /\ outcome' = [outcome EXCEPT ![v] = "ok"]
    /\ UNCHANGED <<processVars, pipe, open, readVars, strays, retries, ctxDone>>

Begin(v) == NotStartable(v) \/ OpenPipes(v)
Process(v) == Emit(v) \/ ExitsOk(v) \/ Killed(v)
Trouble(v) == Complain(v) \/ ExitsError(v)
GoOn(v) ==
    \/ StartFails(v) \/ StartProcess(v) \/ WaitReturns(v) \/ FetchFails(v) \/ FetchOk(v)
Read(v) == \/ ParseProgress(v) \/ CopyError(v) \/ StrayEnds(v)
           \/ \E s \in Streams : ReaderEnds(v, s)

-----------------------------------------------------------------------------
(* Correctness properties.                                                 *)

\* A video reported complete is the whole output of one process: no failed,
\* killed or overlapping attempt counts (ffmpeg_fetcher.go 90-108).
VideoOkIsWhole ==
    \A v \in Tasks : outcome[v] = "ok" /\ proc[v] # "none" =>
        proc[v] = "exit0" /\ made[v] = Size

\* The progress of an attempt never passes what the process has written,
\* whatever reports are missing or lost when cmd.Wait closes the pipes
\* (ffmpeg_fetcher.go 75-92).
VideoProgressBounded == \A v \in Tasks : reported[v] <= made[v]

\* A fetch that has returned has left no process that writes to its file, no
\* goroutine that reports progress for its task, which goes back to the pool
\* of tasks, and none that reads from a process (ffmpeg_fetcher.go 90-96,
\* downloader.go 172).  All that may run on is the copier of stderr of a failed
\* attempt that had no process (ffmpeg_fetcher.go 65-72), one per such attempt.
NothingOutlivesFetch ==
    \A v \in Tasks : /\ pc[v] = "idle" => ~Runs(v) /\ reader[v] = {}
                     /\ strays[v] <= retries[v]
=============================================================================
