----------------------------- MODULE Downloader -----------------------------
(***************************************************************************)
(* The worker pool of pkg/oget/downloader.go from the moment the initial   *)
(* workers are spawned (Download, line 271) and the completion callbacks   *)
(* are wrapped (line 292): the goroutine that called Download ("main"),    *)
(* the workers, the waiter on tasksWg, the auto-tuner and the caller's     *)
(* context are the processes.  A fetch is one step with a free outcome;    *)
(* ChunkFetch.tla is its inside for HTTP and FTP, Ffmpeg.tla for videos.   *)
(*                                                                         *)
(* Tasks are numbered in the order of allTasks.  A retry copies the task   *)
(* into a fresh ChunkTask and releases the old one, so one chunk has one   *)
(* live ChunkTask and its Retries field is retries[t].                     *)
(***************************************************************************)
EXTENDS Integers, Sequences, FiniteSets

CONSTANTS
    Workers,          \* names for worker goroutines; a name is reused once its goroutine ended
    InitialWorkers,   \* the Concurrency workers spawned by Download
    NumTasks,         \* len(allTasks)
    Hosts,            \* u.Host of the task URLs
    HostOf,           \* task -> host
    NoHost,           \* the empty string (also u.Host of a magnet link)
    QueueCap,         \* capacity of a host queue, 100 in getHostQueue
    MaxConcurrency,   \* Config.MaxConcurrency
    MaxFetchRetries,  \* 3 in fetcher.go
    AutoTune,         \* Config.AutoTune
    MayCancel         \* whether the caller may cancel the context it passed

Tasks  == 1 .. NumTasks
NoTask == 0
Concurrency == Cardinality(InitialWorkers)

ASSUME ConstantsAssumption ==
    /\ IsFiniteSet(Workers)
    /\ InitialWorkers \subseteq Workers /\ InitialWorkers # {}
    /\ NumTasks \in Nat \ {0}
    /\ HostOf \in [Tasks -> Hosts]
    /\ QueueCap \in Nat \ {0}
    /\ MaxConcurrency \in Nat
    /\ MaxFetchRetries \in Nat \ {0}
    /\ AutoTune \in BOOLEAN /\ MayCancel \in BOOLEAN

VARIABLES
    queue,      \* hostQueues: host -> buffered channel of tasks (empty until created)
    hostKeys,   \* hosts whose queue exists, in creation order
    submitted,  \* main has sent tasks 1..submitted
    main,       \* where main is: "submit", "wait", "cleanup", "returned"
    pc,         \* where each worker is; "off" when no goroutine has the name
    host,       \* currentHost of each worker
    scan,       \* rest of the hostKeys snapshot a worker has still to look at
    seen,       \* activeWorkers as a worker loaded it for its comparison
    task,       \* the task a worker holds
    retries,    \* ChunkTask.Retries
    outcome,    \* what OnChunkComplete was called with: "none", "ok", "error"
    active,     \* activeWorkers
    target,     \* targetConcurrency
    tasksWg,    \* counter of tasksWg
    ctxDone,    \* the context derived by Download is cancelled
    parentDone, \* the caller's context is cancelled
    tuner,      \* "unborn", "on", "stopped"
    cooldown,   \* the tuner's cooldown
    cleaned     \* Requester.Cleanup has removed the state files

mainVars   == <<submitted, main, cleaned>>
queueVars  == <<queue, hostKeys>>
workerVars == <<pc, host, scan, seen, task>>
taskVars   == <<retries, outcome, tasksWg>>
tunerVars  == <<target, tuner, cooldown>>
ctxVars    == <<ctxDone, parentDone>>
vars == <<queueVars, mainVars, workerVars, taskVars, active, tunerVars, ctxVars>>

Live    == {w \in Workers : pc[w] \notin {"off", "undone"}}
Settled(t) == outcome[t] # "none"

Init ==
    /\ queue = [h \in Hosts |-> <<>>]
    /\ hostKeys = <<>>
    /\ submitted = 0
    /\ main = "submit"
    /\ pc = [w \in Workers |-> IF w \in InitialWorkers THEN "check" ELSE "off"]
    /\ host = [w \in Workers |-> NoHost]
    /\ scan = [w \in Workers |-> <<>>]
    /\ seen = [w \in Workers |-> 0]
    /\ task = [w \in Workers |-> NoTask]
    /\ retries = [t \in Tasks |-> 0]
    /\ outcome = [t \in Tasks |-> "none"]
    /\ active = Concurrency
    /\ target = Concurrency
    /\ tasksWg = NumTasks
    /\ ctxDone = FALSE
    /\ parentDone = FALSE
    /\ tuner = "unborn"
    /\ cooldown = 0
    /\ cleaned = FALSE

-----------------------------------------------------------------------------
(* getHostQueue and the channel send of addTask.  The send blocks while    *)
(* the channel is full and does not look at the context.                   *)

KeysWith(h) == IF \E i \in DOMAIN hostKeys : hostKeys[i] = h
               THEN hostKeys ELSE Append(hostKeys, h)

Send(h, t) == /\ Len(queue[h]) < QueueCap
              /\ queue' = [queue EXCEPT ![h] = Append(@, t)]
              /\ hostKeys' = KeysWith(h)

\* addTask takes the queue of the first task of its argument list and sends
\* every task of the list to it: Download passes all tasks in one call.
SubmitNext ==
    /\ main = "submit"
    /\ submitted < NumTasks
    /\ Send(HostOf[1], submitted + 1)
    /\ submitted' = submitted + 1
    /\ UNCHANGED <<main, cleaned, workerVars, taskVars, active, tunerVars, ctxVars>>

\* Only after the last send does Download start the tuner and the waiter.
Submitted ==
    /\ main = "submit"
    /\ submitted = NumTasks
    /\ main' = "wait"
    /\ tuner' = IF AutoTune THEN "on" ELSE tuner
    /\ UNCHANGED <<submitted, cleaned, queueVars, workerVars, taskVars, active,
                   target, cooldown, ctxVars>>

-----------------------------------------------------------------------------
(* The loop of a worker.  "check" and "wake" are the two tests of          *)
(* activeWorkers against targetConcurrency, each two atomic loads.         *)

LoadActive(w) ==
    /\ pc[w] \in {"check", "wake"}
    /\ seen' = [seen EXCEPT ![w] = active]
    /\ pc' = [pc EXCEPT ![w] = IF @ = "check" THEN "compare" ELSE "rewake"]
    /\ UNCHANGED <<queueVars, mainVars, host, scan, task, taskVars, active,
                   tunerVars, ctxVars>>

Surplus(n) == n > target

Compare(w) ==
    /\ pc[w] \in {"compare", "rewake"}
    /\ pc' = [pc EXCEPT ![w] = IF Surplus(seen[w]) THEN "leave"
                               ELSE IF @ = "compare" THEN "own" ELSE "check"]
    /\ seen' = [seen EXCEPT ![w] = 0]
    /\ UNCHANGED <<queueVars, mainVars, host, scan, task, taskVars, active,
                   tunerVars, ctxVars>>

Receive(w, h) ==
    /\ task' = [task EXCEPT ![w] = Head(queue[h])]
    /\ queue' = [queue EXCEPT ![h] = Tail(@)]
    /\ host' = [host EXCEPT ![w] = h]
    /\ pc' = [pc EXCEPT ![w] = "fetch"]

\* A worker that has a current host tries that queue first ...
TakeOwn(w) ==
    /\ pc[w] = "own"
    /\ host[w] # NoHost
    /\ queue[host[w]] # <<>>
    /\ Receive(w, host[w])
    /\ UNCHANGED <<hostKeys, mainVars, scan, seen, taskVars, active, tunerVars, ctxVars>>

\* Mutant: a worker that has a host never looks at another one.
SnapshotOwnOnly(w) ==
    /\ pc[w] = "own"
    /\ host[w] = NoHost \/ queue[host[w]] = <<>>
    /\ scan' = [scan EXCEPT ![w] = IF host[w] = NoHost THEN hostKeys ELSE <<host[w]>>]
    /\ pc' = [pc EXCEPT ![w] = "scan"]
    /\ UNCHANGED <<queueVars, mainVars, host, seen, task, taskVars, active,
                   tunerVars, ctxVars>>

\* ... and otherwise takes a snapshot of the host list ...
Snapshot(w) ==
    /\ pc[w] = "own"
    /\ host[w] = NoHost \/ queue[host[w]] = <<>>
    /\ scan' = [scan EXCEPT ![w] = hostKeys]
    /\ pc' = [pc EXCEPT ![w] = "scan"]
    /\ UNCHANGED <<queueVars, mainVars, host, seen, task, taskVars, active,
                   tunerVars, ctxVars>>

\* ... and looks at its queues one by one until one has a task.
Steal(w) ==
    /\ pc[w] = "scan" /\ scan[w] # <<>>
    /\ queue[Head(scan[w])] # <<>>
    /\ Receive(w, Head(scan[w]))
    /\ scan' = [scan EXCEPT ![w] = <<>>]
    /\ UNCHANGED <<hostKeys, mainVars, seen, taskVars, active, tunerVars, ctxVars>>

LookFurther(w) ==
    /\ pc[w] = "scan" /\ scan[w] # <<>>
    /\ queue[Head(scan[w])] = <<>>
    /\ scan' = [scan EXCEPT ![w] = Tail(@)]
    /\ UNCHANGED <<queueVars, mainVars, pc, host, seen, task, taskVars, active,
                   tunerVars, ctxVars>>

\* Mutant: a worker leaves when it finds no task.
IdleLeaves(w) ==
    /\ pc[w] = "scan" /\ scan[w] = <<>>
    /\ pc' = [pc EXCEPT ![w] = "leave"]
    /\ UNCHANGED <<queueVars, mainVars, host, scan, seen, task, taskVars, active,
                   tunerVars, ctxVars>>

\* No task anywhere: return when the context is done, else sleep 50ms.
Idle(w) ==
    /\ pc[w] = "scan" /\ scan[w] = <<>>
    /\ pc' = [pc EXCEPT ![w] = IF ctxDone THEN "leave" ELSE "wake"]
    /\ UNCHANGED <<queueVars, mainVars, host, scan, seen, task, taskVars, active,
                   tunerVars, ctxVars>>

-----------------------------------------------------------------------------
(* What a worker does with a task, and its end.                            *)

\* Mutant: a task that is given up is not counted off.
CompleteOkOnly(t, result) ==
    /\ outcome' = [outcome EXCEPT ![t] = result]
    /\ tasksWg' = IF result = "ok" THEN tasksWg - 1 ELSE tasksWg

\* The wrapped OnChunkComplete: record the result, tasksWg.Done().
Complete(t, result) ==
    /\ outcome' = [outcome EXCEPT ![t] = result]
    /\ tasksWg' = tasksWg - 1

\* Mutant: one retry too many.
MayRetryOnceMore(r) == r <= MaxFetchRetries

MayRetry(r) == r < MaxFetchRetries

FetchOk(w) ==
    /\ pc[w] = "fetch"
    /\ Complete(task[w], "ok")
    /\ task' = [task EXCEPT ![w] = NoTask]
    /\ pc' = [pc EXCEPT ![w] = "check"]
    /\ UNCHANGED <<queueVars, mainVars, host, scan, seen, retries, active,
                   tunerVars, ctxVars>>

\* Mutant: the failed attempt calls OnChunkComplete before it is retried.
FetchFailedCompletes(w) ==
    /\ pc[w] = "fetch"
    /\ MayRetry(retries[task[w]] + 1)
    /\ retries' = [retries EXCEPT ![task[w]] = @ + 1]
    /\ Complete(task[w], "error")
    /\ pc' = [pc EXCEPT ![w] = "requeue"]
    /\ UNCHANGED <<queueVars, mainVars, host, scan, seen, task, active, tunerVars, ctxVars>>

FetchFailed(w) ==
    /\ pc[w] = "fetch"
    /\ MayRetry(retries[task[w]] + 1)
    /\ retries' = [retries EXCEPT ![task[w]] = @ + 1]
    /\ pc' = [pc EXCEPT ![w] = "requeue"]
    /\ UNCHANGED <<queueVars, mainVars, host, scan, seen, task, outcome, tasksWg,
                   active, tunerVars, ctxVars>>

\* Mutant: a send that gives up when the queue is full.
RequeueOrDrop(w) ==
    /\ pc[w] = "requeue"
    /\ IF Len(queue[HostOf[task[w]]]) < QueueCap
       THEN Send(HostOf[task[w]], task[w]) ELSE UNCHANGED queueVars
    /\ task' = [task EXCEPT ![w] = NoTask]
    /\ pc' = [pc EXCEPT ![w] = "check"]
    /\ UNCHANGED <<mainVars, host, scan, seen, taskVars, active, tunerVars, ctxVars>>

\* addTask(retryTask): the queue of the task's own host; blocks while it is full.
Requeue(w) ==
    /\ pc[w] = "requeue"
    /\ Send(HostOf[task[w]], task[w])
    /\ task' = [task EXCEPT ![w] = NoTask]
    /\ pc' = [pc EXCEPT ![w] = "check"]
    /\ UNCHANGED <<mainVars, host, scan, seen, taskVars, active, tunerVars, ctxVars>>

FetchGivenUp(w) ==
    /\ pc[w] = "fetch"
    /\ ~MayRetry(retries[task[w]] + 1)
    /\ retries' = [retries EXCEPT ![task[w]] = @ + 1]
    /\ Complete(task[w], "error")
    /\ task' = [task EXCEPT ![w] = NoTask]
    /\ pc' = [pc EXCEPT ![w] = "check"]
    /\ UNCHANGED <<queueVars, mainVars, host, scan, seen, active, tunerVars, ctxVars>>

\* Mutant: the worker leaves without counting itself off.
LeaveUncounted(w) ==
    /\ pc[w] = "leave"
    /\ pc' = [pc EXCEPT ![w] = "undone"]
    /\ UNCHANGED <<queueVars, mainVars, host, scan, seen, task, taskVars, active,
                   tunerVars, ctxVars>>

\* The deferred calls: activeWorkers is decremented first, then wg.Done().
Leave(w) ==
    /\ pc[w] = "leave"
    /\ active' = active - 1
    /\ pc' = [pc EXCEPT ![w] = "undone"]
    /\ UNCHANGED <<queueVars, mainVars, host, scan, seen, task, taskVars,
                   tunerVars, ctxVars>>

WgDone(w) ==
    /\ pc[w] = "undone"
    /\ pc' = [pc EXCEPT ![w] = "off"]
    /\ host' = [host EXCEPT ![w] = NoHost]
    /\ UNCHANGED <<queueVars, mainVars, scan, seen, task, taskVars, active,
                   tunerVars, ctxVars>>

Worker(w) ==
    \/ LoadActive(w) \/ Compare(w)
    \/ TakeOwn(w) \/ Snapshot(w) \/ Steal(w) \/ LookFurther(w) \/ Idle(w)
    \/ FetchOk(w) \/ FetchFailed(w) \/ Requeue(w) \/ FetchGivenUp(w)
    \/ Leave(w) \/ WgDone(w)

-----------------------------------------------------------------------------
(* The auto-tuner.  Its measurement of the speed is a free choice; a tick  *)
(* that changes nothing is a stuttering step.  select picks at random when *)
(* the ticker and ctx.Done() are both ready, so a tick can follow the      *)
(* cancellation.                                                           *)

UpCooldown == 3
DownCooldown == 2

TunerCool ==
    /\ tuner = "on"
    /\ cooldown > 0
    /\ cooldown' = cooldown - 1
    /\ UNCHANGED <<queueVars, mainVars, workerVars, taskVars, active, target,
                   tuner, ctxVars>>

\* spawnWorker.  The model's bound: a name of Workers must be free.
TunerUp ==
    /\ tuner = "on" /\ cooldown = 0
    /\ target < MaxConcurrency
    /\ target' = target + 1
    /\ \E w \in Workers : /\ pc[w] = "off"
                          /\ pc' = [pc EXCEPT ![w] = "check"]
    /\ active' = active + 1
    /\ cooldown' = UpCooldown
    /\ UNCHANGED <<queueVars, mainVars, host, scan, seen, task, taskVars, tuner, ctxVars>>

TunerDown ==
    /\ tuner = "on" /\ cooldown = 0
    /\ target > 1
    /\ target' = target - 1
    /\ cooldown' = DownCooldown
    /\ UNCHANGED <<queueVars, mainVars, workerVars, taskVars, active, tuner, ctxVars>>

TunerStop ==
    /\ tuner = "on" /\ ctxDone
    /\ tuner' = "stopped"
    /\ UNCHANGED <<queueVars, mainVars, workerVars, taskVars, active, target,
                   cooldown, ctxVars>>

Tuner == TunerCool \/ TunerUp \/ TunerDown \/ TunerStop

-----------------------------------------------------------------------------
(* The waiter, the end of Download, and the caller's context.              *)

\* Mutant: the waiter takes empty queues for the end.
CancelWhenDrained ==
    /\ main # "submit"
    /\ \A h \in Hosts : queue[h] = <<>>
    /\ ~ctxDone
    /\ ctxDone' = TRUE
    /\ UNCHANGED <<queueVars, mainVars, workerVars, taskVars, active, tunerVars, parentDone>>

\* tasksWg.Wait(); cancel()
WaiterCancel ==
    /\ main # "submit"
    /\ tasksWg = 0
    /\ ~ctxDone
    /\ ctxDone' = TRUE
    /\ UNCHANGED <<queueVars, mainVars, workerVars, taskVars, active, tunerVars, parentDone>>

\* wg.Wait() returns: no worker is between its wg.Add and its wg.Done.
AllWorkersDone ==
    /\ main = "wait"
    /\ \A w \in Workers : pc[w] = "off"
    /\ main' = "cleanup"
    /\ UNCHANGED <<submitted, cleaned, queueVars, workerVars, taskVars, active,
                   tunerVars, ctxVars>>

\* Mutant: Cleanup whatever became of the caller's context.
ReturnAlwaysCleans ==
    /\ main = "cleanup"
    /\ main' = "returned"
    /\ cleaned' = TRUE
    /\ ctxDone' = TRUE
    /\ UNCHANGED <<submitted, queueVars, workerVars, taskVars, active, tunerVars, parentDone>>

\* Cleanup unless the caller cancelled, then return (deferred cancel()).
Return ==
    /\ main = "cleanup"
    /\ main' = "returned"
    /\ cleaned' = ~parentDone
    /\ ctxDone' = TRUE
    /\ UNCHANGED <<submitted, queueVars, workerVars, taskVars, active, tunerVars, parentDone>>

ParentCancel ==
    /\ MayCancel
    /\ ~parentDone
    /\ parentDone' = TRUE
    /\ ctxDone' = TRUE
    /\ UNCHANGED <<queueVars, mainVars, workerVars, taskVars, active, tunerVars>>

Main == SubmitNext \/ Submitted \/ AllWorkersDone \/ Return

\* Everything has ended (no deadlock).
Terminated ==
    /\ main = "returned" /\ tuner # "on"
    /\ \A w \in Workers : pc[w] = "off"
    /\ parentDone \/ ~MayCancel
    /\ UNCHANGED vars

Next == \/ Main \/ WaiterCancel \/ ParentCancel
        \/ Tuner
        \/ \E w \in Workers : Worker(w)
        \/ Terminated

Spec == Init /\ [][Next]_vars

\* Goroutines are scheduled fairly and a fetch returns; nothing obliges the
\* caller to cancel or a tick to change the target.
Fairness == /\ WF_vars(Main) /\ WF_vars(WaiterCancel) /\ WF_vars(TunerStop)
            /\ \A w \in Workers : WF_vars(Worker(w))

FairSpec == Spec /\ Fairness

-----------------------------------------------------------------------------
(* Correctness properties.                                                 *)

PCs == {"off", "check", "compare", "own", "scan", "wake", "rewake",
        "fetch", "requeue", "leave", "undone"}

\* The types of all variables; target stays between 1 and the larger of the
\* initial and the configured maximum concurrency.
TypeOK ==
    /\ queue \in [Hosts -> Seq(Tasks)]
    /\ hostKeys \in Seq(Hosts)
    /\ submitted \in 0 .. NumTasks
    /\ main \in {"submit", "wait", "cleanup", "returned"}
    /\ pc \in [Workers -> PCs]
    /\ host \in [Workers -> Hosts \cup {NoHost}]
    /\ scan \in [Workers -> Seq(Hosts)]
    /\ seen \in [Workers -> Int]
    /\ task \in [Workers -> Tasks \cup {NoTask}]
    /\ retries \in [Tasks -> 0 .. MaxFetchRetries]
    /\ outcome \in [Tasks -> {"none", "ok", "error"}]
    /\ active \in Int
    /\ target \in 1 .. (IF Concurrency > MaxConcurrency THEN Concurrency ELSE MaxConcurrency)
    /\ tasksWg \in Int
    /\ ctxDone \in BOOLEAN /\ parentDone \in BOOLEAN /\ cleaned \in BOOLEAN
    /\ tuner \in {"unborn", "on", "stopped"}
    /\ cooldown \in 0 .. UpCooldown

Queued(t) == \E h \in Hosts : \E i \in 1 .. Len(queue[h]) : queue[h][i] = t
Held(t)   == \E w \in Workers : task[w] = t

\* A queued task has been submitted, is not settled, is in no worker's hands
\* and sits in no other slot of any queue.
QueuedOnce ==
    \A h \in Hosts : \A i \in 1 .. Len(queue[h]) :
        /\ queue[h][i] <= submitted
        /\ ~Settled(queue[h][i])
        /\ ~Held(queue[h][i])
        /\ \A k \in Hosts : \A j \in 1 .. Len(queue[k]) :
               queue[k][j] = queue[h][i] => k = h /\ j = i

\* A task in a worker's hands has been submitted, is not settled and is in
\* no other worker's hands; a worker holds one exactly while it fetches it or
\* waits to send it back.
HeldOnce ==
    \A w \in Workers :
        /\ task[w] # NoTask <=> pc[w] \in {"fetch", "requeue"}
        /\ task[w] # NoTask =>
              /\ task[w] <= submitted
              /\ ~Settled(task[w])
              /\ \A v \in Workers : task[v] = task[w] => v = w

\* A submitted task that is not settled is in a queue or in a worker's hands;
\* one that is not submitted is not settled.
NoneLost == \A t \in Tasks : IF t <= submitted THEN Settled(t) \/ Queued(t) \/ Held(t)
                                              ELSE ~Settled(t)

\* No task is lost or duplicated by the queues, the stealing and the retries:
\* each is in exactly one place (not sent yet, in one slot of one queue, in
\* one worker's hands, or settled), so OnChunkComplete runs once per task
\* (downloader.go 78-87, 103-171, 286-291).
TaskConservation == QueuedOnce /\ HeldOnce /\ NoneLost

\* tasksWg counts the tasks whose OnChunkComplete is still to come, so it
\* never goes negative and tasksWg.Wait() returns when the last one ended
\* (downloader.go 284-290, 349-352).
TasksWgExact == tasksWg = Cardinality({t \in Tasks : ~Settled(t)})

\* activeWorkers, which the workers compare with the target, is the number of
\* workers that have not left, over any number of tuner spawns and departures
\* (downloader.go 91-95, 99).
ActiveExact == active = Cardinality(Live)

\* The derived context is cancelled by Download itself only when no task is
\* left, so a fetch in flight is never aborted except by the caller
\* (downloader.go 349-352).
CancelMeansSettled ==
    ctxDone /\ ~parentDone /\ main # "returned" => \A t \in Tasks : Settled(t)

\* The state files are removed only when no task is left that could still end
\* (downloader.go 348-363).  This is less than the comment at 357 says ("Cleanup
\* state files if download completed successfully"): a task given up has ended
\* too, the code asks for no outcome and Cleanup removes the files all the same.
CleanupAfterAllSettled == cleaned => \A t \in Tasks : Settled(t)

\* The workers never all wait to send a retry into a full queue, a state that
\* nobody can leave ("last resort to avoid hang", downloader.go 165).
Stuck(w) == pc[w] = "requeue" /\ Len(queue[HostOf[task[w]]]) = QueueCap
NoRetryHang == Live # {} => \E w \in Live : ~Stuck(w)

\* While main is sending, some worker has not left and does not itself wait to
\* send, so that it comes back to receive (downloader.go 78-86, 134-138, 161,
\* 293).  There are two exceptions, in both of which the send of addTask may
\* block for ever: after the caller's cancel all workers may leave, and when
\* one full queue and all workers hold a submitted task each, all workers may
\* be stuck with a retry as in retry_hang.
SubmitHasReceivers ==
    main = "submit" => \/ \E w \in Live : ~Stuck(w)
                       \/ parentDone
                       \/ submitted >= QueueCap + Concurrency

\* The pool implements the abstract contract of TaskPool: at most
\* MaxFetchRetries fetches per task, one end per task, cleanup last.
Pool == INSTANCE TaskPool WITH
    Tasks   <- Tasks,   MaxFetchRetries <- MaxFetchRetries,
    outcome <- outcome, retries <- retries, cleaned <- cleaned
PoolSpec == Pool!Spec

\* With the tuner Cleanup can come too early and tasks can be left that never
\* end (tuner_strand).  What the tuner does not break is the safety of the
\* attempts: each task is fetched at most MaxFetchRetries times and ends at most
\* once, after a success or the last failure, whichever workers the tuner
\* spawns and dismisses meanwhile (downloader.go 151-170, 325-344).
Attempts == INSTANCE TaskPool WITH
    Tasks   <- Tasks,   MaxFetchRetries <- MaxFetchRetries,
    outcome <- outcome, retries <- retries, cleaned <- FALSE
AttemptsSpec == Attempts!Spec

\* Download returns (when a queue can hold all tasks).
Termination == <>(main = "returned")

\* Unless the caller cancels, every task ends: the queues are served whatever
\* host they belong to and the retries run out.
EveryTaskEnds == \A t \in Tasks : <>(Settled(t) \/ parentDone)
=============================================================================
