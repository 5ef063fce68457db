-------------------------- MODULE DownloaderProofs --------------------------
(***************************************************************************)
(* Proofs about Downloader, for every number of tasks, workers and hosts,  *)
(* every capacity and every schedule.                                      *)
(***************************************************************************)
EXTENDS Downloader, FiniteSetTheorems, TLAPS

-----------------------------------------------------------------------------
(* Sequences as queues.                                                    *)

\* A new queue.
LEMMA EmptySeqType ==
    ASSUME NEW S
    PROVE  <<>> \in Seq(S)
  OBVIOUS

\* What a receive leaves of a queue.
LEMMA TailFacts ==
    ASSUME NEW S, NEW s \in Seq(S), s # <<>>
    PROVE  /\ Head(s) \in S /\ Head(s) = s[1]
           /\ Len(s) \in Nat \ {0}
           /\ Tail(s) \in Seq(S)
           /\ Len(Tail(s)) = Len(s) - 1
           /\ \A i \in 1 .. Len(s) - 1 : Tail(s)[i] = s[i + 1]
  OBVIOUS

\* What a send makes of a queue.
LEMMA AppendFacts ==
    ASSUME NEW S, NEW s \in Seq(S), NEW e \in S
    PROVE  /\ Append(s, e) \in Seq(S)
           /\ Len(s) \in Nat
           /\ Len(Append(s, e)) = Len(s) + 1
           /\ \A i \in 1 .. Len(s) : Append(s, e)[i] = s[i]
           /\ Append(s, e)[Len(s) + 1] = e
  OBVIOUS

-----------------------------------------------------------------------------
(* The inductive invariant.  TypeOK alone is not inductive: that retries   *)
(* stays within its bound depends on a task in a worker's hands not being  *)
(* settled, which is part of TaskConservation.                             *)

RetriesLeft == \A t \in Tasks : ~Settled(t) => retries[t] < MaxFetchRetries

IInv == TypeOK /\ TaskConservation /\ RetriesLeft

\* The number of initial workers is a positive natural number.
LEMMA ConcurrencyPositive == Concurrency \in Nat \ {0}
  <1>1. IsFiniteSet(InitialWorkers)
    BY ConstantsAssumption, FS_Subset
  <1>2. Concurrency \in Nat
    BY <1>1, FS_CardinalityType DEF Concurrency
  <1>3. Concurrency # 0
    BY <1>1, ConstantsAssumption, FS_EmptySet DEF Concurrency
  <1> QED BY <1>2, <1>3

\* NoTask is no task.
LEMMA NoTaskNotTask == NoTask \notin Tasks /\ Tasks \subseteq Nat \ {0}
  BY ConstantsAssumption DEF NoTask, Tasks

\* getHostQueue keeps the list of hosts a list of hosts.
LEMMA KeysWithType ==
    ASSUME hostKeys \in Seq(Hosts), NEW h \in Hosts
    PROVE  KeysWith(h) \in Seq(Hosts)
  BY AppendFacts DEF KeysWith

\* The invariant holds initially.
LEMMA InitIInv == Init => IInv
  <1> SUFFICES ASSUME Init PROVE IInv
    OBVIOUS
  <1> USE ConstantsAssumption, ConcurrencyPositive, NoTaskNotTask
  <1>1. TypeOK
    <2>1. queue \in [Hosts -> Seq(Tasks)] /\ hostKeys \in Seq(Hosts)
      BY EmptySeqType DEF Init
    <2>2. submitted \in 0 .. NumTasks
      BY DEF Init
    <2>3. /\ pc \in [Workers -> PCs]
          /\ host \in [Workers -> Hosts \cup {NoHost}]
          /\ seen \in [Workers -> Int]
          /\ task \in [Workers -> Tasks \cup {NoTask}]
      BY DEF Init, PCs
    <2>4. scan \in [Workers -> Seq(Hosts)]
      BY EmptySeqType DEF Init
    <2>5. /\ retries \in [Tasks -> 0 .. MaxFetchRetries]
          /\ outcome \in [Tasks -> {"none", "ok", "error"}]
      BY DEF Init
    <2>6. /\ active \in Int /\ tasksWg \in Int
          /\ target \in 1 .. (IF Concurrency > MaxConcurrency THEN Concurrency
                                                             ELSE MaxConcurrency)
      BY DEF Init
    <2>7. cooldown \in 0 .. UpCooldown
      BY DEF Init, UpCooldown
    <2> QED BY <2>1, <2>2, <2>3, <2>4, <2>5, <2>6, <2>7 DEF Init, TypeOK
  <1>2. QueuedOnce
    BY DEF Init, QueuedOnce
  <1>3. HeldOnce
    BY DEF Init, HeldOnce
  <1>4. NoneLost
    BY DEF Init, NoneLost, Settled, Tasks
  <1>5. RetriesLeft
    BY DEF Init, RetriesLeft
  <1> QED BY <1>1, <1>2, <1>3, <1>4, <1>5 DEF IInv, TaskConservation

-----------------------------------------------------------------------------
(* Types.                                                                  *)

\* A receive keeps queues and hands well typed.
LEMMA ReceiveType ==
    ASSUME TypeOK, NEW w \in Workers, NEW h \in Hosts,
           queue[h] # <<>>, Receive(w, h)
    PROVE  /\ queue' \in [Hosts -> Seq(Tasks)]
           /\ task' \in [Workers -> Tasks \cup {NoTask}]
           /\ host' \in [Workers -> Hosts \cup {NoHost}]
           /\ pc' \in [Workers -> PCs]
  BY TailFacts DEF TypeOK, Receive, PCs

\* A send keeps queues and the host list well typed.
LEMMA SendType ==
    ASSUME TypeOK, NEW h \in Hosts, NEW t \in Tasks, Send(h, t)
    PROVE  /\ queue' \in [Hosts -> Seq(Tasks)]
           /\ hostKeys' \in Seq(Hosts)
  BY AppendFacts, KeysWithType DEF TypeOK, Send

\* Each step keeps the types.
LEMMA TypeStep ==
    ASSUME IInv, Next
    PROVE  TypeOK'
  <1> USE ConstantsAssumption, ConcurrencyPositive, NoTaskNotTask
      DEF queueVars, mainVars, workerVars, taskVars, tunerVars, ctxVars, vars
  <1>t. TypeOK
    BY DEF IInv
  <1>h. ASSUME NEW w \in Workers, pc[w] \in {"fetch", "requeue"}
        PROVE  /\ task[w] \in Tasks
               /\ retries[task[w]] \in 0 .. MaxFetchRetries - 1
    <2>1. task[w] \in Tasks /\ ~Settled(task[w])
      BY <1>h, <1>t DEF IInv, TaskConservation, HeldOnce, TypeOK
    <2>2. retries[task[w]] < MaxFetchRetries
      BY <2>1 DEF IInv, RetriesLeft
    <2>3. retries[task[w]] \in 0 .. MaxFetchRetries
      BY <2>1, <1>t DEF TypeOK
    <2> QED BY <2>1, <2>2, <2>3
  <1>1. CASE SubmitNext
    <2>1. submitted + 1 \in Tasks /\ submitted + 1 \in 0 .. NumTasks
      BY <1>1, <1>t DEF SubmitNext, TypeOK, Tasks
    <2>2. HostOf[1] \in Hosts
      BY DEF Tasks
    <2>3. queue' \in [Hosts -> Seq(Tasks)] /\ hostKeys' \in Seq(Hosts)
      BY <1>1, <1>t, <2>1, <2>2, SendType DEF SubmitNext
    <2> QED BY <1>1, <1>t, <2>1, <2>3 DEF SubmitNext, TypeOK
  <1>2. CASE Submitted
    BY <1>2, <1>t DEF Submitted, TypeOK
  <1>3. CASE AllWorkersDone
    BY <1>3, <1>t DEF AllWorkersDone, TypeOK
  <1>4. CASE Return
    BY <1>4, <1>t DEF Return, TypeOK
  <1>5. CASE WaiterCancel
    BY <1>5, <1>t DEF WaiterCancel, TypeOK
  <1>6. CASE ParentCancel
    BY <1>6, <1>t DEF ParentCancel, TypeOK
  <1>7. CASE Tuner
    <2>1. CASE TunerCool
      BY <2>1, <1>t DEF TunerCool, TypeOK, UpCooldown
    <2>2. CASE TunerUp
      BY <2>2, <1>t DEF TunerUp, TypeOK, UpCooldown, PCs
    <2>3. CASE TunerDown
      BY <2>3, <1>t DEF TunerDown, TypeOK, UpCooldown, DownCooldown
    <2>4. CASE TunerStop
      BY <2>4, <1>t DEF TunerStop, TypeOK
    <2> QED BY <1>7, <2>1, <2>2, <2>3, <2>4 DEF Tuner
  <1>8. ASSUME NEW w \in Workers, Worker(w) PROVE TypeOK'
    <2>1. CASE LoadActive(w)
      BY <2>1, <1>t DEF LoadActive, TypeOK, PCs
    <2>2. CASE Compare(w)
      BY <2>2, <1>t DEF Compare, TypeOK, PCs
    <2>3. CASE TakeOwn(w)
      <3>1. host[w] \in Hosts
        BY <2>3, <1>t DEF TakeOwn, TypeOK
      <3> QED BY <2>3, <3>1, <1>t, ReceiveType DEF TakeOwn, TypeOK
    <2>4. CASE Snapshot(w)
      BY <2>4, <1>t DEF Snapshot, TypeOK, PCs
    <2>5. CASE Steal(w)
      <3>1. Head(scan[w]) \in Hosts
        BY <2>5, <1>t, TailFacts DEF Steal, TypeOK
      <3>2. scan' \in [Workers -> Seq(Hosts)]
        BY <2>5, <1>t, EmptySeqType DEF Steal, TypeOK
      <3> QED BY <2>5, <3>1, <3>2, <1>t, ReceiveType DEF Steal, TypeOK
    <2>6. CASE LookFurther(w)
      <3>1. Tail(scan[w]) \in Seq(Hosts)
        BY <2>6, <1>t, TailFacts DEF LookFurther, TypeOK
      <3>2. scan' \in [Workers -> Seq(Hosts)]
        BY <2>6, <3>1, <1>t DEF LookFurther, TypeOK
      <3> QED BY <2>6, <3>2, <1>t DEF LookFurther, TypeOK
    <2>7. CASE Idle(w)
      BY <2>7, <1>t DEF Idle, TypeOK, PCs
    <2>8. CASE FetchOk(w)
      <3>1. outcome' \in [Tasks -> {"none", "ok", "error"}] /\ tasksWg' \in Int
        <4>1. outcome \in [Tasks -> {"none", "ok", "error"}] /\ tasksWg \in Int
          BY <1>t DEF TypeOK
        <4>2. /\ outcome' = [outcome EXCEPT ![task[w]] = "ok"]
              /\ tasksWg' = tasksWg - 1
          BY <2>8 DEF FetchOk, Complete
        <4>3. outcome' \in [Tasks -> {"none", "ok", "error"}]
          BY <4>1, <4>2
        <4>4. tasksWg' \in Int
          BY <4>1, <4>2
        <4> QED BY <4>3, <4>4
      <3>2. pc' \in [Workers -> PCs] /\ task' \in [Workers -> Tasks \cup {NoTask}]
        BY <2>8, <1>t DEF FetchOk, TypeOK, PCs
      <3> QED BY <2>8, <3>1, <3>2, <1>t DEF FetchOk, TypeOK
    <2>9. CASE FetchFailed(w)
      <3>1. retries' \in [Tasks -> 0 .. MaxFetchRetries]
        BY <2>9, <1>t, <1>h DEF FetchFailed, TypeOK
      <3> QED BY <2>9, <3>1, <1>t DEF FetchFailed, TypeOK, PCs
    <2>10. CASE Requeue(w)
      <3>1. task[w] \in Tasks /\ HostOf[task[w]] \in Hosts
        BY <2>10, <1>h DEF Requeue
      <3>2. queue' \in [Hosts -> Seq(Tasks)] /\ hostKeys' \in Seq(Hosts)
        BY <2>10, <1>t, <3>1, SendType DEF Requeue
      <3> QED BY <2>10, <3>2, <1>t DEF Requeue, TypeOK, PCs
    <2>11. CASE FetchGivenUp(w)
      <3>1. retries' \in [Tasks -> 0 .. MaxFetchRetries]
        BY <2>11, <1>t, <1>h DEF FetchGivenUp, TypeOK
      <3> QED BY <2>11, <3>1, <1>t DEF FetchGivenUp, Complete, TypeOK, PCs
    <2>12. CASE Leave(w)
      BY <2>12, <1>t DEF Leave, TypeOK, PCs
    <2>13. CASE WgDone(w)
      BY <2>13, <1>t DEF WgDone, TypeOK, PCs
    <2> QED BY <1>8, <2>1, <2>2, <2>3, <2>4, <2>5, <2>6, <2>7, <2>8, <2>9,
               <2>10, <2>11, <2>12, <2>13 DEF Worker
  <1>9. CASE Terminated
    BY <1>9, <1>t DEF Terminated, TypeOK
  <1> QED BY <1>1, <1>2, <1>3, <1>4, <1>5, <1>6, <1>7, <1>8, <1>9 DEF Next, Main

-----------------------------------------------------------------------------
(* Conservation of the tasks.  Each lemma is about one way a step can move *)
(* a task; all other steps leave the places of the tasks alone.            *)

Holding(w) == pc[w] \in {"fetch", "requeue"}

\* A step that moves no task.
LEMMA IdleConserves ==
    ASSUME TaskConservation, UNCHANGED <<queue, submitted, outcome, task>>,
           \A v \in Workers : Holding(v)' <=> Holding(v)
    PROVE  TaskConservation'
  <1>1. QueuedOnce'
    BY DEF TaskConservation, QueuedOnce, Settled, Held
  <1>2. HeldOnce'
    BY DEF TaskConservation, HeldOnce, Settled, Holding
  <1>3. NoneLost'
    BY DEF TaskConservation, NoneLost, Settled, Held, Queued
  <1> QED BY <1>1, <1>2, <1>3 DEF TaskConservation

\* From the head of a queue into the hands of a worker.
LEMMA ReceiveConserves ==
    ASSUME TypeOK, TaskConservation,
           NEW w \in Workers, NEW h \in Hosts,
           ~Holding(w), queue[h] # <<>>, Receive(w, h),
           UNCHANGED <<submitted, outcome>>
    PROVE  TaskConservation'
  <1> DEFINE t == Head(queue[h])
             Before(k, i) == IF k = h THEN i + 1 ELSE i
  <1>0. /\ queue \in [Hosts -> Seq(Tasks)]
        /\ task \in [Workers -> Tasks \cup {NoTask}]
        /\ pc \in [Workers -> PCs]
    BY DEF TypeOK
  <1>1. /\ t \in Tasks /\ t = queue[h][1] /\ t # NoTask
        /\ Len(queue[h]) \in Nat \ {0}
        /\ queue'[h] = Tail(queue[h])
        /\ Len(queue'[h]) = Len(queue[h]) - 1
        /\ \A i \in 1 .. Len(queue[h]) - 1 : queue'[h][i] = queue[h][i + 1]
    BY <1>0, TailFacts, NoTaskNotTask DEF Receive
  <1>2. \A k \in Hosts \ {h} : queue'[k] = queue[k]
    BY <1>0 DEF Receive
  <1>3. task[w] = NoTask /\ task'[w] = t /\ \A v \in Workers \ {w} : task'[v] = task[v]
    BY <1>0 DEF Receive, TaskConservation, HeldOnce, Holding
  <1>4. Holding(w)' /\ \A v \in Workers \ {w} : Holding(v)' <=> Holding(v)
    BY <1>0 DEF Receive, Holding
  <1>5. t <= submitted /\ ~Settled(t) /\ ~Held(t)
    BY <1>1 DEF TaskConservation, QueuedOnce
  \* A slot that is left was a slot before, and not the head of queue h.
  <1>6. ASSUME NEW k \in Hosts, NEW i \in 1 .. Len(queue'[k])
        PROVE  /\ Before(k, i) \in 1 .. Len(queue[k])
               /\ queue'[k][i] = queue[k][Before(k, i)]
               /\ queue[k][Before(k, i)] # t
    <2>1. /\ Before(k, i) \in 1 .. Len(queue[k])
          /\ queue'[k][i] = queue[k][Before(k, i)]
      <3>1. CASE k = h
        BY <3>1, <1>1
      <3>2. CASE k # h
        BY <3>2, <1>2
      <3> QED BY <3>1, <3>2
    <2>2. queue[k][Before(k, i)] # t
      <3>1. SUFFICES ASSUME queue[k][Before(k, i)] = queue[h][1] PROVE FALSE
        BY <1>1
      <3>2. 1 \in 1 .. Len(queue[h])
        BY <1>1
      <3>3. k = h /\ Before(k, i) = 1
        BY <3>1, <3>2, <2>1 DEF TaskConservation, QueuedOnce
      <3> QED BY <3>3, <2>1
    <2> QED BY <2>1, <2>2
  <1>7. QueuedOnce'
    <2> SUFFICES ASSUME NEW k \in Hosts, NEW i \in 1 .. Len(queue'[k])
                 PROVE  /\ queue'[k][i] <= submitted
                        /\ ~(outcome[queue'[k][i]] # "none")
                        /\ \A v \in Workers : task'[v] # queue'[k][i]
                        /\ \A l \in Hosts : \A j \in 1 .. Len(queue'[l]) :
                              queue'[l][j] = queue'[k][i] => l = k /\ j = i
      BY DEF QueuedOnce, Settled, Held
    <2> DEFINE m == Before(k, i)
    <2>1. m \in 1 .. Len(queue[k]) /\ queue'[k][i] = queue[k][m] /\ queue[k][m] # t
      BY <1>6
    <2> HIDE DEF m
    <2>2. queue'[k][i] <= submitted /\ ~(outcome[queue'[k][i]] # "none")
      BY <2>1 DEF TaskConservation, QueuedOnce, Settled
    <2>3. \A v \in Workers : task'[v] # queue'[k][i]
      BY <2>1, <1>3 DEF TaskConservation, QueuedOnce, Held
    <2>4. ASSUME NEW l \in Hosts, NEW j \in 1 .. Len(queue'[l]),
                 queue'[l][j] = queue'[k][i]
          PROVE  l = k /\ j = i
      <3> DEFINE n == Before(l, j)
      <3>1. n \in 1 .. Len(queue[l]) /\ queue'[l][j] = queue[l][n]
        BY <1>6
      <3> HIDE DEF n
      <3>2. l = k /\ n = m
        <4>1. queue[l][n] = queue[k][m]
          BY <3>1, <2>1, <2>4
        <4>2. QueuedOnce
          BY DEF TaskConservation
        <4> QED BY <4>1, <4>2, <3>1, <2>1 DEF QueuedOnce
      <3>3. i \in Int /\ j \in Int
        OBVIOUS
      <3>4. Before(k, j) = Before(k, i)
        BY <3>2 DEF m, n
      <3> QED BY <3>2, <3>3, <3>4
    <2> QED BY <2>2, <2>3, <2>4
  <1>8. HeldOnce'
    BY <1>1, <1>3, <1>4, <1>5 DEF TaskConservation, HeldOnce, Holding, Held, Settled
  <1>9. NoneLost'
    <2> SUFFICES ASSUME NEW u \in Tasks
                 PROVE  IF u <= submitted
                        THEN Settled(u)' \/ Queued(u)' \/ Held(u)' ELSE ~Settled(u)'
      BY DEF NoneLost
    <2>1. CASE u = t
      BY <2>1, <1>3, <1>5 DEF Held
    <2>2. CASE u # t /\ Queued(u)
      <3>1. PICK k \in Hosts : \E i \in 1 .. Len(queue[k]) : queue[k][i] = u
        BY <2>2 DEF Queued
      <3>i. PICK i \in 1 .. Len(queue[k]) : queue[k][i] = u
        BY <3>1
      <3>2. CASE k = h
        <4>1. i # 1
          BY <3>i, <3>2, <2>2, <1>1
        <4>2. i - 1 \in 1 .. Len(queue'[h]) /\ queue'[h][i - 1] = u
          BY <4>1, <3>i, <3>2, <1>1
        <4>3. Queued(u)' /\ ~Settled(u)' /\ u <= submitted
          BY <4>2, <3>i, <3>2 DEF Queued, TaskConservation, QueuedOnce, Settled
        <4> QED BY <4>3
      <3>3. CASE k # h
        <4>1. Queued(u)' /\ ~Settled(u)' /\ u <= submitted
          BY <3>3, <3>i, <1>2 DEF Queued, TaskConservation, QueuedOnce, Settled
        <4> QED BY <4>1
      <3> QED BY <3>2, <3>3
    <2>3. CASE u # t /\ ~Queued(u)
      <3>1. Held(u) => Held(u)'
        BY <1>3, NoTaskNotTask DEF Held
      <3> QED BY <3>1, <2>3 DEF TaskConservation, NoneLost, Settled
    <2> QED BY <2>1, <2>2, <2>3
  <1> QED BY <1>7, <1>8, <1>9 DEF TaskConservation

\* From where it was, main's list or the hands of a worker, to the end of a queue.
LEMMA SendConserves ==
    ASSUME TypeOK, TaskConservation,
           NEW h \in Hosts, NEW t \in Tasks, Send(h, t),
           ~Settled(t), ~Queued(t), UNCHANGED outcome,
           \A u \in Tasks : u <= submitted' <=> u <= submitted \/ u = t,
           \A v \in Workers : task'[v] = IF task[v] = t THEN NoTask ELSE task[v],
           \A v \in Workers : Holding(v)' <=> task'[v] # NoTask
    PROVE  TaskConservation'
  <1> DEFINE last == Len(queue[h]) + 1
  <1>0. queue \in [Hosts -> Seq(Tasks)] /\ task \in [Workers -> Tasks \cup {NoTask}]
    BY DEF TypeOK
  <1>1. /\ Len(queue[h]) \in Nat
        /\ Len(queue'[h]) = last
        /\ \A i \in 1 .. Len(queue[h]) : queue'[h][i] = queue[h][i]
        /\ queue'[h][last] = t
    BY <1>0, AppendFacts DEF Send
  <1>2. \A k \in Hosts \ {h} : queue'[k] = queue[k]
    BY <1>0 DEF Send
  <1>3. \A k \in Hosts : \A i \in 1 .. Len(queue[k]) : queue[k][i] \in Tasks /\ queue[k][i] # t
    BY <1>0 DEF Queued
  \* A slot is the new one or was there before.
  <1>4. ASSUME NEW k \in Hosts, NEW i \in 1 .. Len(queue'[k])
        PROVE  \/ k = h /\ i = last /\ queue'[k][i] = t
               \/ i \in 1 .. Len(queue[k]) /\ queue'[k][i] = queue[k][i]
    <2>1. CASE k = h
      BY <2>1, <1>1
    <2>2. CASE k # h
      BY <2>2, <1>2
    <2> QED BY <2>1, <2>2
  <1> HIDE DEF last
  <1>5. QueuedOnce'
    <2> SUFFICES ASSUME NEW k \in Hosts, NEW i \in 1 .. Len(queue'[k])
                 PROVE  /\ queue'[k][i] <= submitted'
                        /\ outcome[queue'[k][i]] = "none"
                        /\ \A v \in Workers : task'[v] # queue'[k][i]
                        /\ \A l \in Hosts : \A j \in 1 .. Len(queue'[l]) :
                              queue'[l][j] = queue'[k][i] => l = k /\ j = i
      BY DEF QueuedOnce, Settled, Held
    <2>1. CASE k = h /\ i = last /\ queue'[k][i] = t
      <3>1. \A v \in Workers : task'[v] # t
        BY NoTaskNotTask
      <3>2. \A l \in Hosts : \A j \in 1 .. Len(queue'[l]) : queue'[l][j] = t => l = h /\ j = last
        BY <1>3, <1>4
      <3> QED BY <2>1, <3>1, <3>2 DEF Settled
    <2>2. CASE i \in 1 .. Len(queue[k]) /\ queue'[k][i] = queue[k][i]
      <3>1. queue[k][i] # t /\ queue[k][i] \in Tasks
        BY <2>2, <1>3
      <3>2. queue[k][i] <= submitted' /\ outcome[queue[k][i]] = "none"
        BY <2>2, <3>1 DEF TaskConservation, QueuedOnce, Settled
      <3>3. \A v \in Workers : task'[v] # queue[k][i]
        BY <2>2, <3>1, NoTaskNotTask DEF TaskConservation, QueuedOnce, Held
      <3>4. \A l \in Hosts : \A j \in 1 .. Len(queue'[l]) :
                queue'[l][j] = queue[k][i] => l = k /\ j = i
        BY <2>2, <3>1, <1>4 DEF TaskConservation, QueuedOnce
      <3> QED BY <2>2, <3>2, <3>3, <3>4
    <2> QED BY <2>1, <2>2, <1>4
  <1>6. HeldOnce'
    <2> SUFFICES ASSUME NEW w \in Workers, task'[w] # NoTask
                 PROVE  /\ task'[w] <= submitted'
                        /\ outcome[task'[w]] = "none"
                        /\ \A v \in Workers : task'[v] = task'[w] => v = w
      BY DEF HeldOnce, Holding, Settled
    <2>1. task'[w] = task[w] /\ task[w] # NoTask /\ task[w] \in Tasks
      BY <1>0
    <2>2. task[w] <= submitted' /\ outcome[task[w]] = "none"
      BY <2>1 DEF TaskConservation, HeldOnce, Settled
    <2>3. ASSUME NEW v \in Workers, task'[v] = task'[w] PROVE v = w
      BY <2>1, <2>3, NoTaskNotTask DEF TaskConservation, HeldOnce
    <2> QED BY <2>1, <2>2, <2>3
  <1>7. NoneLost'
    <2> SUFFICES ASSUME NEW u \in Tasks
                 PROVE  IF u <= submitted'
                        THEN outcome[u] # "none" \/ Queued(u)' \/ Held(u)'
                        ELSE outcome[u] = "none"
      BY DEF NoneLost, Settled
    <2>1. CASE u = t
      <3>1. last \in 1 .. Len(queue'[h])
        BY <1>1 DEF last
      <3>2. Queued(u)'
        BY <3>1, <2>1, <1>1 DEF Queued
      <3> QED BY <3>2, <2>1 DEF Settled
    <2>2. CASE u # t
      <3>1. Queued(u) => Queued(u)'
        <4>1. ASSUME NEW k \in Hosts, NEW i \in 1 .. Len(queue[k])
              PROVE  i \in 1 .. Len(queue'[k]) /\ queue'[k][i] = queue[k][i]
          <5>1. CASE k = h
            BY <5>1, <1>1 DEF last
          <5>2. CASE k # h
            BY <5>2, <1>2
          <5> QED BY <5>1, <5>2
        <4> QED BY <4>1 DEF Queued
      <3>2. Held(u) => Held(u)'
        BY <2>2 DEF Held
      <3> QED BY <2>2, <3>1, <3>2 DEF TaskConservation, NoneLost, Settled
    <2> QED BY <2>1, <2>2
  <1> QED BY <1>5, <1>6, <1>7 DEF TaskConservation

\* From the hands of a worker to its end.
LEMMA CompleteConserves ==
    ASSUME TypeOK, TaskConservation, NEW w \in Workers, Holding(w),
           NEW r \in {"ok", "error"},
           outcome' = [outcome EXCEPT ![task[w]] = r],
           task' = [task EXCEPT ![w] = NoTask],
           pc' = [pc EXCEPT ![w] = "check"],
           UNCHANGED <<queue, submitted>>
    PROVE  TaskConservation'
  <1> DEFINE t == task[w]
  <1>0. /\ queue \in [Hosts -> Seq(Tasks)]
        /\ task \in [Workers -> Tasks \cup {NoTask}]
        /\ pc \in [Workers -> PCs]
        /\ outcome \in [Tasks -> {"none", "ok", "error"}]
    BY DEF TypeOK
  <1>1. /\ t \in Tasks /\ t <= submitted
        /\ \A v \in Workers : task[v] = t => v = w
    BY <1>0 DEF TaskConservation, HeldOnce, Holding
  <1>2. \A k \in Hosts : \A i \in 1 .. Len(queue[k]) : queue[k][i] \in Tasks /\ queue[k][i] # t
    BY <1>0 DEF TaskConservation, QueuedOnce, Held
  <1>3. outcome'[t] = r /\ \A u \in Tasks \ {t} : outcome'[u] = outcome[u]
    BY <1>0, <1>1
  <1>4. task'[w] = NoTask /\ \A v \in Workers \ {w} : task'[v] = task[v]
    BY <1>0
  <1>5. ~Holding(w)' /\ \A v \in Workers \ {w} : Holding(v)' <=> Holding(v)
    BY <1>0 DEF Holding
  <1> HIDE DEF t
  <1>6. QueuedOnce'
    BY <1>2, <1>3, <1>4, NoTaskNotTask DEF TaskConservation, QueuedOnce, Held, Settled
  <1>7. HeldOnce'
    <2> SUFFICES ASSUME NEW v \in Workers
                 PROVE  /\ task'[v] # NoTask <=> Holding(v)'
                        /\ task'[v] # NoTask =>
                              /\ task'[v] <= submitted
                              /\ outcome'[task'[v]] = "none"
                              /\ \A x \in Workers : task'[x] = task'[v] => x = v
      BY DEF HeldOnce, Holding, Settled
    <2>1. CASE v = w
      BY <2>1, <1>4, <1>5
    <2>2. CASE v # w
      <3>1. task'[v] = task[v] /\ (task[v] # NoTask <=> Holding(v))
        BY <2>2, <1>4 DEF TaskConservation, HeldOnce, Holding
      <3>2. task[v] # NoTask => task[v] \in Tasks \ {t}
        BY <2>2, <1>0, <1>1
      <3> QED BY <2>2, <3>1, <3>2, <1>3, <1>4, <1>5 DEF TaskConservation, HeldOnce, Settled
    <2> QED BY <2>1, <2>2
  <1>8. NoneLost'
    <2> SUFFICES ASSUME NEW u \in Tasks
                 PROVE  IF u <= submitted
                        THEN outcome'[u] # "none" \/ Queued(u)' \/ Held(u)'
                        ELSE outcome'[u] = "none"
      BY DEF NoneLost, Settled
    <2>1. CASE u = t
      BY <2>1, <1>1, <1>3
    <2>2. CASE u # t
      <3>1. Queued(u) => Queued(u)'
        BY DEF Queued
      <3>2. Held(u) => Held(u)'
        BY <2>2, <1>4, NoTaskNotTask DEF Held, t
      <3> QED BY <2>2, <3>1, <3>2, <1>3 DEF TaskConservation, NoneLost, Settled
    <2> QED BY <2>1, <2>2
  <1> QED BY <1>6, <1>7, <1>8 DEF TaskConservation

\* The steps of a worker that hold no task and take none, and leave the
\* queues, main and the tasks alone.
LEMMA WalkConserves ==
    ASSUME TypeOK, TaskConservation, NEW w \in Workers, ~Holding(w),
           NEW p \in {"off", "check", "compare", "own", "scan", "wake", "rewake",
                      "leave", "undone"},
           pc' = [pc EXCEPT ![w] = p],
           UNCHANGED <<queue, submitted, outcome, task>>
    PROVE  TaskConservation'
  <1>1. \A v \in Workers : Holding(v)' <=> Holding(v)
    BY DEF TypeOK, Holding
  <1> QED BY <1>1, IdleConserves

\* Each step keeps each task in exactly one place.
LEMMA ConservationStep ==
    ASSUME IInv, Next
    PROVE  TaskConservation'
  <1> USE ConstantsAssumption
      DEF queueVars, mainVars, workerVars, taskVars, tunerVars, ctxVars, vars
  <1>t. TypeOK /\ TaskConservation
    BY DEF IInv
  <1>1. CASE SubmitNext
    <2> DEFINE t == submitted + 1
    <2>1. t \in Tasks /\ HostOf[1] \in Hosts
      BY <1>1, <1>t DEF SubmitNext, TypeOK, Tasks
    <2>2. ~Settled(t) /\ ~Queued(t) /\ ~Held(t)
      <3>1. t \in Tasks /\ ~(t <= submitted) /\ t # NoTask
        BY <2>1, <1>t, NoTaskNotTask DEF TypeOK
      <3> HIDE DEF t
      <3>2. ~Settled(t)
        BY <3>1, <1>t DEF TaskConservation, NoneLost
      <3>3. ~Queued(t)
        BY <3>1, <1>t DEF TaskConservation, QueuedOnce, Queued
      <3>4. ~Held(t)
        BY <3>1, <1>t DEF TaskConservation, HeldOnce, Held
      <3> QED BY <3>2, <3>3, <3>4
    <2>3. \A u \in Tasks : u <= submitted' <=> u <= submitted \/ u = t
      BY <1>1, <1>t DEF SubmitNext, TypeOK, Tasks
    <2>4. \A v \in Workers : task'[v] = IF task[v] = t THEN NoTask ELSE task[v]
      BY <1>1, <2>2 DEF SubmitNext, Held
    <2>5. \A v \in Workers : Holding(v)' <=> task'[v] # NoTask
      BY <1>1, <1>t DEF SubmitNext, TaskConservation, HeldOnce, Holding
    <2>6. Send(HostOf[1], t) /\ UNCHANGED outcome
      BY <1>1 DEF SubmitNext
    <2> HIDE DEF t
    <2> QED BY <2>1, <2>2, <2>3, <2>4, <2>5, <2>6, <1>t, SendConserves
  <1>2. CASE Submitted
    BY <1>2, <1>t, IdleConserves DEF Submitted, Holding
  <1>3. CASE AllWorkersDone
    BY <1>3, <1>t, IdleConserves DEF AllWorkersDone, Holding
  <1>4. CASE Return
    BY <1>4, <1>t, IdleConserves DEF Return, Holding
  <1>5. CASE WaiterCancel
    BY <1>5, <1>t, IdleConserves DEF WaiterCancel, Holding
  <1>6. CASE ParentCancel
    BY <1>6, <1>t, IdleConserves DEF ParentCancel, Holding
  <1>7. CASE Tuner
    <2>1. CASE TunerCool
      BY <2>1, <1>t, IdleConserves DEF TunerCool, Holding
    <2>2. CASE TunerUp
      <3>1. PICK w \in Workers : pc[w] = "off" /\ pc' = [pc EXCEPT ![w] = "check"]
        BY <2>2 DEF TunerUp
      <3> QED BY <2>2, <3>1, <1>t, WalkConserves DEF TunerUp, Holding
    <2>3. CASE TunerDown
      BY <2>3, <1>t, IdleConserves DEF TunerDown, Holding
    <2>4. CASE TunerStop
      BY <2>4, <1>t, IdleConserves DEF TunerStop, Holding
    <2> QED BY <1>7, <2>1, <2>2, <2>3, <2>4 DEF Tuner
  <1>8. ASSUME NEW w \in Workers, Worker(w) PROVE TaskConservation'
    <2>1. CASE LoadActive(w)
      BY <2>1, <1>t, WalkConserves DEF LoadActive, Holding
    <2>2. CASE Compare(w)
      BY <2>2, <1>t, WalkConserves DEF Compare, Holding
    <2>3. CASE TakeOwn(w)
      <3>1. host[w] \in Hosts
        BY <2>3, <1>t DEF TakeOwn, TypeOK
      <3> QED BY <2>3, <3>1, <1>t, ReceiveConserves DEF TakeOwn, Holding
    <2>4. CASE Snapshot(w)
      BY <2>4, <1>t, WalkConserves DEF Snapshot, Holding
    <2>5. CASE Steal(w)
      <3>1. Head(scan[w]) \in Hosts
        BY <2>5, <1>t, TailFacts DEF Steal, TypeOK
      <3> QED BY <2>5, <3>1, <1>t, ReceiveConserves DEF Steal, Holding
    <2>6. CASE LookFurther(w)
      BY <2>6, <1>t, IdleConserves DEF LookFurther, Holding
    <2>7. CASE Idle(w)
      BY <2>7, <1>t, WalkConserves DEF Idle, Holding
    <2>8. CASE FetchOk(w)
      BY <2>8, <1>t, CompleteConserves DEF FetchOk, Complete, Holding
    <2>9. CASE FetchFailed(w)
      <3>1. \A v \in Workers : Holding(v)' <=> Holding(v)
        BY <2>9, <1>t DEF FetchFailed, Holding, TypeOK
      <3> QED BY <2>9, <3>1, <1>t, IdleConserves DEF FetchFailed
    <2>10. CASE Requeue(w)
      <3> DEFINE t == task[w]
      <3>1. /\ t \in Tasks /\ HostOf[t] \in Hosts
            /\ ~Settled(t) /\ Held(t) /\ t <= submitted
            /\ \A v \in Workers : task[v] = t => v = w
        BY <2>10, <1>t DEF Requeue, TypeOK, TaskConservation, HeldOnce, Held
      <3>2. ~Queued(t)
        BY <3>1, <1>t DEF Queued, TaskConservation, QueuedOnce
      <3>3. \A u \in Tasks : u <= submitted' <=> u <= submitted \/ u = t
        BY <2>10, <3>1 DEF Requeue
      <3>4. task' = [task EXCEPT ![w] = NoTask] /\ pc' = [pc EXCEPT ![w] = "check"]
        BY <2>10 DEF Requeue
      <3>5. \A v \in Workers : task'[v] = IF task[v] = t THEN NoTask ELSE task[v]
        BY <3>1, <3>4, <1>t DEF TypeOK
      <3>6. \A v \in Workers : Holding(v)' <=> task'[v] # NoTask
        BY <3>4, <1>t DEF TypeOK, TaskConservation, HeldOnce, Holding
      <3>7. Send(HostOf[t], t) /\ UNCHANGED outcome
        BY <2>10 DEF Requeue
      <3> HIDE DEF t
      <3> QED BY <3>1, <3>2, <3>3, <3>5, <3>6, <3>7, <1>t, SendConserves
    <2>11. CASE FetchGivenUp(w)
      BY <2>11, <1>t, CompleteConserves DEF FetchGivenUp, Complete, Holding
    <2>12. CASE Leave(w)
      BY <2>12, <1>t, WalkConserves DEF Leave, Holding
    <2>13. CASE WgDone(w)
      BY <2>13, <1>t, WalkConserves DEF WgDone, Holding
    <2> QED BY <1>8, <2>1, <2>2, <2>3, <2>4, <2>5, <2>6, <2>7, <2>8, <2>9,
               <2>10, <2>11, <2>12, <2>13 DEF Worker
  <1>9. CASE Terminated
    BY <1>9, <1>t, IdleConserves DEF Terminated, Holding
  <1> QED BY <1>1, <1>2, <1>3, <1>4, <1>5, <1>6, <1>7, <1>8, <1>9 DEF Next, Main

\* A task that is not settled has fetches left.
LEMMA RetriesStep ==
    ASSUME IInv, Next
    PROVE  RetriesLeft'
  <1> USE DEF queueVars, mainVars, workerVars, taskVars, tunerVars, ctxVars, vars
  <1>t. TypeOK /\ TaskConservation /\ RetriesLeft
    BY DEF IInv
  <1>1. CASE UNCHANGED <<outcome, retries>>
    BY <1>1, <1>t DEF RetriesLeft, Settled
  <1>2. ASSUME NEW w \in Workers, FetchOk(w) PROVE RetriesLeft'
    <2>1. outcome' = [outcome EXCEPT ![task[w]] = "ok"] /\ UNCHANGED retries
      BY <1>2 DEF FetchOk, Complete
    <2> QED BY <2>1, <1>t DEF RetriesLeft, Settled, TypeOK
  <1>3. ASSUME NEW w \in Workers, FetchFailed(w) PROVE RetriesLeft'
    <2>1. /\ retries' = [retries EXCEPT ![task[w]] = @ + 1]
          /\ UNCHANGED outcome
          /\ retries[task[w]] + 1 < MaxFetchRetries
      BY <1>3 DEF FetchFailed, MayRetry
    <2> QED BY <2>1, <1>t DEF RetriesLeft, Settled, TypeOK
  <1>4. ASSUME NEW w \in Workers, FetchGivenUp(w) PROVE RetriesLeft'
    <2>1. /\ retries' = [retries EXCEPT ![task[w]] = @ + 1]
          /\ outcome' = [outcome EXCEPT ![task[w]] = "error"]
      BY <1>4 DEF FetchGivenUp, Complete
    <2>2. ASSUME NEW t \in Tasks, ~Settled(t)' PROVE ~Settled(t) /\ retries'[t] = retries[t]
      BY <2>1, <2>2, <1>t DEF TypeOK, Settled
    <2> QED BY <2>2, <1>t DEF RetriesLeft
  <1>5. \/ UNCHANGED <<outcome, retries>>
        \/ \E w \in Workers : FetchOk(w) \/ FetchFailed(w) \/ FetchGivenUp(w)
    <2>1. CASE Main
      BY <2>1 DEF Main, SubmitNext, Submitted, AllWorkersDone, Return
    <2>2. CASE WaiterCancel \/ ParentCancel \/ Tuner
      BY <2>2 DEF WaiterCancel, ParentCancel, Tuner, TunerCool, TunerUp, TunerDown, TunerStop
    <2>3. ASSUME NEW w \in Workers, Worker(w),
                 ~(FetchOk(w) \/ FetchFailed(w) \/ FetchGivenUp(w))
          PROVE  UNCHANGED <<outcome, retries>>
      BY <2>3 DEF Worker, LoadActive, Compare, TakeOwn, Snapshot, Steal, LookFurther,
                  Idle, Requeue, Leave, WgDone
    <2>4. CASE Terminated
      BY <2>4 DEF Terminated
    <2> QED BY <2>1, <2>2, <2>3, <2>4 DEF Next
  <1> QED BY <1>1, <1>2, <1>3, <1>4, <1>5

-----------------------------------------------------------------------------
(* The theorems.                                                           *)

\* The inductive invariant holds in every reachable state.
THEOREM Invariant == Spec => []IInv
  <1>1. Init => IInv
    BY InitIInv
  <1>2. IInv /\ [Next]_vars => IInv'
    <2> SUFFICES ASSUME IInv, [Next]_vars PROVE IInv'
      OBVIOUS
    <2>1. CASE Next
      BY <2>1, TypeStep, ConservationStep, RetriesStep DEF IInv
    <2>2. CASE UNCHANGED vars
      <3>1. TypeOK' /\ RetriesLeft'
        BY <2>2 DEF IInv, TypeOK, RetriesLeft, Settled, vars, queueVars, mainVars,
                    workerVars, taskVars, tunerVars, ctxVars
      <3>2. TaskConservation'
        BY <2>2, IdleConserves DEF IInv, Holding, vars, queueVars, mainVars, workerVars,
                                   taskVars
      <3> QED BY <3>1, <3>2 DEF IInv
    <2> QED BY <2>1, <2>2
  <1> QED BY <1>1, <1>2, PTL DEF Spec

\* The types of the variables, the bound on the retries of a task and the
\* range of targetConcurrency among them (downloader.go 17-37, 154-155, 328-337).
THEOREM TypeCorrect == Spec => []TypeOK
  BY Invariant, PTL DEF IInv

\* Stealing, retrying and submitting never lose or duplicate a task
\* (downloader.go 74-174), whatever the capacity of the queues, the number of
\* workers, the tuner and the caller do.
THEOREM Conservation == Spec => []TaskConservation
  BY Invariant, PTL DEF IInv

-----------------------------------------------------------------------------
(* The send that puts a failed task back.                                  *)

\* A worker that sends a task back finds room for it in a queue that can hold
\* all tasks: the slots hold different tasks, and none the one in its hands.
LEMMA RoomForRetry ==
    ASSUME IInv, NumTasks <= QueueCap, NEW w \in Workers
    PROVE  ~Stuck(w)
  <1> SUFFICES ASSUME Stuck(w) PROVE FALSE
    OBVIOUS
  <1> USE ConstantsAssumption
  <1> DEFINE t == task[w]
             q == queue[HostOf[t]]
  <1>1. t \in Tasks /\ t # NoTask
    BY NoTaskNotTask DEF Stuck, IInv, TaskConservation, HeldOnce, TypeOK
  <1>2. HostOf[t] \in Hosts /\ q \in Seq(Tasks) /\ Len(q) = QueueCap
    BY <1>1 DEF Stuck, IInv, TypeOK
  <1> DEFINE slots == [i \in 1 .. Len(q) |-> q[i]]
  <1>3. ASSUME NEW i \in 1 .. Len(q) PROVE q[i] \in Tasks \ {t}
    <2>1. q[i] \in Tasks
      BY <1>2
    <2>2. ~Held(q[i])
      BY <1>2 DEF IInv, TaskConservation, QueuedOnce
    <2> QED BY <2>1, <2>2 DEF Held
  <1>4. slots \in [1 .. Len(q) -> Tasks \ {t}]
    BY <1>3
  <1>5. IsFiniteSet(Tasks \ {t}) /\ Cardinality(Tasks \ {t}) = NumTasks - 1
    <2>1. IsFiniteSet(Tasks) /\ Cardinality(Tasks) = NumTasks
      BY FS_Interval DEF Tasks
    <2> QED BY <1>1, <2>1, FS_RemoveElement
  <1>6. IsFiniteSet(1 .. Len(q)) /\ Cardinality(1 .. Len(q)) = QueueCap
    BY <1>2, FS_Interval
  <1>7. Cardinality(Tasks \ {t}) < Cardinality(1 .. Len(q))
    BY <1>5, <1>6
  <1>8. \A i \in 1 .. Len(q) : slots[i] = q[i]
    OBVIOUS
  <1> HIDE DEF slots, q
  <1>9. PICK i \in 1 .. Len(q), j \in 1 .. Len(q) : i # j /\ slots[i] = slots[j]
    BY <1>4, <1>5, <1>6, <1>7, FS_PigeonHole
  <1>10. q[i] = q[j]
    BY <1>8, <1>9
  <1> QED BY <1>2, <1>9, <1>10 DEF IInv, TaskConservation, QueuedOnce, q

\* The "last resort to avoid hang" (downloader.go 165) is one as long as a queue
\* can hold all tasks: then no worker ever waits to send a task back.  With
\* fewer slots all of them can (run retry_hang).
THEOREM NoHang == NumTasks <= QueueCap => (Spec => []NoRetryHang)
  <1> SUFFICES ASSUME NumTasks <= QueueCap PROVE Spec => []NoRetryHang
    OBVIOUS
  <1>1. IInv => NoRetryHang
    BY RoomForRetry DEF NoRetryHang, Live
  <1> QED BY <1>1, Invariant, PTL

-----------------------------------------------------------------------------
(* The three counters: tasksWg and activeWorkers against what they count,  *)
(* and what tasksWg = 0 says.                                              *)

Unsettled == {t \in Tasks : ~Settled(t)}

\* There are NumTasks tasks and finitely many that are not settled.
LEMMA TasksFinite ==
    /\ IsFiniteSet(Tasks) /\ Cardinality(Tasks) = NumTasks
    /\ IsFiniteSet(Unsettled) /\ Cardinality(Unsettled) \in Nat
  <1>1. IsFiniteSet(Tasks) /\ Cardinality(Tasks) = NumTasks
    BY ConstantsAssumption, FS_Interval DEF Tasks
  <1>2. IsFiniteSet(Unsettled)
    BY <1>1, FS_Subset DEF Unsettled
  <1> QED BY <1>1, <1>2, FS_CardinalityType

\* Only two steps complete a task; each takes it out of a worker's hands and
\* counts it off.  No other step changes outcome or tasksWg.
LEMMA CompleteStep ==
    ASSUME IInv, Next
    PROVE  \/ UNCHANGED <<outcome, tasksWg>>
           \/ \E w \in Workers : \E r \in {"ok", "error"} :
                /\ pc[w] = "fetch"
                /\ task[w] \in Unsettled
                /\ outcome' = [outcome EXCEPT ![task[w]] = r]
                /\ tasksWg' = tasksWg - 1
  <1> USE DEF queueVars, mainVars, workerVars, taskVars, tunerVars, ctxVars, vars
  <1>1. CASE Main
    BY <1>1 DEF Main, SubmitNext, Submitted, AllWorkersDone, Return
  <1>2. CASE WaiterCancel \/ ParentCancel \/ Tuner
    BY <1>2 DEF WaiterCancel, ParentCancel, Tuner, TunerCool, TunerUp, TunerDown, TunerStop
  <1>3. ASSUME NEW w \in Workers, pc[w] = "fetch" PROVE task[w] \in Unsettled
    BY <1>3 DEF IInv, TypeOK, TaskConservation, HeldOnce, Unsettled
  <1>4. ASSUME NEW w \in Workers, FetchOk(w) \/ FetchGivenUp(w)
        PROVE  \E r \in {"ok", "error"} :
                /\ pc[w] = "fetch"
                /\ outcome' = [outcome EXCEPT ![task[w]] = r]
                /\ tasksWg' = tasksWg - 1
    BY <1>4 DEF FetchOk, FetchGivenUp, Complete
  <1>5. ASSUME NEW w \in Workers, Worker(w), ~(FetchOk(w) \/ FetchGivenUp(w))
        PROVE  UNCHANGED <<outcome, tasksWg>>
    BY <1>5 DEF Worker, LoadActive, Compare, TakeOwn, Snapshot, Steal, LookFurther,
                Idle, FetchFailed, Requeue, Leave, WgDone
  <1>6. CASE Terminated
    BY <1>6 DEF Terminated
  <1> QED BY <1>1, <1>2, <1>3, <1>4, <1>5, <1>6 DEF Next

\* A settled task stays settled.
LEMMA SettledStays ==
    ASSUME IInv, Next, NEW t \in Tasks, Settled(t)
    PROVE  Settled(t)'
  <1>1. CASE UNCHANGED outcome
    BY <1>1 DEF Settled
  <1>2. ASSUME NEW w \in Workers, NEW r \in {"ok", "error"}, task[w] \in Unsettled,
               outcome' = [outcome EXCEPT ![task[w]] = r]
        PROVE  Settled(t)'
    BY <1>2 DEF Settled, Unsettled, IInv, TypeOK
  <1> QED BY <1>1, <1>2, CompleteStep

\* What a step may do to a task: end it after a successful fetch, count a
\* failure after which it is retried, or end it after the last failure.
TaskMoves(t) ==
    /\ outcome[t] = "none"
    /\ \/ outcome' = [outcome EXCEPT ![t] = "ok"] /\ UNCHANGED retries
       \/ /\ retries[t] + 1 < MaxFetchRetries
          /\ retries' = [retries EXCEPT ![t] = @ + 1] /\ UNCHANGED outcome
       \/ /\ retries[t] + 1 = MaxFetchRetries
          /\ retries' = [retries EXCEPT ![t] = @ + 1]
          /\ outcome' = [outcome EXCEPT ![t] = "error"]

\* A step of the pool does this to one task or to none.
LEMMA TaskStep ==
    ASSUME IInv, Next
    PROVE  UNCHANGED <<outcome, retries>> \/ \E t \in Tasks : TaskMoves(t)
  <1> USE DEF queueVars, mainVars, workerVars, taskVars, tunerVars, ctxVars, vars
  <1>1. CASE Main \/ WaiterCancel \/ ParentCancel \/ Tuner
    BY <1>1 DEF Main, SubmitNext, Submitted, AllWorkersDone, Return, WaiterCancel,
                ParentCancel, Tuner, TunerCool, TunerUp, TunerDown, TunerStop
  <1>2. ASSUME NEW w \in Workers, pc[w] = "fetch"
        PROVE  /\ task[w] \in Tasks /\ outcome[task[w]] = "none"
               /\ retries[task[w]] \in Nat /\ retries[task[w]] < MaxFetchRetries
    <2>1. task[w] \in Tasks /\ ~Settled(task[w])
      BY <1>2 DEF IInv, TypeOK, TaskConservation, HeldOnce
    <2>2. retries[task[w]] \in 0 .. MaxFetchRetries
      BY <2>1 DEF IInv, TypeOK
    <2> QED BY <2>1, <2>2, ConstantsAssumption DEF IInv, RetriesLeft, Settled
  <1>3. ASSUME NEW w \in Workers, Worker(w)
        PROVE  UNCHANGED <<outcome, retries>> \/ \E t \in Tasks : TaskMoves(t)
    <2>1. CASE FetchOk(w)
      BY <2>1, <1>2 DEF FetchOk, Complete, TaskMoves
    <2>2. CASE FetchFailed(w)
      BY <2>2, <1>2 DEF FetchFailed, MayRetry, TaskMoves
    <2>3. CASE FetchGivenUp(w)
      <3>1. retries[task[w]] + 1 = MaxFetchRetries
        BY <2>3, <1>2, ConstantsAssumption DEF FetchGivenUp, MayRetry
      <3> QED BY <2>3, <3>1, <1>2 DEF FetchGivenUp, Complete, TaskMoves
    <2>4. CASE ~(FetchOk(w) \/ FetchFailed(w) \/ FetchGivenUp(w))
      BY <1>3, <2>4 DEF Worker, LoadActive, Compare, TakeOwn, Snapshot, Steal,
                        LookFurther, Idle, Requeue, Leave, WgDone
    <2> QED BY <2>1, <2>2, <2>3, <2>4
  <1>4. CASE Terminated
    BY <1>4 DEF Terminated
  <1> QED BY <1>1, <1>3, <1>4 DEF Next

\* Only the return from Download cleans up.
LEMMA ReturnCleans ==
    ASSUME Next, ~Return
    PROVE  UNCHANGED cleaned
  <1> USE DEF mainVars, vars
  <1>1. CASE SubmitNext \/ Submitted \/ AllWorkersDone \/ WaiterCancel \/ ParentCancel
    BY <1>1 DEF SubmitNext, Submitted, AllWorkersDone, WaiterCancel, ParentCancel
  <1>2. CASE Tuner
    BY <1>2 DEF Tuner, TunerCool, TunerUp, TunerDown, TunerStop
  <1>3. ASSUME NEW w \in Workers, Worker(w) PROVE UNCHANGED cleaned
    BY <1>3 DEF Worker, LoadActive, Compare, TakeOwn, Snapshot, Steal, LookFurther,
                Idle, FetchOk, FetchFailed, Requeue, FetchGivenUp, Leave, WgDone
  <1>4. CASE Terminated
    BY <1>4 DEF Terminated
  <1> QED BY <1>1, <1>2, <1>3, <1>4 DEF Next, Main

\* The pool never fetches a task more than MaxFetchRetries times and never ends
\* one twice, with the tuner too (downloader.go 151-170, 325-344): every step
\* completes, retries or gives up one task, or is invisible.
THEOREM ImplementsAttempts == Spec => AttemptsSpec
  <1>1. Init => Attempts!Init
    BY DEF Init, Attempts!Init
  <1>2. IInv /\ [Next]_vars => [Attempts!Next]_(Attempts!vars)
    <2> SUFFICES ASSUME IInv, [Next]_vars PROVE [Attempts!Next]_(Attempts!vars)
      OBVIOUS
    <2>1. CASE UNCHANGED <<outcome, retries>>
      BY <2>1 DEF Attempts!vars
    <2>2. ASSUME NEW t \in Tasks, TaskMoves(t) PROVE Attempts!Next
      BY <2>2 DEF TaskMoves, Attempts!Next, Attempts!Succeed, Attempts!Retry, Attempts!GiveUp
    <2> QED BY <2>1, <2>2, TaskStep DEF vars, taskVars
  <1> QED BY <1>1, <1>2, Invariant, PTL DEF Spec, AttemptsSpec, Attempts!Spec

\* The WaitGroup of the tasks counts down once per task: it never goes
\* negative (a panic), and Wait returns when the last task has ended and not
\* before (downloader.go 284-290, 349-352).
THEOREM TasksWgCorrect == Spec => []TasksWgExact
  <1>1. Init => TasksWgExact
    <2> SUFFICES ASSUME Init PROVE TasksWgExact
      OBVIOUS
    <2>1. Unsettled = Tasks
      BY DEF Init, Unsettled, Settled
    <2> QED BY <2>1, TasksFinite DEF Init, TasksWgExact, Unsettled
  <1>2. IInv /\ TasksWgExact /\ [Next]_vars => TasksWgExact'
    <2> SUFFICES ASSUME IInv, TasksWgExact, [Next]_vars PROVE TasksWgExact'
      OBVIOUS
    <2>1. CASE UNCHANGED <<outcome, tasksWg>>
      BY <2>1 DEF TasksWgExact, Settled
    <2>2. CASE Next /\ ~UNCHANGED <<outcome, tasksWg>>
      <3>1. PICK w \in Workers, r \in {"ok", "error"} :
                /\ task[w] \in Unsettled
                /\ outcome' = [outcome EXCEPT ![task[w]] = r]
                /\ tasksWg' = tasksWg - 1
        BY <2>2, CompleteStep
      <3>2. Unsettled' = Unsettled \ {task[w]}
        BY <3>1 DEF Unsettled, Settled, IInv, TypeOK
      <3>3. Cardinality(Unsettled') = Cardinality(Unsettled) - 1
        BY <3>1, <3>2, TasksFinite, FS_RemoveElement
      <3> QED BY <3>1, <3>3 DEF TasksWgExact, Unsettled
    <2>3. CASE UNCHANGED vars
      BY <2>1, <2>3 DEF vars, taskVars
    <2> QED BY <2>1, <2>2, <2>3
  <1> QED BY <1>1, <1>2, Invariant, PTL DEF Spec

\* Workers that have not left are finitely many.
LEMMA LiveFinite == IsFiniteSet(Live)
  <1>1. Live \subseteq Workers
    BY DEF Live
  <1> QED BY <1>1, ConstantsAssumption, FS_Subset

\* The step of a worker that stays among the living.
LEMMA LiveStays ==
    ASSUME TypeOK, NEW w \in Workers, pc[w] \notin {"off", "undone"},
           NEW p, p \notin {"off", "undone"}, pc' = [pc EXCEPT ![w] = p]
    PROVE  Live' = Live
  BY DEF TypeOK, Live

\* activeWorkers, an atomic counter kept by spawnWorker and a deferred call,
\* always is the number of workers that have not left, also when tuner and
\* workers change it at the same time (downloader.go 90-95).
THEOREM ActiveCorrect == Spec => []ActiveExact
  <1>1. Init => ActiveExact
    <2> SUFFICES ASSUME Init PROVE ActiveExact
      OBVIOUS
    <2>1. Live = InitialWorkers
      BY ConstantsAssumption DEF Init, Live
    <2> QED BY <2>1 DEF Init, ActiveExact, Concurrency
  <1>2. TypeOK /\ ActiveExact /\ [Next]_vars => ActiveExact'
    <2> SUFFICES ASSUME TypeOK, ActiveExact, [Next]_vars PROVE ActiveExact'
      OBVIOUS
    <2> USE DEF queueVars, mainVars, workerVars, taskVars, tunerVars, ctxVars, vars
    <2>0. ASSUME active' = active, Live' = Live PROVE ActiveExact'
      BY <2>0 DEF ActiveExact
    <2>1. CASE UNCHANGED <<pc, active>>
      BY <2>1, <2>0 DEF Live
    <2>2. CASE TunerUp
      <3>1. PICK w \in Workers : pc[w] = "off" /\ pc' = [pc EXCEPT ![w] = "check"]
        BY <2>2 DEF TunerUp
      <3>2. Live' = Live \cup {w} /\ w \notin Live
        BY <3>1 DEF TypeOK, Live
      <3>3. Cardinality(Live') = Cardinality(Live) + 1
        BY <3>2, LiveFinite, FS_AddElement
      <3> QED BY <2>2, <3>3 DEF TunerUp, ActiveExact
    <2>3. ASSUME NEW w \in Workers, Leave(w) PROVE ActiveExact'
      <3>1. Live' = Live \ {w} /\ w \in Live
        BY <2>3 DEF Leave, TypeOK, Live
      <3>2. Cardinality(Live') = Cardinality(Live) - 1
        BY <3>1, LiveFinite, FS_RemoveElement
      <3> QED BY <2>3, <3>2 DEF Leave, ActiveExact
    <2>4. ASSUME NEW w \in Workers, WgDone(w) PROVE ActiveExact'
      <3>1. Live' = Live
        BY <2>4 DEF WgDone, TypeOK, Live
      <3> QED BY <2>4, <3>1, <2>0 DEF WgDone
    <2>5. ASSUME NEW w \in Workers, Worker(w), ~Leave(w), ~WgDone(w) PROVE ActiveExact'
      <3>1. UNCHANGED active
        BY <2>5 DEF Worker, LoadActive, Compare, TakeOwn, Snapshot, Steal, LookFurther,
                    Idle, FetchOk, FetchFailed, Requeue, FetchGivenUp
      <3>2. \/ UNCHANGED pc
            \/ /\ pc[w] \notin {"off", "undone"}
               /\ \E p \in PCs \ {"off", "undone"} : pc' = [pc EXCEPT ![w] = p]
        <4>1. CASE LoadActive(w) \/ Compare(w)
          BY <4>1 DEF LoadActive, Compare, PCs
        <4>2. CASE TakeOwn(w) \/ Snapshot(w) \/ Steal(w) \/ LookFurther(w) \/ Idle(w)
          BY <4>2 DEF TakeOwn, Snapshot, Steal, LookFurther, Idle, Receive, PCs
        <4>3. CASE FetchOk(w) \/ FetchFailed(w) \/ Requeue(w) \/ FetchGivenUp(w)
          BY <4>3 DEF FetchOk, FetchFailed, Requeue, FetchGivenUp, PCs
        <4> QED BY <2>5, <4>1, <4>2, <4>3 DEF Worker
      <3>3. Live' = Live
        BY <3>2, LiveStays DEF Live
      <3> QED BY <3>1, <3>3, <2>0
    <2>6. CASE Main \/ WaiterCancel \/ ParentCancel \/ Terminated
      BY <2>6, <2>1 DEF Main, SubmitNext, Submitted, AllWorkersDone, Return, WaiterCancel,
                  ParentCancel, Terminated
    <2>7. CASE TunerCool \/ TunerDown \/ TunerStop
      BY <2>7, <2>1 DEF TunerCool, TunerDown, TunerStop
    <2>8. CASE UNCHANGED vars
      BY <2>8, <2>1
    <2> QED BY <2>2, <2>3, <2>4, <2>5, <2>6, <2>7, <2>8 DEF Next, Tuner
  <1> QED BY <1>1, <1>2, TypeCorrect, PTL DEF Spec

\* Download cancels its context itself only when every task has ended
\* (downloader.go 349-352).
THEOREM CancelCorrect == Spec => []CancelMeansSettled
  <1>1. Init => CancelMeansSettled
    BY DEF Init, CancelMeansSettled
  <1>2. IInv /\ TasksWgExact /\ CancelMeansSettled /\ [Next]_vars => CancelMeansSettled'
    <2> SUFFICES ASSUME IInv, TasksWgExact, CancelMeansSettled, [Next]_vars,
                        ctxDone', ~parentDone', main' # "returned",
                        NEW t \in Tasks
                 PROVE  Settled(t)'
      BY DEF CancelMeansSettled
    <2> USE DEF queueVars, mainVars, workerVars, taskVars, tunerVars, ctxVars, vars
    <2>1. CASE UNCHANGED vars
      BY <2>1 DEF CancelMeansSettled, Settled
    <2>2. CASE WaiterCancel
      <3>1. Cardinality(Unsettled) = 0
        BY <2>2 DEF WaiterCancel, TasksWgExact, Unsettled
      <3>2. Unsettled = {}
        BY <3>1, TasksFinite, FS_EmptySet
      <3> QED BY <3>2, <2>2 DEF WaiterCancel, Unsettled, Settled
    <2>3. CASE Next /\ ~WaiterCancel
      <3>1. ctxDone /\ ~parentDone /\ main # "returned"
        <4>1. CASE Main
          <5>1. CASE SubmitNext
            BY <5>1 DEF SubmitNext
          <5>2. CASE Submitted
            BY <5>2 DEF Submitted
          <5>3. CASE AllWorkersDone
            BY <5>3 DEF AllWorkersDone
          <5>4. CASE Return
            BY <5>4 DEF Return
          <5> QED BY <4>1, <5>1, <5>2, <5>3, <5>4 DEF Main
        <4>2. CASE ParentCancel
          BY <4>2 DEF ParentCancel
        <4>5. CASE Tuner
          <5>1. UNCHANGED <<ctxVars, main>>
            BY <4>5 DEF Tuner, TunerCool, TunerUp, TunerDown, TunerStop
          <5> QED BY <5>1
        <4>3. ASSUME NEW w \in Workers, Worker(w) PROVE UNCHANGED <<ctxVars, main>>
          BY <4>3 DEF Worker, LoadActive, Compare, TakeOwn, Snapshot, Steal, LookFurther,
                      Idle, FetchOk, FetchFailed, Requeue, FetchGivenUp, Leave, WgDone
        <4>4. CASE Terminated
          BY <4>4 DEF Terminated
        <4> QED BY <2>3, <4>1, <4>2, <4>3, <4>4, <4>5 DEF Next
      <3> QED BY <3>1, <2>3, SettledStays DEF CancelMeansSettled
    <2> QED BY <2>1, <2>2, <2>3
  <1> QED BY <1>1, <1>2, Invariant, TasksWgCorrect, PTL DEF Spec

-----------------------------------------------------------------------------
(* As long as the auto-tuner has not started, no initial worker leaves     *)
(* before the context is done.  It starts after the last task was sent, so *)
(* the sends always have receivers; and where it never starts, wg.Wait()   *)
(* returns, and Cleanup runs, after the last task has ended.  With the     *)
(* auto-tuner the latter is false (run tuner_strand).                      *)

Leaving == {"leave", "undone", "off"}

Untuned ==
    /\ tuner = "unborn"
    /\ active <= target
    /\ \A w \in Workers : seen[w] <= target
    /\ \A w \in InitialWorkers : pc[w] \in Leaving => ctxDone
    /\ main \in {"cleanup", "returned"} => ctxDone
    /\ cleaned => main = "returned"

\* Each step that does not start the tuner keeps the invariant of a pool
\* without tuner.
LEMMA UntunedStep ==
    ASSUME IInv, Untuned, tuner' = "unborn", Next
    PROVE  Untuned'
  <1> USE ConstantsAssumption, ConcurrencyPositive
      DEF queueVars, mainVars, workerVars, taskVars, tunerVars, ctxVars, vars
  <1>t. TypeOK
    BY DEF IInv
  <1>1. CASE Main
    <2>1. CASE SubmitNext
      BY <2>1 DEF SubmitNext, Untuned
    <2>2. CASE Submitted
      BY <2>2 DEF Submitted, Untuned
    <2>3. CASE AllWorkersDone
      <3>1. PICK w \in InitialWorkers : pc[w] = "off"
        BY <2>3 DEF AllWorkersDone
      <3>2. ctxDone
        BY <3>1 DEF Untuned, Leaving
      <3> QED BY <2>3, <3>2 DEF AllWorkersDone, Untuned
    <2>4. CASE Return
      BY <2>4 DEF Return, Untuned
    <2> QED BY <1>1, <2>1, <2>2, <2>3, <2>4 DEF Main
  <1>2. CASE WaiterCancel
    BY <1>2 DEF WaiterCancel, Untuned
  <1>3. CASE ParentCancel
    BY <1>3 DEF ParentCancel, Untuned
  <1>4. CASE Tuner
    BY <1>4 DEF Tuner, TunerCool, TunerUp, TunerDown, TunerStop, Untuned
  <1>5. ASSUME NEW w \in Workers, Worker(w) PROVE Untuned'
    <2>1. CASE LoadActive(w)
      BY <2>1, <1>t DEF LoadActive, Untuned, TypeOK, Leaving
    <2>2. CASE Compare(w)
      <3>1. ~Surplus(seen[w])
        BY <1>t DEF Untuned, Surplus, TypeOK
      <3>2. pc' = [pc EXCEPT ![w] = IF pc[w] = "compare" THEN "own" ELSE "check"]
        BY <2>2, <3>1 DEF Compare
      <3>3. \A v \in InitialWorkers : pc'[v] \in Leaving => ctxDone'
        BY <2>2, <3>2, <1>t DEF Compare, Untuned, TypeOK, Leaving
      <3>4. \A v \in Workers : seen'[v] <= target'
        BY <2>2, <1>t DEF Compare, Untuned, TypeOK
      <3> QED BY <2>2, <3>3, <3>4 DEF Compare, Untuned
    <2>3. CASE TakeOwn(w) \/ Steal(w)
      <3>1. \A v \in InitialWorkers : pc'[v] \in Leaving => ctxDone'
        BY <2>3, <1>t DEF TakeOwn, Steal, Receive, Untuned, TypeOK, Leaving
      <3> QED BY <2>3, <3>1 DEF TakeOwn, Steal, Receive, Untuned
    <2>4. CASE Snapshot(w) \/ LookFurther(w)
      <3>1. \A v \in InitialWorkers : pc'[v] \in Leaving => ctxDone'
        BY <2>4, <1>t DEF Snapshot, LookFurther, Untuned, TypeOK, Leaving
      <3> QED BY <2>4, <3>1 DEF Snapshot, LookFurther, Untuned
    <2>5. CASE Idle(w)
      <3>1. \A v \in InitialWorkers : pc'[v] \in Leaving => ctxDone'
        BY <2>5, <1>t DEF Idle, Untuned, TypeOK, Leaving
      <3> QED BY <2>5, <3>1 DEF Idle, Untuned
    <2>6. CASE FetchOk(w) \/ FetchGivenUp(w) \/ FetchFailed(w) \/ Requeue(w)
      <3>1. \A v \in InitialWorkers : pc'[v] \in Leaving => ctxDone'
        BY <2>6, <1>t DEF FetchOk, FetchGivenUp, FetchFailed, Requeue, Untuned, TypeOK, Leaving
      <3> QED BY <2>6, <3>1 DEF FetchOk, FetchGivenUp, FetchFailed, Requeue, Untuned
    <2>7. CASE Leave(w) \/ WgDone(w)
      <3>1. \A v \in InitialWorkers : pc'[v] \in Leaving => ctxDone'
        BY <2>7, <1>t DEF Leave, WgDone, Untuned, TypeOK, Leaving
      <3>2. active' <= target'
        BY <2>7, <1>t DEF Leave, WgDone, Untuned, TypeOK
      <3> QED BY <2>7, <3>1, <3>2 DEF Leave, WgDone, Untuned
    <2> QED BY <1>5, <2>1, <2>2, <2>3, <2>4, <2>5, <2>6, <2>7 DEF Worker
  <1>6. CASE Terminated
    BY <1>6 DEF Terminated, Untuned
  <1> QED BY <1>1, <1>2, <1>3, <1>4, <1>5, <1>6 DEF Next

\* No tuner and every initial worker at work in the beginning.
LEMMA UntunedInit == Init => Untuned
  <1> SUFFICES ASSUME Init PROVE Untuned
    OBVIOUS
  <1>1. \A w \in InitialWorkers : pc[w] \notin Leaving
    BY ConstantsAssumption DEF Init, Leaving
  <1>2. active <= target /\ \A w \in Workers : seen[w] <= target
    BY ConcurrencyPositive DEF Init
  <1> QED BY <1>1, <1>2 DEF Init, Untuned

\* Only the end of the sends brings the tuner to life.
LEMMA TunerUnborn ==
    ASSUME tuner = "unborn", Next
    PROVE  tuner' = "unborn" \/ (AutoTune /\ main' = "wait")
  <1> USE DEF tunerVars, vars
  <1>1. CASE Main
    BY <1>1 DEF Main, SubmitNext, Submitted, AllWorkersDone, Return
  <1>2. CASE WaiterCancel \/ ParentCancel \/ Tuner \/ Terminated
    BY <1>2 DEF WaiterCancel, ParentCancel, Tuner, TunerCool, TunerUp, TunerDown,
                TunerStop, Terminated
  <1>3. ASSUME NEW w \in Workers, Worker(w) PROVE UNCHANGED tuner
    BY <1>3 DEF Worker, LoadActive, Compare, TakeOwn, Snapshot, Steal, LookFurther,
                Idle, FetchOk, FetchFailed, Requeue, FetchGivenUp, Leave, WgDone
  <1> QED BY <1>1, <1>2, <1>3 DEF Next

\* The invariant of a pool without tuner.
LEMMA UntunedInvariant == ~AutoTune => (Spec => []Untuned)
  <1> SUFFICES ASSUME ~AutoTune PROVE Spec => []Untuned
    OBVIOUS
  <1>1. IInv /\ Untuned /\ [Next]_vars => Untuned'
    <2>1. ASSUME Untuned, UNCHANGED vars PROVE Untuned'
      BY <2>1 DEF Untuned, vars, mainVars, workerVars, tunerVars, ctxVars
    <2>2. Untuned => tuner = "unborn"
      BY DEF Untuned
    <2> QED BY <2>1, <2>2, TunerUnborn, UntunedStep
  <1> QED BY <1>1, UntunedInit, Invariant, PTL DEF Spec

\* While main sends, the tuner is not there, and only the caller can have
\* cancelled the context: the waiter starts after the last send.
Submitting == main = "submit" => Untuned /\ (ctxDone => parentDone)

\* Each step keeps it.
LEMMA SubmittingStep ==
    ASSUME IInv, Submitting, [Next]_vars
    PROVE  Submitting'
  <1> USE DEF queueVars, mainVars, workerVars, taskVars, tunerVars, ctxVars, vars
  <1>1. CASE UNCHANGED vars
    BY <1>1 DEF Submitting, Untuned
  <1>2. CASE Next /\ main' = "submit"
    <2>1. main = "submit" /\ (UNCHANGED <<ctxDone, parentDone>> \/ parentDone')
      <3>1. CASE Main
        BY <1>2, <3>1 DEF Main, SubmitNext, Submitted, AllWorkersDone, Return
      <3>2. CASE WaiterCancel \/ ParentCancel \/ Tuner \/ Terminated
        BY <1>2, <3>2 DEF WaiterCancel, ParentCancel, Tuner, TunerCool, TunerUp,
                          TunerDown, TunerStop, Terminated
      <3>3. ASSUME NEW w \in Workers, Worker(w) PROVE UNCHANGED <<main, ctxVars>>
        BY <3>3 DEF Worker, LoadActive, Compare, TakeOwn, Snapshot, Steal, LookFurther,
                    Idle, FetchOk, FetchFailed, Requeue, FetchGivenUp, Leave, WgDone
      <3> QED BY <1>2, <3>1, <3>2, <3>3 DEF Next
    <2>2. Untuned /\ (ctxDone => parentDone)
      BY <2>1 DEF Submitting
    <2>3. tuner' = "unborn"
      BY <1>2, <2>2, TunerUnborn DEF Untuned
    <2>4. Untuned'
      BY <1>2, <2>2, <2>3, UntunedStep
    <2> QED BY <2>1, <2>2, <2>4 DEF Submitting
  <1> QED BY <1>1, <1>2 DEF Submitting

\* When every initial worker is stuck with a retry, the tasks in their hands and
\* those in the full queue one of them waits for are all different and have all
\* been submitted.
LEMMA StuckHoldTasks ==
    ASSUME IInv, \A w \in InitialWorkers : Stuck(w)
    PROVE  submitted >= QueueCap + Concurrency
  <1> USE ConstantsAssumption
  <1> DEFINE InHands == {task[w] : w \in InitialWorkers}
  <1>t. TypeOK
    BY DEF IInv
  <1>1. \A w \in InitialWorkers : task[w] \in 1 .. submitted
    <2> SUFFICES ASSUME NEW w \in InitialWorkers PROVE task[w] \in 1 .. submitted
      OBVIOUS
    <2>1. w \in Workers /\ task[w] # NoTask /\ task[w] \in Tasks
      BY NoTaskNotTask, <1>t DEF Stuck, IInv, TaskConservation, HeldOnce, TypeOK
    <2>2. task[w] <= submitted
      BY <2>1 DEF IInv, TaskConservation, HeldOnce
    <2> QED BY <2>1, <2>2, <1>t DEF Tasks, TypeOK
  <1>2. \A v, w \in InitialWorkers : task[v] = task[w] => v = w
    <2> SUFFICES ASSUME NEW v \in InitialWorkers, NEW w \in InitialWorkers, task[v] = task[w]
                 PROVE  v = w
      OBVIOUS
    <2>1. v \in Workers /\ w \in Workers /\ task[w] # NoTask
      BY DEF Stuck, IInv, TaskConservation, HeldOnce
    <2> QED BY <2>1 DEF IInv, TaskConservation, HeldOnce
  <1>3. IsFiniteSet(InHands) /\ Cardinality(InHands) = Concurrency
    <2> DEFINE inHand == [w \in InitialWorkers |-> task[w]]
    <2>1. IsFiniteSet(InitialWorkers)
      BY FS_Subset
    <2>2. inHand \in Bijection(InitialWorkers, InHands)
      BY <1>2 DEF Bijection, Injection, Surjection, IsInjective
    <2>3. ExistsBijection(InitialWorkers, InHands)
      BY <2>2 DEF ExistsBijection
    <2> HIDE DEF InHands
    <2> QED BY <2>1, <2>3, FS_Bijection DEF Concurrency
  <1>4. PICK w \in InitialWorkers : w \in Workers
    OBVIOUS
  <1> DEFINE q == queue[HostOf[task[w]]]
             Slots == {q[i] : i \in 1 .. QueueCap}
  <1>5. HostOf[task[w]] \in Hosts /\ q \in Seq(Tasks) /\ Len(q) = QueueCap
    <2>1. task[w] \in Tasks
      BY <1>1, <1>4, NoTaskNotTask, <1>t DEF Stuck, TypeOK, IInv, TaskConservation, HeldOnce
    <2> QED BY <2>1, <1>4, <1>t DEF Stuck, TypeOK
  <1>6. \A i \in 1 .. QueueCap : q[i] \in 1 .. submitted /\ ~Held(q[i])
    <2> SUFFICES ASSUME NEW i \in 1 .. QueueCap
                 PROVE  q[i] \in 1 .. submitted /\ ~Held(q[i])
      OBVIOUS
    <2>1. q[i] \in Tasks
      BY <1>5
    <2>2. q[i] <= submitted /\ ~Held(q[i])
      BY <1>5 DEF IInv, TaskConservation, QueuedOnce
    <2>3. submitted \in Nat
      BY <1>t DEF TypeOK
    <2> HIDE DEF q
    <2> QED BY <2>1, <2>2, <2>3 DEF Tasks
  <1>7. \A i, j \in 1 .. QueueCap : q[i] = q[j] => i = j
    BY <1>5 DEF IInv, TaskConservation, QueuedOnce
  <1> HIDE DEF q
  <1>8. IsFiniteSet(Slots) /\ Cardinality(Slots) = QueueCap
    <2> DEFINE slot == [i \in 1 .. QueueCap |-> q[i]]
    <2>1. IsFiniteSet(1 .. QueueCap) /\ Cardinality(1 .. QueueCap) = QueueCap
      BY FS_Interval
    <2>2. slot \in Bijection(1 .. QueueCap, Slots)
      BY <1>7 DEF Bijection, Injection, Surjection, IsInjective
    <2>3. ExistsBijection(1 .. QueueCap, Slots)
      BY <2>2 DEF ExistsBijection
    <2> HIDE DEF Slots
    <2> QED BY <2>1, <2>3, FS_Bijection
  <1>9. Slots \cap InHands = {}
    <2> SUFFICES ASSUME NEW t \in Slots \cap InHands PROVE FALSE
      OBVIOUS
    <2>1. ~Held(t)
      BY <1>6
    <2>2. Held(t)
      BY DEF Held
    <2> QED BY <2>1, <2>2
  <1>10. Slots \cup InHands \subseteq 1 .. submitted
    BY <1>1, <1>6
  <1> HIDE DEF Slots, InHands
  <1>11. submitted \in Nat
    BY <1>t DEF TypeOK
  <1>12. IsFiniteSet(1 .. submitted) /\ Cardinality(1 .. submitted) = submitted
    BY <1>11, FS_Interval
  <1>13. Cardinality(Slots \cup InHands) = QueueCap + Concurrency
    <2>1. Cardinality(Slots \cap InHands) = 0
      BY <1>9, FS_EmptySet
    <2>2. Cardinality(Slots \cup InHands)
            = Cardinality(Slots) + Cardinality(InHands) - Cardinality(Slots \cap InHands)
      BY <1>3, <1>8, FS_Union, Zenon
    <2> QED BY <1>3, <1>8, <2>1, <2>2, ConcurrencyPositive
  <1> QED BY <1>10, <1>11, <1>12, <1>13, FS_Subset

\* With or without the tuner, main's sends to a queue have a receiver until one
\* full queue and all workers hold a task each, unless the caller has cancelled
\* (downloader.go 78-86, 134-138, 161, 293): the tuner starts after the last
\* send, until then a worker that compares the two counters finds no surplus,
\* and the workers stuck with a retry and the slots they wait for hold tasks
\* that are all different.
THEOREM ReceiversCorrect == Spec => []SubmitHasReceivers
  <1>1. Init => Submitting
    BY UntunedInit DEF Init, Submitting
  <1>2. IInv /\ Submitting => SubmitHasReceivers
    <2> SUFFICES ASSUME IInv, Submitting, main = "submit", ~parentDone,
                        \A w \in Live : Stuck(w)
                 PROVE  submitted >= QueueCap + Concurrency
      BY DEF SubmitHasReceivers
    <2>1. ASSUME NEW w \in InitialWorkers PROVE w \in Live
      BY ConstantsAssumption DEF Submitting, Untuned, Live, Leaving
    <2> QED BY <2>1, StuckHoldTasks
  <1> QED BY <1>1, <1>2, SubmittingStep, Invariant, PTL DEF Spec

\* Without the tuner, the state files are removed only when every task has
\* ended (downloader.go 348-362): wg.Wait() cannot return early, and the check
\* of the caller's context covers the one case in which workers leave with
\* tasks still to come.
THEOREM CleanupCorrect == ~AutoTune => (Spec => []CleanupAfterAllSettled)
  <1> SUFFICES ASSUME ~AutoTune PROVE Spec => []CleanupAfterAllSettled
    OBVIOUS
  <1>1. Init => CleanupAfterAllSettled
    BY DEF Init, CleanupAfterAllSettled
  <1>2. IInv /\ Untuned /\ CancelMeansSettled /\ CleanupAfterAllSettled /\ [Next]_vars
        => CleanupAfterAllSettled'
    <2> SUFFICES ASSUME IInv, Untuned, CancelMeansSettled, CleanupAfterAllSettled,
                        [Next]_vars, cleaned', NEW t \in Tasks
                 PROVE  Settled(t)'
      BY DEF CleanupAfterAllSettled
    <2> USE DEF queueVars, mainVars, workerVars, taskVars, tunerVars, ctxVars, vars
    <2>1. CASE UNCHANGED vars
      BY <2>1 DEF CleanupAfterAllSettled, Settled
    <2>2. CASE Return
      <3>1. main = "cleanup" /\ ~parentDone
        BY <2>2 DEF Return
      <3>2. Settled(t)
        BY <3>1 DEF Untuned, CancelMeansSettled
      <3> QED BY <3>2, <2>2 DEF Return, Settled
    <2>3. CASE Next /\ ~Return
      <3>1. UNCHANGED cleaned
        BY <2>3, ReturnCleans
      <3> QED BY <3>1, <2>3, SettledStays DEF CleanupAfterAllSettled
    <2> QED BY <2>1, <2>2, <2>3
  <1> QED BY <1>1, <1>2, Invariant, CancelCorrect, UntunedInvariant, PTL DEF Spec

\* Without the tuner, the worker pool implements the contract TaskPool: every
\* step completes, retries or gives up one task, cleans up, or is invisible.
THEOREM ImplementsTaskPool == ~AutoTune => (Spec => PoolSpec)
  <1> SUFFICES ASSUME ~AutoTune PROVE Spec => PoolSpec
    OBVIOUS
  <1>1. Init => Pool!Init
    BY DEF Init, Pool!Init
  <1>2. IInv /\ Untuned /\ CancelMeansSettled /\ [Next]_vars => [Pool!Next]_(Pool!vars)
    <2> SUFFICES ASSUME IInv, Untuned, CancelMeansSettled, [Next]_vars
                 PROVE  [Pool!Next]_(Pool!vars)
      OBVIOUS
    <2> USE DEF queueVars, mainVars, workerVars, taskVars, tunerVars, ctxVars, vars
    <2>1. CASE UNCHANGED vars
      BY <2>1 DEF Pool!vars
    <2>4. CASE Return
      <3>1. CASE parentDone
        <4>1. ~cleaned /\ ~cleaned' /\ cleaned \in BOOLEAN /\ cleaned' \in BOOLEAN
          BY <3>1, <2>4 DEF Return, Untuned, IInv, TypeOK
        <4> QED BY <4>1, <2>4 DEF Return, Pool!vars
      <3>2. CASE ~parentDone
        <4>1. \A t \in Tasks : outcome[t] # "none"
          BY <3>2, <2>4 DEF Return, Untuned, CancelMeansSettled, Settled
        <4>2. cleaned' = TRUE
          BY <3>2, <2>4 DEF Return
        <4>3. Pool!Cleanup
          BY <4>1, <4>2, <2>4 DEF Return, Pool!Cleanup
        <4> QED BY <4>3 DEF Pool!Next
      <3> QED BY <3>1, <3>2
    <2>5. CASE Next /\ ~Return
      <3>1. UNCHANGED cleaned
        BY <2>5, ReturnCleans
      <3>2. ASSUME NEW t \in Tasks, TaskMoves(t) PROVE Pool!Next
        BY <3>1, <3>2 DEF TaskMoves, Pool!Next, Pool!Succeed, Pool!Retry, Pool!GiveUp
      <3> QED BY <2>5, <3>1, <3>2, TaskStep DEF Pool!vars
    <2> QED BY <2>1, <2>4, <2>5
  <1> QED BY <1>1, <1>2, Invariant, CancelCorrect, UntunedInvariant, PTL
          DEF Spec, PoolSpec, Pool!Spec
=============================================================================
