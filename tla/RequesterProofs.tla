-------------------------- MODULE RequesterProofs ---------------------------
(***************************************************************************)
(* Proofs about Requester, for every set of chunks and any number of       *)
(* versions of the remote file, runs and crashes.                          *)
(***************************************************************************)
EXTENDS Requester, TLAPS

\* The bitset is open only between the opening of the state file and the end
\* of PrepareTasks.
BitsetClosed == bitset => pc \in {"created", "ready", "split"}

\* Nobody ever sets a bit: MarkComplete is called only when it is closed.
NothingRecorded == stateFile.exists => stateFile.bits = {}

\* The probe is not newer than the server, so a change after it shows, and the
\* chunks that have ended well are fresh.
Fresh == /\ probed <= remote
         /\ ResumeSafe

IInv == TypeOK /\ BitsetClosed /\ NothingRecorded /\ Fresh

-----------------------------------------------------------------------------
\* The two markers are not versions, and a version is a natural number.
LEMMA VersionFacts == Versions \subseteq Nat \ {0} /\ 1 \in Versions
                      /\ NoHeader = 0 /\ NoHeader \notin Versions
  BY RequesterAssumption DEF Versions, NoHeader

Content == Versions \cup {Hole, Torn}
StateFiles == [exists : {TRUE}, etag : Versions \cup {NoHeader}, bits : SUBSET Chunks]
Targets == [exists : {TRUE}, chunk : [Chunks -> Content]]

\* A file that exists has its fields.
LEMMA FileFacts ==
    ASSUME TypeOK
    PROVE  /\ stateFile.exists => stateFile \in StateFiles
           /\ target.exists => target \in Targets
           /\ stateFile \in StateFiles \cup {NoFile}
           /\ target \in Targets \cup {NoFile}
  <1>1. ~NoFile.exists
    BY DEF NoFile
  <1> QED BY <1>1 DEF TypeOK, StateFiles, Targets, Content

\* The two files after a change to their fields.
LEMMA FileSteps ==
    /\ \A f \in StateFiles, e \in Versions \cup {NoHeader} : [f EXCEPT !.etag = e] \in StateFiles
    /\ \A f \in StateFiles : \A e : [f EXCEPT !.etag = e].bits = f.bits
    /\ \A f \in StateFiles : f.exists
    /\ \A f \in Targets : f.exists
    /\ \A f \in Targets, c \in Chunks, x \in Content : [f EXCEPT !.chunk[c] = x] \in Targets
  BY DEF StateFiles, Targets

\* A fetched chunk holds versions the server had since the probe.
LEMMA ContentsType ==
    ASSUME TypeOK
    PROVE  Contents \subseteq Content
  <1>1. remote \in Versions /\ remote \in Nat \ {0}
    BY VersionFacts DEF TypeOK
  <1>2. CASE remote = probed
    BY <1>1, <1>2 DEF Contents, Content
  <1>3. CASE remote # probed
    <2>1. probed \in Nat
      BY VersionFacts DEF TypeOK
    <2>2. \A x \in probed .. remote : x \in Versions \cup {Hole}
      BY <1>1, <2>1, RequesterAssumption DEF Versions, Hole
    <2> QED BY <1>3, <2>2 DEF Contents, Content
  <1> QED BY <1>2, <1>3

\* The invariant holds initially.
LEMMA InitIInv == Init => IInv
  <1> SUFFICES ASSUME Init PROVE IInv
    OBVIOUS
  <1> USE VersionFacts
  <1>1. ~stateFile.exists /\ ~target.exists
    BY DEF Init, NoFile
  <1>2. TypeOK
    BY <1>1 DEF Init, TypeOK
  <1>3. BitsetClosed /\ NothingRecorded
    BY <1>1 DEF Init, BitsetClosed, NothingRecorded
  <1>4. Fresh
    BY DEF Init, Fresh, ResumeSafe
  <1> QED BY <1>2, <1>3, <1>4 DEF IInv

\* A run that is over keeps the types.
LEMMA RunOverType ==
    ASSUME RunOver
    PROVE  /\ pc' = "down" /\ probed' \in Versions \cup {NoHeader} /\ bitset' = FALSE
           /\ todo' \in SUBSET Chunks /\ failed' \in SUBSET Chunks
  BY DEF RunOver

\* Each step keeps the types.
LEMMA TypeStep ==
    ASSUME TypeOK, NothingRecorded, BitsetClosed, [Next]_vars
    PROVE  TypeOK'
  <1> USE VersionFacts DEF disk
  <1>1. CASE Probe
    BY <1>1 DEF Probe, TypeOK
  <1>2. CASE Resume
    BY <1>2 DEF Resume, Resumable, Loads, TypeOK
  <1>3. CASE NewDownloadState
    <2>1. PICK b \in NewBits :
            stateFile' = [exists |-> TRUE, etag |-> OldHeader, bits |-> b]
      BY <1>3 DEF NewDownloadState
    <2>2. b = {}
      BY <2>1 DEF NewBits, NothingRecorded
    <2>3. OldHeader \in Versions \cup {NoHeader}
      BY FileFacts DEF OldHeader, StateFiles
    <2>4. stateFile' \in StateFiles /\ stateFile'.exists
      BY <2>1, <2>2, <2>3 DEF StateFiles
    <2> QED BY <1>3, <2>4 DEF NewDownloadState, TypeOK, StateFiles
  <1>4. CASE Save
    <2>1. stateFile \in StateFiles /\ probed \in Versions \cup {NoHeader}
      BY <1>4, FileFacts DEF Save, TypeOK
    <2>2. stateFile' \in StateFiles /\ stateFile'.exists
      BY <1>4, <2>1, FileSteps DEF Save
    <2> QED BY <1>4, <2>2 DEF Save, TypeOK, StateFiles
  <1>5. CASE OpenTarget
    <2>1. target' \in Targets
      <3>1. CASE target.exists
        BY <1>5, <3>1, FileFacts DEF OpenTarget
      <3>2. CASE ~target.exists
        BY <1>5, <3>2 DEF OpenTarget, Content, Targets
      <3> QED BY <3>1, <3>2
    <2>2. target'.exists
      BY <2>1, FileSteps
    <2>3. pc' = "split" /\ UNCHANGED <<remote, stateFile, probed, bitset, todo, failed>>
      BY <1>5 DEF OpenTarget
    <2>4. stateFile.exists
      BY <1>5 DEF OpenTarget, TypeOK
    <2> QED BY <2>1, <2>2, <2>3, <2>4 DEF TypeOK, Content, Targets
  <1>6. CASE Split
    BY <1>6 DEF Split, TypeOK
  <1>7. ASSUME NEW c \in Chunks, FetchSome(c) \/ FetchOk(c) \/ FetchError(c) PROVE TypeOK'
    <2>1. ~bitset /\ pc = "download"
      BY <1>7 DEF FetchSome, FetchOk, FetchError, BitsetClosed
    <2>2. target \in Targets
      BY <2>1, FileFacts DEF TypeOK
    <2>3. \A x \in Content : [target EXCEPT !.chunk[c] = x] \in Targets
      BY <2>2, FileSteps
    <2>4. target' \in Targets
      <3>1. Contents \subseteq Content /\ Torn \in Content
        BY ContentsType DEF Content
      <3> QED BY <1>7, <2>2, <2>3, <3>1 DEF FetchSome, FetchOk, FetchError
    <2>5. UNCHANGED <<stateFile, remote, pc, probed, bitset>>
      BY <1>7, <2>1 DEF FetchSome, FetchOk, FetchError, MarkComplete
    <2>6. todo' \in SUBSET Chunks /\ failed' \in SUBSET Chunks
      BY <1>7 DEF FetchSome, FetchOk, FetchError, TypeOK
    <2>7. target'.exists
      BY <2>4, FileSteps
    <2> QED BY <2>1, <2>4, <2>5, <2>6, <2>7 DEF TypeOK, Content, Targets
  <1>8. CASE Cleanup
    BY <1>8, RunOverType DEF Cleanup, TypeOK
  <1>9. CASE Crash
    BY <1>9, RunOverType DEF Crash, TypeOK
  <1>10. CASE RemoteChanges
    <2>1. remote' \in Versions
      BY <1>10, RequesterAssumption DEF RemoteChanges, TypeOK, Versions
    <2> QED BY <1>10, <2>1 DEF RemoteChanges, TypeOK
  <1>11. CASE TargetRemoved
    BY <1>11 DEF TargetRemoved, TypeOK
  <1>12. CASE UNCHANGED vars
    BY <1>12 DEF vars, TypeOK
  <1> QED BY <1>1, <1>2, <1>3, <1>4, <1>5, <1>6, <1>7, <1>8, <1>9, <1>10, <1>11, <1>12
          DEF Next

\* Each step keeps the bitset closed outside PrepareTasks and all bits unset.
LEMMA RecordedStep ==
    ASSUME TypeOK, NothingRecorded, BitsetClosed, [Next]_vars
    PROVE  NothingRecorded' /\ BitsetClosed'
  <1> USE DEF disk, NothingRecorded, BitsetClosed
  <1>1. CASE Probe \/ Resume \/ OpenTarget \/ Split
    BY <1>1 DEF Probe, Resume, OpenTarget, Split
  <1>2. CASE NewDownloadState
    BY <1>2 DEF NewDownloadState, NewBits
  <1>3. CASE Save
    <2>1. stateFile'.bits = stateFile.bits /\ stateFile.exists
      <3>1. stateFile \in StateFiles
        BY <1>3, FileFacts DEF Save, TypeOK
      <3> QED BY <1>3, <3>1, FileSteps DEF Save
    <2> QED BY <1>3, <2>1 DEF Save
  <1>4. ASSUME NEW c \in Chunks, FetchSome(c) \/ FetchOk(c) \/ FetchError(c)
        PROVE  NothingRecorded' /\ BitsetClosed'
    <2>1. ~bitset
      BY <1>4 DEF FetchSome, FetchOk, FetchError
    <2>2. UNCHANGED <<stateFile, pc, bitset>>
      BY <1>4, <2>1 DEF FetchSome, FetchOk, FetchError, MarkComplete
    <2> QED BY <2>2
  <1>5. CASE Cleanup \/ Crash
    BY <1>5 DEF Cleanup, Crash, RunOver, NoFile
  <1>6. CASE RemoteChanges \/ TargetRemoved
    BY <1>6 DEF RemoteChanges, TargetRemoved
  <1>7. CASE UNCHANGED vars
    BY <1>7 DEF vars
  <1> QED BY <1>1, <1>2, <1>3, <1>4, <1>5, <1>6, <1>7 DEF Next

\* Each step keeps the chunks that ended well fresh.
LEMMA FreshStep ==
    ASSUME TypeOK, NothingRecorded, BitsetClosed, Fresh, [Next]_vars
    PROVE  Fresh'
  <1> USE VersionFacts DEF disk
  <1>0. remote \in Nat \ {0} /\ probed \in Nat
    BY DEF TypeOK
  <1>1. CASE Probe \/ Resume \/ NewDownloadState \/ Save \/ OpenTarget
    BY <1>0, <1>1 DEF Probe, Resume, NewDownloadState, Save, OpenTarget, Fresh, ResumeSafe
  <1>2. CASE Split
    <2>1. todo' = Chunks
      BY <1>2 DEF Split, IsComplete, NothingRecorded, TypeOK
    <2> QED BY <1>2, <2>1 DEF Split, Fresh, ResumeSafe
  <1>3. ASSUME NEW c \in Chunks, FetchSome(c) \/ FetchOk(c) \/ FetchError(c) PROVE Fresh'
    <2>1. /\ pc = "download" /\ c \in todo
          /\ UNCHANGED <<remote, probed, pc>>
      BY <1>3 DEF FetchSome, FetchOk, FetchError
    <2>2. target \in [exists : {TRUE}, chunk : [Chunks -> Content]]
      BY <2>1, FileFacts DEF TypeOK, Targets
    <2>3. \A d \in Chunks \ {c} : target'.chunk[d] = target.chunk[d]
      BY <1>3, <2>2 DEF FetchSome, FetchOk, FetchError
    <2>4. \/ c \in todo' \cup failed'
          \/ remote = probed => target'.chunk[c] = probed
      BY <1>3, <2>2 DEF FetchSome, FetchOk, FetchError, Contents
    <2>5. todo \cup failed \subseteq todo' \cup failed' \cup {c}
      BY <1>3 DEF FetchSome, FetchOk, FetchError
    <2>6. ASSUME NEW d \in Chunks \ (todo' \cup failed'), remote = probed
          PROVE  target'.chunk[d] = probed
      <3>1. CASE d = c
        BY <3>1, <2>4, <2>6
      <3>2. CASE d # c
        BY <3>2, <2>1, <2>3, <2>5, <2>6 DEF Fresh, ResumeSafe
      <3> QED BY <3>1, <3>2
    <2> QED BY <2>1, <2>6 DEF Fresh, ResumeSafe
  <1>4. CASE Cleanup \/ Crash
    BY <1>0, <1>4 DEF Cleanup, Crash, RunOver, Fresh, ResumeSafe
  <1>5. CASE RemoteChanges
    BY <1>0, <1>5 DEF RemoteChanges, Fresh, ResumeSafe
  <1>6. CASE TargetRemoved
    BY <1>6 DEF TargetRemoved, Fresh, ResumeSafe
  <1>7. CASE UNCHANGED vars
    BY <1>7 DEF vars, Fresh, ResumeSafe
  <1> QED BY <1>1, <1>2, <1>3, <1>4, <1>5, <1>6, <1>7 DEF Next

\* The inductive invariant holds in every reachable state.
THEOREM Invariant == Spec => []IInv
  <1>1. IInv /\ [Next]_vars => IInv'
    BY TypeStep, RecordedStep, FreshStep DEF IInv
  <1> QED BY InitIInv, <1>1, PTL DEF Spec

\* Type correctness: a chunk holds a version, a hole or a mixture, and the
\* header of the state file a version or nothing.
THEOREM TypeCorrect == Spec => []TypeOK
  BY Invariant, PTL DEF IInv

\* Resuming after any history of crashes and remote changes leaves no stale or
\* torn data in a chunk the run counts as good, as long as the remote file has
\* not changed since the probe (requester.go 98-133, 245-249).
THEOREM ResumeCorrect == Spec => []ResumeSafe
  BY Invariant, PTL DEF IInv, Fresh

\* And it does so because no run ever finds a chunk recorded: state.Close()
\* runs before the first MarkComplete, so every run downloads the whole file
\* (requester.go 134, 168-176; state.go 145-159).
THEOREM NothingIsRecorded == Spec => []NothingRecorded
  BY Invariant, PTL DEF IInv
=============================================================================
