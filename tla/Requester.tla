----------------------------- MODULE Requester ------------------------------
(***************************************************************************)
(* Resume of one URL of known length: Requester.PrepareTasks and Cleanup   *)
(* with the DownloadState file, over several runs of the program.  A run   *)
(* ends by Cleanup, by a cancelled context or by a crash of the process at *)
(* any step; the two files survive (the page cache outlives the process).  *)
(* The remote file may change at any time.                                 *)
(*                                                                         *)
(* A chunk's content is the version of the remote file it was fetched      *)
(* from; the server's ETag is the version.                                 *)
(***************************************************************************)
EXTENDS Integers

CONSTANTS
    Chunks,       \* chunk numbers of the file
    MaxVersions   \* bound on the number of versions of the remote file

ASSUME RequesterAssumption == MaxVersions \in Nat \ {0}

VARIABLES
    remote,     \* version the server has now
    stateFile,  \* the .oget file: NoFile or its header (an ETag or NoHeader) and bits
    target,     \* the target file: NoFile or its chunks
    pc,         \* where the run is; "down" between runs
    probed,     \* ETag of the probe of this run
    bitset,     \* DownloadState.bitset is not nil
    todo,       \* chunks whose task has not ended
    failed      \* chunks given up after the last retry

disk == <<stateFile, target>>
vars == <<remote, disk, pc, probed, bitset, todo, failed>>

Versions == 1 .. MaxVersions
NoHeader == 0
NoFile   == [exists |-> FALSE]
Hole     == 0
Torn     == -1     \* the chunk is partly overwritten or mixes versions

Init ==
    /\ remote = 1
    /\ stateFile = NoFile
    /\ target = NoFile
    /\ pc = "down"
    /\ probed = NoHeader
    /\ bitset = FALSE
    /\ todo = {}
    /\ failed = {}

-----------------------------------------------------------------------------
(* DownloadState.                                                          *)

\* IsServerChanged: only a difference between two ETags counts.
IsServerChanged(old, new) == old # NoHeader /\ new # NoHeader /\ old # new

\* LoadState succeeds on a file with a header.
Loads == stateFile.exists /\ stateFile.etag # NoHeader

\* NewDownloadState opens or creates the file and sets its size: the mapping
\* shows the old bits; without mmap zeroes are written over them.
NewBits == IF stateFile.exists THEN {stateFile.bits, {}} ELSE {{}}
OldHeader == IF stateFile.exists THEN stateFile.etag ELSE NoHeader

IsComplete(c) == bitset /\ c \in stateFile.bits

\* Mutant: the bit is written although the state was closed.
MarkCompleteWhenClosed(c) == [stateFile EXCEPT !.bits = @ \cup {c}]

\* The state file after MarkComplete(c), which does nothing without a bitset.
MarkComplete(c) ==
    IF bitset THEN [stateFile EXCEPT !.bits = @ \cup {c}] ELSE stateFile

-----------------------------------------------------------------------------
(* PrepareTasks.                                                           *)

Probe ==
    /\ pc = "down"
    /\ probed' = remote
    /\ pc' = "probed"
    /\ UNCHANGED <<remote, disk, bitset, todo, failed>>

Resumable == Loads /\ ~IsServerChanged(stateFile.etag, probed) /\ target.exists

Resume ==
    /\ pc = "probed"
    /\ Resumable
    /\ bitset' = TRUE
    /\ pc' = "ready"
    /\ UNCHANGED <<remote, disk, probed, todo, failed>>

\* No state, an unreadable one, a changed server or no target file.
NewDownloadState ==
    /\ pc = "probed"
    /\ ~Resumable
    /\ \E b \in NewBits :
         stateFile' = [exists |-> TRUE, etag |-> OldHeader, bits |-> b]
    /\ bitset' = TRUE
    /\ pc' = "created"
    /\ UNCHANGED <<remote, target, probed, todo, failed>>

\* Save; its failure is only logged.
Save ==
    /\ pc = "created"
    /\ \/ stateFile' = [stateFile EXCEPT !.etag = probed]
       \/ UNCHANGED stateFile
    /\ pc' = "ready"
    /\ UNCHANGED <<remote, target, probed, bitset, todo, failed>>

\* Open or create the target and allocate its length; the content is kept.
OpenTarget ==
    /\ pc = "ready"
    /\ target' = IF target.exists THEN target
                 ELSE [exists |-> TRUE, chunk |-> [c \in Chunks |-> Hole]]
    /\ pc' = "split"
    /\ UNCHANGED <<remote, stateFile, probed, bitset, todo, failed>>

\* Mutant: the state stays open after PrepareTasks.
SplitStaysOpen ==
    /\ pc = "split"
    /\ todo' = {c \in Chunks : ~IsComplete(c)}
    /\ pc' = "download"
    /\ UNCHANGED <<remote, disk, probed, bitset, failed>>

\* A task for every chunk that is not complete.  PrepareTasks returns, and the
\* deferred state.Close() drops the bitset.
Split ==
    /\ pc = "split"
    /\ todo' = {c \in Chunks : ~IsComplete(c)}
    /\ bitset' = FALSE
    /\ pc' = "download"
    /\ UNCHANGED <<remote, disk, probed, failed>>

-----------------------------------------------------------------------------
(* The download: the tasks end in any order (Downloader.tla).              *)

\* A fetch stores a part of its chunk.
FetchSome(c) ==
    /\ pc = "download" /\ c \in todo
    /\ target' = [target EXCEPT !.chunk[c] = Torn]
    /\ UNCHANGED <<remote, stateFile, pc, probed, bitset, todo, failed>>

\* What the parts of a chunk fetched in this run add up to: nothing binds the
\* requests to the version that was probed (no If-Range), so a chunk resumed
\* or started after a change may mix versions.
Contents == IF remote = probed THEN {remote} ELSE (probed .. remote) \cup {Torn}

FetchOk(c) ==
    /\ pc = "download" /\ c \in todo
    /\ \E x \in Contents : target' = [target EXCEPT !.chunk[c] = x]
    /\ stateFile' = MarkComplete(c)
    /\ todo' = todo \ {c}
    /\ UNCHANGED <<remote, pc, probed, bitset, failed>>

\* The last retry failed: OnChunkComplete(id, "error").
FetchError(c) ==
    /\ pc = "download" /\ c \in todo
    /\ stateFile' = MarkComplete(c)
    /\ todo' = todo \ {c}
    /\ failed' = failed \cup {c}
    /\ UNCHANGED <<remote, target, pc, probed, bitset>>

\* Mutant: the run goes on after its end.
RunOverGoesOn == UNCHANGED <<pc, probed, bitset, todo, failed>>

\* The run is over: memory is gone; what it had done to the files stays.
RunOver == /\ pc' = "down"
           /\ probed' = NoHeader
           /\ bitset' = FALSE
           /\ todo' = {}
           /\ failed' = {}

\* All tasks have ended: the state file is removed.
Cleanup ==
    /\ pc = "download" /\ todo = {}
    /\ stateFile' = NoFile
    /\ RunOver
    /\ UNCHANGED <<remote, target>>

\* The process is killed, or the context is cancelled and Cleanup skipped.
Crash ==
    /\ pc # "down"
    /\ RunOver
    /\ UNCHANGED <<remote, disk>>

-----------------------------------------------------------------------------
RemoteChanges ==
    /\ remote < MaxVersions
    /\ remote' = remote + 1
    /\ UNCHANGED <<disk, pc, probed, bitset, todo, failed>>

\* The user moves the target file away between two runs.
TargetRemoved ==
    /\ pc = "down" /\ target.exists
    /\ target' = NoFile
    /\ UNCHANGED <<remote, stateFile, pc, probed, bitset, todo, failed>>

Next ==
    \/ Probe \/ Resume \/ NewDownloadState \/ Save \/ OpenTarget \/ Split
    \/ \E c \in Chunks : FetchSome(c) \/ FetchOk(c) \/ FetchError(c)
    \/ Cleanup \/ Crash
    \/ RemoteChanges \/ TargetRemoved

Spec == Init /\ [][Next]_vars

-----------------------------------------------------------------------------
(* Correctness properties.                                                 *)

\* The types of all variables; a started download has both its files.
TypeOK ==
    /\ remote \in Versions
    /\ stateFile \in {NoFile} \cup
          [exists : {TRUE}, etag : Versions \cup {NoHeader}, bits : SUBSET Chunks]
    /\ target \in {NoFile} \cup
          [exists : {TRUE}, chunk : [Chunks -> Versions \cup {Hole, Torn}]]
    /\ pc \in {"down", "probed", "created", "ready", "split", "download"}
    /\ probed \in Versions \cup {NoHeader}
    /\ bitset \in BOOLEAN
    /\ todo \in SUBSET Chunks /\ failed \in SUBSET Chunks
    /\ pc \in {"created", "ready", "split", "download"} => stateFile.exists
    /\ pc \in {"split", "download"} => target.exists

\* After any sequence of crashes, restarts and changes of the remote file, and
\* as long as the file has not changed since this run probed it, a chunk that
\* the run skipped or has fetched holds the probed version, whole: resuming
\* never leaves stale or torn data in a chunk the run counts as good
\* (requester.go 98-133, 167-176, 245-249).
ResumeSafe ==
    pc = "download" /\ remote = probed =>
        \A c \in Chunks \ (todo \cup failed) : target.chunk[c] = probed

\* A chunk fetched in this run is recorded in the state file for the next one
\* ("The bitset is already updated via mmap in state.MarkComplete",
\* requester.go 173-175).
CompletedIsRecorded ==
    pc = "download" => (Chunks \ (todo \cup failed)) \subseteq stateFile.bits
=============================================================================
