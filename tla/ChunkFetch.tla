----------------------------- MODULE ChunkFetch -----------------------------
(***************************************************************************)
(* HttpFetcher.Fetch and FtpFetcher.Fetch with the storage they write to,  *)
(* for all chunks of one file: the inside of the step that Downloader.tla  *)
(* calls a fetch.  The fetches of different chunks interleave and write to *)
(* one file; those of one chunk follow each other                          *)
(* (Downloader!TaskConservation), at most MaxFetchRetries of them.  An     *)
(* HTTP fetch carries the task's Written from one attempt to the next, an  *)
(* FTP fetch starts its chunk again.                                       *)
(*                                                                         *)
(* A byte is the index it has in the remote file, so that a file that      *)
(* holds p at position p is right.  Checksums are left out: the code       *)
(* computes one and compares it with nothing.                              *)
(***************************************************************************)
EXTENDS Integers, FiniteSets

CONSTANTS
    ProbedSize,       \* length reported by the probe; 0 when unknown
    RangeSize,        \* bytes per chunk, 1MB in fetcher.go
    ReadUnit,         \* bytes asked for at a time when the length is unknown, 32KB
    MaxFetchRetries,
    Setups            \* the configurations and servers considered, see Setup

ASSUME SizesAssumption == /\ ProbedSize \in Nat
                          /\ RangeSize \in Nat \ {0} /\ ReadUnit \in Nat \ {0}
                          /\ MaxFetchRetries \in Nat \ {0}

\* The protocol of the URL; StorageType "file" or "mmap"; the size of the
\* remote file when it is fetched; whether an HTTP server answers a Range
\* request with 206.
Setup == [protocol : {"http", "ftp"}, storage : {"file", "mmap"},
          remote : Nat, ranges : BOOLEAN]
ASSUME SetupsAssumption == Setups \subseteq Setup

-----------------------------------------------------------------------------
(* The split of a file into chunks (Requester.PrepareTasks).               *)

Unknown == ProbedSize <= 0

ChunkCount == IF Unknown THEN 1
              ELSE ProbedSize \div RangeSize
                   + (IF ProbedSize % RangeSize # 0 THEN 1 ELSE 0)

Chunks == 0 .. ChunkCount - 1

Offset(c) == c * RangeSize

\* -1 means until EOF.
Length(c) == IF Unknown THEN -1
             ELSE IF c = ChunkCount - 1 THEN ProbedSize - Offset(c)
             ELSE RangeSize

-----------------------------------------------------------------------------
VARIABLES
    setup,     \* the element of Setups, fixed for a run
    data,      \* the target file: position -> byte
    pc,        \* "idle" (queued or about to be fetched), "loop", "end", "ok", "error"
    body,      \* the response a fetch is reading: next byte, bytes left, how it ends
    written,   \* Fetch's local counter, of this attempt or (HTTP) of all
    saved,     \* ChunkTask.Written
    retries,   \* ChunkTask.Retries
    reported,  \* bytes passed to OnProgress for the chunk
    ctxDone    \* the context is cancelled

taskVars == <<saved, retries>>
vars == <<setup, data, pc, body, written, taskVars, reported, ctxDone>>

Hole    == -1
NoBody  == [next |-> 0, left |-> 0, ending |-> "eof"]
FileEnd == IF Unknown THEN MaxFetchRetries * setup.remote ELSE ProbedSize
Positions == 0 .. FileEnd - 1

Ftp == setup.protocol = "ftp"

\* mmap needs a length (createStorageHandler).
Mmap == setup.storage = "mmap" /\ ~Unknown

Init ==
    /\ setup \in Setups
    /\ data = [p \in Positions |-> Hole]
    /\ pc = [c \in Chunks |-> "idle"]
    /\ body = [c \in Chunks |-> NoBody]
    /\ written = [c \in Chunks |-> 0]
    /\ saved = [c \in Chunks |-> 0]
    /\ retries = [c \in Chunks |-> 0]
    /\ reported = [c \in Chunks |-> 0]
    /\ ctxDone = FALSE

\* Mutant: retries without end.
FailedAlwaysRetries(c, s) ==
    /\ saved' = [saved EXCEPT ![c] = s]
    /\ retries' = [retries EXCEPT ![c] = @ + 1]
    /\ pc' = [pc EXCEPT ![c] = "idle"]
    /\ body' = [body EXCEPT ![c] = NoBody]
    /\ written' = [written EXCEPT ![c] = 0]

\* The end of an attempt: the worker retries the task or gives it up
\* (Downloader!FetchFailed, FetchGivenUp); s is the Written it leaves behind.
Failed(c, s) ==
    /\ saved' = [saved EXCEPT ![c] = s]
    /\ retries' = [retries EXCEPT ![c] = @ + 1]
    /\ pc' = [pc EXCEPT ![c] = IF retries[c] + 1 < MaxFetchRetries THEN "idle" ELSE "error"]
    /\ body' = [body EXCEPT ![c] = NoBody]
    /\ written' = [written EXCEPT ![c] = 0]

\* Mutant: the FTP fetch carries Written over like the HTTP one.
LeftBehindAlways(c, w) == w

\* The Written a failed attempt leaves in the task: FtpFetcher never sets it.
LeftBehind(c, w) == IF Ftp THEN saved[c] ELSE w

\* No response, or one whose status is neither 200 nor 206; no FTP connection,
\* no login, or RETR refused.
Refused(c) ==
    /\ pc[c] = "idle"
    /\ Failed(c, saved[c])
    /\ UNCHANGED <<setup, data, reported, ctxDone>>

\* The response body from its first byte on: the requested range
\* cut at the end of the remote file, or the whole file from a server that
\* ignores Range.  With an unknown length the first attempt asks for
\* everything and a later one for everything from Written on.  An FTP server
\* sends everything from the chunk's offset on (RetrFrom).
RangeStart(c) == Offset(c) + saved[c]
RangeEnd(c)   == IF Unknown THEN setup.remote - 1
                 ELSE IF Offset(c) + Length(c) <= setup.remote THEN Offset(c) + Length(c) - 1
                 ELSE setup.remote - 1
Ranged(c)     == setup.ranges /\ (~Unknown \/ saved[c] > 0)
FirstByte(c)  == IF Ftp THEN Offset(c) ELSE IF Ranged(c) THEN RangeStart(c) ELSE 0
BodySize(c)   == IF Ftp THEN setup.remote - Offset(c)
                 ELSE IF Ranged(c) THEN RangeEnd(c) - RangeStart(c) + 1
                 ELSE setup.remote

\* How a body of k bytes may break off after n of them: HTTP notices that it
\* is short; the end of an FTP data connection looks like the end of the file.
Breaks(k) == [next : {0}, left : 0 .. k - 1,
              ending : IF Ftp THEN {"eof", "reset"} ELSE {"short", "reset"}]

\* client.Do or RetrFrom returns a response.  Its body arrives whole and ends
\* cleanly, or breaks off with io.ErrUnexpectedEOF ("short") or with another
\* error, a cancelled context included ("reset").  A range that starts behind
\* the end of the remote file is Refused with 416.  Written is 0 in FTP.
Respond(c) ==
    /\ pc[c] = "idle"
    /\ Ftp \/ ~ctxDone
    /\ BodySize(c) > 0
    /\ \E b \in Breaks(BodySize(c)) \cup {[next |-> 0, left |-> BodySize(c), ending |-> "eof"]} :
         body' = [body EXCEPT ![c] = [b EXCEPT !.next = FirstByte(c)]]
    /\ written' = [written EXCEPT ![c] = saved[c]]
    /\ pc' = [pc EXCEPT ![c] = "loop"]
    /\ UNCHANGED <<setup, data, taskVars, reported, ctxDone>>

\* Mutant: a cancelled chunk is given up at once.
AbortedGivesUp(c) ==
    /\ pc[c] = "loop" /\ ctxDone
    /\ pc' = [pc EXCEPT ![c] = "error"]
    /\ retries' = [retries EXCEPT ![c] = @ + 1]
    /\ UNCHANGED <<setup, data, body, written, saved, reported, ctxDone>>

\* ctx.Done() at the head of the loop: Written is left as it was.
Aborted(c) ==
    /\ pc[c] = "loop" /\ ctxDone
    /\ Failed(c, saved[c])
    /\ UNCHANGED <<setup, data, reported, ctxDone>>

Remaining(c) == IF Unknown THEN ReadUnit ELSE Length(c) - written[c]

AllRead(c) ==
    /\ pc[c] = "loop" /\ ~ctxDone
    /\ ~Unknown /\ Remaining(c) <= 0
    /\ pc' = [pc EXCEPT ![c] = "end"]
    /\ UNCHANGED <<setup, data, body, written, taskVars, reported, ctxDone>>

\* StorageHandler.ReadAtFrom(body, Offset+written, Remaining): the n bytes it
\* stores and its error.  FileStorageHandler turns the body's EOF into nil;
\* MmapStorageHandler reads with io.ReadFull, which makes io.ErrUnexpectedEOF
\* of an EOF that comes after some bytes.
Got(c) == IF body[c].left < Remaining(c) THEN body[c].left ELSE Remaining(c)

ReadError(c) ==
    IF Got(c) = Remaining(c) THEN "nil"
    ELSE CASE body[c].ending = "eof"   -> IF ~Mmap THEN "nil"
                                          ELSE IF Got(c) = 0 THEN "EOF" ELSE "ErrUnexpectedEOF"
           [] body[c].ending = "short" -> "ErrUnexpectedEOF"
           [] body[c].ending = "reset" -> "other"

\* Mutant: the FTP loop does not leave when nothing more comes.
EndsLoopFtpSpins(c) == ReadError(c) \in {"EOF", "ErrUnexpectedEOF"}

\* What ends the loop without an error of Fetch.  FtpFetcher takes neither
\* io.ErrUnexpectedEOF for an end nor a read of nothing for progress.
EndsLoop(c) == IF Ftp THEN ReadError(c) = "EOF" \/ (ReadError(c) = "nil" /\ Got(c) = 0)
               ELSE ReadError(c) \in {"EOF", "ErrUnexpectedEOF"}

\* Mutant: a short write is counted as a whole one.
StoreShort(c) ==
    LET at == Offset(c) + written[c] IN
    data' = [p \in DOMAIN data |-> IF p \in at .. at + Got(c) - 2
                                   THEN body[c].next + (p - at) ELSE data[p]]

Store(c) ==
    LET at == Offset(c) + written[c] IN
    data' = [p \in DOMAIN data |-> IF p \in at .. at + Got(c) - 1
                                   THEN body[c].next + (p - at) ELSE data[p]]

Read(c) ==
    /\ pc[c] = "loop" /\ ~ctxDone
    /\ Unknown \/ Remaining(c) > 0
    /\ Store(c)
    /\ reported' = [reported EXCEPT ![c] = @ + Got(c)]
    /\ IF ReadError(c) # "nil" /\ ~EndsLoop(c)
       THEN Failed(c, LeftBehind(c, written[c] + Got(c)))
       ELSE /\ written' = [written EXCEPT ![c] = @ + Got(c)]
            /\ body' = [body EXCEPT ![c].next = @ + Got(c), ![c].left = @ - Got(c)]
            /\ pc' = IF EndsLoop(c) THEN [pc EXCEPT ![c] = "end"] ELSE pc
            /\ UNCHANGED taskVars
    /\ UNCHANGED <<setup, ctxDone>>

\* Mutant: Written is not saved when the body ended early.
IncompleteForgets(c) ==
    /\ pc[c] = "end"
    /\ ~Unknown /\ written[c] < Length(c)
    /\ Failed(c, saved[c])
    /\ UNCHANGED <<setup, data, reported, ctxDone>>

\* The body ended early: HTTP keeps what was written for the next attempt.
Incomplete(c) ==
    /\ pc[c] = "end"
    /\ ~Unknown /\ written[c] < Length(c)
    /\ Failed(c, LeftBehind(c, written[c]))
    /\ UNCHANGED <<setup, data, reported, ctxDone>>

\* Mutant: the count of bytes is not checked.
ChunkCompleteUnchecked(c) ==
    /\ pc[c] = "end"
    /\ pc' = [pc EXCEPT ![c] = "ok"]
    /\ body' = [body EXCEPT ![c] = NoBody]
    /\ UNCHANGED <<setup, data, written, taskVars, reported, ctxDone>>

\* OnChunkComplete.
ChunkComplete(c) ==
    /\ pc[c] = "end"
    /\ Unknown \/ written[c] >= Length(c)
    /\ pc' = [pc EXCEPT ![c] = "ok"]
    /\ body' = [body EXCEPT ![c] = NoBody]
    /\ UNCHANGED <<setup, data, written, taskVars, reported, ctxDone>>

Fetch(c) == \/ Refused(c) \/ Respond(c)
            \/ Aborted(c) \/ AllRead(c) \/ Read(c)
            \/ Incomplete(c) \/ ChunkComplete(c)

Cancel == /\ ~ctxDone
          /\ ctxDone' = TRUE
          /\ UNCHANGED <<setup, data, pc, body, written, taskVars, reported>>

Ended(c) == pc[c] \in {"ok", "error"}

Done == /\ \A c \in Chunks : Ended(c)
        /\ ctxDone
        /\ UNCHANGED vars

Next == (\E c \in Chunks : Fetch(c)) \/ Cancel \/ Done

Spec == Init /\ [][Next]_vars

\* A fetch takes its next step: the server answers, the body goes on or
\* breaks, the worker takes the task again.
FairSpec == Spec /\ \A c \in Chunks : WF_vars(Fetch(c))

-----------------------------------------------------------------------------
(* Correctness properties.                                                 *)

\* The types of all variables.
TypeOK ==
    /\ setup \in Setups
    /\ data \in [Positions -> Int]
    /\ pc \in [Chunks -> {"idle", "loop", "end", "ok", "error"}]
    /\ body \in [Chunks -> [next : Nat, left : Nat, ending : {"eof", "short", "reset"}]]
    /\ written \in [Chunks -> Nat]
    /\ saved \in [Chunks -> Nat]
    /\ retries \in [Chunks -> 0 .. MaxFetchRetries]
    /\ reported \in [Chunks -> Nat]
    /\ ctxDone \in BOOLEAN

Span(c) == {p \in Positions : Offset(c) <= p /\ (Unknown \/ p < Offset(c) + Length(c))}
Stored(c) == {p \in Span(c) : data[p] # Hole}

\* Whatever breaks, is retried or runs in parallel, each byte of the target
\* file is untouched or the remote byte of that position ("When resuming, the
\* data stream only covers the remaining bytes", fetcher.go 295-306, 321-322).
StoredFaithful == \A p \in Positions : data[p] \in {Hole, p}

\* The bytes a retry will not ask for again are in the file: Written is a
\* prefix of the chunk that has been stored (fetcher.go 284-287, 354, 362).
WrittenIsStored ==
    \A c \in Chunks : \A p \in Span(c) : p < Offset(c) + saved[c] => data[p] = p

\* A chunk reported complete is complete in the file, although completeness is
\* decided by a byte count over several attempts (fetcher.go 361-372).
OkMeansWhole ==
    \A c \in Chunks : pc[c] = "ok" =>
        \A p \in 0 .. setup.remote - 1 : p \in Span(c) => data[p] = p

\* OnProgress has been told of each stored byte of the chunk exactly once over
\* HTTP, so the progress of a download with retries never passes its total and
\* the tuner measures bytes that arrived; over FTP, which starts a chunk again,
\* at least once and at most once per attempt (fetcher.go 345-349,
\* protocol.go 631-654, downloader.go 276).
ProgressExact ==
    \A c \in Chunks :
        LET n == Cardinality(Stored(c)) IN
        IF Ftp THEN reported[c] \in n .. n * (retries[c] + 1) ELSE reported[c] = n

Outcome == [c \in Chunks |-> IF Ended(c) THEN pc[c] ELSE "none"]

\* The attempts of the fetchers keep the contract the worker pool is verified
\* with: a chunk that is in neither end state has failed fewer than
\* MaxFetchRetries times, and no attempt follows its end (downloader.go
\* 151-170, fetcher.go 366-373, protocol.go 670-674).
Pool == INSTANCE TaskPool WITH
    Tasks   <- Chunks,
    outcome <- Outcome,
    retries <- retries,
    cleaned <- FALSE
PoolSpec == Pool!Spec

\* Every chunk ends: no body makes Fetch loop for ever, be its length unknown
\* ("-1 means until EOF", requester.go 221) or known and the body too short
\* ("download incomplete: got %d bytes, want %d", fetcher.go 363).  Run
\* until_eof shows the first loop for ever; the second is the same loop (Spins).
EveryFetchEnds == \A c \in Chunks : <>Ended(c)

\* The body has ended cleanly before the chunk did, and the file storage reports
\* neither an error nor a byte (fetcher.go 104-105, 344-358).
Spins(c) == /\ ~Ftp /\ ~Mmap
            /\ pc[c] = "loop" /\ ~ctxDone
            /\ body[c].left = 0 /\ body[c].ending = "eof"
            /\ Unknown \/ Remaining(c) > 0

\* That loop is the only way for a chunk not to end: whatever the server sends,
\* breaks or cuts, each chunk ends, or its fetch spins over the end of an HTTP
\* body that is written to a plain file until somebody cancels (fetcher.go
\* 329-359, protocol.go 636-664).
EndsUnlessSpinning == \A c \in Chunks : <>Ended(c) \/ <>[]Spins(c)
=============================================================================
